------------------------------- MODULE Frames --------------------------------
(***************************************************************************)
(* validate_frames of migration.rs: a data file is a sequence of records,  *)
(* each a length as an unsigned varint and that many bytes of payload.     *)
(*                                                                         *)
(* A byte has Group bits of length and one that says more follow (7 and 1  *)
(* in the code), a length has Word bits (64).  As 64 is 9 * 7 + 1, the     *)
(* last byte of the longest varint has one bit left.                       *)
(***************************************************************************)
EXTENDS Naturals, Sequences

CONSTANTS Group, Word

ASSUME WidthsOK ==
    Group \in Nat \ {0, 1} /\ Word \in Nat /\ Word > Group /\ Word % Group = 1

Pow2[n \in Nat] == IF n = 0 THEN 1 ELSE 2 * Pow2[n - 1]

Byte == 0 .. Pow2[Group + 1] - 1
More(b) == b >= Pow2[Group]
Low(b) == b % Pow2[Group]

-----------------------------------------------------------------------------
(* What a data file is, whoever reads it. *)

IsVarint(v) ==
    /\ v # <<>>
    /\ \A i \in DOMAIN v : More(v[i]) = (i < Len(v))
    /\ (Len(v) - 1) * Group < Word
    /\ Len(v) * Group > Word => Low(v[Len(v)]) < Pow2[Word - (Len(v) - 1) * Group]

(* The numbers that the first bytes of v stand for. *)
Values(v) ==
    LET value[i \in 0 .. Len(v)] ==
            IF i = 0 THEN 0 ELSE value[i - 1] + Low(v[i]) * Pow2[(i - 1) * Group]
    IN  value

Value(v) == Values(v)[Len(v)]

IsRecord(r) ==
    \E k \in DOMAIN r :
        IsVarint(SubSeq(r, 1, k)) /\ Value(SubSeq(r, 1, k)) = Len(r) - k

(* The file can be cut into records. *)
WellFramed(file) ==
    \E Cuts \in SUBSET (0 .. Len(file)) :
        /\ {0, Len(file)} \subseteq Cuts
        /\ \A a \in Cuts, b \in Cuts :
              a < b /\ (\A c \in Cuts : c <= a \/ c >= b) => IsRecord(SubSeq(file, a + 1, b))

-----------------------------------------------------------------------------
(* The code's two loops: used is the number of bytes read so far, and the *)
(* length has Word bits.                                                  *)

Refused == [used |-> 0, len |-> 0]

Reader(file) == [used : 0 .. Len(file), shift : Nat, len : Nat]
Start(used) == [used |-> used, shift |-> 0, len |-> 0]

(* The length with the bits of the next byte. *)
Longer(file, r) == (r.len + Low(file[r.used + 1]) * Pow2[r.shift]) % Pow2[Word]

(* Slip: the bits that do not fit are shifted out, not refused. *)
ReadVarintWrapping(file) ==
    LET loop[r \in Reader(file)] ==
            IF r.used >= Len(file) THEN Refused
            ELSE IF More(file[r.used + 1])
            THEN loop[[used |-> r.used + 1, shift |-> r.shift + Group, len |-> Longer(file, r)]]
            ELSE [used |-> r.used + 1, len |-> Longer(file, r)]
    IN  loop

ReadVarint(file) ==
    LET loop[r \in Reader(file)] ==
            IF r.used >= Len(file) THEN Refused
            ELSE IF r.shift >= Word \/ (r.shift = Word - 1 /\ file[r.used + 1] > 1) THEN Refused
            ELSE IF More(file[r.used + 1])
            THEN loop[[used |-> r.used + 1, shift |-> r.shift + Group, len |-> Longer(file, r)]]
            ELSE [used |-> r.used + 1, len |-> Longer(file, r)]
    IN  loop

ReadRecords(file) ==
    LET n == Len(file)
        loop[used \in 0 .. n] ==
            used < n =>
                LET length == ReadVarint(file)[Start(used)]
                IN  /\ length # Refused
                    /\ length.len <= n - length.used
                    /\ loop[length.used + length.len]
    IN  loop

ValidateFrames(file) == ReadRecords(file)[0]
=============================================================================
