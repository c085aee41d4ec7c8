----------------------------- MODULE MCMigration -----------------------------
EXTENDS Migration, TLC

Symmetry == Permutations(Job)

(* One record of one byte, and a length with nothing behind it. *)
Contents == {<<1, 0>>, <<2>>}

(* Two bits of length in a byte and five in a word, as seven and sixty-four: *)
(* lengths of up to three bytes, the last with one bit, and files of five.   *)
Files == UNION {[1 .. n -> {0, 1, 2, 4, 5, 7}] : n \in 0 .. 5}
==============================================================================
