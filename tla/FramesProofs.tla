---------------------------- MODULE FramesProofs -----------------------------
(***************************************************************************)
(* validate_frames decides WellFramed: the loops' recursive definitions    *)
(* are resolved by Recursion, the inner loop is followed forward byte by   *)
(* byte, and the outer one backward from the end of the file.              *)
(***************************************************************************)
EXTENDS Frames, Recursion, SequenceTheorems

(* The powers of two are what their recursive definition says. *)
LEMMA Pow2Def ==
  Pow2 \in [Nat -> Nat] /\ \A n \in Nat : Pow2[n] = IF n = 0 THEN 1 ELSE 2 * Pow2[n - 1]
<1> DEFINE F == [n \in Nat |-> [g \in [Nat -> Nat] |-> IF n = 0 THEN 1 ELSE 2 * g[n - 1]]]
           m == [n \in Nat |-> n]
<1>1. Decreasing(Nat, Nat, m, F)
  <2>1. F \in [Nat -> [[Nat -> Nat] -> Nat]]
    <3>1. \A n \in Nat, g \in [Nat -> Nat] : n # 0 => 2 * g[n - 1] \in Nat
      OBVIOUS
    <3> QED BY <3>1
  <2>2. ASSUME NEW x \in Nat, NEW g \in [Nat -> Nat], NEW h \in [Nat -> Nat],
               \A y \in Nat : y < x => g[y] = h[y]
        PROVE  F[x][g] = F[x][h]
    BY <2>2
  <2> HIDE DEF F
  <2> QED BY <2>1, <2>2 DEF Decreasing
<1>2. PICK f \in [Nat -> Nat] : \A n \in Nat : f[n] = F[n][f]
  <2> HIDE DEF F, m
  <2> QED BY <1>1, Recursion
<1>3. f = [n \in Nat |-> IF n = 0 THEN 1 ELSE 2 * f[n - 1]]
  BY <1>2
<1>4. Pow2 = [n \in Nat |-> IF n = 0 THEN 1 ELSE 2 * Pow2[n - 1]]
  BY <1>3 DEF Pow2
<1>5. \A n \in Nat : Pow2[n] = IF n = 0 THEN 1 ELSE 2 * Pow2[n - 1]
  BY <1>4
<1> DEFINE S == {n \in Nat : Pow2[n] \in Nat}
<1>6. 0 \in S
  BY <1>5
<1>7. ASSUME NEW n \in Nat, n \in S PROVE n + 1 \in S
  BY <1>5, <1>7
<1> HIDE DEF S
<1>8. Nat \subseteq S
  BY <1>6, <1>7, Induction
<1>9. \A n \in Nat : Pow2[n] \in Nat
  BY <1>8 DEF S
<1> QED BY <1>4, <1>5, <1>9

(* Multiplication keeps the order. *)
LEMMA TimesMonotonic ==
  \A a, b, c \in Nat : a <= b => a * c <= b * c
OBVIOUS

(* A product of naturals is a natural. *)
LEMMA Products == \A a, b \in Nat : a * b \in Nat
OBVIOUS

(* A remainder is smaller than the divisor. *)
LEMMA Remainder ==
  \A a \in Nat, b \in Nat \ {0} : /\ a % b \in 0 .. b - 1
                                  /\ a < b => a % b = a
OBVIOUS

(* A power of two is a positive natural. *)
LEMMA Pow2Positive == \A n \in Nat : Pow2[n] \in Nat \ {0}
<1> DEFINE S == {n \in Nat : Pow2[n] \in Nat \ {0}}
<1>1. 0 \in S
  BY Pow2Def
<1>2. ASSUME NEW n \in Nat, n \in S PROVE n + 1 \in S
  BY Pow2Def, <1>2
<1> HIDE DEF S
<1>3. Nat \subseteq S
  BY <1>1, <1>2, Induction
<1> QED BY <1>3 DEF S

(* Shifting by a + b is shifting by a and by b. *)
LEMMA Pow2Sum == \A a, b \in Nat : Pow2[a + b] = Pow2[a] * Pow2[b]
<1> SUFFICES ASSUME NEW a \in Nat PROVE \A b \in Nat : Pow2[a + b] = Pow2[a] * Pow2[b]
  OBVIOUS
<1> DEFINE S == {b \in Nat : Pow2[a + b] = Pow2[a] * Pow2[b]}
<1>1. 0 \in S
  BY Pow2Def
<1>2. ASSUME NEW b \in Nat, b \in S PROVE b + 1 \in S
  <2>1. Pow2[a + (b + 1)] = 2 * Pow2[a + b] /\ Pow2[b + 1] = 2 * Pow2[b]
    BY Pow2Def
  <2>2. Pow2[a + b] = Pow2[a] * Pow2[b]
    BY <1>2
  <2>3. \A x, y \in Nat : 2 * (x * y) = x * (2 * y)
    OBVIOUS
  <2> QED BY <2>1, <2>2, <2>3, Pow2Positive
<1> HIDE DEF S
<1>3. Nat \subseteq S
  BY <1>1, <1>2, Induction
<1> QED BY <1>3 DEF S

(* The longest length: Whole bytes, and one bit of the next. *)
Whole == Word \div Group

(* 64 is 9 * 7 + 1. *)
LEMMA WordIs == Whole \in Nat \ {0} /\ Word = Whole * Group + 1
<1>1. Group \in Nat \ {0, 1} /\ Word \in Nat /\ Word > Group /\ Word % Group = 1
  BY WidthsOK
<1>2. \A a \in Nat, b \in Nat \ {0} : a \div b \in Nat /\ a = ((a \div b) * b) + (a % b)
  OBVIOUS
<1>3. Whole \in Nat /\ Word = Whole * Group + 1
  BY <1>1, <1>2 DEF Whole
<1>4. Whole # 0
  BY <1>1, <1>3
<1> QED BY <1>3, <1>4

(* A byte has at least two bits of length. *)
LEMMA GroupIsBig == Pow2[Group] \in Nat /\ Pow2[Group] >= 4 /\ Pow2[1] = 2
<1>1. Group - 2 \in Nat /\ Pow2[0] = 1
  BY WidthsOK, Pow2Def
<1>2. Pow2[1] = 2 /\ Pow2[2] = 4
  BY <1>1, Pow2Def
<1>3. Pow2[2 + (Group - 2)] = 4 * Pow2[Group - 2]
  BY <1>1, <1>2, Pow2Sum
<1> QED BY <1>1, <1>2, <1>3, Pow2Positive, WidthsOK

(* A byte that says that more follow is greater than 1; one that does not *)
(* is its own bits.                                                        *)
LEMMA Bytes ==
  ASSUME NEW b \in Byte
  PROVE  /\ b \in Nat
         /\ More(b) \in BOOLEAN
         /\ Low(b) \in Nat /\ Low(b) < Pow2[Group]
         /\ ~More(b) => Low(b) = b
         /\ More(b) => b > 1
<1>1. Pow2[Group + 1] \in Nat /\ b \in Nat
  BY WidthsOK, Pow2Positive DEF Byte
<1> DEFINE p == Pow2[Group]
<1>2. p \in Nat \ {0} /\ p >= 4
  BY GroupIsBig
<1> HIDE DEF p
<1>3. b % p \in 0 .. p - 1 /\ (b < p => b % p = b)
  BY <1>1, <1>2, Remainder
<1> QED BY <1>1, <1>2, <1>3 DEF More, Low, p

(* What the inner loop computes stays a natural. *)
LEMMA LongerIsNat ==
  ASSUME NEW file \in Seq(Byte), NEW r \in Reader(file), r.used < Len(file)
  PROVE  Longer(file, r) \in Nat
<1>1. file[r.used + 1] \in Byte /\ r.shift \in Nat /\ r.len \in Nat
  BY DEF Reader
<1>2. Low(file[r.used + 1]) * Pow2[r.shift] \in Nat
  BY <1>1, Bytes, Products, Pow2Positive
<1>3. Pow2[Word] \in Nat \ {0}
  BY Pow2Positive, WidthsOK
<1>4. \A a, b \in Nat, c \in Nat \ {0} : (a + b) % c \in Nat
  OBVIOUS
<1> QED BY <1>1, <1>2, <1>3, <1>4 DEF Longer

After(file, r) == [used |-> r.used + 1, shift |-> r.shift + Group, len |-> Longer(file, r)]

Reading(file, f, r) ==
    IF r.used >= Len(file) THEN Refused
    ELSE IF r.shift >= Word \/ (r.shift = Word - 1 /\ file[r.used + 1] > 1) THEN Refused
    ELSE IF More(file[r.used + 1]) THEN f[After(file, r)]
    ELSE [used |-> r.used + 1, len |-> Longer(file, r)]

(* Reading one byte leaves one byte less to read. *)
LEMMA AfterInReader ==
  ASSUME NEW file \in Seq(Byte), NEW r \in Reader(file), r.used < Len(file)
  PROVE  /\ After(file, r) \in Reader(file)
         /\ After(file, r).used = r.used + 1
BY LongerIsNat, WidthsOK DEF After, Reader

(* The inner loop is the function its recursive definition says: the number *)
(* of bytes left decreases (migration.rs, validate_frames).                 *)
LEMMA ReadVarintDef ==
  ASSUME NEW file \in Seq(Byte)
  PROVE  \A r \in Reader(file) : ReadVarint(file)[r] = Reading(file, ReadVarint(file), r)
<1> DEFINE D == Reader(file)
           V == [used : Nat, len : Nat]
           F == [r \in D |-> [g \in [D -> V] |-> Reading(file, g, r)]]
           m == [r \in D |-> Len(file) - r.used]
<1>1. Decreasing(D, V, m, F)
  <2>1. ASSUME NEW r \in D, NEW g \in [D -> V] PROVE Reading(file, g, r) \in V
    <3>1. Refused \in V /\ Len(file) \in Nat /\ r.used \in 0 .. Len(file)
      BY DEF Refused, Reader
    <3>2. CASE r.used < Len(file)
      <4>1. g[After(file, r)] \in V
        BY <3>2, AfterInReader
      <4>2. [used |-> r.used + 1, len |-> Longer(file, r)] \in V
        BY <3>1, <3>2, LongerIsNat
      <4> HIDE DEF V
      <4> QED BY <3>1, <4>1, <4>2 DEF Reading
    <3> QED BY <3>1, <3>2 DEF Reading
  <2>2. ASSUME NEW r \in D, NEW g \in [D -> V], NEW h \in [D -> V],
               \A y \in D : m[y] < m[r] => g[y] = h[y]
        PROVE  Reading(file, g, r) = Reading(file, h, r)
    <3>1. Len(file) \in Nat /\ r.used \in 0 .. Len(file)
      BY DEF Reader
    <3>2. CASE r.used < Len(file)
      <4>1. After(file, r) \in D /\ m[After(file, r)] < m[r]
        BY <3>1, <3>2, AfterInReader
      <4>2. g[After(file, r)] = h[After(file, r)]
        BY <2>2, <4>1
      <4> QED BY <4>2 DEF Reading
    <3> QED BY <3>1, <3>2 DEF Reading
  <2>3. m \in [D -> Nat] /\ V # {}
    <3>1. \A r \in D : Len(file) - r.used \in Nat
      BY DEF Reader
    <3>2. [used |-> 0, len |-> 0] \in V
      OBVIOUS
    <3> QED BY <3>1, <3>2
  <2>4. F \in [D -> [[D -> V] -> V]]
    BY <2>1
  <2>5. \A x \in D : \A g, h \in [D -> V] :
          (\A y \in D : m[y] < m[x] => g[y] = h[y]) => F[x][g] = F[x][h]
    BY <2>2
  <2> HIDE DEF D, V, F, m
  <2> QED BY <2>3, <2>4, <2>5 DEF Decreasing
<1>2. PICK f \in [D -> V] : \A x \in D : f[x] = F[x][f]
  <2> HIDE DEF D, V, F, m
  <2> QED BY <1>1, Recursion
<1>3. f = [r \in D |-> Reading(file, f, r)]
  BY <1>2
<1>4. ReadVarint(file) = [r \in D |-> Reading(file, ReadVarint(file), r)]
  BY <1>3 DEF ReadVarint, Reading, After
<1> QED BY <1>4

(* The bits of one byte, in their place. *)
LEMMA Shifted ==
  ASSUME NEW b \in Byte, NEW i \in Nat
  PROVE  Low(b) * Pow2[i * Group] \in Nat
BY Bytes, Products, Pow2Positive, WidthsOK

(* The numbers the prefixes of v stand for are what their recursive *)
(* definition says.                                                 *)
LEMMA ValuesDef ==
  ASSUME NEW v \in Seq(Byte)
  PROVE  /\ Values(v) \in [0 .. Len(v) -> Nat]
         /\ Values(v)[0] = 0
         /\ \A i \in 1 .. Len(v) :
              Values(v)[i] = Values(v)[i - 1] + Low(v[i]) * Pow2[(i - 1) * Group]
<1> DEFINE D == 0 .. Len(v)
           bits(i) == Low(v[i]) * Pow2[(i - 1) * Group]
           F == [i \in D |-> [g \in [D -> Nat] |-> IF i = 0 THEN 0 ELSE g[i - 1] + bits(i)]]
           m == [i \in D |-> i]
<1>1. \A i \in D : i # 0 => bits(i) \in Nat /\ i - 1 \in D /\ i - 1 < i
  <2>1. ASSUME NEW i \in D, i # 0 PROVE bits(i) \in Nat /\ i - 1 \in D /\ i - 1 < i
    <3>1. v[i] \in Byte /\ i - 1 \in Nat /\ i - 1 \in D /\ i - 1 < i
      BY <2>1
    <3> QED BY <3>1, Shifted
  <2> QED BY <2>1
<1>2. Decreasing(D, Nat, m, F)
  <2> HIDE DEF bits
  <2>1. F \in [D -> [[D -> Nat] -> Nat]]
    <3>1. \A i \in D, g \in [D -> Nat] : i # 0 => g[i - 1] + bits(i) \in Nat
      BY <1>1
    <3> QED BY <3>1
  <2>2. ASSUME NEW x \in D, NEW g \in [D -> Nat], NEW h \in [D -> Nat],
               \A y \in D : m[y] < m[x] => g[y] = h[y]
        PROVE  F[x][g] = F[x][h]
    <3>1. x # 0 => g[x - 1] = h[x - 1]
      BY <1>1, <2>2
    <3> QED BY <3>1
  <2>3. m \in [D -> Nat]
    OBVIOUS
  <2> HIDE DEF F, D, m
  <2> QED BY <2>1, <2>2, <2>3 DEF Decreasing
<1>3. PICK f \in [D -> Nat] : \A i \in D : f[i] = F[i][f]
  <2> HIDE DEF F, D, m
  <2> QED BY <1>2, Recursion
<1>4. f = [i \in D |-> IF i = 0 THEN 0 ELSE f[i - 1] + bits(i)]
  BY <1>3
<1>5. Values(v) = [i \in D |-> IF i = 0 THEN 0 ELSE Values(v)[i - 1] + bits(i)]
  BY <1>4 DEF Values
<1>6. Len(v) \in Nat
  OBVIOUS
<1>7. Values(v)[0] = 0 /\ \A i \in 1 .. Len(v) : Values(v)[i] = Values(v)[i - 1] + bits(i)
  <2> HIDE DEF bits
  <2> QED BY <1>5, <1>6
<1> DEFINE S == {i \in Nat : i <= Len(v) => Values(v)[i] \in Nat}
<1>8. 0 \in S
  BY <1>7
<1>9. ASSUME NEW i \in Nat, i \in S PROVE i + 1 \in S
  <2>1. i + 1 <= Len(v) => bits(i + 1) \in Nat /\ Values(v)[i + 1] = Values(v)[i] + bits(i + 1)
    <3> HIDE DEF bits
    <3> QED BY <1>1, <1>6, <1>7
  <2> HIDE DEF bits
  <2> QED BY <1>6, <1>9, <2>1
<1>10. Nat \subseteq S
  <2> HIDE DEF S
  <2> QED BY <1>8, <1>9, Induction
<1>11. \A i \in 0 .. Len(v) : Values(v)[i] \in Nat
  BY <1>6, <1>10
<1> QED BY <1>5, <1>7, <1>11

(* i bytes have at most i groups of bits. *)
LEMMA ValuesAreBounded ==
  ASSUME NEW v \in Seq(Byte)
  PROVE  \A i \in 0 .. Len(v) : Values(v)[i] < Pow2[i * Group]
<1> DEFINE S == {i \in Nat : i <= Len(v) => Values(v)[i] < Pow2[i * Group]}
<1>1. 0 \in S
  BY ValuesDef, Pow2Def, WidthsOK
<1>2. ASSUME NEW i \in Nat, i \in S PROVE i + 1 \in S
  <2> SUFFICES ASSUME i + 1 <= Len(v) PROVE Values(v)[i + 1] < Pow2[(i + 1) * Group]
    OBVIOUS
  <2> DEFINE p == Pow2[i * Group]
             q == Pow2[Group]
             l == Low(v[i + 1])
             x == Values(v)[i]
  <2>1. v[i + 1] \in Byte /\ i \in 0 .. Len(v) /\ i + 1 \in 1 .. Len(v) /\ (i + 1) - 1 = i
    OBVIOUS
  <2>2. x \in Nat /\ x < p /\ Values(v)[i + 1] = x + l * p
    BY <1>2, <2>1, ValuesDef
  <2>3. l \in Nat /\ l < q
    BY <2>1, Bytes
  <2>4. p \in Nat /\ q \in Nat /\ Pow2[(i + 1) * Group] = p * q
    <3>1. i * Group \in Nat /\ Group \in Nat /\ (i + 1) * Group = i * Group + Group
      BY WidthsOK, Products
    <3> QED BY <3>1, Pow2Sum, Pow2Positive
  <2> HIDE DEF p, q, l, x
  <2>5. (l + 1) * p <= q * p
    BY <2>3, <2>4, TimesMonotonic
  <2>6. (l + 1) * p = l * p + p /\ q * p = p * q
    BY <2>3, <2>4
  <2>7. l * p \in Nat /\ p * q \in Nat
    BY <2>3, <2>4, Products
  <2> QED BY <2>2, <2>4, <2>5, <2>6, <2>7
<1> HIDE DEF S
<1>3. Nat \subseteq S
  BY <1>1, <1>2, Induction
<1> QED BY <1>3 DEF S

(* What k bytes stand for depends on these bytes only. *)
LEMMA ValuesOfPrefix ==
  ASSUME NEW v \in Seq(Byte), NEW w \in Seq(Byte), NEW k \in Nat,
         k <= Len(v), k <= Len(w), \A i \in 1 .. k : v[i] = w[i]
  PROVE  Values(v)[k] = Values(w)[k]
<1> DEFINE S == {i \in Nat : i <= k => Values(v)[i] = Values(w)[i]}
<1>1. 0 \in S
  BY ValuesDef
<1>2. ASSUME NEW i \in Nat, i \in S PROVE i + 1 \in S
  <2> SUFFICES ASSUME i + 1 <= k PROVE Values(v)[i + 1] = Values(w)[i + 1]
    OBVIOUS
  <2>1. i + 1 \in 1 .. Len(v) /\ i + 1 \in 1 .. Len(w) /\ (i + 1) - 1 = i /\ i + 1 \in 1 .. k
    OBVIOUS
  <2>2. Values(v)[i] = Values(w)[i] /\ v[i + 1] = w[i + 1]
    BY <1>2, <2>1
  <2> QED BY <2>1, <2>2, ValuesDef
<1> HIDE DEF S
<1>3. Nat \subseteq S
  BY <1>1, <1>2, Induction
<1> QED BY <1>3 DEF S

(* The first k bytes of w are a varint. *)
Shape(w, k) ==
    /\ k \in 1 .. Len(w)
    /\ k <= Whole + 1
    /\ \A i \in 1 .. k : More(w[i]) = (i < k)
    /\ k = Whole + 1 => w[k] <= 1

(* The first k bytes of w. *)
LEMMA Prefix ==
  ASSUME NEW w \in Seq(Byte), NEW k \in 0 .. Len(w)
  PROVE  /\ SubSeq(w, 1, k) \in Seq(Byte)
         /\ Len(SubSeq(w, 1, k)) = k
         /\ \A i \in 1 .. k : SubSeq(w, 1, k)[i] = w[i]
OBVIOUS

(* How many bits k bytes have. *)
LEMMA Bits ==
  ASSUME NEW k \in Nat
  PROVE  /\ k * Group \in Nat
         /\ k * Group < Word <=> k <= Whole
         /\ k * Group > Word <=> k > Whole
<1> DEFINE n == Whole
           g == Group
<1>1. n \in Nat /\ g \in Nat /\ g >= 2 /\ Word = n * g + 1
  BY WordIs, WidthsOK
<1> HIDE DEF n, g
<1>2. CASE k <= n
  <2>1. k * g <= n * g
    BY <1>1, <1>2, TimesMonotonic
  <2>2. k * g \in Nat /\ n * g \in Nat
    BY <1>1, Products
  <2> QED BY <1>1, <1>2, <2>1, <2>2 DEF n, g
<1>3. CASE k > n
  <2>1. (n + 1) * g <= k * g
    BY <1>1, <1>3, TimesMonotonic
  <2>2. (n + 1) * g = n * g + g
    BY <1>1
  <2>3. k * g \in Nat /\ n * g \in Nat
    BY <1>1, Products
  <2> QED BY <1>1, <1>3, <2>1, <2>2, <2>3 DEF n, g
<1> QED BY <1>1, <1>2, <1>3

(* Shape says of w what IsVarint says of its first k bytes. *)
LEMMA ShapeIsVarint ==
  ASSUME NEW w \in Seq(Byte), NEW k \in 1 .. Len(w)
  PROVE  IsVarint(SubSeq(w, 1, k)) <=> Shape(w, k)
<1> DEFINE v == SubSeq(w, 1, k)
<1>1. v \in Seq(Byte) /\ Len(v) = k /\ \A i \in 1 .. k : v[i] = w[i]
  BY Prefix
<1> HIDE DEF v
<1>2. v # <<>> /\ DOMAIN v = 1 .. k /\ v[k] = w[k]
  BY <1>1
<1>3. (\A i \in DOMAIN v : More(v[i]) = (i < Len(v))) <=> (\A i \in 1 .. k : More(w[i]) = (i < k))
  BY <1>1, <1>2
<1>4. (Len(v) - 1) * Group < Word <=> k <= Whole + 1
  <2>1. k - 1 \in Nat /\ (k - 1 <= Whole <=> k <= Whole + 1)
    BY WordIs
  <2> QED BY <1>1, <2>1, Bits
<1>5. Len(v) * Group > Word <=> k > Whole
  BY <1>1, Bits
<1>6. ASSUME k = Whole + 1, ~More(w[k])
      PROVE  Low(v[Len(v)]) < Pow2[Word - (Len(v) - 1) * Group] <=> w[k] <= 1
  <2>1. Word - (Len(v) - 1) * Group = 1
    <3>1. Len(v) - 1 = Whole
      BY <1>1, <1>6, WordIs
    <3>2. Whole * Group \in Nat
      BY WordIs, WidthsOK, Products
    <3> QED BY <3>1, <3>2, WordIs
  <2>2. w[k] \in Byte
    OBVIOUS
  <2> QED BY <1>1, <1>2, <1>6, <2>1, <2>2, GroupIsBig, Bytes
<1>7. Whole \in Nat
  BY WordIs
<1>8. (\A i \in 1 .. k : More(w[i]) = (i < k)) => ~More(w[k])
  <2>1. k \in 1 .. k /\ ~(k < k)
    OBVIOUS
  <2> QED BY <2>1 DEF More
<1>9. ASSUME k <= Whole + 1 PROVE k > Whole <=> k = Whole + 1
  BY <1>7, <1>9
<1>10. IsVarint(v) <=> Shape(w, k)
  BY <1>2, <1>3, <1>4, <1>5, <1>6, <1>8, <1>9 DEF IsVarint, Shape
<1> QED BY <1>10 DEF v

(* More bits make a larger power. *)
LEMMA Pow2Monotonic == \A a, b \in Nat : a <= b => Pow2[a] <= Pow2[b]
<1> SUFFICES ASSUME NEW a \in Nat, NEW b \in Nat, a <= b PROVE Pow2[a] <= Pow2[b]
  OBVIOUS
<1>1. b - a \in Nat /\ b = a + (b - a)
  OBVIOUS
<1>2. Pow2[b] = Pow2[a] * Pow2[b - a]
  BY <1>1, Pow2Sum
<1> DEFINE p == Pow2[a]
           q == Pow2[b - a]
<1>3. p \in Nat \ {0} /\ q \in Nat \ {0}
  BY <1>1, Pow2Positive
<1> HIDE DEF p, q
<1>4. 1 * p <= q * p /\ q * p = p * q
  BY <1>3, TimesMonotonic
<1> QED BY <1>2, <1>3, <1>4 DEF p, q

(* What is left of the file, and where the loop is after i bytes of it. *)
Rest(file, start) == SubSeq(file, start + 1, Len(file))

Reached(file, start, i) ==
    [used |-> start + i, shift |-> i * Group, len |-> Values(Rest(file, start))[i]]

(* The bytes that are left. *)
LEMMA RestIs ==
  ASSUME NEW file \in Seq(Byte), NEW start \in 0 .. Len(file)
  PROVE  /\ Rest(file, start) \in Seq(Byte)
         /\ Len(Rest(file, start)) = Len(file) - start
         /\ \A i \in 1 .. Len(file) - start : Rest(file, start)[i] = file[start + i]
BY DEF Rest

(* The loop's state is in its domain. *)
LEMMA ReachedInReader ==
  ASSUME NEW file \in Seq(Byte), NEW start \in 0 .. Len(file), NEW i \in 0 .. Len(Rest(file, start))
  PROVE  Reached(file, start, i) \in Reader(file)
<1>1. start + i \in 0 .. Len(file)
  BY RestIs
<1>2. i * Group \in Nat
  BY Bits
<1>3. Values(Rest(file, start))[i] \in Nat
  BY RestIs, ValuesDef
<1> QED BY <1>1, <1>2, <1>3 DEF Reached, Reader

(* The length never loses a bit to the width of the word. *)
LEMMA LongerIs ==
  ASSUME NEW file \in Seq(Byte), NEW start \in 0 .. Len(file), NEW i \in Nat,
         i < Len(Rest(file, start)), i <= Whole, i = Whole => Rest(file, start)[i + 1] <= 1
  PROVE  Longer(file, Reached(file, start, i)) = Values(Rest(file, start))[i + 1]
<1> DEFINE w == Rest(file, start)
           x == Values(w)[i]
           y == Values(w)[i + 1]
           p == Pow2[i * Group]
           b == w[i + 1]
<1>1. /\ w \in Seq(Byte) /\ i < Len(w) /\ b \in Byte /\ b = file[start + i + 1]
      /\ i \in 0 .. Len(w) /\ i + 1 \in 1 .. Len(w) /\ (i + 1) - 1 = i
  <2>1. w \in Seq(Byte) /\ Len(w) = Len(file) - start /\ i < Len(w)
    BY RestIs
  <2>2. i + 1 \in 1 .. Len(w) /\ i \in 0 .. Len(w) /\ start + i + 1 = start + (i + 1)
    BY <2>1
  <2>3. b = file[start + (i + 1)]
    BY <2>1, <2>2, RestIs
  <2> HIDE DEF w
  <2>4. b \in Byte
    BY <2>1, <2>2
  <2> QED BY <2>1, <2>2, <2>3, <2>4
<1>2. x \in Nat /\ y \in Nat /\ y = x + Low(b) * p
  <2> HIDE DEF w
  <2>1. \A j \in 0 .. Len(w) : Values(w)[j] \in Nat
    BY <1>1, ValuesDef
  <2>2. y = Values(w)[(i + 1) - 1] + Low(b) * Pow2[((i + 1) - 1) * Group]
    BY <1>1, ValuesDef
  <2>3. i + 1 \in 0 .. Len(w)
    BY <1>1
  <2> QED BY <1>1, <2>1, <2>2, <2>3
<1>3. x < p /\ y < Pow2[(i + 1) * Group]
  BY <1>1, ValuesAreBounded
<1>4. Longer(file, Reached(file, start, i)) = y % Pow2[Word]
  BY <1>1, <1>2 DEF Longer, Reached
<1>5. y < Pow2[Word]
  <2>1. CASE i < Whole
    <3>1. i + 1 <= Whole /\ i + 1 \in Nat
      BY <2>1, WordIs
    <3>2. (i + 1) * Group \in Nat /\ (i + 1) * Group <= Word /\ Word \in Nat
      BY <3>1, Bits, WidthsOK
    <3>3. Pow2[(i + 1) * Group] <= Pow2[Word]
      BY <3>2, Pow2Monotonic
    <3>4. Pow2[(i + 1) * Group] \in Nat /\ Pow2[Word] \in Nat
      BY <3>2, Pow2Positive
    <3> HIDE DEF y
    <3> QED BY <1>2, <1>3, <3>3, <3>4
  <2>2. CASE i = Whole
    <3>1. Word = i * Group + 1 /\ i * Group \in Nat
      BY <2>2, WordIs, Bits
    <3>2. Pow2[Word] = p * 2 /\ p \in Nat
      BY <3>1, Pow2Sum, GroupIsBig, Pow2Positive
    <3>3. b <= 1 /\ b \in Nat
      BY <1>1, <2>2, Bytes
    <3>4. Low(b) \in Nat /\ Low(b) <= 1
      <4>1. ~More(b)
        BY <1>1, <3>3, Bytes DEF More
      <4> QED BY <1>1, <3>3, <4>1, Bytes
    <3> HIDE DEF x, y, p, b
    <3>5. Low(b) * p <= 1 * p
      BY <3>2, <3>4, TimesMonotonic
    <3>6. Low(b) * p \in Nat
      BY <3>2, <3>4, Products
    <3> QED BY <1>2, <1>3, <3>2, <3>5, <3>6 DEF x, y, p, b
  <2> QED BY <2>1, <2>2, WordIs
<1>6. Pow2[Word] \in Nat \ {0}
  BY WidthsOK, Pow2Positive
<1> HIDE DEF y
<1>7. y % Pow2[Word] = y
  BY <1>2, <1>5, <1>6, Remainder
<1> QED BY <1>4, <1>7 DEF y

(* One turn of the loop. *)
LEMMA OneByte ==
  ASSUME NEW file \in Seq(Byte), NEW start \in 0 .. Len(file), NEW i \in Nat,
         i <= Len(Rest(file, start)), i <= Whole
  PROVE  ReadVarint(file)[Reached(file, start, i)] =
           IF i = Len(Rest(file, start)) \/ (i = Whole /\ Rest(file, start)[i + 1] > 1)
           THEN Refused
           ELSE IF More(Rest(file, start)[i + 1])
           THEN ReadVarint(file)[Reached(file, start, i + 1)]
           ELSE [used |-> start + (i + 1), len |-> Values(Rest(file, start))[i + 1]]
<1> DEFINE w == Rest(file, start)
           r == Reached(file, start, i)
           f == ReadVarint(file)
<1>1. r \in Reader(file) /\ r.used = start + i /\ r.shift = i * Group
  <2>1. i \in 0 .. Len(Rest(file, start))
    BY RestIs
  <2>2. r \in Reader(file)
    BY <2>1, ReachedInReader
  <2> QED BY <2>2 DEF Reached
<1>2. f[r] = Reading(file, f, r)
  BY <1>1, ReadVarintDef
<1>3. Len(w) = Len(file) - start /\ Len(file) \in Nat /\ start \in Nat
  BY RestIs
<1>4. r.used >= Len(file) <=> i = Len(w)
  BY <1>1, <1>3
<1>5. ~(r.shift >= Word) /\ (r.shift = Word - 1 <=> i = Whole)
  <2>1. Word = Whole * Group + 1 /\ Whole * Group \in Nat /\ i * Group \in Nat
    BY WordIs, Bits
  <2>2. i * Group < Word
    BY Bits
  <2>3. i * Group = Whole * Group => i = Whole
    <3>1. i < Whole => (i + 1) * Group <= Whole * Group
      BY WordIs, WidthsOK, TimesMonotonic
    <3>2. (i + 1) * Group = i * Group + Group
      BY WidthsOK
    <3> QED BY <2>1, <3>1, <3>2, WordIs, WidthsOK
  <2> HIDE DEF r
  <2> QED BY <1>1, <2>1, <2>2, <2>3
<1>6. CASE i = Len(w)
  BY <1>2, <1>4, <1>6 DEF Reading
<1>7. CASE i < Len(w)
  <2>1. file[r.used + 1] = w[i + 1] /\ w[i + 1] \in Byte
    <3>1. w \in Seq(Byte) /\ i + 1 \in 1 .. Len(w) /\ i + 1 \in 1 .. Len(file) - start
      <4>1. w \in Seq(Byte)
        BY RestIs
      <4> HIDE DEF w
      <4> QED BY <1>3, <1>7, <4>1
    <3>2. w[i + 1] = file[start + (i + 1)] /\ r.used + 1 = start + (i + 1)
      BY <1>1, <3>1, RestIs
    <3> QED BY <3>1, <3>2
  <2>2. CASE i = Whole /\ w[i + 1] > 1
    BY <1>2, <1>4, <1>5, <1>7, <2>1, <2>2 DEF Reading
  <2>3. CASE ~(i = Whole /\ w[i + 1] > 1)
    <3>1. i = Whole => w[i + 1] <= 1
      BY <2>1, <2>3, Bytes
    <3>2. Longer(file, r) = Values(w)[i + 1]
      BY <1>7, <3>1, LongerIs
    <3>3. After(file, r) = Reached(file, start, i + 1)
      <4>1. i * Group + Group = (i + 1) * Group /\ (start + i) + 1 = start + (i + 1)
        BY WidthsOK
      <4> QED BY <1>1, <3>2, <4>1 DEF After, Reached
    <3>4. (start + i) + 1 = start + (i + 1)
      OBVIOUS
    <3> HIDE DEF r, w, f
    <3>5. CASE More(w[i + 1])
      BY <1>2, <1>3, <1>4, <1>5, <1>7, <2>1, <2>3, <3>3, <3>5 DEF Reading, r, w, f
    <3>6. CASE ~More(w[i + 1])
      BY <1>1, <1>2, <1>3, <1>4, <1>5, <1>7, <2>1, <2>3, <3>2, <3>4, <3>6 DEF Reading, r, w, f
    <3> QED BY <3>5, <3>6
  <2> QED BY <2>2, <2>3
<1> QED BY <1>3, <1>6, <1>7

(* As long as every byte says that more follow, the loop goes on. *)
LEMMA WhileMore ==
  ASSUME NEW file \in Seq(Byte), NEW start \in 0 .. Len(file)
  PROVE  \A i \in Nat :
           /\ i <= Len(Rest(file, start)) /\ i <= Whole
           /\ \A j \in 1 .. i : More(Rest(file, start)[j])
           => ReadVarint(file)[Start(start)] = ReadVarint(file)[Reached(file, start, i)]
<1> DEFINE w == Rest(file, start)
           Continues(i) == i <= Len(w) /\ i <= Whole /\ \A j \in 1 .. i : More(w[j])
           S == {i \in Nat : Continues(i) =>
                   ReadVarint(file)[Start(start)] = ReadVarint(file)[Reached(file, start, i)]}
<1>1. 0 \in S
  <2>1. Values(w)[0] = 0 /\ start + 0 = start /\ 0 * Group = 0
    BY RestIs, ValuesDef, WidthsOK
  <2>2. Reached(file, start, 0) = Start(start)
    BY <2>1 DEF Reached, Start
  <2> QED BY <2>2
<1>2. ASSUME NEW i \in Nat, i \in S PROVE i + 1 \in S
  <2> SUFFICES ASSUME Continues(i + 1)
               PROVE  ReadVarint(file)[Start(start)] = ReadVarint(file)[Reached(file, start, i + 1)]
    OBVIOUS
  <2>1. Len(w) \in Nat /\ w \in Seq(Byte) /\ Whole \in Nat
    BY RestIs, WordIs
  <2>2. i < Len(w) /\ i < Whole /\ More(w[i + 1])
    <3>1. i + 1 \in 1 .. i + 1
      OBVIOUS
    <3>2. More(w[i + 1])
      BY <3>1
    <3> QED BY <2>1, <3>2
  <2>3. \A j \in 1 .. i : j \in 1 .. i + 1
    OBVIOUS
  <2>4. i <= Len(w) /\ i <= Whole /\ \A j \in 1 .. i : More(w[j])
    BY <2>1, <2>2, <2>3
  <2>5. ReadVarint(file)[Start(start)] = ReadVarint(file)[Reached(file, start, i)]
    BY <1>2, <2>4
  <2>6. i # Len(w) /\ i # Whole
    BY <2>1, <2>2
  <2>7. ReadVarint(file)[Reached(file, start, i)] = ReadVarint(file)[Reached(file, start, i + 1)]
    BY <2>2, <2>4, <2>6, OneByte
  <2> QED BY <2>5, <2>7
<1> HIDE DEF S
<1>3. Nat \subseteq S
  BY <1>1, <1>2, Induction
<1> QED BY <1>3 DEF S

(* At most one varint begins at a byte. *)
LEMMA ShapeIsUnique ==
  ASSUME NEW w \in Seq(Byte), NEW k, NEW l, Shape(w, k), Shape(w, l)
  PROVE  k = l
<1>1. k \in Nat /\ l \in Nat /\ k \in 1 .. k /\ l \in 1 .. l
  BY DEF Shape
<1>2. ~More(w[k]) /\ ~More(w[l])
  BY <1>1 DEF Shape, More
<1>3. ~(k < l)
  <2>1. k < l => k \in 1 .. l
    BY DEF Shape
  <2> QED BY <1>2, <2>1 DEF Shape, More
<1>4. ~(l < k)
  <2>1. l < k => l \in 1 .. k
    BY DEF Shape
  <2> QED BY <1>2, <2>1 DEF Shape, More
<1> QED BY <1>1, <1>3, <1>4

(* The inner loop reads the varint at the front of the rest of the file, and *)
(* refuses a rest with no varint at the front.                               *)
LEMMA VarintRead ==
  ASSUME NEW file \in Seq(Byte), NEW start \in 0 .. Len(file)
  PROVE  \/ /\ ReadVarint(file)[Start(start)] = Refused
            /\ \A k \in Nat : ~Shape(Rest(file, start), k)
         \/ \E k \in 1 .. Len(Rest(file, start)) :
              /\ Shape(Rest(file, start), k)
              /\ ReadVarint(file)[Start(start)] =
                   [used |-> start + k, len |-> Values(Rest(file, start))[k]]
<1> DEFINE w == Rest(file, start)
           T == {i \in 0 .. Len(w) : i = Len(w) \/ i = Whole \/ ~More(w[i + 1])}
<1>1. w \in Seq(Byte) /\ Len(w) \in Nat /\ Whole \in Nat
  BY RestIs, WordIs
<1>2. T \subseteq Nat /\ Len(w) \in T
  BY <1>1
<1>3. PICK i \in T : \A j \in T : i <= j
  <2> HIDE DEF T
  <2> QED BY <1>2, LeastElement
<1>4. i \in Nat /\ i <= Len(w) /\ i <= Whole /\ \A j \in 1 .. i : More(w[j])
  <2>1. ASSUME NEW j \in 1 .. i PROVE More(w[j])
    <3>1. j - 1 \in 0 .. Len(w) /\ j - 1 < i /\ (j - 1) + 1 = j
      BY <1>1
    <3>2. j - 1 \notin T
      <4> HIDE DEF T
      <4> QED BY <1>2, <1>3, <3>1
    <3> QED BY <3>1, <3>2
  <2>2. i <= Whole
    <3>1. Whole <= Len(w) => Whole \in T
      BY <1>1
    <3>2. i \in Nat /\ i <= Len(w)
      BY <1>1
    <3>3. Whole \in T => i <= Whole
      <4> HIDE DEF T
      <4> QED BY <1>3
    <3> HIDE DEF w, T
    <3> QED BY <1>1, <3>1, <3>2, <3>3
  <2> QED BY <1>1, <2>1, <2>2
<1>5. ReadVarint(file)[Start(start)] = ReadVarint(file)[Reached(file, start, i)]
  BY <1>4, WhileMore
<1>6. \A k \in Nat : Shape(w, k) => k > i
  <2>1. ASSUME NEW k \in Nat, Shape(w, k), k <= i PROVE FALSE
    <3>1. k \in 1 .. k /\ k \in 1 .. i
      BY <2>1 DEF Shape
    <3>2. More(w[k])
      BY <1>4, <3>1
    <3> QED BY <2>1, <3>1, <3>2 DEF Shape, More
  <2> QED BY <1>4, <2>1
<1>7. CASE i = Len(w)
  <2>1. ReadVarint(file)[Start(start)] = Refused
    BY <1>4, <1>5, <1>7, OneByte
  <2>2. \A k \in Nat : ~Shape(w, k)
    BY <1>6, <1>7 DEF Shape
  <2> QED BY <2>1, <2>2
<1>8. CASE i < Len(w) /\ i = Whole /\ w[i + 1] > 1
  <2>1. ReadVarint(file)[Start(start)] = Refused
    BY <1>4, <1>5, <1>8, OneByte
  <2>2. ASSUME NEW k \in Nat, Shape(w, k) PROVE FALSE
    <3>1. k = i + 1 /\ w[k] <= 1
      BY <1>4, <1>6, <1>8, <2>2 DEF Shape
    <3>2. w[i + 1] \in Nat
      BY <1>1, <1>4, <1>8, Bytes
    <3> QED BY <1>8, <3>1, <3>2
  <2> QED BY <2>1, <2>2
<1>9. CASE i < Len(w) /\ ~(i = Whole /\ w[i + 1] > 1)
  <2>1. w[i + 1] \in Byte /\ i + 1 \in 1 .. Len(w) /\ i # Len(w)
    BY <1>1, <1>4, <1>9
  <2>2. w[i + 1] \in Nat /\ (More(w[i + 1]) => w[i + 1] > 1)
    BY <2>1, Bytes
  <2>3. i = Whole => w[i + 1] <= 1
    BY <1>9, <2>2
  <2>4. ~More(w[i + 1])
    BY <2>1, <2>2, <1>9 DEF More
  <2>5. ReadVarint(file)[Start(start)] = [used |-> start + (i + 1), len |-> Values(w)[i + 1]]
    BY <1>4, <1>5, <1>9, <2>1, <2>4, OneByte
  <2>6. Shape(w, i + 1)
    <3>1. \A j \in 1 .. i + 1 : More(w[j]) = (j < i + 1)
      <4>1. \A j \in 1 .. i + 1 : j = i + 1 \/ (j \in 1 .. i /\ j < i + 1)
        BY <1>4
      <4> QED BY <1>4, <2>4, <4>1 DEF More
    <3> QED BY <1>1, <1>4, <2>1, <2>3, <3>1 DEF Shape
  <2> QED BY <2>1, <2>5, <2>6
<1>10. i = Len(w) \/ i < Len(w)
  BY <1>1, <1>4
<1> QED BY <1>7, <1>8, <1>9, <1>10

(* A record from a to b, in terms of what follows a. *)
LEMMA RecordAt ==
  ASSUME NEW file \in Seq(Byte), NEW a \in 0 .. Len(file), NEW b \in a + 1 .. Len(file)
  PROVE  IsRecord(SubSeq(file, a + 1, b)) <=>
           \E k \in 1 .. b - a : /\ Shape(Rest(file, a), k)
                                 /\ Values(Rest(file, a))[k] = b - a - k
<1> DEFINE r == SubSeq(file, a + 1, b)
           w == Rest(file, a)
<1>1. /\ r \in Seq(Byte) /\ Len(r) = b - a /\ b - a \in Nat
      /\ \A i \in 1 .. b - a : r[i] = file[a + i]
  OBVIOUS
<1>2. w \in Seq(Byte) /\ Len(w) = Len(file) - a
  BY RestIs
<1>3. \A i \in 1 .. b - a : r[i] = w[i]
  <2>1. \A i \in 1 .. b - a : i \in 1 .. Len(file) - a
    OBVIOUS
  <2> QED BY <1>1, <2>1, RestIs
<1> HIDE DEF r, w
<1>4. ASSUME NEW k \in 1 .. b - a
      PROVE  /\ IsVarint(SubSeq(r, 1, k)) <=> Shape(w, k)
             /\ Value(SubSeq(r, 1, k)) = Values(w)[k]
  <2>1. k \in 1 .. Len(r) /\ k \in 1 .. Len(w) /\ k \in 0 .. Len(r) /\ k \in Nat
    BY <1>1, <1>2
  <2>2. \A i \in 1 .. k : i \in 1 .. b - a
    OBVIOUS
  <2>3. \A i \in 1 .. k : r[i] = w[i]
    BY <1>3, <2>2
  <2>4. Shape(r, k) <=> Shape(w, k)
    <3>1. r[k] = w[k]
      BY <1>3
    <3>2. (\A i \in 1 .. k : More(r[i]) = (i < k)) <=> (\A i \in 1 .. k : More(w[i]) = (i < k))
      BY <2>3
    <3> QED BY <2>1, <3>1, <3>2 DEF Shape
  <2>5. IsVarint(SubSeq(r, 1, k)) <=> Shape(r, k)
    BY <1>1, <2>1, ShapeIsVarint
  <2>6. Value(SubSeq(r, 1, k)) = Values(w)[k]
    <3> DEFINE v == SubSeq(r, 1, k)
    <3>1. v \in Seq(Byte) /\ Len(v) = k /\ \A i \in 1 .. k : v[i] = r[i]
      BY <1>1, <2>1, Prefix
    <3> HIDE DEF v
    <3>2. \A i \in 1 .. k : v[i] = w[i]
      BY <2>3, <3>1
    <3>3. k <= Len(v) /\ k <= Len(w)
      BY <2>1, <3>1
    <3>4. Values(v)[k] = Values(w)[k]
      BY <1>2, <2>1, <3>1, <3>2, <3>3, ValuesOfPrefix
    <3> QED BY <3>1, <3>4 DEF Value, v
  <2> QED BY <2>4, <2>5, <2>6
<1>5. DOMAIN r = 1 .. b - a
  BY <1>1
<1>6. IsRecord(r) <=> \E k \in 1 .. b - a : Shape(w, k) /\ Values(w)[k] = b - a - k
  <2>1. IsRecord(r) <=> \E k \in 1 .. b - a :
                          IsVarint(SubSeq(r, 1, k)) /\ Value(SubSeq(r, 1, k)) = b - a - k
    BY <1>1, <1>5 DEF IsRecord
  <2> QED BY <1>4, <2>1
<1> QED BY <1>6 DEF r, w

(* What the outer loop does with the length at u: ends is where it goes on. *)
Ends(file, u) == ReadVarint(file)[Start(u)].used + ReadVarint(file)[Start(u)].len

Taken(file, u) ==
    /\ ReadVarint(file)[Start(u)] # Refused
    /\ ReadVarint(file)[Start(u)].len <= Len(file) - ReadVarint(file)[Start(u)].used

(* A record begins at u exactly if the loops accept the length at u, and it *)
(* ends where they go on.                                                   *)
LEMMA NextRecord ==
  ASSUME NEW file \in Seq(Byte), NEW u \in 0 .. Len(file) - 1
  PROVE  /\ Taken(file, u) => Ends(file, u) \in u + 1 .. Len(file)
         /\ \A b \in u + 1 .. Len(file) :
              IsRecord(SubSeq(file, u + 1, b)) <=> Taken(file, u) /\ b = Ends(file, u)
<1> DEFINE w == Rest(file, u)
           n == Len(file)
           read == ReadVarint(file)[Start(u)]
<1>1. n \in Nat /\ u \in 0 .. n /\ w \in Seq(Byte) /\ Len(w) = n - u
  BY RestIs
<1>2. \A b \in u + 1 .. n : IsRecord(SubSeq(file, u + 1, b)) <=>
        \E k \in 1 .. b - u : Shape(w, k) /\ Values(w)[k] = b - u - k
  BY <1>1, RecordAt
<1>3. CASE read = Refused /\ \A k \in Nat : ~Shape(w, k)
  BY <1>2, <1>3 DEF Taken
<1>4. ASSUME NEW k \in 1 .. Len(w), Shape(w, k),
             read = [used |-> u + k, len |-> Values(w)[k]]
      PROVE  /\ Taken(file, u) => Ends(file, u) \in u + 1 .. n
             /\ \A b \in u + 1 .. n :
                  IsRecord(SubSeq(file, u + 1, b)) <=> Taken(file, u) /\ b = Ends(file, u)
  <2>1. Values(w)[k] \in Nat
    <3>1. k \in 0 .. Len(w)
      BY <1>1
    <3> QED BY <1>1, <3>1, ValuesDef
  <2> DEFINE x == Values(w)[k]
  <2>2. read # Refused /\ read.used = u + k /\ read.len = x
    <3>1. read.used = u + k /\ read.len = x
      BY <1>4
    <3>2. u + k # 0
      BY <1>1
    <3> QED BY <3>1, <3>2 DEF Refused
  <2>3. (Taken(file, u) <=> x <= n - (u + k)) /\ Ends(file, u) = u + k + x
    BY <2>2 DEF Taken, Ends
  <2>4. ASSUME NEW b \in u + 1 .. n
        PROVE  (\E l \in 1 .. b - u : Shape(w, l) /\ Values(w)[l] = b - u - l) <=>
                 x <= n - (u + k) /\ b = u + k + x
    <3>1. ASSUME NEW l \in 1 .. b - u, Shape(w, l), Values(w)[l] = b - u - l
          PROVE  x <= n - (u + k) /\ b = u + k + x
      <4>1. l = k
        BY <1>1, <1>4, <3>1, ShapeIsUnique
      <4> HIDE DEF w
      <4> QED BY <1>1, <3>1, <4>1
    <3>2. ASSUME x <= n - (u + k), b = u + k + x
          PROVE  k \in 1 .. b - u /\ x = b - u - k
      <4> HIDE DEF x
      <4> QED BY <1>1, <2>1, <3>2 DEF x
    <3> QED BY <1>4, <3>1, <3>2
  <2>5. Taken(file, u) => Ends(file, u) \in u + 1 .. n
    <3> HIDE DEF x
    <3> QED BY <1>1, <2>1, <2>3 DEF x
  <2> QED BY <1>2, <2>3, <2>4, <2>5
<1>5. \/ read = Refused /\ \A k \in Nat : ~Shape(w, k)
      \/ \E k \in 1 .. Len(w) : Shape(w, k) /\ read = [used |-> u + k, len |-> Values(w)[k]]
  BY <1>1, VarintRead
<1> QED BY <1>3, <1>4, <1>5

(* The outer loop is the function its recursive definition says: a length *)
(* that is accepted takes at least one byte.                              *)
LEMMA ReadRecordsDef ==
  ASSUME NEW file \in Seq(Byte)
  PROVE  \A u \in 0 .. Len(file) :
           ReadRecords(file)[u] = (u < Len(file) => Taken(file, u) /\ ReadRecords(file)[Ends(file, u)])
<1> DEFINE n == Len(file)
           D == 0 .. n
           Body(f, u) == u < n => Taken(file, u) /\ f[Ends(file, u)]
           F == [u \in D |-> [g \in [D -> BOOLEAN] |-> Body(g, u)]]
           m == [u \in D |-> n - u]
<1>1. n \in Nat
  OBVIOUS
<1>2. \A u \in D : u < n /\ Taken(file, u) => Ends(file, u) \in D /\ n - Ends(file, u) < n - u
  <2>1. ASSUME NEW u \in D, u < n, Taken(file, u)
        PROVE  Ends(file, u) \in D /\ n - Ends(file, u) < n - u
    <3>1. u \in 0 .. Len(file) - 1
      BY <1>1, <2>1
    <3>2. Ends(file, u) \in u + 1 .. n
      BY <2>1, <3>1, NextRecord
    <3> QED BY <1>1, <3>2
  <2> QED BY <2>1
<1>3. Decreasing(D, BOOLEAN, m, F)
  <2>1. F \in [D -> [[D -> BOOLEAN] -> BOOLEAN]]
    OBVIOUS
  <2>2. ASSUME NEW x \in D, NEW g \in [D -> BOOLEAN], NEW h \in [D -> BOOLEAN],
               \A y \in D : m[y] < m[x] => g[y] = h[y]
        PROVE  F[x][g] = F[x][h]
    <3>1. x < n /\ Taken(file, x) => g[Ends(file, x)] = h[Ends(file, x)]
      BY <1>2, <2>2
    <3> QED BY <3>1
  <2>3. m \in [D -> Nat]
    BY <1>1
  <2> HIDE DEF F, D, m
  <2> QED BY <2>1, <2>2, <2>3 DEF Decreasing
<1>4. PICK f \in [D -> BOOLEAN] : \A u \in D : f[u] = F[u][f]
  <2> HIDE DEF F, D, m
  <2> QED BY <1>3, Recursion
<1>5. f = [u \in D |-> Body(f, u)]
  BY <1>4
<1> DEFINE Text(g, u) == u < n =>
                            LET length == ReadVarint(file)[Start(u)]
                            IN  /\ length # Refused
                                /\ length.len <= n - length.used
                                /\ g[length.used + length.len]
<1>6. f = [u \in D |-> Text(f, u)]
  <2>1. \A u \in D : Body(f, u) = Text(f, u)
    BY DEF Taken, Ends
  <2> HIDE DEF Body, Text
  <2> QED BY <1>5, <2>1
<1>7. ReadRecords(file) = [u \in D |-> Text(ReadRecords(file), u)]
  BY <1>6 DEF ReadRecords
<1>8. \A u \in D : ReadRecords(file)[u] = Text(ReadRecords(file), u)
  <2> HIDE DEF Text
  <2> QED BY <1>7
<1>9. \A u \in D : Text(ReadRecords(file), u) = Body(ReadRecords(file), u)
  BY DEF Taken, Ends
<1> HIDE DEF Text
<1> QED BY <1>8, <1>9

(* The cuts divide the bytes from u to n into records. *)
Divides(file, Cuts, u) ==
    /\ Cuts \in SUBSET (u .. Len(file))
    /\ u \in Cuts /\ Len(file) \in Cuts
    /\ \A a \in Cuts, b \in Cuts :
          a < b /\ (\A c \in Cuts : c <= a \/ c >= b) => IsRecord(SubSeq(file, a + 1, b))

Framed(file, u) == \E Cuts : Divides(file, Cuts, u)

(* Being cut into records, from the first byte on. *)
LEMMA FramedFromTheStart ==
  ASSUME NEW file \in Seq(Byte)
  PROVE  WellFramed(file) <=> Framed(file, 0)
BY DEF WellFramed, Framed, Divides

(* A cut in front of a file that is divided. *)
LEMMA OneMoreCut ==
  ASSUME NEW file \in Seq(Byte), NEW u \in 0 .. Len(file) - 1, NEW v \in u + 1 .. Len(file),
         IsRecord(SubSeq(file, u + 1, v)), Framed(file, v)
  PROVE  Framed(file, u)
<1> DEFINE n == Len(file)
<1>1. n \in Nat
  OBVIOUS
<1>2. PICK Cuts : Divides(file, Cuts, v)
  BY DEF Framed
<1> DEFINE All == {u} \cup Cuts
<1>3. \A c \in Cuts : c \in Int /\ c >= v /\ c <= n /\ c > u
  BY <1>1, <1>2 DEF Divides
<1>4. All \in SUBSET (u .. n) /\ u \in All /\ n \in All /\ v \in Cuts
  BY <1>1, <1>2, <1>3 DEF Divides
<1>5. ASSUME NEW a \in All, NEW b \in All, a < b, \A c \in All : c <= a \/ c >= b
      PROVE  IsRecord(SubSeq(file, a + 1, b))
  <2>1. CASE a = u
    <3>1. b \in Cuts
      BY <1>1, <1>5, <2>1
    <3>2. b >= v /\ (v <= a \/ v >= b)
      BY <1>3, <1>4, <1>5, <3>1
    <3>3. b = v
      BY <1>1, <1>3, <2>1, <3>1, <3>2
    <3> QED BY <2>1, <3>3
  <2>2. CASE a \in Cuts
    <3>1. b \in Cuts
      BY <1>1, <1>3, <1>5, <2>2
    <3>2. \A c \in Cuts : c <= a \/ c >= b
      BY <1>5
    <3> QED BY <1>2, <1>5, <2>2, <3>1, <3>2 DEF Divides
  <2> QED BY <2>1, <2>2
<1> HIDE DEF All
<1>6. Divides(file, All, u)
  BY <1>4, <1>5 DEF Divides
<1> QED BY <1>6 DEF Framed

(* The first cut of a file that is divided. *)
LEMMA OneCutLess ==
  ASSUME NEW file \in Seq(Byte), NEW u \in 0 .. Len(file) - 1, Framed(file, u)
  PROVE  \E v \in u + 1 .. Len(file) : IsRecord(SubSeq(file, u + 1, v)) /\ Framed(file, v)
<1> DEFINE n == Len(file)
<1>1. n \in Nat /\ u \in Nat /\ u < n
  OBVIOUS
<1>2. PICK Cuts : Divides(file, Cuts, u)
  BY DEF Framed
<1>3. \A c \in Cuts : c \in u .. n
  BY <1>2 DEF Divides
<1> DEFINE T == {c \in Cuts : c > u}
<1>4. T \subseteq Nat /\ n \in T /\ \A c \in T : c \in u + 1 .. n
  <2>1. n \in Cuts
    BY <1>2 DEF Divides
  <2>2. \A c \in T : c \in u + 1 .. n /\ c \in Nat
    BY <1>1, <1>3
  <2> QED BY <1>1, <2>1, <2>2
<1>5. PICK v \in T : \A c \in T : v <= c
  <2> HIDE DEF T
  <2> QED BY <1>4, LeastElement
<1>6. v \in u + 1 .. n /\ v \in Cuts
  BY <1>4, <1>5
<1>7. \A c \in Cuts : c <= u \/ c >= v
  BY <1>1, <1>3, <1>5, <1>6
<1>8. IsRecord(SubSeq(file, u + 1, v))
  BY <1>1, <1>2, <1>6, <1>7 DEF Divides
<1> DEFINE Later == {c \in Cuts : c >= v}
<1>9. Divides(file, Later, v)
  <2>1. Later \in SUBSET (v .. n) /\ v \in Later /\ n \in Later
    <3>1. n \in Cuts
      BY <1>2 DEF Divides
    <3>2. \A c \in Later : c \in v .. n
      BY <1>1, <1>3, <1>6
    <3>3. v >= v /\ n >= v
      BY <1>1, <1>6
    <3> QED BY <1>6, <3>1, <3>2, <3>3
  <2>2. ASSUME NEW a \in Later, NEW b \in Later, a < b, \A c \in Later : c <= a \/ c >= b
        PROVE  IsRecord(SubSeq(file, a + 1, b))
    <3>1. \A c \in Cuts : c <= a \/ c >= b
      BY <1>3, <1>6, <2>2
    <3> QED BY <1>2, <2>2, <3>1 DEF Divides
  <2> HIDE DEF Later
  <2> QED BY <2>1, <2>2 DEF Divides
<1> HIDE DEF T, Later
<1> QED BY <1>6, <1>8, <1>9 DEF Framed

(* The outer loop accepts what follows u exactly if it can be cut into *)
(* records.                                                            *)
LEMMA ReadRecordsExact ==
  ASSUME NEW file \in Seq(Byte)
  PROVE  \A u \in 0 .. Len(file) : ReadRecords(file)[u] = Framed(file, u)
<1> DEFINE n == Len(file)
           S == {d \in Nat : \A u \in 0 .. n : d = n - u => ReadRecords(file)[u] = Framed(file, u)}
<1>1. n \in Nat
  OBVIOUS
<1>2. ASSUME NEW d \in Nat, \A e \in Nat : e < d => e \in S
      PROVE  d \in S
  <2> SUFFICES ASSUME NEW u \in 0 .. n, d = n - u
               PROVE  ReadRecords(file)[u] = Framed(file, u)
    OBVIOUS
  <2>1. CASE u = n
    <3>1. ReadRecords(file)[u] = TRUE
      <4>1. ReadRecords(file)[u] = (u < n => Taken(file, u) /\ ReadRecords(file)[Ends(file, u)])
        BY ReadRecordsDef
      <4>2. ~(u < n)
        BY <1>1, <2>1
      <4> QED BY <4>1, <4>2
    <3>2. Divides(file, {n}, n)
      BY <1>1 DEF Divides
    <3>3. Framed(file, u) = TRUE
      BY <2>1, <3>2 DEF Framed
    <3> QED BY <3>1, <3>3
  <2>2. CASE u < n
    <3>1. u \in 0 .. Len(file) - 1
      BY <1>1, <2>2
    <3>2. ASSUME NEW v \in u + 1 .. n PROVE ReadRecords(file)[v] = Framed(file, v)
      <4>1. n - v \in Nat /\ n - v < d /\ v \in 0 .. n
        BY <1>1, <3>1
      <4> QED BY <1>2, <4>1
    <3>3. ReadRecords(file)[u] = (Taken(file, u) /\ ReadRecords(file)[Ends(file, u)])
      BY <2>2, ReadRecordsDef
    <3>4. ASSUME Taken(file, u), ReadRecords(file)[Ends(file, u)] PROVE Framed(file, u)
      <4>1. Ends(file, u) \in u + 1 .. Len(file)
        BY <3>1, <3>4, NextRecord
      <4>2. IsRecord(SubSeq(file, u + 1, Ends(file, u)))
        BY <3>1, <3>4, <4>1, NextRecord
      <4>3. Framed(file, Ends(file, u))
        BY <3>2, <3>4, <4>1
      <4> QED BY <3>1, <4>1, <4>2, <4>3, OneMoreCut
    <3>5. ASSUME Framed(file, u) PROVE Taken(file, u) /\ ReadRecords(file)[Ends(file, u)]
      <4>1. PICK v \in u + 1 .. Len(file) : IsRecord(SubSeq(file, u + 1, v)) /\ Framed(file, v)
        BY <3>1, <3>5, OneCutLess
      <4>2. Taken(file, u) /\ v = Ends(file, u)
        BY <3>1, <4>1, NextRecord
      <4> QED BY <3>2, <4>1, <4>2
    <3>6. Framed(file, u) \in BOOLEAN
      BY DEF Framed
    <3>7. Framed(file, u) <=> (Taken(file, u) /\ ReadRecords(file)[Ends(file, u)])
      BY <3>4, <3>5
    <3> QED BY <3>3, <3>6, <3>7
  <2> QED BY <1>1, <2>1, <2>2
<1> HIDE DEF S
<1>3. Nat \subseteq S
  BY <1>2, CompleteInduction
<1>4. ASSUME NEW u \in 0 .. n PROVE ReadRecords(file)[u] = Framed(file, u)
  <2>1. n - u \in Nat
    BY <1>1
  <2> QED BY <1>3, <2>1 DEF S
<1> QED BY <1>4

(* validate_frames accepts a file exactly if it can be cut into records, for *)
(* every file and every width of bytes and lengths: no truncated and no      *)
(* overflowing length, no short payload, nothing refused that is whole       *)
(* (migration.rs, validate_frames).                                          *)
THEOREM ValidateFramesExact ==
  ASSUME NEW file \in Seq(Byte)
  PROVE  ValidateFrames(file) = WellFramed(file)
<1>1. 0 \in 0 .. Len(file)
  OBVIOUS
<1>2. ReadRecords(file)[0] = Framed(file, 0)
  BY <1>1, ReadRecordsExact
<1>3. WellFramed(file) \in BOOLEAN /\ Framed(file, 0) \in BOOLEAN
  BY DEF WellFramed, Framed
<1>4. WellFramed(file) <=> Framed(file, 0)
  BY FramedFromTheStart
<1> QED BY <1>2, <1>3, <1>4 DEF ValidateFrames
==============================================================================
