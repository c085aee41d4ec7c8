------------------------------ MODULE Recursion ------------------------------
(***************************************************************************)
(* Induction over a set of naturals, and the existence of the function a   *)
(* recursive equation defines.  The theorems of the library about both     *)
(* take an operator as a parameter; these take a set and a function, and   *)
(* are proved from the library's first-order fact that inclusion is well   *)
(* founded on finite sets.                                                 *)
(***************************************************************************)
EXTENDS Integers, FiniteSetTheorems, WellFoundedInduction, TLAPS

(* A nonempty set of naturals has a least element: the intervals from 0 to *)
(* its elements are finite sets, and one of them is minimal by inclusion.  *)
THEOREM LeastElement ==
  ASSUME NEW T, T \subseteq Nat, T # {}
  PROVE \E x \in T : \A y \in T : x <= y
<1> DEFINE F == {0 .. n : n \in T}
<1>1. IsWellFoundedOn(StrictSubsetOrdering(Nat), FiniteSubsetsOf(Nat))
  BY FS_StrictSubsetOrderingWellFounded
<1>2. F \subseteq FiniteSubsetsOf(Nat) /\ F # {}
  <2>1. ASSUME NEW n \in T PROVE 0 .. n \in FiniteSubsetsOf(Nat)
    <3>1. n \in Nat /\ IsFiniteSet(0 .. n)
      BY FS_Interval, 0 \in Int, n \in Int
    <3>2. 0 .. n \in SUBSET Nat
      BY <3>1
    <3> QED BY <3>1, <3>2 DEF FiniteSubsetsOf
  <2> QED BY <2>1
<1> HIDE DEF F
<1>3. PICK I \in F : \A J \in F : ~(<<J, I>> \in StrictSubsetOrdering(Nat))
  BY <1>1, <1>2, WFMin
<1>4. PICK x \in T : I = 0 .. x
  BY DEF F
<1>5. ASSUME NEW y \in T, y < x PROVE FALSE
  <2>1. <<0 .. y, 0 .. x>> \in StrictSubsetOrdering(Nat)
    <3>1. 0 .. y \subseteq 0 .. x /\ x \in 0 .. x /\ x \notin 0 .. y
      BY <1>5
    <3>2. 0 .. y # 0 .. x
      BY <3>1
    <3> QED BY <3>1, <3>2 DEF StrictSubsetOrdering
  <2> QED BY <1>3, <1>4, <2>1 DEF F
<1> QED BY <1>5

(* A set that has 0 and is closed under successor has every natural. *)
THEOREM Induction ==
  ASSUME NEW S, 0 \in S, \A n \in Nat : n \in S => n + 1 \in S
  PROVE  Nat \subseteq S
<1> SUFFICES ASSUME Nat \ S # {} PROVE FALSE
  OBVIOUS
<1>1. PICK x \in Nat \ S : \A y \in Nat \ S : x <= y
  BY LeastElement
<1>2. x # 0 /\ x - 1 \in Nat
  BY <1>1
<1>3. x - 1 \in S
  BY <1>1, <1>2
<1>4. (x - 1) + 1 \in S
  BY <1>2, <1>3
<1> QED BY <1>1, <1>4

(* A set that has a natural whenever it has all the smaller ones has them all. *)
THEOREM CompleteInduction ==
  ASSUME NEW S, \A n \in Nat : (\A i \in Nat : i < n => i \in S) => n \in S
  PROVE  Nat \subseteq S
<1> SUFFICES ASSUME Nat \ S # {} PROVE FALSE
  OBVIOUS
<1>1. PICK x \in Nat \ S : \A y \in Nat \ S : x <= y
  BY LeastElement
<1>2. \A i \in Nat : i < x => i \in S
  BY <1>1
<1> QED BY <1>1, <1>2

(* The functions that satisfy the recursive equation f[x] = F[x][f] wherever *)
(* the measure m is below k.                                                 *)
Partial(D, V, m, F, k) == {g \in [D -> V] : \A y \in D : m[y] < k => g[y] = F[y][g]}

(* F[x] looks at its argument only where the measure is smaller than at x. *)
Decreasing(D, V, m, F) ==
    /\ V # {}
    /\ m \in [D -> Nat]
    /\ F \in [D -> [[D -> V] -> V]]
    /\ \A x \in D : \A g, h \in [D -> V] :
          (\A y \in D : m[y] < m[x] => g[y] = h[y]) => F[x][g] = F[x][h]

(* Each of them can be extended by one level of the measure. *)
LEMMA PartialExists ==
  ASSUME NEW D, NEW V, NEW m, NEW F, Decreasing(D, V, m, F)
  PROVE  \A k \in Nat : Partial(D, V, m, F, k) # {}
<1> V # {} /\ m \in [D -> Nat] /\ F \in [D -> [[D -> V] -> V]]
  BY DEF Decreasing
<1> DEFINE S == {k \in Nat : Partial(D, V, m, F, k) # {}}
<1>1. 0 \in S
  <2>1. PICK v \in V : TRUE
    OBVIOUS
  <2>2. [y \in D |-> v] \in Partial(D, V, m, F, 0)
    BY DEF Partial
  <2> QED BY <2>2
<1>2. ASSUME NEW k \in Nat, k \in S PROVE k + 1 \in S
  <2>1. PICK g \in [D -> V] : \A y \in D : m[y] < k => g[y] = F[y][g]
    BY <1>2 DEF Partial
  <2> DEFINE h == [y \in D |-> IF m[y] = k THEN F[y][g] ELSE g[y]]
  <2>2. h \in [D -> V]
    OBVIOUS
  <2>3. ASSUME NEW y \in D, m[y] < k + 1 PROVE h[y] = F[y][h]
    <3>1. m[y] \in Nat /\ (m[y] = k \/ m[y] < k)
      <4>1. \A i, j \in Nat : i < j + 1 => i = j \/ i < j
        OBVIOUS
      <4> QED BY <2>3, <4>1
    <3>2. \A z \in D : m[z] < m[y] => g[z] = h[z]
      BY <3>1
    <3> HIDE DEF h
    <3>3. F[y][g] = F[y][h]
      BY <2>2, <3>2 DEF Decreasing
    <3>4. CASE m[y] = k
      BY <3>3, <3>4 DEF h
    <3>5. CASE m[y] < k
      BY <2>1, <3>1, <3>3, <3>5 DEF h
    <3> QED BY <3>1, <3>4, <3>5
  <2> HIDE DEF h
  <2>4. h \in Partial(D, V, m, F, k + 1)
    BY <2>2, <2>3 DEF Partial
  <2> QED BY <2>4
<1> HIDE DEF S
<1>3. Nat \subseteq S
  BY <1>1, <1>2, Induction
<1> QED BY <1>3 DEF S

(* Two of them are equal wherever both satisfy the equation. *)
LEMMA PartialsAgree ==
  ASSUME NEW D, NEW V, NEW m, NEW F, Decreasing(D, V, m, F),
         NEW k \in Nat, NEW l \in Nat, NEW g, NEW h,
         g \in Partial(D, V, m, F, k), h \in Partial(D, V, m, F, l)
  PROVE  \A y \in D : m[y] < k /\ m[y] < l => g[y] = h[y]
<1> V # {} /\ m \in [D -> Nat] /\ F \in [D -> [[D -> V] -> V]]
  BY DEF Decreasing
<1> DEFINE S == {i \in Nat : \A y \in D : m[y] = i /\ i < k /\ i < l => g[y] = h[y]}
<1>1. ASSUME NEW n \in Nat, \A i \in Nat : i < n => i \in S PROVE n \in S
  <2>1. ASSUME NEW y \in D, m[y] = n, n < k, n < l PROVE g[y] = h[y]
    <3>1. ASSUME NEW z \in D, m[z] < m[y] PROVE g[z] = h[z]
      <4>1. m[z] \in Nat /\ m[z] < n /\ m[z] < k /\ m[z] < l
        BY <2>1, <3>1
      <4>2. m[z] \in S
        BY <1>1, <4>1
      <4> QED BY <4>1, <4>2
    <3>2. g \in [D -> V] /\ h \in [D -> V]
      BY DEF Partial
    <3>3. F[y][g] = F[y][h]
      BY <3>1, <3>2 DEF Decreasing
    <3>4. g[y] = F[y][g] /\ h[y] = F[y][h]
      BY <2>1 DEF Partial
    <3> QED BY <3>3, <3>4
  <2> QED BY <2>1
<1> HIDE DEF S
<1>2. Nat \subseteq S
  BY <1>1, CompleteInduction
<1>3. \A y \in D : m[y] \in S
  BY <1>2
<1> QED BY <1>3 DEF S

(* A recursive equation has a solution if some measure decreases. *)
THEOREM Recursion ==
  ASSUME NEW D, NEW V, NEW m, NEW F, Decreasing(D, V, m, F)
  PROVE  \E f \in [D -> V] : \A x \in D : f[x] = F[x][f]
<1> V # {} /\ m \in [D -> Nat] /\ F \in [D -> [[D -> V] -> V]]
  BY DEF Decreasing
<1> DEFINE G == [k \in Nat |-> CHOOSE g : g \in Partial(D, V, m, F, k)]
           f == [y \in D |-> G[m[y] + 1][y]]
<1>1. ASSUME NEW k \in Nat PROVE G[k] \in Partial(D, V, m, F, k)
  <2>1. Partial(D, V, m, F, k) # {}
    BY PartialExists
  <2>2. (CHOOSE g : g \in Partial(D, V, m, F, k)) \in Partial(D, V, m, F, k)
    BY <2>1
  <2> QED BY <2>2
<1> HIDE DEF G
<1>2. ASSUME NEW k \in Nat, NEW l \in Nat, NEW y \in D, m[y] < k, m[y] < l
      PROVE  G[k][y] = G[l][y]
  <2>1. G[k] \in Partial(D, V, m, F, k) /\ G[l] \in Partial(D, V, m, F, l)
    BY <1>1
  <2>2. \A z \in D : m[z] < k /\ m[z] < l => G[k][z] = G[l][z]
    BY <2>1, PartialsAgree
  <2> QED BY <1>2, <2>2
<1>3. \A y \in D : m[y] + 1 \in Nat /\ G[m[y] + 1] \in [D -> V]
  BY <1>1 DEF Partial
<1>4. f \in [D -> V]
  BY <1>3
<1>5. ASSUME NEW x \in D PROVE f[x] = F[x][f]
  <2>1. m[x] \in Nat /\ m[x] + 1 \in Nat /\ m[x] < m[x] + 1
    OBVIOUS
  <2>2. ASSUME NEW y \in D, m[y] < m[x] PROVE G[m[x] + 1][y] = f[y]
    <3>1. m[y] + 1 \in Nat /\ m[y] < m[y] + 1 /\ m[y] < m[x] + 1
      BY <2>2
    <3> QED BY <1>2, <2>1, <3>1
  <2>3. F[x][G[m[x] + 1]] = F[x][f]
    BY <1>3, <1>4, <2>2 DEF Decreasing
  <2>4. G[m[x] + 1][x] = F[x][G[m[x] + 1]]
    BY <1>1, <2>1 DEF Partial
  <2> QED BY <2>3, <2>4
<1> QED BY <1>4, <1>5
==============================================================================
