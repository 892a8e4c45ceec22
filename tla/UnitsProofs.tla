---------------------------- MODULE UnitsProofs ----------------------------
(***************************************************************************)
(* Proofs about the functional units, for every width of a word, every     *)
(* instruction word, every legal instruction and every number of ways.     *)
(* The recursions are over numbers: the least counterexample again takes   *)
(* the place of induction, here in the form of two principles about sets.  *)
(***************************************************************************)
EXTENDS Units, TreePlruProofs, FiniteSetTheorems

\* A set that holds 0 and with every number its successor holds them all.
LEMMA ClimbNat ==
    ASSUME NEW T, 0 \in T, \A k \in Nat : k \in T => k + 1 \in T
    PROVE  \A k \in Nat : k \in T
<1> DEFINE U == { k \in Nat : k \notin T }
<1>1. SUFFICES ASSUME U # {} PROVE FALSE
  OBVIOUS
<1>2. PICK k \in U : \A y \in U : k <= y
  <2>1. U \in SUBSET Nat
    OBVIOUS
  <2> QED BY <1>1, <2>1, LeastNatural
<1>3. k \in Nat /\ k \notin T
  BY <1>2
<1>4. k # 0
  BY <1>3
<1>5. k - 1 \in Nat /\ ~(k <= k - 1) /\ (k - 1) + 1 = k
  BY <1>3, <1>4
<1>6. k - 1 \in T
  BY <1>2, <1>5
<1> QED BY <1>3, <1>5, <1>6

\* The same up to a bound.
LEMMA Climb ==
    ASSUME NEW N \in Nat, NEW T, 0 \in T, \A k \in 1 .. N : k - 1 \in T => k \in T
    PROVE  \A k \in 0 .. N : k \in T
<1> DEFINE U == { k \in Nat : k <= N => k \in T }
<1>1. 0 \in U
  OBVIOUS
<1>2. ASSUME NEW k \in Nat, k \in U PROVE k + 1 \in U
  <2>1. SUFFICES ASSUME k + 1 <= N PROVE k + 1 \in T
    OBVIOUS
  <2>2. k \in T /\ k + 1 \in 1 .. N /\ (k + 1) - 1 = k
    BY <1>2, <2>1
  <2> QED BY <2>2
<1>3. \A k \in Nat : k \in U
  <2> HIDE DEF U
  <2> QED BY <1>1, <1>2, ClimbNat
<1> QED BY <1>3

\* The part up to n of the sequence that starts at a and goes on by g.
StartsAs(f, n, a, g, S) ==
    /\ f \in [0 .. n -> S]
    /\ f[0] = a
    /\ \A k \in 0 .. (n - 1) : f[k + 1] = g[k][f[k]]

\* Every part exists, and two parts agree where both are defined.
LEMMA PartsExist ==
    ASSUME NEW S, NEW a \in S, NEW g \in [Nat -> [S -> S]]
    PROVE  \A n \in Nat : \E f : StartsAs(f, n, a, g, S)
<1> DEFINE T == { n \in Nat : \E f : StartsAs(f, n, a, g, S) }
<1>1. 0 \in T
  <2>1. StartsAs([k \in 0 .. 0 |-> a], 0, a, g, S)
    BY DEF StartsAs
  <2> QED BY <2>1
<1>2. ASSUME NEW n \in Nat, n \in T PROVE n + 1 \in T
  <2>1. PICK f : StartsAs(f, n, a, g, S)
    BY <1>2
  <2>2. /\ f \in [0 .. n -> S] /\ f[0] = a
        /\ \A k \in 0 .. (n - 1) : f[k + 1] = g[k][f[k]]
    BY <2>1 DEF StartsAs
  <2>3. g[n] \in [S -> S] /\ f[n] \in S
    BY <2>2
  <2>4. g[n][f[n]] \in S
    BY <2>3
  <2> DEFINE h == [k \in 0 .. (n + 1) |-> IF k = n + 1 THEN g[n][f[n]] ELSE f[k]]
  <2>5. h \in [0 .. (n + 1) -> S]
    BY <2>2, <2>4
  <2>6. h[0] = a
    BY <2>2
  <2>7. ASSUME NEW k \in 0 .. ((n + 1) - 1) PROVE h[k + 1] = g[k][h[k]]
    <3>1. h[k] = f[k]
      OBVIOUS
    <3>2. CASE k = n
      BY <3>1, <3>2
    <3>3. CASE k # n
      <4>1. k \in 0 .. (n - 1) /\ h[k + 1] = f[k + 1]
        BY <3>3
      <4> QED BY <2>2, <3>1, <4>1
    <3> QED BY <3>2, <3>3
  <2>8. StartsAs(h, n + 1, a, g, S)
    <3> HIDE DEF h
    <3> QED BY <2>5, <2>6, <2>7 DEF StartsAs
  <2> QED BY <2>8
<1>3. \A n \in Nat : n \in T
  <2> HIDE DEF T
  <2> QED BY <1>1, <1>2, ClimbNat
<1> QED BY <1>3

\* The whole sequence.
Follows(f, a, g, S) ==
    f \in [Nat -> S] /\ f[0] = a /\ \A k \in Nat : f[k + 1] = g[k][f[k]]

\* A sequence is given by its first element and its steps.
LEMMA SequenceExists ==
    ASSUME NEW S, NEW a \in S, NEW g \in [Nat -> [S -> S]]
    PROVE  \E f : Follows(f, a, g, S)
<1> DEFINE part(n) == CHOOSE f : StartsAs(f, n, a, g, S)
           F == [n \in Nat |-> part(n)[n]]
<1>1. ASSUME NEW n \in Nat
      PROVE  /\ part(n) \in [0 .. n -> S]
             /\ part(n)[0] = a
             /\ \A k \in 0 .. (n - 1) : part(n)[k + 1] = g[k][part(n)[k]]
  <2>1. StartsAs(part(n), n, a, g, S)
    BY PartsExist
  <2> HIDE DEF part
  <2> QED BY <2>1 DEF StartsAs
<1> HIDE DEF part
<1>2. ASSUME NEW n \in Nat PROVE \A k \in 0 .. n : part(n + 1)[k] = part(n)[k]
  <2> DEFINE T == { k \in 0 .. n : part(n + 1)[k] = part(n)[k] }
  <2>1. 0 \in T
    BY <1>1
  <2>2. ASSUME NEW k \in 1 .. n, k - 1 \in T PROVE k \in T
    <3>1. /\ k - 1 \in 0 .. (n - 1) /\ k - 1 \in 0 .. ((n + 1) - 1)
          /\ (k - 1) + 1 = k /\ n + 1 \in Nat
      OBVIOUS
    <3>2. part(n)[k] = g[k - 1][part(n)[k - 1]]
      BY <1>1, <3>1
    <3>3. part(n + 1)[k] = g[k - 1][part(n + 1)[k - 1]]
      BY <1>1, <3>1
    <3>4. part(n + 1)[k - 1] = part(n)[k - 1]
      BY <2>2
    <3> QED BY <3>2, <3>3, <3>4
  <2>3. \A k \in 0 .. n : k \in T
    <3> HIDE DEF T
    <3> QED BY <2>1, <2>2, Climb
  <2> QED BY <2>3
<1>3. F \in [Nat -> S]
  BY <1>1
<1>4. F[0] = a
  BY <1>1
<1>5. ASSUME NEW k \in Nat PROVE F[k + 1] = g[k][F[k]]
  <2>1. k + 1 \in Nat /\ k \in 0 .. ((k + 1) - 1) /\ k \in 0 .. k
    OBVIOUS
  <2>2. part(k + 1)[k + 1] = g[k][part(k + 1)[k]]
    BY <1>1, <2>1
  <2>3. part(k + 1)[k] = part(k)[k]
    BY <1>2, <2>1
  <2> QED BY <2>1, <2>2, <2>3
<1> HIDE DEF F
<1> QED BY <1>3, <1>4, <1>5 DEF Follows

-----------------------------------------------------------------------------
(***************************************************************************)
(* Powers of two.                                                          *)
(***************************************************************************)

\* The powers of two are defined by doubling.
LEMMA Pow2Def ==
    /\ Pow2[0] = 1
    /\ \A n \in Nat : Pow2[n + 1] = 2 * Pow2[n]
    /\ \A n \in Nat : Pow2[n] \in Nat /\ Pow2[n] >= 1
<1> DEFINE Eq(f) == f = [n \in Nat |-> IF n = 0 THEN 1 ELSE 2 * f[n - 1]]
           g == [k \in Nat |-> [x \in Nat |-> 2 * x]]
<1>1. \E f : Eq(f)
  <2>1. g \in [Nat -> [Nat -> Nat]]
    OBVIOUS
  <2>2. PICK f \in [Nat -> Nat] : f[0] = 1 /\ \A k \in Nat : f[k + 1] = g[k][f[k]]
    <3>1. 1 \in Nat
      OBVIOUS
    <3>2. \E f : Follows(f, 1, g, Nat)
      <4> HIDE DEF g
      <4> QED BY <2>1, <3>1, SequenceExists, Zenon
    <3> QED BY <3>2 DEF Follows
  <2>3. ASSUME NEW n \in Nat PROVE f[n] = IF n = 0 THEN 1 ELSE 2 * f[n - 1]
    <3>1. CASE n = 0
      BY <2>2, <3>1
    <3>2. CASE n # 0
      <4>1. n - 1 \in Nat /\ (n - 1) + 1 = n
        BY <3>2
      <4>2. f[n] = g[n - 1][f[n - 1]]
        BY <2>2, <4>1
      <4> QED BY <3>2, <4>1, <4>2
    <3> QED BY <3>1, <3>2
  <2>4. Eq(f)
    BY <2>3
  <2> QED BY <2>4
<1>2. Eq(Pow2)
  BY <1>1 DEF Pow2
<1>3. \A n \in Nat : Pow2[n] = IF n = 0 THEN 1 ELSE 2 * Pow2[n - 1]
  BY <1>2, Zenon
<1>4. Pow2[0] = 1
  BY <1>3
<1>5. \A n \in Nat : Pow2[n + 1] = 2 * Pow2[n]
  <2>1. \A n \in Nat : n + 1 \in Nat /\ n + 1 # 0 /\ (n + 1) - 1 = n
    OBVIOUS
  <2> QED BY <1>3, <2>1
<1> DEFINE T == { n \in Nat : Pow2[n] \in Nat /\ Pow2[n] >= 1 }
<1>6. 0 \in T
  BY <1>4
<1>7. \A n \in Nat : n \in T => n + 1 \in T
  BY <1>5
<1>8. \A n \in Nat : n \in T
  <2> HIDE DEF T
  <2> QED BY <1>6, <1>7, ClimbNat
<1> QED BY <1>4, <1>5, <1>8

\* A power of two is at least twice any smaller one.
LEMMA Pow2Grows ==
    ASSUME NEW m \in Nat, NEW n \in Nat, m < n
    PROVE  2 * Pow2[m] <= Pow2[n]
<1> DEFINE T == { d \in Nat : 2 * Pow2[m] <= Pow2[m + 1 + d] }
<1>1. 0 \in T
  <2>1. m + 1 + 0 = m + 1
    OBVIOUS
  <2>2. Pow2[m + 1] = 2 * Pow2[m] /\ Pow2[m] \in Nat
    BY Pow2Def
  <2> QED BY <2>1, <2>2
<1>2. ASSUME NEW d \in Nat, d \in T PROVE d + 1 \in T
  <2>1. m + 1 + (d + 1) = (m + 1 + d) + 1 /\ m + 1 + d \in Nat
    OBVIOUS
  <2>2. Pow2[(m + 1 + d) + 1] = 2 * Pow2[m + 1 + d] /\ Pow2[m + 1 + d] \in Nat
    BY <2>1, Pow2Def
  <2>3. 2 * Pow2[m] <= Pow2[m + 1 + d] /\ Pow2[m] \in Nat
    BY <1>2, Pow2Def
  <2>4. \A x, y \in Nat : 2 * x <= y => 2 * x <= 2 * y
    OBVIOUS
  <2>5. 2 * Pow2[m] <= Pow2[m + 1 + (d + 1)]
    BY <2>1, <2>2, <2>3, <2>4
  <2> QED BY <2>5
<1>3. \A d \in Nat : d \in T
  <2> HIDE DEF T
  <2> QED BY <1>1, <1>2, ClimbNat
<1>4. n - m - 1 \in Nat /\ m + 1 + (n - m - 1) = n
  OBVIOUS
<1> QED BY <1>3, <1>4

-----------------------------------------------------------------------------
(***************************************************************************)
(* The replacement tree: the ancestors of a way, level by level from its   *)
(* leaf, level 0, to the root, level Levels.                               *)
(***************************************************************************)
Anc(w) == CHOOSE u : IsUpFrom(u, w)

\* The number of ways is a power of two.
LEMMA LevelsDef == Levels \in 0 .. 8 /\ Ways = Pow2[Levels] /\ Levels <= Ways
<1>1. /\ Pow2[0] = 1 /\ Pow2[1] = 2 /\ Pow2[2] = 4 /\ Pow2[3] = 8 /\ Pow2[4] = 16
      /\ Pow2[5] = 32 /\ Pow2[6] = 64 /\ Pow2[7] = 128 /\ Pow2[8] = 256
  <2>1. /\ Pow2[0 + 1] = 2 * Pow2[0] /\ Pow2[1 + 1] = 2 * Pow2[1]
        /\ Pow2[2 + 1] = 2 * Pow2[2] /\ Pow2[3 + 1] = 2 * Pow2[3]
        /\ Pow2[4 + 1] = 2 * Pow2[4] /\ Pow2[5 + 1] = 2 * Pow2[5]
        /\ Pow2[6 + 1] = 2 * Pow2[6] /\ Pow2[7 + 1] = 2 * Pow2[7]
    BY Pow2Def
  <2> QED BY <2>1, Pow2Def
<1>2. \E k \in 0 .. 8 : Ways = Pow2[k]
  BY <1>1, WaysAssumption
<1>3. Levels \in 0 .. 8 /\ Ways = Pow2[Levels]
  BY <1>2 DEF Levels
<1>4. Levels <= Pow2[Levels]
  BY <1>1, <1>3
<1> QED BY <1>3, <1>4

\* The ancestors of a way are found by halving, and OnPath names them.
LEMMA AncDef ==
    ASSUME NEW w \in Way
    PROVE  /\ Anc(w)[0] = w + Ways
           /\ \A k \in 1 .. Ways : Anc(w)[k] = Anc(w)[k - 1] \div 2
           /\ \A k \in 0 .. Ways : Anc(w)[k] \in Nat
           /\ \A n : OnPath(n, w) <=> \E k \in 0 .. Ways : Anc(w)[k] = n
<1> USE WaysPositive
<1>w. w + Ways \in Nat
  BY DEF Way
<1> DEFINE a == w + Ways
           g == [k \in Nat |-> [x \in Nat |-> x \div 2]]
<1>1. \E f : IsUpFrom(f, w)
  <2>1. g \in [Nat -> [Nat -> Nat]]
    OBVIOUS
  <2>2. PICK f : Follows(f, a, g, Nat)
    <3> HIDE DEF g, a
    <3> QED BY <1>w, <2>1, SequenceExists, Zenon DEF a
  <2>3. f \in [Nat -> Nat] /\ f[0] = a /\ \A k \in Nat : f[k + 1] = f[k] \div 2
    BY <2>2 DEF Follows
  <2> DEFINE u == [k \in 0 .. Ways |-> f[k]]
  <2>4. ASSUME NEW k \in 0 .. Ways
        PROVE  u[k] = IF k = 0 THEN w + Ways ELSE u[k - 1] \div 2
    <3>1. CASE k = 0
      BY <2>3, <3>1
    <3>2. CASE k # 0
      <4>1. k - 1 \in Nat /\ k - 1 \in 0 .. Ways /\ (k - 1) + 1 = k
        BY <3>2
      <4>2. f[k] = f[k - 1] \div 2
        BY <2>3, <4>1
      <4> QED BY <3>2, <4>1, <4>2
    <3> QED BY <3>1, <3>2
  <2>5. IsUpFrom(u, w)
    BY <2>4 DEF IsUpFrom
  <2> QED BY <2>5
<1>2. IsUpFrom(Anc(w), w)
  BY <1>1 DEF Anc
<1>3. \A k \in 0 .. Ways :
        Anc(w)[k] = IF k = 0 THEN w + Ways ELSE Anc(w)[k - 1] \div 2
  BY <1>2, Zenon DEF IsUpFrom
<1>4. Anc(w)[0] = w + Ways
  BY <1>3
<1>5. \A k \in 1 .. Ways : Anc(w)[k] = Anc(w)[k - 1] \div 2
  BY <1>3
<1> DEFINE T == { k \in 0 .. Ways : Anc(w)[k] \in Nat }
<1>6. 0 \in T
  BY <1>4, <1>w
<1>7. ASSUME NEW k \in 1 .. Ways, k - 1 \in T PROVE k \in T
  BY <1>5, <1>7
<1>8. \A k \in 0 .. Ways : k \in T
  <2> HIDE DEF T
  <2> QED BY <1>6, <1>7, Climb
<1>9. \A n : OnPath(n, w) <=> \E k \in 0 .. Ways : Anc(w)[k] = n
  BY DEF OnPath, Anc, IsUpFrom
<1> QED BY <1>4, <1>5, <1>8, <1>9

\* The nodes on level k, by their numbers.
OnLevel(x, k) == x \in Nat /\ Pow2[Levels - k] <= x /\ x < 2 * Pow2[Levels - k]

\* No node is on two levels.
LEMMA LevelUnique ==
    ASSUME NEW x, NEW k \in 0 .. Levels, NEW j \in 0 .. Levels,
           OnLevel(x, k), OnLevel(x, j)
    PROVE  k = j
<1>l. Levels \in Nat
  BY LevelsDef
<1>1. ASSUME NEW m \in 0 .. Levels, NEW n \in 0 .. Levels, OnLevel(x, m), OnLevel(x, n), m < n
      PROVE  FALSE
  <2>1. Levels - n \in Nat /\ Levels - m \in Nat /\ Levels - n < Levels - m
    BY <1>1, <1>l
  <2>2. 2 * Pow2[Levels - n] <= Pow2[Levels - m]
    BY <2>1, Pow2Grows
  <2>3. Pow2[Levels - n] \in Nat /\ Pow2[Levels - m] \in Nat
    BY <2>1, Pow2Def
  <2> QED BY <1>1, <2>2, <2>3 DEF OnLevel
<1> QED BY <1>1, <1>l

\* A way has one ancestor on each level, and none above the root.
LEMMA AncLevel ==
    ASSUME NEW w \in Way
    PROVE  /\ \A k \in 0 .. Levels : OnLevel(Anc(w)[k], k)
           /\ \A k \in (Levels + 1) .. Ways : Anc(w)[k] = 0
<1> USE LevelsDef, WaysPositive
<1> DEFINE T == { k \in 0 .. Levels : OnLevel(Anc(w)[k], k) }
<1>1. 0 \in T
  <2>1. Levels - 0 = Levels
    OBVIOUS
  <2>2. OnLevel(w + Ways, 0)
    BY <2>1 DEF OnLevel, Way
  <2> QED BY <2>2, AncDef
<1>2. ASSUME NEW k \in 1 .. Levels, k - 1 \in T PROVE k \in T
  <2>1. Levels - k \in Nat /\ Levels - (k - 1) = (Levels - k) + 1
    OBVIOUS
  <2>2. Pow2[Levels - (k - 1)] = 2 * Pow2[Levels - k] /\ Pow2[Levels - k] \in Nat
    BY <2>1, Pow2Def
  <2>3. k \in 1 .. Ways
    OBVIOUS
  <2>4. Anc(w)[k] = Anc(w)[k - 1] \div 2
    BY <2>3, AncDef
  <2>5. OnLevel(Anc(w)[k - 1], k - 1)
    BY <1>2
  <2>6. \A x, p \in Nat : 2 * p <= x /\ x < 2 * (2 * p)
                            => (x \div 2) \in Nat /\ p <= x \div 2 /\ x \div 2 < 2 * p
    OBVIOUS
  <2>7. OnLevel(Anc(w)[k], k)
    BY <2>2, <2>4, <2>5, <2>6 DEF OnLevel
  <2> QED BY <2>7
<1>3. \A k \in 0 .. Levels : k \in T
  <2> HIDE DEF T
  <2> QED BY <1>1, <1>2, Climb
<1>4. Anc(w)[Levels] = 1
  <2>1. Levels - Levels = 0
    OBVIOUS
  <2>2. OnLevel(Anc(w)[Levels], Levels)
    BY <1>3
  <2> QED BY <2>1, <2>2, Pow2Def DEF OnLevel
<1> DEFINE U == { k \in Nat : k > Levels /\ k <= Ways => Anc(w)[k] = 0 }
<1>5. 0 \in U
  OBVIOUS
<1>6. ASSUME NEW k \in Nat, k \in U PROVE k + 1 \in U
  <2>1. SUFFICES ASSUME k + 1 > Levels, k + 1 <= Ways PROVE Anc(w)[k + 1] = 0
    OBVIOUS
  <2>2. Anc(w)[k + 1] = Anc(w)[k] \div 2
    <3>1. k + 1 \in 1 .. Ways /\ (k + 1) - 1 = k
      BY <2>1
    <3> QED BY <3>1, AncDef
  <2>3. Anc(w)[k] = 1 \/ Anc(w)[k] = 0
    <3>1. CASE k = Levels
      BY <1>4, <3>1
    <3>2. CASE k # Levels
      BY <1>6, <2>1, <3>2
    <3> QED BY <3>1, <3>2
  <2> QED BY <2>2, <2>3
<1>7. \A k \in Nat : k \in U
  <2> HIDE DEF U
  <2> QED BY <1>5, <1>6, ClimbNat
<1> QED BY <1>3, <1>7

\* From a level to the one below.
LEMMA AncChild ==
    ASSUME NEW w \in Way
    PROVE  /\ Anc(w)[0] = w + Ways /\ Anc(w)[Levels] = 1
           /\ \A k \in 1 .. Levels :
                /\ Anc(w)[k] \in Node /\ Anc(w)[k] = Anc(w)[k - 1] \div 2
                /\ \/ Anc(w)[k - 1] = 2 * Anc(w)[k]
                   \/ Anc(w)[k - 1] = 2 * Anc(w)[k] + 1
           /\ \A n : n \in Nat /\ n >= 1 =>
                (OnPath(n, w) <=> \E k \in 0 .. Levels : Anc(w)[k] = n)
<1> USE LevelsDef, WaysPositive
<1>1. Anc(w)[Levels] = 1
  <2>1. Levels - Levels = 0
    OBVIOUS
  <2>2. OnLevel(Anc(w)[Levels], Levels)
    BY AncLevel
  <2> QED BY <2>1, <2>2, Pow2Def DEF OnLevel
<1>2. ASSUME NEW k \in 1 .. Levels
      PROVE  /\ Anc(w)[k] \in Node /\ Anc(w)[k] = Anc(w)[k - 1] \div 2
             /\ \/ Anc(w)[k - 1] = 2 * Anc(w)[k]
                \/ Anc(w)[k - 1] = 2 * Anc(w)[k] + 1
  <2>1. k \in 1 .. Ways /\ k - 1 \in 0 .. Ways /\ Levels - k \in Nat /\ Levels - k < Levels
    OBVIOUS
  <2>2. Anc(w)[k] = Anc(w)[k - 1] \div 2 /\ Anc(w)[k - 1] \in Nat
    BY <2>1, AncDef
  <2>3. OnLevel(Anc(w)[k], k)
    BY AncLevel
  <2>4. 2 * Pow2[Levels - k] <= Ways /\ Pow2[Levels - k] \in Nat /\ Pow2[Levels - k] >= 1
    BY <2>1, Pow2Grows, Pow2Def
  <2>5. Anc(w)[k] \in Node
    BY <2>3, <2>4 DEF OnLevel, Node
  <2>6. \A x \in Nat : x = 2 * (x \div 2) \/ x = 2 * (x \div 2) + 1
    OBVIOUS
  <2> QED BY <2>2, <2>5, <2>6
<1>3. ASSUME NEW n \in Nat, n >= 1
      PROVE  OnPath(n, w) <=> \E k \in 0 .. Levels : Anc(w)[k] = n
  <2>1. ASSUME NEW k \in 0 .. Ways, Anc(w)[k] = n PROVE k \in 0 .. Levels
    <3>1. ~(k \in (Levels + 1) .. Ways)
      BY <1>3, <2>1, AncLevel
    <3> QED BY <3>1
  <2>2. \A k \in 0 .. Levels : k \in 0 .. Ways
    OBVIOUS
  <2> QED BY <2>1, <2>2, AncDef
<1> QED BY <1>1, <1>2, <1>3, AncDef

\* The walk of victim() goes through the ancestors of the victim: at each of
\* them the bit names the next one down.
LEMMA VictimFollowed ==
    ASSUME NEW bits \in PlruBits
    PROVE  LET u == Anc(victim(bits))
           IN  \A k \in 1 .. Levels : u[k - 1] = 2 * u[k] + bits[u[k]]
<1> USE LevelsDef, WaysPositive
<1> DEFINE f == CHOOSE f : IsLeafOf(f, bits)
           w == victim(bits)
           u == Anc(w)
<1>1. IsLeafOf(f, bits) /\ f \in [Tree -> Ways .. (2 * Ways - 1)]
  BY LeafDefined
<1>2. w \in Way /\ w = f[1] - Ways
  BY VictimIsWay, VictimIsLeaf
<1> HIDE DEF f, w
<1>3. f[1] = w + Ways /\ w + Ways \in Nat
  <2>1. f[1] \in Int
    BY <1>1 DEF Tree
  <2> QED BY <1>2, <2>1 DEF Way
<1>4. \A n \in Tree : f[n] = IF n >= Ways THEN n ELSE f[2 * n + bits[n]]
  BY <1>1, Zenon DEF IsLeafOf
<1>5. ASSUME NEW n \in Node
      PROVE  bits[n] \in {0, 1} /\ 2 * n + bits[n] \in Tree /\ n \in Tree /\ n < Ways
  <2>1. bits[n] = 0 \/ bits[n] = 1
    BY DEF PlruBits
  <2> QED BY <2>1 DEF Node, Tree
<1>6. /\ u[0] = w + Ways /\ u[Levels] = 1
      /\ \A k \in 1 .. Levels :
           /\ u[k] \in Node /\ u[k] = u[k - 1] \div 2
           /\ u[k - 1] = 2 * u[k] \/ u[k - 1] = 2 * u[k] + 1
      /\ \A k \in 0 .. Levels : OnLevel(u[k], k)
  BY <1>2, AncChild, AncLevel
<1> HIDE DEF u
\* Only ancestors lead to the victim.
<1> DEFINE T == { j \in Nat : /\ j < 2 * Ways - 1
                              /\ f[2 * Ways - 1 - j] = w + Ways
                              /\ ~\E k \in 0 .. Levels : u[k] = 2 * Ways - 1 - j }
<1>7. T = {}
  <2>1. SUFFICES ASSUME T # {} PROVE FALSE
    OBVIOUS
  <2>2. PICK j \in T : \A y \in T : j <= y
    <3>1. T \in SUBSET Nat
      OBVIOUS
    <3> QED BY <2>1, <3>1, LeastNatural
  <2> DEFINE n == 2 * Ways - 1 - j
  <2>3. /\ j \in Nat /\ n \in Tree /\ n \in Nat /\ f[n] = w + Ways
        /\ ~\E k \in 0 .. Levels : u[k] = n
    BY <2>2 DEF Tree
  <2>4. n < Ways
    <3>1. SUFFICES ASSUME n >= Ways PROVE FALSE
      BY <2>3
    <3>2. n = w + Ways
      BY <1>4, <2>3, <3>1
    <3>3. 0 \in 0 .. Levels
      OBVIOUS
    <3> QED BY <1>6, <2>3, <3>2, <3>3
  <2>5. n \in Node /\ f[n] = f[2 * n + bits[n]]
    BY <1>4, <2>3, <2>4 DEF Tree, Node
  <2>6. bits[n] \in {0, 1} /\ 2 * n + bits[n] \in Tree /\ 2 * n + bits[n] > n
    BY <1>5, <2>3, <2>5 DEF Node
  <2> DEFINE i == 2 * Ways - 1 - (2 * n + bits[n])
  <2>7. i \in Nat /\ i < j /\ i < 2 * Ways - 1 /\ 2 * Ways - 1 - i = 2 * n + bits[n]
    BY <2>3, <2>6 DEF Tree
  <2>8. i \notin T
    BY <2>2, <2>3, <2>7
  <2>9. PICK k \in 0 .. Levels : u[k] = 2 * n + bits[n]
    BY <2>3, <2>5, <2>7, <2>8
  <2>10. k # Levels
    BY <1>6, <2>3, <2>5, <2>6, <2>9 DEF Node
  <2>11. k + 1 \in 1 .. Levels /\ (k + 1) - 1 = k /\ k + 1 \in 0 .. Levels
    BY <2>10
  <2>12. u[k + 1] = u[k] \div 2
    BY <1>6, <2>11
  <2>13. u[k + 1] = n
    BY <2>3, <2>6, <2>9, <2>12
  <2> QED BY <2>3, <2>11, <2>13
<1>8. ASSUME NEW n \in Tree, f[n] = w + Ways PROVE \E k \in 0 .. Levels : u[k] = n
  <2> DEFINE j == 2 * Ways - 1 - n
  <2>1. j \in Nat /\ j < 2 * Ways - 1 /\ 2 * Ways - 1 - j = n
    BY DEF Tree
  <2> HIDE DEF j
  <2>2. j \notin T
    BY <1>7
  <2> QED BY <1>8, <2>1, <2>2
<1> HIDE DEF T
\* Down from an ancestor that leads to the victim.
<1>9. ASSUME NEW k \in 1 .. Levels, f[u[k]] = w + Ways
      PROVE  u[k - 1] = 2 * u[k] + bits[u[k]] /\ f[u[k - 1]] = w + Ways
  <2> DEFINE n == u[k]
             c == 2 * n + bits[n]
  <2>1. n \in Node /\ bits[n] \in {0, 1} /\ c \in Tree /\ n \in Tree /\ n < Ways
    BY <1>5, <1>6
  <2>2. f[c] = w + Ways
    BY <1>4, <1>9, <2>1 DEF Node
  <2>3. PICK m \in 0 .. Levels : u[m] = c
    BY <1>8, <2>1, <2>2
  <2>4. k - 1 \in 0 .. Levels /\ k \in 0 .. Levels /\ Levels - k \in Nat
        /\ Levels - (k - 1) = (Levels - k) + 1
    OBVIOUS
  <2>5. OnLevel(c, k - 1)
    <3>1. OnLevel(n, k)
      BY <1>6, <2>4
    <3>2. Pow2[Levels - (k - 1)] = 2 * Pow2[Levels - k] /\ Pow2[Levels - k] \in Nat
      BY <2>4, Pow2Def
    <3>3. n \in Nat /\ c \in Nat
      BY <2>1 DEF Node
    <3> QED BY <2>1, <3>1, <3>2, <3>3 DEF OnLevel
  <2>6. OnLevel(u[m], m)
    BY <1>6
  <2>7. m = k - 1
    BY <2>3, <2>4, <2>5, <2>6, LevelUnique
  <2> QED BY <2>2, <2>3, <2>7
<1> DEFINE S == { j \in 0 .. Levels : f[u[Levels - j]] = w + Ways }
<1>10. 0 \in S
  BY <1>3, <1>6
<1>11. ASSUME NEW j \in 1 .. Levels, j - 1 \in S PROVE j \in S
  <2>1. /\ Levels - (j - 1) \in 1 .. Levels
        /\ (Levels - (j - 1)) - 1 = Levels - j
    OBVIOUS
  <2>2. f[u[Levels - (j - 1)]] = w + Ways
    BY <1>11
  <2>3. f[u[Levels - j]] = w + Ways
    BY <1>9, <2>1, <2>2
  <2> QED BY <2>3
<1>12. \A j \in 0 .. Levels : j \in S
  <2> HIDE DEF S
  <2> QED BY <1>10, <1>11, Climb
<1>13. ASSUME NEW k \in 1 .. Levels PROVE u[k - 1] = 2 * u[k] + bits[u[k]]
  <2>1. Levels - k \in 0 .. Levels /\ Levels - (Levels - k) = k
    OBVIOUS
  <2>2. f[u[k]] = w + Ways
    BY <1>12, <2>1
  <2> QED BY <1>9, <2>2
<1> QED BY <1>13 DEF u, w

\* touch() turns the bit of every ancestor away from the way, and leaves the
\* bits of the other nodes.
LEMMA TouchEffect ==
    ASSUME NEW bits \in PlruBits, NEW w \in Way
    PROVE  /\ \A k \in 1 .. Levels :
                touch(bits, w)[Anc(w)[k]] = 1 - (Anc(w)[k - 1] - 2 * Anc(w)[k])
           /\ \A n \in Node : (\A k \in 1 .. Levels : Anc(w)[k] # n)
                                => touch(bits, w)[n] = bits[n]
<1> USE LevelsDef, WaysPositive
<1> DEFINE u == Anc(w)
<1>1. \A n \in Node : touch(bits, w)[n] = IF OnPath(2 * n, w) THEN 1
                                          ELSE IF OnPath(2 * n + 1, w) THEN 0 ELSE bits[n]
  BY DEF touch
<1>2. /\ u[Levels] = 1
      /\ \A k \in 1 .. Levels :
           /\ u[k] \in Node /\ u[k] = u[k - 1] \div 2
           /\ u[k - 1] = 2 * u[k] \/ u[k - 1] = 2 * u[k] + 1
      /\ \A n : n \in Nat /\ n >= 1 => (OnPath(n, w) <=> \E k \in 0 .. Levels : u[k] = n)
      /\ \A k \in 0 .. Levels : OnLevel(u[k], k)
  BY AncChild, AncLevel
<1> HIDE DEF u
<1>3. ASSUME NEW k \in 1 .. Levels
      PROVE  touch(bits, w)[u[k]] = 1 - (u[k - 1] - 2 * u[k])
  <2> DEFINE n == u[k]
  <2>1. n \in Node /\ n \in Nat /\ n >= 1 /\ (u[k - 1] = 2 * n \/ u[k - 1] = 2 * n + 1)
    BY <1>2 DEF Node
  <2>2. k - 1 \in 0 .. Levels
    OBVIOUS
  <2>3. OnPath(u[k - 1], w)
    <3>1. u[k - 1] \in Nat /\ u[k - 1] >= 1
      BY <2>1
    <3>2. \E j \in 0 .. Levels : u[j] = u[k - 1]
      BY <2>2
    <3> QED BY <1>2, <3>1, <3>2
  <2>4. CASE u[k - 1] = 2 * n
    BY <1>1, <2>1, <2>3, <2>4
  <2>5. CASE u[k - 1] = 2 * n + 1
    <3>1. ~OnPath(2 * n, w)
      <4>1. SUFFICES ASSUME OnPath(2 * n, w) PROVE FALSE
        OBVIOUS
      <4>2. PICK j \in 0 .. Levels : u[j] = 2 * n
        BY <1>2, <2>1, <4>1
      <4>3. OnLevel(2 * n, j) /\ OnLevel(2 * n + 1, k - 1)
        BY <1>2, <2>2, <2>5, <4>2
      <4>4. OnLevel(2 * n, k - 1)
        <5>1. Levels - k \in Nat /\ Levels - (k - 1) = (Levels - k) + 1
          OBVIOUS
        <5>2. Pow2[Levels - (k - 1)] = 2 * Pow2[Levels - k] /\ Pow2[Levels - k] \in Nat
          BY <5>1, Pow2Def
        <5> QED BY <2>1, <4>3, <5>2 DEF OnLevel
      <4>5. j = k - 1
        BY <2>2, <4>3, <4>4, LevelUnique
      <4> QED BY <2>1, <2>5, <4>2, <4>5
    <3> QED BY <1>1, <2>1, <2>3, <2>5, <3>1
  <2> QED BY <2>1, <2>4, <2>5
<1>4. ASSUME NEW n \in Node, \A k \in 1 .. Levels : u[k] # n
      PROVE  touch(bits, w)[n] = bits[n]
  <2>1. n \in Nat /\ n >= 1
    BY DEF Node
  <2>2. ASSUME NEW c \in {2 * n, 2 * n + 1}, OnPath(c, w) PROVE FALSE
    <3>1. c \in Nat /\ c >= 2 /\ c \div 2 = n
      BY <2>1
    <3>2. PICK k \in 0 .. Levels : u[k] = c
      BY <1>2, <2>2, <3>1
    <3>3. k # Levels
      BY <1>2, <3>1, <3>2
    <3>4. k + 1 \in 1 .. Levels /\ (k + 1) - 1 = k
      BY <3>3
    <3>5. u[k + 1] = u[k] \div 2
      BY <1>2, <3>4
    <3> QED BY <1>4, <3>1, <3>2, <3>4, <3>5
  <2> QED BY <1>1, <2>2
<1> QED BY <1>3, <1>4 DEF u

-----------------------------------------------------------------------------
(***************************************************************************)
(* How long a touched way survives.                                        *)
(***************************************************************************)

\* The levels on which the bits lead towards w.
Toward(bits, w) ==
    { k \in 1 .. Levels : Anc(w)[k - 1] = 2 * Anc(w)[k] + bits[Anc(w)[k]] }

\* They are finitely many.
LEMMA TowardFinite ==
    ASSUME NEW bits, NEW w
    PROVE  IsFiniteSet(Toward(bits, w)) /\ Cardinality(Toward(bits, w)) \in Nat
<1>1. IsFiniteSet(1 .. Levels)
  BY FS_Interval, LevelsDef
<1>2. Toward(bits, w) \in SUBSET (1 .. Levels)
  BY DEF Toward
<1>3. IsFiniteSet(Toward(bits, w))
  BY <1>1, <1>2, FS_Subset
<1> QED BY <1>3, FS_CardinalityType

\* On every level the bits lead to the victim.
LEMMA TowardVictim ==
    ASSUME NEW bits \in PlruBits
    PROVE  Cardinality(Toward(bits, victim(bits))) = Levels
<1>1. Toward(bits, victim(bits)) = 1 .. Levels
  BY VictimFollowed DEF Toward
<1>2. Cardinality(1 .. Levels) = Levels
  <2>1. 1 \in Int /\ Levels \in Int
    BY LevelsDef
  <2>2. Cardinality(1 .. Levels) = IF 1 > Levels THEN 0 ELSE Levels - 1 + 1
    BY <2>1, FS_Interval, Zenon
  <2> QED BY <2>2, LevelsDef
<1> QED BY <1>1, <1>2

\* On none do they lead to a way just touched.
LEMMA TowardTouched ==
    ASSUME NEW bits \in PlruBits, NEW w \in Way
    PROVE  Cardinality(Toward(touch(bits, w), w)) = 0
<1> DEFINE b == touch(bits, w)
           u == Anc(w)
<1>1. ASSUME NEW k \in 1 .. Levels PROVE u[k - 1] # 2 * u[k] + b[u[k]]
  <2>1. b[u[k]] = 1 - (u[k - 1] - 2 * u[k])
    BY TouchEffect
  <2>2. u[k] \in Node /\ (u[k - 1] = 2 * u[k] \/ u[k - 1] = 2 * u[k] + 1)
    BY AncChild
  <2> HIDE DEF u, b
  <2> QED BY <2>1, <2>2, WaysPositive DEF Node
<1>2. Toward(b, w) = {}
  BY <1>1 DEF Toward
<1> QED BY <1>2, FS_EmptySet

\* Two ways that meet on a level have the same ancestors from there up.
LEMMA AncMeet ==
    ASSUME NEW v \in Way, NEW w \in Way, NEW k \in 0 .. Levels, Anc(v)[k] = Anc(w)[k],
           NEW j \in k .. Levels
    PROVE  Anc(v)[j] = Anc(w)[j]
<1> USE LevelsDef
<1> DEFINE N == Levels - k
           T == { d \in 0 .. N : Anc(v)[k + d] = Anc(w)[k + d] }
<1>1. N \in Nat /\ k \in Nat
  OBVIOUS
<1>2. 0 \in T
  OBVIOUS
<1>3. ASSUME NEW d \in 1 .. N, d - 1 \in T PROVE d \in T
  <2>1. k + d \in 1 .. Levels /\ (k + d) - 1 = k + (d - 1)
    OBVIOUS
  <2>2. /\ Anc(v)[k + d] = Anc(v)[k + (d - 1)] \div 2
        /\ Anc(w)[k + d] = Anc(w)[k + (d - 1)] \div 2
    BY <2>1, AncChild
  <2> QED BY <1>3, <2>2
<1>4. \A d \in 0 .. N : d \in T
  <2> HIDE DEF N, T
  <2> QED BY <1>1, <1>2, <1>3, Climb
<1>5. j - k \in 0 .. N /\ k + (j - k) = j
  OBVIOUS
<1> QED BY <1>4, <1>5

\* One access turns the bits towards another way on one level at most: the
\* one on which the two ways part.
LEMMA TowardOther ==
    ASSUME NEW bits \in PlruBits, NEW v \in Way, NEW w \in Way
    PROVE  Cardinality(Toward(touch(bits, v), w)) <= Cardinality(Toward(bits, w)) + 1
<1> USE LevelsDef
<1> DEFINE b == touch(bits, v)
           Old == Toward(bits, w)
           New == Toward(b, w)
\* A level that is new is one on which the ways part.
<1>1. ASSUME NEW k \in New, k \notin Old
      PROVE  /\ k \in 1 .. Levels
             /\ Anc(v)[k] = Anc(w)[k]
             /\ Anc(v)[k - 1] # Anc(w)[k - 1]
  <2> DEFINE n == Anc(w)[k]
  <2>1. /\ k \in 1 .. Levels /\ Anc(w)[k - 1] = 2 * n + b[n]
        /\ Anc(w)[k - 1] # 2 * n + bits[n]
    BY <1>1 DEF Toward
  <2>2. n \in Node /\ k \in 0 .. Levels
    BY <2>1, AncChild
  <2>3. b[n] # bits[n]
    BY <2>1
  <2>4. PICK j \in 1 .. Levels : Anc(v)[j] = n
    BY <2>2, <2>3, TouchEffect
  <2>5. j \in 0 .. Levels
    OBVIOUS
  <2>6. OnLevel(n, j) /\ OnLevel(n, k)
    BY <2>2, <2>4, <2>5, AncLevel
  <2>7. j = k
    BY <2>2, <2>5, <2>6, LevelUnique
  <2>8. b[n] = 1 - (Anc(v)[k - 1] - 2 * n)
    BY <2>1, <2>4, <2>7, TouchEffect
  <2>9. Anc(v)[k - 1] = 2 * n \/ Anc(v)[k - 1] = 2 * n + 1
    BY <2>1, <2>4, <2>7, AncChild
  <2>10. n \in Nat
    BY <2>2, WaysPositive DEF Node
  <2> HIDE DEF n, b
  <2>11. Anc(v)[k - 1] # Anc(w)[k - 1]
    BY <2>1, <2>8, <2>9, <2>10
  <2> QED BY <2>1, <2>4, <2>7, <2>11 DEF n
\* They part only once.
<1>2. ASSUME NEW j \in New, j \notin Old, NEW k \in New, k \notin Old, j < k PROVE FALSE
  <2>1. /\ j \in 1 .. Levels /\ Anc(v)[j] = Anc(w)[j]
        /\ k \in 1 .. Levels /\ Anc(v)[k - 1] # Anc(w)[k - 1]
    BY <1>1, <1>2
  <2>2. j \in 0 .. Levels /\ k - 1 \in j .. Levels
    BY <1>2, <2>1
  <2> QED BY <2>1, <2>2, AncMeet
<1>3. New \subseteq 1 .. Levels
  BY DEF Toward
<1>4. \E d : New \subseteq Old \cup {d}
  <2>1. CASE New \subseteq Old
    BY <2>1
  <2>2. CASE ~(New \subseteq Old)
    <3>1. PICK d \in New : d \notin Old
      BY <2>2
    <3>2. ASSUME NEW k \in New, k \notin Old PROVE k = d
      <4>1. k \in Int /\ d \in Int
        BY <1>3
      <4>2. ~(k < d) /\ ~(d < k)
        BY <1>2, <3>1, <3>2
      <4> QED BY <4>1, <4>2
    <3> QED BY <3>1, <3>2
  <2> QED BY <2>1, <2>2
<1>5. PICK d : New \subseteq Old \cup {d}
  BY <1>4
<1>6. /\ IsFiniteSet(Old) /\ Cardinality(Old) \in Nat
      /\ IsFiniteSet(New) /\ Cardinality(New) \in Nat
  BY TowardFinite
<1> HIDE DEF Old, New
<1>7. /\ IsFiniteSet(Old \cup {d})
      /\ Cardinality(Old \cup {d}) = IF d \in Old THEN Cardinality(Old) ELSE Cardinality(Old) + 1
  BY <1>6, FS_AddElement
<1>8. New \in SUBSET (Old \cup {d})
  BY <1>5
<1>9. Cardinality(New) <= Cardinality(Old \cup {d})
  BY <1>7, <1>8, FS_Subset
<1>10. Cardinality(New) <= Cardinality(Old) + 1
  BY <1>6, <1>7, <1>9
<1> QED BY <1>10 DEF Old, New

\* What makes it an invariant: of the way touched i accesses ago, less than
\* i levels lead to it.
PlruInv ==
    unit = "plru" =>
        /\ input.bits \in PlruBits
        /\ input.recent \in Seq(Way)
        /\ Len(input.recent) <= Levels
        /\ \A i \in 1 .. Len(input.recent) :
             Cardinality(Toward(input.bits, input.recent[i])) <= i - 1

\* It holds of a new set, and every access keeps it.
LEMMA PlruInvHolds == Spec => []PlruInv
<1> USE LevelsDef
<1>1. Init => PlruInv
  <2> SUFFICES ASSUME Init, unit = "plru"
               PROVE  /\ input.bits \in PlruBits
                      /\ input.recent \in Seq(Way)
                      /\ Len(input.recent) <= Levels
                      /\ \A i \in 1 .. Len(input.recent) :
                           Cardinality(Toward(input.bits, input.recent[i])) <= i - 1
    BY DEF PlruInv
  <2>1. input.bits = PlruInit /\ input.recent = <<>>
    BY DEF Init
  <2> QED BY <2>1, InitBits
<1>2. PlruInv /\ [Next]_vars => PlruInv'
  <2> SUFFICES ASSUME PlruInv, [Next]_vars PROVE PlruInv'
    OBVIOUS
  <2>1. CASE UNCHANGED vars
    BY <2>1 DEF PlruInv, vars
  <2>2. ASSUME NEW w \in Way, Touch(w) PROVE PlruInv'
    <3> DEFINE bits == input.bits
               old == input.recent
               r == <<w>> \o old
               new == IF Len(r) <= Levels THEN r ELSE SubSeq(r, 1, Levels)
    <3>1. /\ unit = "plru" /\ unit' = "plru"
          /\ input'.bits = touch(bits, w) /\ input'.recent = new
      BY <2>2 DEF Touch
    <3>2. /\ bits \in PlruBits /\ old \in Seq(Way) /\ Len(old) <= Levels
          /\ \A i \in 1 .. Len(old) : Cardinality(Toward(bits, old[i])) <= i - 1
      BY <3>1 DEF PlruInv
    <3> HIDE DEF bits, old
    <3>3. touch(bits, w) \in PlruBits
      BY <3>2, TouchType
    <3>4. /\ r \in Seq(Way) /\ Len(r) = Len(old) + 1 /\ Len(old) \in Nat
          /\ r[1] = w /\ \A i \in 2 .. Len(r) : r[i] = old[i - 1]
      BY <3>2
    <3> HIDE DEF r
    <3>5. /\ new \in Seq(Way) /\ Len(new) <= Levels /\ Len(new) <= Len(r)
          /\ \A i \in 1 .. Len(new) : new[i] = r[i]
      <4>1. CASE Len(r) <= Levels
        BY <3>4, <4>1
      <4>2. CASE ~(Len(r) <= Levels)
        BY <3>4, <4>2
      <4> QED BY <4>1, <4>2
    <3> HIDE DEF new
    <3>6. ASSUME NEW i \in 1 .. Len(new)
          PROVE  Cardinality(Toward(touch(bits, w), new[i])) <= i - 1
      <4>0. Len(new) \in Nat /\ i \in 1 .. Len(r) /\ new[i] = r[i]
        BY <3>4, <3>5
      <4>1. CASE i = 1
        BY <3>2, <3>4, <4>0, <4>1, TowardTouched
      <4>2. CASE i # 1
        <5>1. i \in 2 .. Len(r) /\ i - 1 \in 1 .. Len(old)
          BY <3>4, <4>0, <4>2
        <5>2. new[i] = old[i - 1] /\ old[i - 1] \in Way
          BY <3>2, <3>4, <4>0, <5>1
        <5>3. Cardinality(Toward(bits, old[i - 1])) <= (i - 1) - 1
          BY <3>2, <5>1
        <5>4. Cardinality(Toward(touch(bits, w), old[i - 1]))
                <= Cardinality(Toward(bits, old[i - 1])) + 1
          BY <3>2, <5>2, TowardOther
        <5>5. /\ Cardinality(Toward(bits, old[i - 1])) \in Nat
              /\ Cardinality(Toward(touch(bits, w), old[i - 1])) \in Nat
          BY TowardFinite
        <5> QED BY <5>1, <5>2, <5>3, <5>4, <5>5
      <4> QED BY <4>1, <4>2
    <3> QED BY <3>1, <3>3, <3>5, <3>6 DEF PlruInv
  <2> QED BY <2>1, <2>2 DEF Next
<1> QED BY <1>1, <1>2, PTL DEF Spec

\* Whatever the order of the accesses to a set, the victim of TreePlru is
\* never one of the last log2(Ways) ways passed to touch().
THEOREM RecentWaysSurvive == Spec => []RecentSurvive
<1> USE LevelsDef
<1>1. PlruInv => RecentSurvive
  <2> SUFFICES ASSUME PlruInv, unit = "plru", NEW i \in DOMAIN input.recent,
                      victim(input.bits) = input.recent[i]
               PROVE  FALSE
    BY DEF RecentSurvive
  <2>1. /\ input.bits \in PlruBits /\ input.recent \in Seq(Way)
        /\ Len(input.recent) <= Levels
        /\ \A j \in 1 .. Len(input.recent) :
             Cardinality(Toward(input.bits, input.recent[j])) <= j - 1
    BY DEF PlruInv
  <2>2. i \in 1 .. Len(input.recent) /\ Len(input.recent) \in Nat
    BY <2>1
  <2>3. Cardinality(Toward(input.bits, input.recent[i])) = Levels
    BY <2>1, TowardVictim
  <2> QED BY <2>1, <2>2, <2>3
<1> QED BY <1>1, PlruInvHolds, PTL

-----------------------------------------------------------------------------
(***************************************************************************)
(* A run of misses, each filling the way the last state named.             *)
(***************************************************************************)
Misses(F) ==
    /\ F \in [0 .. Ways -> PlruBits]
    /\ \A n \in 0 .. (Ways - 1) : F[n + 1] = touch(F[n], victim(F[n]))

\* The ancestor on level k of the victim of the nth miss.
At(F, n, k) == Anc(victim(F[n]))[k]

\* A miss turns the bits of the ancestors of its victim around, and leaves
\* the others.
LEMMA MissFlips ==
    ASSUME NEW F, Misses(F), NEW n \in 0 .. (Ways - 1), NEW k \in 1 .. Levels
    PROVE  /\ At(F, n, k) \in Node /\ OnLevel(At(F, n, k), k)
           /\ At(F, n, k - 1) = 2 * At(F, n, k) + F[n][At(F, n, k)]
           /\ F[n][At(F, n, k)] \in {0, 1}
           /\ F[n + 1][At(F, n, k)] = 1 - F[n][At(F, n, k)]
           /\ \A y \in Node : OnLevel(y, k) /\ y # At(F, n, k) => F[n + 1][y] = F[n][y]
<1> USE LevelsDef, WaysPositive
<1> DEFINE b == F[n]
           w == victim(b)
           x == Anc(w)[k]
<1>1. b \in PlruBits /\ F[n + 1] = touch(b, w)
  BY DEF Misses
<1>2. w \in Way
  BY <1>1, VictimIsWay
<1>3. k \in 0 .. Levels
  OBVIOUS
<1> HIDE DEF b
<1>4. x \in Node /\ OnLevel(x, k)
  BY <1>2, <1>3, AncChild, AncLevel
<1>5. Anc(w)[k - 1] = 2 * x + b[x]
  BY <1>1, VictimFollowed
<1>6. b[x] \in {0, 1}
  BY <1>1, <1>4 DEF PlruBits
<1>7. touch(b, w)[x] = 1 - (Anc(w)[k - 1] - 2 * x)
  BY <1>1, <1>2, TouchEffect
<1>8. ASSUME NEW y \in Node, OnLevel(y, k), y # x PROVE touch(b, w)[y] = b[y]
  <2>1. ASSUME NEW j \in 1 .. Levels, Anc(w)[j] = y PROVE FALSE
    <3>1. j \in 0 .. Levels
      OBVIOUS
    <3>2. OnLevel(y, j)
      BY <1>2, <2>1, <3>1, AncLevel
    <3>3. j = k
      BY <1>3, <1>8, <3>1, <3>2, LevelUnique
    <3> QED BY <1>8, <2>1, <3>3
  <2> QED BY <1>1, <1>2, <2>1, TouchEffect
<1>9. x \in Nat
  BY <1>4 DEF Node
<1> HIDE DEF x, w
<1>10. touch(b, w)[x] = 1 - b[x]
  BY <1>5, <1>6, <1>7, <1>9
<1> QED BY <1>1, <1>4, <1>5, <1>6, <1>8, <1>10 DEF At, b, w, x

\* The bit of a node stays while the misses pass it by.
LEMMA MissesKeep ==
    ASSUME NEW F, Misses(F), NEW k \in 1 .. Levels, NEW y \in Node, OnLevel(y, k),
           NEW n \in Nat, NEW d \in Nat, n + d <= Ways,
           \A i \in n .. (n + d - 1) : At(F, i, k) # y
    PROVE  F[n + d][y] = F[n][y]
<1> USE WaysPositive
<1> DEFINE T == { e \in 0 .. d : F[n + e][y] = F[n][y] }
<1>1. 0 \in T
  OBVIOUS
<1>2. ASSUME NEW e \in 1 .. d, e - 1 \in T PROVE e \in T
  <2> DEFINE i == n + (e - 1)
  <2>1. i \in 0 .. (Ways - 1) /\ i + 1 = n + e /\ i \in n .. (n + d - 1)
    OBVIOUS
  <2>2. F[i][y] = F[n][y] /\ At(F, i, k) # y
    BY <1>2, <2>1
  <2> HIDE DEF i
  <2>3. F[i + 1][y] = F[i][y]
    BY <2>1, <2>2, MissFlips
  <2> QED BY <2>1, <2>2, <2>3
<1>3. \A e \in 0 .. d : e \in T
  <2> HIDE DEF T
  <2> QED BY <1>1, <1>2, Climb
<1> QED BY <1>3

\* On level k, the misses go round: they are back at a node after D of them,
\* and not before.
Rounds(F, k, D) ==
    /\ \A n \in Nat : n + D < Ways => At(F, n + D, k) = At(F, n, k)
    /\ \A n, m \in Nat : n < m /\ m < n + D /\ m < Ways => At(F, m, k) # At(F, n, k)

\* Coming back to a node, they find its bit turned around.
LEMMA RoundFlips ==
    ASSUME NEW F, Misses(F), NEW k \in 1 .. Levels, NEW D \in Nat, D >= 1,
           Rounds(F, k, D), NEW n \in Nat, n + D < Ways
    PROVE  /\ At(F, n + D, k) = At(F, n, k)
           /\ F[n + D][At(F, n, k)] = 1 - F[n][At(F, n, k)]
           /\ F[n][At(F, n, k)] \in {0, 1}
<1> USE WaysPositive
<1> DEFINE x == At(F, n, k)
<1>1. n \in 0 .. (Ways - 1)
  OBVIOUS
<1>2. /\ x \in Node /\ OnLevel(x, k) /\ F[n][x] \in {0, 1} /\ F[n + 1][x] = 1 - F[n][x]
  BY <1>1, MissFlips
<1> DEFINE p == n + 1
           e == D - 1
<1>3. p \in Nat /\ e \in Nat /\ p + e = n + D /\ p + e <= Ways
  OBVIOUS
<1>4. ASSUME NEW i \in p .. (p + e - 1) PROVE At(F, i, k) # x
  <2>1. i \in Nat /\ n < i /\ i < n + D /\ i < Ways
    OBVIOUS
  <2> QED BY <2>1 DEF Rounds
<1> HIDE DEF x, p, e
<1>5. F[p + e][x] = F[p][x]
  BY <1>2, <1>3, <1>4, MissesKeep
<1>6. At(F, n + D, k) = x
  BY DEF Rounds, x
<1> QED BY <1>2, <1>3, <1>5, <1>6 DEF x, p

\* One level down the round takes twice as many.
LEMMA RoundsDouble ==
    ASSUME NEW F, Misses(F), NEW k \in 1 .. Levels, NEW D \in Nat, D >= 1,
           Rounds(F, k, D)
    PROVE  Rounds(F, k - 1, 2 * D)
<1> USE WaysPositive
<1>0. ASSUME NEW n \in Nat, n < Ways
      PROVE  /\ At(F, n, k) \in Nat /\ F[n][At(F, n, k)] \in {0, 1}
             /\ At(F, n, k - 1) = 2 * At(F, n, k) + F[n][At(F, n, k)]
  <2>1. n \in 0 .. (Ways - 1)
    BY <1>0
  <2> QED BY <2>1, MissFlips DEF Node
<1>1. ASSUME NEW n \in Nat, n + 2 * D < Ways
      PROVE  At(F, n + 2 * D, k - 1) = At(F, n, k - 1)
  <2> DEFINE p == n + D
  <2>1. p \in Nat /\ p + D < Ways /\ n + D < Ways /\ p + D = n + 2 * D /\ n < Ways
    BY <1>1
  <2>2. /\ At(F, p, k) = At(F, n, k) /\ F[p][At(F, n, k)] = 1 - F[n][At(F, n, k)]
        /\ F[n][At(F, n, k)] \in {0, 1}
    BY <2>1, RoundFlips
  <2> HIDE DEF p
  <2>3. /\ At(F, p + D, k) = At(F, p, k) /\ F[p + D][At(F, p, k)] = 1 - F[p][At(F, p, k)]
    BY <2>1, RoundFlips
  <2>4. At(F, p + D, k) = At(F, n, k) /\ F[p + D][At(F, p + D, k)] = F[n][At(F, n, k)]
    BY <2>2, <2>3
  <2>5. At(F, p + D, k - 1) = 2 * At(F, p + D, k) + F[p + D][At(F, p + D, k)]
    BY <1>0, <2>1
  <2>6. At(F, n, k - 1) = 2 * At(F, n, k) + F[n][At(F, n, k)]
    BY <1>0, <2>1
  <2> QED BY <2>1, <2>4, <2>5, <2>6
<1>2. ASSUME NEW n \in Nat, NEW m \in Nat, n < m, m < n + 2 * D, m < Ways,
             At(F, m, k - 1) = At(F, n, k - 1)
      PROVE  FALSE
  <2>1. /\ At(F, n, k) \in Nat /\ F[n][At(F, n, k)] \in {0, 1}
        /\ At(F, n, k - 1) = 2 * At(F, n, k) + F[n][At(F, n, k)]
        /\ At(F, m, k) \in Nat /\ F[m][At(F, m, k)] \in {0, 1}
        /\ At(F, m, k - 1) = 2 * At(F, m, k) + F[m][At(F, m, k)]
    <3>1. n < Ways
      BY <1>2
    <3> QED BY <1>0, <1>2, <3>1
  <2>2. \A x, y \in Nat : \A b, c \in {0, 1} : 2 * x + b = 2 * y + c => x = y /\ b = c
    OBVIOUS
  <2>3. At(F, m, k) = At(F, n, k) /\ F[m][At(F, m, k)] = F[n][At(F, n, k)]
    BY <1>2, <2>1, <2>2
  <2>4. CASE m < n + D
    BY <1>2, <2>3, <2>4 DEF Rounds
  <2>5. CASE m = n + D
    <3>1. F[m][At(F, n, k)] = 1 - F[n][At(F, n, k)]
      BY <1>2, <2>5, RoundFlips
    <3> QED BY <2>1, <2>3, <3>1
  <2>6. CASE m > n + D
    <3> DEFINE p == n + D
    <3>1. p \in Nat /\ p < m /\ m < p + D /\ n + D < Ways
      BY <1>2, <2>6
    <3>2. At(F, p, k) = At(F, n, k)
      BY <3>1 DEF Rounds
    <3> HIDE DEF p
    <3> QED BY <1>2, <2>3, <3>1, <3>2 DEF Rounds
  <2> QED BY <2>4, <2>5, <2>6
<1>3. \A n \in Nat : n + 2 * D < Ways => At(F, n + 2 * D, k - 1) = At(F, n, k - 1)
  BY <1>1
<1>4. \A n, m \in Nat : n < m /\ m < n + 2 * D /\ m < Ways
                          => At(F, m, k - 1) # At(F, n, k - 1)
  BY <1>2
<1> QED BY <1>3, <1>4 DEF Rounds

\* As many misses as there are ways have as many different victims.
LEMMA MissesDiffer ==
    ASSUME NEW F, Misses(F), NEW n \in 0 .. (Ways - 1), NEW m \in 0 .. (Ways - 1), n < m
    PROVE  victim(F[n]) # victim(F[m])
<1> USE LevelsDef, WaysPositive
<1> DEFINE T == { j \in 0 .. Levels : Rounds(F, Levels - j, Pow2[j]) }
<1>w. ASSUME NEW i \in Nat, i < Ways PROVE victim(F[i]) \in Way
  <2>0. F \in [0 .. Ways -> PlruBits] /\ i \in 0 .. Ways
    <3>1. i \in 0 .. Ways
      BY <1>w
    <3> QED BY <3>1 DEF Misses
  <2>1. F[i] \in PlruBits
    BY <2>0
  <2> QED BY <2>1, VictimIsWay
<1>1. 0 \in T
  <2>1. ASSUME NEW i \in Nat, i < Ways PROVE At(F, i, Levels) = 1
    BY <1>w, <2>1, AncChild DEF At
  <2>2. Rounds(F, Levels, 1)
    <3>1. \A i \in Nat : i + 1 < Ways => At(F, i + 1, Levels) = At(F, i, Levels)
      <4>1. \A i \in Nat : i + 1 < Ways => i < Ways /\ i + 1 \in Nat
        OBVIOUS
      <4> QED BY <2>1, <4>1
    <3>2. \A i, j \in Nat : ~(i < j /\ j < i + 1)
      OBVIOUS
    <3> QED BY <3>1, <3>2 DEF Rounds
  <2>3. Levels - 0 = Levels
    OBVIOUS
  <2> QED BY <2>2, <2>3, Pow2Def
<1>2. ASSUME NEW j \in 1 .. Levels, j - 1 \in T PROVE j \in T
  <2>1. /\ Levels - (j - 1) \in 1 .. Levels /\ (Levels - (j - 1)) - 1 = Levels - j
        /\ j - 1 \in Nat /\ (j - 1) + 1 = j
    OBVIOUS
  <2>2. Pow2[j] = 2 * Pow2[j - 1] /\ Pow2[j - 1] \in Nat /\ Pow2[j - 1] >= 1
    BY <2>1, Pow2Def
  <2>3. Rounds(F, Levels - (j - 1), Pow2[j - 1])
    BY <1>2
  <2>4. Rounds(F, (Levels - (j - 1)) - 1, 2 * Pow2[j - 1])
    BY <2>1, <2>2, <2>3, RoundsDouble
  <2>5. Rounds(F, Levels - j, Pow2[j])
    BY <2>1, <2>2, <2>4
  <2> QED BY <2>5
<1>3. \A j \in 0 .. Levels : j \in T
  <2> HIDE DEF T
  <2> QED BY <1>1, <1>2, Climb
<1>4. Rounds(F, 0, Ways)
  <2>1. Levels \in T /\ Levels - Levels = 0
    BY <1>3
  <2>2. Rounds(F, Levels - Levels, Pow2[Levels])
    BY <2>1
  <2> QED BY <2>1, <2>2
<1>5. At(F, m, 0) # At(F, n, 0)
  BY <1>4 DEF Rounds
<1> QED BY <1>5 DEF At

\* So every way is among them.
LEMMA MissesCover ==
    ASSUME NEW F, Misses(F)
    PROVE  { victim(F[n]) : n \in 0 .. (Ways - 1) } = Way
<1> USE WaysPositive
<1> DEFINE f == [n \in Way |-> victim(F[n])]
<1>1. f \in [Way -> Way]
  <2>1. ASSUME NEW n \in Way PROVE victim(F[n]) \in Way
    <3>1. F[n] \in PlruBits
      BY DEF Misses, Way
    <3> QED BY <3>1, VictimIsWay
  <2> QED BY <2>1
<1>2. \A n, m \in Way : f[n] = f[m] => n = m
  <2>1. ASSUME NEW n \in Way, NEW m \in Way, f[n] = f[m] PROVE n = m
    <3>1. n \in 0 .. (Ways - 1) /\ m \in 0 .. (Ways - 1)
      BY DEF Way
    <3>2. ~(n < m) /\ ~(m < n)
      BY <2>1, <3>1, MissesDiffer
    <3> QED BY <3>1, <3>2
  <2> QED BY <2>1
<1>3. IsFiniteSet(Way)
  BY FS_Interval DEF Way
<1>4. f \in Surjection(Way, Way)
  <2> HIDE DEF f
  <2>1. f \in Injection(Way, Way)
    BY <1>1, <1>2 DEF Injection, IsInjective
  <2> QED BY <1>3, <2>1, FS_Injection
<1>5. \A w \in Way : \E n \in Way : f[n] = w
  <2> HIDE DEF f
  <2> QED BY <1>4 DEF Surjection
<1>6. \A n \in Way : f[n] \in Way
  <2> HIDE DEF f
  <2> QED BY <1>1
<1> QED BY <1>5, <1>6 DEF Way

\* From whatever state the accesses to a set lead to, Ways misses in a row
\* replace every way of it once.
THEOREM MissesReplaceEveryWay == Spec => []MissesReplaceAll
<1>1. PlruInv => MissesReplaceAll
  <2> SUFFICES ASSUME PlruInv, unit = "plru" PROVE MissesReplaceAll
    BY DEF MissesReplaceAll
  <2> DEFINE b == input.bits
             Eq(f) == f = [n \in 0 .. Ways |-> IF n = 0 THEN b
                                               ELSE touch(f[n - 1], victim(f[n - 1]))]
             g == [k \in Nat |-> [x \in PlruBits |-> touch(x, victim(x))]]
             F == CHOOSE f : Eq(f)
  <2>1. b \in PlruBits
    BY DEF PlruInv
  <2>2. \E f : Eq(f)
    <3>1. g \in [Nat -> [PlruBits -> PlruBits]]
      BY TouchType
    <3>2. PICK f : Follows(f, b, g, PlruBits)
      <4> HIDE DEF g, b
      <4> QED BY <2>1, <3>1, SequenceExists, Zenon
    <3>3. /\ f \in [Nat -> PlruBits] /\ f[0] = b
          /\ \A k \in Nat : f[k + 1] = touch(f[k], victim(f[k]))
      <4> HIDE DEF b
      <4> QED BY <3>2 DEF Follows
    <3> DEFINE h == [n \in 0 .. Ways |-> f[n]]
    <3>4. ASSUME NEW n \in 0 .. Ways
          PROVE  h[n] = IF n = 0 THEN b ELSE touch(h[n - 1], victim(h[n - 1]))
      <4> HIDE DEF b
      <4>1. CASE n = 0
        BY <3>3, <4>1, WaysPositive
      <4>2. CASE n # 0
        <5>1. n - 1 \in Nat /\ n - 1 \in 0 .. Ways /\ (n - 1) + 1 = n
          BY <4>2, WaysPositive
        <5>2. f[n] = touch(f[n - 1], victim(f[n - 1]))
          BY <3>3, <5>1
        <5> QED BY <4>2, <5>1, <5>2
      <4> QED BY <4>1, <4>2
    <3>5. Eq(h)
      <4> HIDE DEF b
      <4> QED BY <3>4
    <3> QED BY <3>5
  <2>3. Eq(F)
    BY <2>2
  <2> HIDE DEF F, b
  <2>4. \A n \in 0 .. Ways : F[n] = IF n = 0 THEN b ELSE touch(F[n - 1], victim(F[n - 1]))
    BY <2>3, Zenon
  <2>5. Misses(F)
    <3> DEFINE T == { n \in 0 .. Ways : F[n] \in PlruBits }
    <3>1. 0 \in T
      BY <2>1, <2>4, WaysPositive
    <3>2. ASSUME NEW n \in 1 .. Ways, n - 1 \in T PROVE n \in T
      <4>1. F[n] = touch(F[n - 1], victim(F[n - 1])) /\ n \in 0 .. Ways
        BY <2>4, WaysPositive
      <4>2. F[n - 1] \in PlruBits
        BY <3>2
      <4> QED BY <4>1, <4>2, TouchType
    <3>3. \A n \in 0 .. Ways : n \in T
      <4> HIDE DEF T
      <4> QED BY <3>1, <3>2, Climb, WaysPositive
    <3>4. F \in [0 .. Ways -> PlruBits]
      BY <2>3, <3>3
    <3>5. ASSUME NEW n \in 0 .. (Ways - 1) PROVE F[n + 1] = touch(F[n], victim(F[n]))
      <4>1. n + 1 \in 0 .. Ways /\ n + 1 # 0 /\ (n + 1) - 1 = n
        BY WaysPositive
      <4> QED BY <2>4, <4>1
    <3> QED BY <3>4, <3>5 DEF Misses
  <2>6. { victim(F[n]) : n \in 0 .. (Ways - 1) } = Way
    BY <2>5, MissesCover
  <2> QED BY <2>6 DEF MissesReplaceAll, F, b
<1> QED BY <1>1, PlruInvHolds, PTL

-----------------------------------------------------------------------------
(***************************************************************************)
(* The decoder.                                                            *)
(***************************************************************************)

\* The input of the decoder is a word, that of the encoder an instruction.
LEMMA DecoderInputs ==
    Spec => [](/\ unit = "decoder" => input \in InsnWord
               /\ unit = "encoder" => Legal(input))
<1> DEFINE Inv == /\ unit = "decoder" => input \in InsnWord
                  /\ unit = "encoder" => Legal(input)
<1>1. Init => Inv
  BY InputsAssumption DEF Init
<1>2. Inv /\ [Next]_vars => Inv'
  <2> SUFFICES ASSUME Inv, [Next]_vars PROVE Inv'
    OBVIOUS
  <2>1. CASE UNCHANGED vars
    BY <2>1 DEF vars
  <2>2. CASE Next
    BY <2>2 DEF Next, Touch
  <2> QED BY <2>1, <2>2
<1> QED BY <1>1, <1>2, PTL DEF Spec

\* The opcodes, as numbers.
LEMMA Opcodes ==
    /\ OPC_LUI = 55 /\ OPC_AUIPC = 23 /\ OPC_JAL = 111 /\ OPC_JALR = 103
    /\ OPC_BRANCH = 99 /\ OPC_LOAD = 3 /\ OPC_STORE = 35 /\ OPC_OP_IMM = 19
    /\ OPC_OP = 51 /\ OPC_MISC_MEM = 15 /\ OPC_SYSTEM = 115
    /\ F7_BASE = 0 /\ F7_ALT = 32
BY DEF OPC_LUI, OPC_AUIPC, OPC_JAL, OPC_JALR, OPC_BRANCH, OPC_LOAD, OPC_STORE,
       OPC_OP_IMM, OPC_OP, OPC_MISC_MEM, OPC_SYSTEM, F7_BASE, F7_ALT

\* What a word of each opcode decodes to: the operation by its funct fields.
LEMMA OpByOpcode ==
    ASSUME NEW w \in InsnWord
    PROVE  /\ w.opc = 55  => OpOf(w) = "LUI"
           /\ w.opc = 23  => OpOf(w) = "AUIPC"
           /\ w.opc = 111 => OpOf(w) = "JAL"
           /\ w.opc = 103 => OpOf(w) = IF w.f3 = 0 THEN "JALR" ELSE "ILLEGAL"
           /\ w.opc = 99  => OpOf(w) = BranchOp(w.f3)
           /\ w.opc = 3   => OpOf(w) = LoadOp(w.f3)
           /\ w.opc = 35  => OpOf(w) = StoreOp(w.f3)
           /\ w.opc = 19  => OpOf(w) = OpImmOp(w.f3, w.f7)
           /\ w.opc = 51  => OpOf(w) = OpOp(w.f3, w.f7)
           /\ w.opc \in {15, 115} => OpOf(w) = PrivilegedOp(w)
           /\ w.opc \notin {55, 23, 111, 103, 99, 3, 35, 19, 51, 15, 115}
                => OpOf(w) = "ILLEGAL"
<1>1. w.opc \in 0 .. 127
  BY DEF InsnWord
<1> QED BY <1>1, Opcodes DEF OpOf

\* A legal word has one of the eleven opcodes, and the operation is one of
\* its kind.
LEMMA LegalWords ==
    ASSUME NEW w \in InsnWord, OpOf(w) # "ILLEGAL"
    PROVE  \/ w.opc = 55  /\ OpOf(w) = "LUI"
           \/ w.opc = 23  /\ OpOf(w) = "AUIPC"
           \/ w.opc = 111 /\ OpOf(w) = "JAL"
           \/ w.opc = 103 /\ OpOf(w) = "JALR" /\ w.f3 = 0
           \/ w.opc = 99  /\ OpOf(w) \in Branches
           \/ w.opc = 3   /\ OpOf(w) \in Loads
           \/ w.opc = 35  /\ OpOf(w) \in Stores
           \/ w.opc = 19  /\ OpOf(w) \in ImmOps
           \/ w.opc = 51  /\ OpOf(w) \in RegOps
           \/ w.opc \in {15, 115} /\ OpOf(w) \in System /\ w.f3 = 0
<1>0. w.f3 \in 0 .. 7 /\ w.f7 \in 0 .. 127
  BY DEF InsnWord
<1>1. CASE w.opc \in {55, 23, 111}
  BY <1>1, OpByOpcode
<1>2. CASE w.opc = 103
  BY <1>2, OpByOpcode
<1>3. CASE w.opc = 99
  BY <1>3, OpByOpcode DEF BranchOp, Branches
<1>4. CASE w.opc = 3
  BY <1>4, OpByOpcode DEF LoadOp, Loads
<1>5. CASE w.opc = 35
  BY <1>5, OpByOpcode DEF StoreOp, Stores
<1>6. CASE w.opc = 19
  BY <1>6, OpByOpcode DEF OpImmOp, ShiftOp, ImmOps
<1>7. CASE w.opc = 51
  <2>1. BaseOps[w.f3 + 1] \in RegOps
    <3>1. w.f3 + 1 \in 1 .. 8
      BY <1>0
    <3>2. \A k \in 1 .. 8 : BaseOps[k] \in RegOps
      BY DEF BaseOps, RegOps
    <3> QED BY <3>1, <3>2
  <2> QED BY <1>7, <2>1, OpByOpcode DEF OpOp, RegOps
<1>8. CASE w.opc \in {15, 115}
  BY <1>8, OpByOpcode DEF PrivilegedOp, SystemOp, System
<1> QED BY <1>1, <1>2, <1>3, <1>4, <1>5, <1>6, <1>7, <1>8, OpByOpcode

\* The fields each opcode clears.
LEMMA Cleared ==
    ASSUME NEW w \in InsnWord
    PROVE  LET priv == w.opc \in {15, 115} /\ w.f3 = 0
           IN  /\ ClearsRd(w)  <=> w.opc \in {99, 35} \/ priv
               /\ ClearsRs1(w) <=> w.opc \in {55, 23, 111} \/ priv
               /\ ClearsRs2(w) <=> \/ w.opc \in {55, 23, 111, 3, 19}
                                   \/ w.opc = 103 /\ w.f3 = 0
                                   \/ priv
BY Opcodes DEF ClearsRd, ClearsRs1, ClearsRs2, Privileged, UpperFormat, ImmFormat

\* The immediate of each opcode.
LEMMA ImmByOpcode ==
    ASSUME NEW w \in InsnWord
    PROVE  /\ w.opc \in {55, 23} => ImmOf(w) = imm_u(w)
           /\ w.opc = 111 => ImmOf(w) = imm_j(w)
           /\ w.opc = 99  => ImmOf(w) = imm_b(w)
           /\ w.opc = 35  => ImmOf(w) = imm_s(w)
           /\ w.opc = 3 \/ (w.opc = 103 /\ w.f3 = 0) => ImmOf(w) = imm_i(w)
           /\ w.opc = 19  => ImmOf(w) = IF OpOf(w) \in {"SLLI", "SRLI", "SRAI"}
                                          THEN imm_i(w) % 32 ELSE imm_i(w)
           /\ w.opc \in {51, 15, 115} => ImmOf(w) = 0
<1>1. w.opc \in 0 .. 127
  BY DEF InsnWord
<1> QED BY <1>1, Opcodes DEF ImmOf

\* decode() clears the register fields by opcode as the pipeline's decode
\* does by operation, for every legal instruction word.
THEOREM DecodersAgree == Spec => []PipelineViewAgrees
<1>1. ASSUME NEW w \in InsnWord, OpOf(w) # "ILLEGAL"
      PROVE  decode_word(w) = decode([op |-> OpOf(w), rd |-> w.rd, rs1 |-> w.rs1,
                                      rs2 |-> w.rs2, imm |-> ImmOf(w)])
  <2> DEFINE op == OpOf(w)
  <2>1. ClearsRd(w) <=> op \in Branches \cup Stores \cup System
    BY <1>1, LegalWords, Cleared
       DEF Branches, Stores, System, Loads, ImmOps, RegOps
  <2>2. ClearsRs1(w) <=> op \in Upper \cup {"JAL"} \cup System
    BY <1>1, LegalWords, Cleared
       DEF Branches, Stores, System, Loads, ImmOps, RegOps, Upper
  <2>3. ClearsRs2(w) <=> op \in Upper \cup Jumps \cup Loads \cup ImmOps \cup System
    BY <1>1, LegalWords, Cleared
       DEF Branches, Stores, System, Loads, ImmOps, RegOps, Upper, Jumps
  <2>4. op \in RegOps \cup System => ImmOf(w) = 0
    BY <1>1, LegalWords, ImmByOpcode
       DEF Branches, Stores, System, Loads, ImmOps, RegOps
  <2> HIDE DEF op
  <2> QED BY <2>1, <2>2, <2>3, <2>4 DEF decode_word, decode, op
<1>2. (unit = "decoder" => input \in InsnWord) => PipelineViewAgrees
  <2> SUFFICES ASSUME unit = "decoder", input \in InsnWord, decode_word(input).op # "ILLEGAL"
               PROVE  decode_word(input) =
                        decode([op |-> decode_word(input).op, rd |-> input.rd,
                                rs1 |-> input.rs1, rs2 |-> input.rs2,
                                imm |-> decode_word(input).imm])
    BY DEF PipelineViewAgrees
  <2>1. decode_word(input).op = OpOf(input) /\ decode_word(input).imm = ImmOf(input)
    BY DEF decode_word
  <2> QED BY <1>1, <2>1
<1> QED BY <1>2, DecoderInputs, PTL

\* The 12-bit immediates of the I and S formats: a high part of seven bits
\* and a low part of five.
LEMMA Imm12 ==
    ASSUME NEW h \in 0 .. 127, NEW l \in 0 .. 31
    PROVE  LET m == sext(h * 32 + l, 12)
           IN  m \in -(2 ^ 11) .. (2 ^ 11 - 1) /\ Bits(m, 11, 5) = h /\ Bits(m, 4, 0) = l
BY DEF sext, Bits

\* Every 12-bit immediate has such parts.
LEMMA Imm12Parts ==
    ASSUME NEW m \in -(2 ^ 11) .. (2 ^ 11 - 1)
    PROVE  /\ Bits(m, 11, 5) \in 0 .. 127 /\ Bits(m, 4, 0) \in 0 .. 31
           /\ sext(Bits(m, 11, 5) * 32 + Bits(m, 4, 0), 12) = m
BY DEF sext, Bits

\* The branch offset: sign, bit 11, bits 10:5 and bits 4:1.
ImmB(s, t, h, l) == 2 ^ 11 * t + 32 * h + 2 * l - 2 ^ 12 * s

\* An immediate and its parts, as the word holds them.
HoldsB(m, s, t, h, l) ==
    /\ m \in -(2 ^ 12) .. (2 ^ 12 - 1) /\ m % 2 = 0
    /\ Bits(m, 12, 12) = s /\ Bits(m, 11, 11) = t
    /\ Bits(m, 10, 5) = h /\ Bits(m, 4, 1) = l
    /\ sext(s * 2 ^ 12 + t * 2 ^ 11 + h * 32 + l * 2, 13) = m

\* The parts are those.
LEMMA ImmBBits ==
    ASSUME NEW s \in {0, 1}, NEW t \in {0, 1}, NEW h \in 0 .. 63, NEW l \in 0 .. 15
    PROVE  HoldsB(ImmB(s, t, h, l), s, t, h, l)
<1>1. ImmB(s, t, h, l) \in -(2 ^ 12) .. (2 ^ 12 - 1) /\ ImmB(s, t, h, l) % 2 = 0
  BY DEF ImmB
<1>2. Bits(ImmB(s, t, h, l), 12, 12) = s
  BY DEF ImmB, Bits
<1>3. Bits(ImmB(s, t, h, l), 11, 11) = t
  BY DEF ImmB, Bits
<1>4. Bits(ImmB(s, t, h, l), 10, 5) = h
  BY DEF ImmB, Bits
<1>5. Bits(ImmB(s, t, h, l), 4, 1) = l
  <2>1. ImmB(s, t, h, l) \div 2 = 2 ^ 10 * t + 16 * h + l - 2 ^ 11 * s
    BY DEF ImmB
  <2> QED BY <2>1 DEF Bits
<1>6. sext(s * 2 ^ 12 + t * 2 ^ 11 + h * 32 + l * 2, 13) = ImmB(s, t, h, l)
  BY DEF ImmB, sext
<1> QED BY <1>1, <1>2, <1>3, <1>4, <1>5, <1>6 DEF HoldsB

\* Every even offset in range has such parts.
LEMMA ImmBParts ==
    ASSUME NEW m \in -(2 ^ 12) .. (2 ^ 12 - 1), m % 2 = 0
    PROVE  \E s, t \in {0, 1}, h \in 0 .. 63, l \in 0 .. 15 : m = ImmB(s, t, h, l)
<1> DEFINE s == IF m < 0 THEN 1 ELSE 0
           a == m + 2 ^ 12 * s
           t == a \div 2 ^ 11
           c == a % 2 ^ 11
           h == c \div 32
           l == (c % 32) \div 2
<1>1. s \in {0, 1} /\ a \in 0 .. (2 ^ 12 - 1) /\ a % 2 = 0 /\ m = a - 2 ^ 12 * s
  <2>1. CASE m < 0
    BY <2>1
  <2>2. CASE ~(m < 0)
    BY <2>2
  <2> QED BY <2>1, <2>2
<1> HIDE DEF s, a
<1>2. t \in {0, 1} /\ c \in 0 .. (2 ^ 11 - 1) /\ a = 2 ^ 11 * t + c /\ c % 2 = 0
  BY <1>1
<1> HIDE DEF t, c
<1>3. h \in 0 .. 63 /\ l \in 0 .. 15 /\ c = 32 * h + 2 * l
  <2>1. h \in 0 .. 63 /\ c % 32 \in 0 .. 31 /\ c = 32 * h + (c % 32)
    BY <1>2
  <2>2. (c % 32) % 2 = 0
    BY <1>2
  <2>3. \A x \in 0 .. 31 : x % 2 = 0 => x \div 2 \in 0 .. 15 /\ x = 2 * (x \div 2)
    OBVIOUS
  <2> QED BY <2>1, <2>2, <2>3
<1> HIDE DEF h, l
<1>4. m = ImmB(s, t, h, l)
  BY <1>1, <1>2, <1>3 DEF ImmB
<1>5. s \in {0, 1} /\ t \in {0, 1} /\ h \in 0 .. 63 /\ l \in 0 .. 15
  BY <1>1, <1>2, <1>3
<1> QED BY <1>4, <1>5, Zenon

\* Two parts of a register field: bits 4:1 and bit 0, and of funct7: bit 6
\* and bits 5:0.
LEMMA FieldParts ==
    /\ \A t \in {0, 1}, l \in 0 .. 15 :
         l * 2 + t \in 0 .. 31 /\ Bits(l * 2 + t, 0, 0) = t /\ Bits(l * 2 + t, 4, 1) = l
    /\ \A s \in {0, 1}, h \in 0 .. 63 :
         s * 64 + h \in 0 .. 127 /\ Bits(s * 64 + h, 6, 6) = s /\ Bits(s * 64 + h, 5, 0) = h
    /\ \A r \in 0 .. 31 : /\ Bits(r, 0, 0) \in {0, 1} /\ Bits(r, 4, 1) \in 0 .. 15
                          /\ Bits(r, 4, 1) * 2 + Bits(r, 0, 0) = r
    /\ \A f \in 0 .. 127 : /\ Bits(f, 6, 6) \in {0, 1} /\ Bits(f, 5, 0) \in 0 .. 63
                           /\ Bits(f, 6, 6) * 64 + Bits(f, 5, 0) = f
<1>1. \A t \in {0, 1}, l \in 0 .. 15 :
         l * 2 + t \in 0 .. 31 /\ Bits(l * 2 + t, 0, 0) = t /\ Bits(l * 2 + t, 4, 1) = l
  BY DEF Bits
<1>2. \A s \in {0, 1}, h \in 0 .. 63 :
         s * 64 + h \in 0 .. 127 /\ Bits(s * 64 + h, 6, 6) = s /\ Bits(s * 64 + h, 5, 0) = h
  BY DEF Bits
<1>3. \A r \in 0 .. 31 : /\ Bits(r, 0, 0) \in {0, 1} /\ Bits(r, 4, 1) \in 0 .. 15
                         /\ Bits(r, 4, 1) * 2 + Bits(r, 0, 0) = r
  BY DEF Bits
<1>4. \A f \in 0 .. 127 : /\ Bits(f, 6, 6) \in {0, 1} /\ Bits(f, 5, 0) \in 0 .. 63
                          /\ Bits(f, 6, 6) * 64 + Bits(f, 5, 0) = f
  BY DEF Bits
<1> QED BY <1>1, <1>2, <1>3, <1>4

\* The jump offset: sign, bits 19:15, 14:12, 11, 10:5 and 4:1.
ImmJ(s, r, f, t, h, l) ==
    2 ^ 15 * r + 2 ^ 12 * f + 2 ^ 11 * t + 32 * h + 2 * l - 2 ^ 20 * s

\* An immediate and its parts, as the word holds them.
HoldsJ(m, s, r, f, t, h, l) ==
    /\ m \in -(2 ^ 20) .. (2 ^ 20 - 1) /\ m % 2 = 0
    /\ Bits(m, 20, 20) = s /\ Bits(m, 19, 15) = r /\ Bits(m, 14, 12) = f
    /\ Bits(m, 11, 11) = t /\ Bits(m, 10, 5) = h /\ Bits(m, 4, 1) = l
    /\ sext(s * 2 ^ 20 + (r * 8 + f) * 2 ^ 12 + t * 2 ^ 11 + h * 32 + l * 2, 21) = m

\* The parts are those.
LEMMA ImmJBits ==
    ASSUME NEW s \in {0, 1}, NEW r \in 0 .. 31, NEW f \in 0 .. 7, NEW t \in {0, 1},
           NEW h \in 0 .. 63, NEW l \in 0 .. 15
    PROVE  HoldsJ(ImmJ(s, r, f, t, h, l), s, r, f, t, h, l)
<1> DEFINE m == ImmJ(s, r, f, t, h, l)
<1>1. m \in -(2 ^ 20) .. (2 ^ 20 - 1) /\ m % 2 = 0
  BY DEF ImmJ
<1>2. Bits(m, 20, 20) = s
  BY DEF ImmJ, Bits
<1>3. Bits(m, 19, 15) = r
  <2>1. m \div 2 ^ 15 = r - 32 * s
    BY DEF ImmJ
  <2>2. (r - 32 * s) % 32 = r
    OBVIOUS
  <2> HIDE DEF m
  <2> QED BY <2>1, <2>2 DEF Bits
<1>4. Bits(m, 14, 12) = f
  <2>1. m \div 2 ^ 12 = 8 * r + f - 256 * s
    BY DEF ImmJ
  <2>2. (8 * r + f - 256 * s) % 8 = f
    OBVIOUS
  <2> HIDE DEF m
  <2> QED BY <2>1, <2>2 DEF Bits
<1>5. Bits(m, 11, 11) = t
  <2>1. m \div 2 ^ 11 = 16 * r + 2 * f + t - 512 * s
    BY DEF ImmJ
  <2>2. (16 * r + 2 * f + t - 512 * s) % 2 = t
    OBVIOUS
  <2> HIDE DEF m
  <2> QED BY <2>1, <2>2 DEF Bits
<1>6. Bits(m, 10, 5) = h
  <2>1. m \div 2 ^ 5 = 2 ^ 10 * r + 128 * f + 64 * t + h - 2 ^ 15 * s
    BY DEF ImmJ
  <2>2. (2 ^ 10 * r + 128 * f + 64 * t + h - 2 ^ 15 * s) % 64 = h
    OBVIOUS
  <2> HIDE DEF m
  <2> QED BY <2>1, <2>2 DEF Bits
<1>7. Bits(m, 4, 1) = l
  <2>1. m \div 2 ^ 1 = 2 ^ 14 * r + 2 ^ 11 * f + 2 ^ 10 * t + 16 * h + l - 2 ^ 19 * s
    BY DEF ImmJ
  <2>2. (2 ^ 14 * r + 2 ^ 11 * f + 2 ^ 10 * t + 16 * h + l - 2 ^ 19 * s) % 16 = l
    OBVIOUS
  <2> HIDE DEF m
  <2> QED BY <2>1, <2>2 DEF Bits
<1>8. sext(s * 2 ^ 20 + (r * 8 + f) * 2 ^ 12 + t * 2 ^ 11 + h * 32 + l * 2, 21) = m
  BY DEF ImmJ, sext
<1> HIDE DEF m
<1> QED BY <1>1, <1>2, <1>3, <1>4, <1>5, <1>6, <1>7, <1>8 DEF m, HoldsJ

\* Every even offset in range has such parts.
LEMMA ImmJParts ==
    ASSUME NEW m \in -(2 ^ 20) .. (2 ^ 20 - 1), m % 2 = 0
    PROVE  \E s \in {0, 1}, r \in 0 .. 31, f \in 0 .. 7, t \in {0, 1},
              h \in 0 .. 63, l \in 0 .. 15 : m = ImmJ(s, r, f, t, h, l)
<1> DEFINE s == IF m < 0 THEN 1 ELSE 0
           a == m + 2 ^ 20 * s
           r == a \div 2 ^ 15
           b == a % 2 ^ 15
           f == b \div 2 ^ 12
           d == b % 2 ^ 12
           t == d \div 2 ^ 11
           c == d % 2 ^ 11
           h == c \div 32
           l == (c % 32) \div 2
<1>1. s \in {0, 1} /\ a \in 0 .. (2 ^ 20 - 1) /\ a % 2 = 0 /\ m = a - 2 ^ 20 * s
  OBVIOUS
<1> HIDE DEF s, a
<1>2. r \in 0 .. 31 /\ b \in 0 .. (2 ^ 15 - 1) /\ a = 2 ^ 15 * r + b /\ b % 2 = 0
  BY <1>1
<1> HIDE DEF r, b
<1>3. f \in 0 .. 7 /\ d \in 0 .. (2 ^ 12 - 1) /\ b = 2 ^ 12 * f + d /\ d % 2 = 0
  BY <1>2
<1> HIDE DEF f, d
<1>4. t \in {0, 1} /\ c \in 0 .. (2 ^ 11 - 1) /\ d = 2 ^ 11 * t + c /\ c % 2 = 0
  BY <1>3
<1> HIDE DEF t, c
<1>5. h \in 0 .. 63 /\ l \in 0 .. 15 /\ c = 32 * h + 2 * l
  BY <1>4
<1> HIDE DEF h, l
<1>6. m = ImmJ(s, r, f, t, h, l)
  BY <1>1, <1>2, <1>3, <1>4, <1>5 DEF ImmJ
<1>7. /\ s \in {0, 1} /\ r \in 0 .. 31 /\ f \in 0 .. 7 /\ t \in {0, 1}
      /\ h \in 0 .. 63 /\ l \in 0 .. 15
  BY <1>1, <1>2, <1>3, <1>4, <1>5
<1> QED BY <1>6, <1>7, Zenon

\* The upper immediate: bits 31:25, 24:20, 19:15 and 14:12.
ImmU(g, q, r, f) ==
    (g * 2 ^ 13 + q * 256 + r * 8 + f - (IF g >= 64 THEN 2 ^ 20 ELSE 0)) * 2 ^ 12

\* An immediate and its parts, as the word holds them.
HoldsU(m, g, q, r, f) ==
    /\ m \div 2 ^ 12 \in -(2 ^ 19) .. (2 ^ 19 - 1) /\ m % 2 ^ 12 = 0 /\ m \in Int
    /\ (m \div 2 ^ 25) % 128 = g /\ Bits(m, 24, 20) = q
    /\ Bits(m, 19, 15) = r /\ Bits(m, 14, 12) = f
    /\ sext(g * 2 ^ 13 + q * 2 ^ 8 + r * 8 + f, 20) * 2 ^ 12 = m

\* The parts are those.
LEMMA ImmUBits ==
    ASSUME NEW g \in 0 .. 127, NEW q \in 0 .. 31, NEW r \in 0 .. 31, NEW f \in 0 .. 7
    PROVE  HoldsU(ImmU(g, q, r, f), g, q, r, f)
<1> DEFINE n == g * 2 ^ 13 + q * 256 + r * 8 + f - (IF g >= 64 THEN 2 ^ 20 ELSE 0)
           m == ImmU(g, q, r, f)
<1>1. n \in -(2 ^ 19) .. (2 ^ 19 - 1) /\ m = n * 2 ^ 12
  BY DEF ImmU
<1>2. /\ (n \div 2 ^ 13) % 128 = g /\ (n \div 256) % 32 = q /\ (n \div 8) % 32 = r
      /\ n % 8 = f
  <2>1. n \div 2 ^ 13 = g - (IF g >= 64 THEN 128 ELSE 0)
    OBVIOUS
  <2>2. n \div 256 = g * 32 + q - (IF g >= 64 THEN 2 ^ 12 ELSE 0)
    OBVIOUS
  <2>3. n \div 8 = g * 2 ^ 10 + q * 32 + r - (IF g >= 64 THEN 2 ^ 17 ELSE 0)
    OBVIOUS
  <2>4. (n \div 2 ^ 13) % 128 = g
    BY <2>1
  <2>5. (n \div 256) % 32 = q
    BY <2>2
  <2>6. (n \div 8) % 32 = r
    BY <2>3
  <2>7. n % 8 = f
    OBVIOUS
  <2> QED BY <2>4, <2>5, <2>6, <2>7
<1>3. sext(g * 2 ^ 13 + q * 2 ^ 8 + r * 8 + f, 20) = n
  BY DEF sext
<1> HIDE DEF n, m
<1>4. /\ m \div 2 ^ 12 = n /\ m % 2 ^ 12 = 0 /\ m \in Int
      /\ m \div 2 ^ 25 = n \div 2 ^ 13 /\ m \div 2 ^ 20 = n \div 256
      /\ m \div 2 ^ 15 = n \div 8 /\ m \div 2 ^ 12 = n
  BY <1>1
<1>5. sext(g * 2 ^ 13 + q * 2 ^ 8 + r * 8 + f, 20) * 2 ^ 12 = m
  BY <1>1, <1>3
<1>6. (m \div 2 ^ 25) % 128 = g
  BY <1>2, <1>4
<1>7. Bits(m, 24, 20) = q
  BY <1>2, <1>4 DEF Bits
<1>8. Bits(m, 19, 15) = r
  BY <1>2, <1>4 DEF Bits
<1>9. Bits(m, 14, 12) = f
  BY <1>2, <1>4 DEF Bits
<1> QED BY <1>1, <1>4, <1>5, <1>6, <1>7, <1>8, <1>9 DEF m, HoldsU

\* Every multiple of 2 ^ 12 in range has such parts.
LEMMA ImmUParts ==
    ASSUME NEW m \in Int, m % 2 ^ 12 = 0, m \div 2 ^ 12 \in -(2 ^ 19) .. (2 ^ 19 - 1)
    PROVE  \E g \in 0 .. 127, q \in 0 .. 31, r \in 0 .. 31, f \in 0 .. 7 :
              m = ImmU(g, q, r, f)
<1> DEFINE n == m \div 2 ^ 12
           s == IF n < 0 THEN 2 ^ 20 ELSE 0
           a == n + s
           g == a \div 2 ^ 13
           b == a % 2 ^ 13
           q == b \div 256
           c == b % 256
           r == c \div 8
           f == c % 8
<1>1. n \in Int /\ a \in 0 .. (2 ^ 20 - 1) /\ n = a - s /\ m = n * 2 ^ 12 /\ s = IF n < 0 THEN 2 ^ 20 ELSE 0
  OBVIOUS
<1>2. s = IF a >= 2 ^ 19 THEN 2 ^ 20 ELSE 0
  OBVIOUS
<1> HIDE DEF s, a, n
<1>3. g \in 0 .. 127 /\ b \in 0 .. (2 ^ 13 - 1) /\ a = 2 ^ 13 * g + b
  BY <1>1
<1> HIDE DEF g, b
<1>4. q \in 0 .. 31 /\ c \in 0 .. 255 /\ b = 256 * q + c
  BY <1>3
<1> HIDE DEF q, c
<1>5. r \in 0 .. 31 /\ f \in 0 .. 7 /\ c = 8 * r + f
  BY <1>4
<1> HIDE DEF r, f
<1>6. s = IF g >= 64 THEN 2 ^ 20 ELSE 0
  BY <1>1, <1>2, <1>3
<1>7. n = g * 2 ^ 13 + q * 256 + r * 8 + f - (IF g >= 64 THEN 2 ^ 20 ELSE 0)
  BY <1>1, <1>3, <1>4, <1>5, <1>6
<1>8. m = ImmU(g, q, r, f)
  BY <1>1, <1>7 DEF ImmU
<1>9. g \in 0 .. 127 /\ q \in 0 .. 31 /\ r \in 0 .. 31 /\ f \in 0 .. 7
  BY <1>3, <1>4, <1>5
<1> QED BY <1>8, <1>9, Zenon

\* A word, by its fields.
WordWith(opc, rd, f3, rs1, rs2, f7) ==
    [opc |-> opc, rd |-> rd, f3 |-> f3, rs1 |-> rs1, rs2 |-> rs2, f7 |-> f7]

\* The word an instruction of each format is encoded as.
LEMMA EncodeByFormat ==
    ASSUME NEW i
    PROVE  LET f == Format(i.op)
               m == i.imm
               opc == OpcodeOf(i.op)
               f3 == Funct3(i.op)
               f7 == Funct7(i.op)
           IN  /\ f = "R" => Encode(i) = WordWith(opc, i.rd, f3, i.rs1, i.rs2, f7)
               /\ f = "shift" => Encode(i) = WordWith(opc, i.rd, f3, i.rs1, m, f7)
               /\ f = "I" => Encode(i) = WordWith(opc, i.rd, f3, i.rs1,
                                                  Bits(m, 4, 0), Bits(m, 11, 5))
               /\ f = "S" => Encode(i) = WordWith(opc, Bits(m, 4, 0), f3, i.rs1,
                                                  i.rs2, Bits(m, 11, 5))
               /\ f = "B" => Encode(i) =
                    WordWith(opc, Bits(m, 4, 1) * 2 + Bits(m, 11, 11), f3, i.rs1, i.rs2,
                             Bits(m, 12, 12) * 64 + Bits(m, 10, 5))
               /\ f = "U" => Encode(i) =
                    WordWith(opc, i.rd, Bits(m, 14, 12), Bits(m, 19, 15), Bits(m, 24, 20),
                             (m \div 2 ^ 25) % 128)
               /\ f = "J" => Encode(i) =
                    WordWith(opc, i.rd, Bits(m, 14, 12), Bits(m, 19, 15),
                             Bits(m, 4, 1) * 2 + Bits(m, 11, 11),
                             Bits(m, 20, 20) * 64 + Bits(m, 10, 5))
               /\ f = "none" => Encode(i) =
                    WordWith(opc, i.rd, f3, i.rs1, IF i.op = "EBREAK" THEN 1 ELSE 0, f7)
<1> DEFINE f == Format(i.op)
           m == i.imm
           opc == OpcodeOf(i.op)
           f3 == Funct3(i.op)
           f7 == Funct7(i.op)
<1> HIDE DEF f, m, opc, f3, f7
<1> DEFINE base == [opc |-> opc, rd |-> i.rd, f3 |-> f3, rs1 |-> i.rs1, rs2 |-> i.rs2,
                    f7 |-> f7]
<1>0. Encode(i) =
        CASE f = "R"     -> base
          [] f = "shift" -> [base EXCEPT !.rs2 = m]
          [] f = "I"     -> [base EXCEPT !.rs2 = Bits(m, 4, 0), !.f7 = Bits(m, 11, 5)]
          [] f = "S"     -> [base EXCEPT !.rd = Bits(m, 4, 0), !.f7 = Bits(m, 11, 5)]
          [] f = "B"     -> [base EXCEPT !.rd = Bits(m, 4, 1) * 2 + Bits(m, 11, 11),
                                         !.f7 = Bits(m, 12, 12) * 64 + Bits(m, 10, 5)]
          [] f = "U"     -> [base EXCEPT !.f3 = Bits(m, 14, 12), !.rs1 = Bits(m, 19, 15),
                                         !.rs2 = Bits(m, 24, 20),
                                         !.f7 = (m \div 2 ^ 25) % 128]
          [] f = "J"     -> [base EXCEPT !.f3 = Bits(m, 14, 12), !.rs1 = Bits(m, 19, 15),
                                         !.rs2 = Bits(m, 4, 1) * 2 + Bits(m, 11, 11),
                                         !.f7 = Bits(m, 20, 20) * 64 + Bits(m, 10, 5)]
          [] f = "none"  -> [base EXCEPT !.rs2 = IF i.op = "EBREAK" THEN 1 ELSE 0]
  BY Zenon DEF Encode, f, m, opc, f3, f7
<1>1. f = "R" => Encode(i) = WordWith(opc, i.rd, f3, i.rs1, i.rs2, f7)
  BY <1>0 DEF WordWith
<1>2. f = "shift" => Encode(i) = WordWith(opc, i.rd, f3, i.rs1, m, f7)
  BY <1>0 DEF WordWith
<1>3. f = "I" => Encode(i) = WordWith(opc, i.rd, f3, i.rs1, Bits(m, 4, 0), Bits(m, 11, 5))
  BY <1>0 DEF WordWith
<1>4. f = "S" => Encode(i) = WordWith(opc, Bits(m, 4, 0), f3, i.rs1, i.rs2, Bits(m, 11, 5))
  BY <1>0 DEF WordWith
<1>5. f = "B" => Encode(i) =
        WordWith(opc, Bits(m, 4, 1) * 2 + Bits(m, 11, 11), f3, i.rs1, i.rs2,
                 Bits(m, 12, 12) * 64 + Bits(m, 10, 5))
  BY <1>0 DEF WordWith
<1>6. f = "U" => Encode(i) =
        WordWith(opc, i.rd, Bits(m, 14, 12), Bits(m, 19, 15), Bits(m, 24, 20),
                 (m \div 2 ^ 25) % 128)
  BY <1>0 DEF WordWith
<1>7. f = "J" => Encode(i) =
        WordWith(opc, i.rd, Bits(m, 14, 12), Bits(m, 19, 15),
                 Bits(m, 4, 1) * 2 + Bits(m, 11, 11),
                 Bits(m, 20, 20) * 64 + Bits(m, 10, 5))
  BY <1>0 DEF WordWith
<1>8. f = "none" => Encode(i) =
        WordWith(opc, i.rd, f3, i.rs1, IF i.op = "EBREAK" THEN 1 ELSE 0, f7)
  BY <1>0 DEF WordWith
<1> QED BY <1>1, <1>2, <1>3, <1>4, <1>5, <1>6, <1>7, <1>8, Zenon DEF f, m, opc, f3, f7

\* The opcode of each kind of operation.
LEMMA OpcodeByKind ==
    /\ \A op \in Branches : OpcodeOf(op) = 99 /\ Format(op) = "B"
    /\ \A op \in Loads : OpcodeOf(op) = 3 /\ Format(op) = "I"
    /\ \A op \in Stores : OpcodeOf(op) = 35 /\ Format(op) = "S"
    /\ \A op \in ImmOps : /\ OpcodeOf(op) = 19
                          /\ Format(op) = IF op \in Shifts THEN "shift" ELSE "I"
    /\ \A op \in RegOps : OpcodeOf(op) = 51 /\ Format(op) = "R"
    /\ OpcodeOf("LUI") = 55 /\ OpcodeOf("AUIPC") = 23
    /\ Format("LUI") = "U" /\ Format("AUIPC") = "U"
    /\ OpcodeOf("JAL") = 111 /\ OpcodeOf("JALR") = 103
    /\ Format("JAL") = "J" /\ Format("JALR") = "I"
    /\ OpcodeOf("FENCE") = 15 /\ OpcodeOf("ECALL") = 115 /\ OpcodeOf("EBREAK") = 115
    /\ \A op \in System : Format(op) = "none"
BY DEF OpcodeOf, Format, Shifts, Branches, Loads, Stores, ImmOps, RegOps, System, Upper

\* The operations, kind by kind.
LEMMA OpKinds ==
    ASSUME NEW op \in Op \ {"ILLEGAL"}
    PROVE  op \in Branches \/ op \in Loads \/ op \in Stores \/ op \in ImmOps
           \/ op \in RegOps \/ op \in Upper \/ op = "JAL" \/ op = "JALR" \/ op \in System
BY DEF Op, Jumps

\* decode() finds the operation from the opcode and the funct fields the
\* encoder gives it.
LEMMA EncodedOp ==
    ASSUME NEW op \in Op \ {"ILLEGAL"}, NEW w \in InsnWord, w.opc = OpcodeOf(op),
           op \in Upper \cup {"JAL"} \/ w.f3 = Funct3(op),
           op \in RegOps \cup Shifts => w.f7 = Funct7(op),
           op \in System => w.f7 = 0 /\ w.rs2 = IF op = "EBREAK" THEN 1 ELSE 0
    PROVE  OpOf(w) = op
<1>1. CASE op \in Branches
  <2>1. w.opc = 99 /\ w.f3 = Funct3(op)
    BY <1>1, OpcodeByKind DEF Branches, Upper
  <2>2. OpOf(w) = BranchOp(Funct3(op))
    BY <2>1, OpByOpcode
  <2> QED BY <1>1, <2>2 DEF BranchOp, Funct3, Branches
<1>2. CASE op \in Loads
  <2>1. w.opc = 3 /\ w.f3 = Funct3(op)
    BY <1>2, OpcodeByKind DEF Loads, Upper
  <2>2. OpOf(w) = LoadOp(Funct3(op))
    BY <2>1, OpByOpcode
  <2> QED BY <1>2, <2>2 DEF LoadOp, Funct3, Loads
<1>3. CASE op \in Stores
  <2>1. w.opc = 35 /\ w.f3 = Funct3(op)
    BY <1>3, OpcodeByKind DEF Stores, Upper
  <2>2. OpOf(w) = StoreOp(Funct3(op))
    BY <2>1, OpByOpcode
  <2> QED BY <1>3, <2>2 DEF StoreOp, Funct3, Stores
<1>4. CASE op \in ImmOps
  <2>1. w.opc = 19 /\ w.f3 = Funct3(op)
    BY <1>4, OpcodeByKind DEF ImmOps, Upper
  <2>2. OpOf(w) = OpImmOp(Funct3(op), w.f7)
    BY <2>1, OpByOpcode
  <2>3. CASE op \in Shifts
    <3>1. w.f7 = Funct7(op)
      BY <2>3
    <3> QED BY <2>2, <2>3, <3>1, Opcodes DEF OpImmOp, ShiftOp, Funct3, Funct7, Shifts
  <2>4. CASE op \notin Shifts
    BY <1>4, <2>2, <2>4 DEF OpImmOp, Funct3, ImmOps, Shifts
  <2> QED BY <2>3, <2>4
<1>5. CASE op \in RegOps
  <2>1. w.opc = 51 /\ w.f3 = Funct3(op) /\ w.f7 = Funct7(op)
    BY <1>5, OpcodeByKind DEF RegOps, Upper
  <2>2. OpOf(w) = OpOp(Funct3(op), Funct7(op))
    BY <2>1, OpByOpcode
  <2>3. /\ BaseOps[1] = "ADD" /\ BaseOps[2] = "SLL" /\ BaseOps[3] = "SLT"
        /\ BaseOps[4] = "SLTU" /\ BaseOps[5] = "XOR" /\ BaseOps[6] = "SRL"
        /\ BaseOps[7] = "OR" /\ BaseOps[8] = "AND"
    BY DEF BaseOps
  <2> QED BY <1>5, <2>2, <2>3, Opcodes DEF OpOp, Funct3, Funct7, RegOps
<1>6. CASE op \in Upper \/ op = "JAL"
  BY <1>6, OpByOpcode, OpcodeByKind DEF Upper
<1>7. CASE op = "JALR"
  <2>1. w.opc = 103 /\ w.f3 = Funct3("JALR")
    BY <1>7, OpcodeByKind DEF Upper
  <2> QED BY <1>7, <2>1, OpByOpcode DEF Funct3
<1>8. CASE op \in System
  <2>1. /\ w.f3 = Funct3(op) /\ w.f7 = 0 /\ w.rs2 = IF op = "EBREAK" THEN 1 ELSE 0
    BY <1>8 DEF System, Upper
  <2>2. w.f3 = 0
    BY <1>8, <2>1 DEF System, Funct3
  <2>3. w.opc = IF op = "FENCE" THEN 15 ELSE 115
    BY <1>8, OpcodeByKind DEF System
  <2>4. OpOf(w) = PrivilegedOp(w)
    BY <2>3, OpByOpcode
  <2> QED BY <1>8, <2>1, <2>2, <2>3, <2>4, Opcodes DEF PrivilegedOp, SystemOp, funct12, System
<1> QED BY <1>1, <1>2, <1>3, <1>4, <1>5, <1>6, <1>7, <1>8, OpKinds

\* The funct fields of the encoder fit.
LEMMA FunctFits == \A op : Funct3(op) \in 0 .. 7 /\ Funct7(op) \in {0, 32}
BY DEF Funct3, Funct7

\* A word with fields in range, and its fields.
LEMMA WordFields ==
    ASSUME NEW opc \in 0 .. 127, NEW rd \in 0 .. 31, NEW f3 \in 0 .. 7, NEW rs1 \in 0 .. 31,
           NEW rs2 \in 0 .. 31, NEW f7 \in 0 .. 127
    PROVE  LET w == WordWith(opc, rd, f3, rs1, rs2, f7)
           IN  /\ w \in InsnWord
               /\ w.opc = opc /\ w.rd = rd /\ w.f3 = f3 /\ w.rs1 = rs1 /\ w.rs2 = rs2
               /\ w.f7 = f7
BY DEF WordWith, InsnWord

\* What remains of an instruction once the operation is found.
LEMMA DecodedFields ==
    ASSUME NEW i, i = [op |-> i.op, rd |-> i.rd, rs1 |-> i.rs1, rs2 |-> i.rs2, imm |-> i.imm],
           NEW w, OpOf(w) = i.op, ImmOf(w) = i.imm,
           (IF ClearsRd(w)  THEN 0 ELSE w.rd) = i.rd,
           (IF ClearsRs1(w) THEN 0 ELSE w.rs1) = i.rs1,
           (IF ClearsRs2(w) THEN 0 ELSE w.rs2) = i.rs2
    PROVE  decode_word(w) = i
BY DEF decode_word

\* decode() gives back what was encoded.
LEMMA RoundTrip == ASSUME NEW i, Legal(i) PROVE decode_word(Encode(i)) = i
<1> DEFINE op == i.op
           m == i.imm
           w == Encode(i)
<1>0. /\ op \in Op \ {"ILLEGAL"} /\ m \in Int
      /\ i = [op |-> i.op, rd |-> i.rd, rs1 |-> i.rs1, rs2 |-> i.rs2, imm |-> i.imm]
      /\ i.rd \in 0 .. 31 /\ i.rs1 \in 0 .. 31 /\ i.rs2 \in 0 .. 31
      /\ Format(op) \notin {"R", "I", "U", "J", "shift"} => i.rd = 0
      /\ Format(op) \notin {"R", "I", "S", "B", "shift"} => i.rs1 = 0
      /\ Format(op) \notin {"R", "S", "B"} => i.rs2 = 0
      /\ ImmFits(Format(op), m)
  BY DEF Legal, RegFits
<1>f. Funct3(op) \in 0 .. 7 /\ Funct7(op) \in 0 .. 127
  BY FunctFits
<1> HIDE DEF op, m, w
<1>1. CASE op \in RegOps
  <2>1. Format(op) = "R" /\ OpcodeOf(op) = 51
    BY <1>1, OpcodeByKind
  <2>2. w = WordWith(51, i.rd, Funct3(op), i.rs1, i.rs2, Funct7(op))
    BY <2>1, EncodeByFormat DEF w, op
  <2>3. /\ w \in InsnWord /\ w.opc = 51 /\ w.rd = i.rd /\ w.f3 = Funct3(op)
        /\ w.rs1 = i.rs1 /\ w.rs2 = i.rs2 /\ w.f7 = Funct7(op)
    BY <1>0, <1>f, <2>2 DEF WordWith, InsnWord
  <2>4. OpOf(w) = op
    <3>1. op \notin System
      BY <1>1 DEF RegOps, System
    <3> QED BY <1>0, <2>1, <2>3, <3>1, EncodedOp
  <2>5. m = 0
    BY <1>0, <2>1 DEF ImmFits
  <2>6. ImmOf(w) = 0 /\ ~ClearsRd(w) /\ ~ClearsRs1(w) /\ ~ClearsRs2(w)
    BY <2>3, ImmByOpcode, Cleared
  <2> QED BY <1>0, <2>3, <2>4, <2>5, <2>6, DecodedFields DEF op, m, w
<1>2. CASE op \in Shifts
  <2>0. op \in ImmOps
    BY <1>2 DEF Shifts, ImmOps
  <2>1. Format(op) = "shift" /\ OpcodeOf(op) = 19
    BY <1>2, <2>0, OpcodeByKind
  <2>2. m \in 0 .. 31
    BY <1>0, <2>1 DEF ImmFits
  <2>3. w = WordWith(19, i.rd, Funct3(op), i.rs1, m, Funct7(op))
    BY <2>1, EncodeByFormat DEF w, op, m
  <2>4. /\ w \in InsnWord /\ w.opc = 19 /\ w.rd = i.rd /\ w.f3 = Funct3(op)
        /\ w.rs1 = i.rs1 /\ w.rs2 = m /\ w.f7 = Funct7(op)
    BY <1>0, <1>f, <2>2, <2>3 DEF WordWith, InsnWord
  <2>5. OpOf(w) = op
    <3>1. op \notin System
      BY <1>2 DEF Shifts, System
    <3> QED BY <1>0, <2>1, <2>4, <3>1, EncodedOp
  <2>6. ImmOf(w) = imm_i(w) % 32
    BY <1>2, <2>4, <2>5, ImmByOpcode DEF Shifts
  <2>7. imm_i(w) % 32 = m
    <3>1. Funct7(op) = 0 \/ Funct7(op) = 32
      BY FunctFits
    <3>2. \A x \in 0 .. 31 : sext(x, 12) % 32 = x /\ sext(32 * 32 + x, 12) % 32 = x
      BY DEF sext
    <3>3. imm_i(w) = sext(Funct7(op) * 32 + m, 12)
      BY <2>4 DEF imm_i, funct12
    <3> QED BY <2>2, <3>1, <3>2, <3>3
  <2>8. ~ClearsRd(w) /\ ~ClearsRs1(w) /\ ClearsRs2(w) /\ i.rs2 = 0
    BY <1>0, <2>1, <2>4, Cleared
  <2> QED BY <1>0, <2>4, <2>5, <2>6, <2>7, <2>8, DecodedFields DEF op, m, w
<1>3. CASE op \in Loads \/ op \in ImmOps \ Shifts \/ op = "JALR"
  <2>1. /\ Format(op) = "I" /\ OpcodeOf(op) \in {3, 19, 103}
        /\ OpcodeOf(op) = 103 => Funct3(op) = 0
        /\ OpcodeOf(op) = 103 <=> op = "JALR"
    <3>1. CASE op \in Loads
      BY <3>1, OpcodeByKind DEF Loads
    <3>2. CASE op \in ImmOps \ Shifts
      BY <3>2, OpcodeByKind DEF ImmOps
    <3>3. CASE op = "JALR"
      BY <3>3, OpcodeByKind DEF Funct3
    <3> QED BY <1>3, <3>1, <3>2, <3>3
  <2>2. m \in -(2 ^ 11) .. (2 ^ 11 - 1)
    BY <1>0, <2>1 DEF ImmFits
  <2> DEFINE h == Bits(m, 11, 5)
             l == Bits(m, 4, 0)
  <2>3. h \in 0 .. 127 /\ l \in 0 .. 31 /\ sext(h * 32 + l, 12) = m
    BY <2>2, Imm12Parts
  <2>4. w = WordWith(OpcodeOf(op), i.rd, Funct3(op), i.rs1, l, h)
    BY <2>1, EncodeByFormat DEF w, op, m
  <2> HIDE DEF h, l
  <2>5. /\ w \in InsnWord /\ w.opc = OpcodeOf(op) /\ w.rd = i.rd /\ w.f3 = Funct3(op)
        /\ w.rs1 = i.rs1 /\ w.rs2 = l /\ w.f7 = h
    <3>1. OpcodeOf(op) \in 0 .. 127
      BY <2>1
    <3> QED BY <1>0, <1>f, <2>3, <2>4, <3>1 DEF WordWith, InsnWord
  <2>6. OpOf(w) = op
    <3>1. op \notin System /\ op \notin RegOps \cup Shifts
      BY <1>3 DEF Loads, ImmOps, Shifts, System, RegOps
    <3> QED BY <1>0, <2>5, <3>1, EncodedOp
  <2>7. imm_i(w) = m
    BY <2>3, <2>5 DEF imm_i, funct12
  <2>8. ImmOf(w) = imm_i(w)
    <3>1. op \notin Shifts
      BY <1>3 DEF Loads, Shifts
    <3> QED BY <2>1, <2>5, <2>6, <3>1, ImmByOpcode DEF Shifts
  <2>9. ~ClearsRd(w) /\ ~ClearsRs1(w) /\ ClearsRs2(w) /\ i.rs2 = 0
    BY <1>0, <2>1, <2>5, Cleared
  <2> QED BY <1>0, <2>5, <2>6, <2>7, <2>8, <2>9, DecodedFields DEF op, m, w
<1>4. CASE op \in Stores
  <2>1. Format(op) = "S" /\ OpcodeOf(op) = 35
    BY <1>4, OpcodeByKind
  <2>2. m \in -(2 ^ 11) .. (2 ^ 11 - 1)
    BY <1>0, <2>1 DEF ImmFits
  <2> DEFINE h == Bits(m, 11, 5)
             l == Bits(m, 4, 0)
  <2>3. h \in 0 .. 127 /\ l \in 0 .. 31 /\ sext(h * 32 + l, 12) = m
    BY <2>2, Imm12Parts
  <2>4. w = WordWith(35, l, Funct3(op), i.rs1, i.rs2, h)
    BY <2>1, EncodeByFormat DEF w, op, m
  <2> HIDE DEF h, l
  <2>5. /\ w \in InsnWord /\ w.opc = 35 /\ w.rd = l /\ w.f3 = Funct3(op)
        /\ w.rs1 = i.rs1 /\ w.rs2 = i.rs2 /\ w.f7 = h
    BY <1>0, <1>f, <2>3, <2>4 DEF WordWith, InsnWord
  <2>6. OpOf(w) = op
    <3>1. op \notin System /\ op \notin RegOps \cup Shifts
      BY <1>4 DEF Stores, Shifts, System, RegOps
    <3> QED BY <1>0, <2>1, <2>5, <3>1, EncodedOp
  <2>7. ImmOf(w) = m
    BY <2>3, <2>5, ImmByOpcode DEF imm_s
  <2>8. ClearsRd(w) /\ ~ClearsRs1(w) /\ ~ClearsRs2(w) /\ i.rd = 0
    BY <1>0, <2>1, <2>5, Cleared
  <2> QED BY <1>0, <2>5, <2>6, <2>7, <2>8, DecodedFields DEF op, m, w
<1>5. CASE op \in Branches
  <2>1. Format(op) = "B" /\ OpcodeOf(op) = 99
    BY <1>5, OpcodeByKind
  <2>2. PICK s, t \in {0, 1}, h \in 0 .. 63, l \in 0 .. 15 : m = ImmB(s, t, h, l)
    <3>1. m \in -(2 ^ 12) .. (2 ^ 12 - 1) /\ m % 2 = 0
      BY <1>0, <2>1 DEF ImmFits
    <3> QED BY <3>1, ImmBParts, Zenon
  <2>3. /\ Bits(m, 12, 12) = s /\ Bits(m, 11, 11) = t
        /\ Bits(m, 10, 5) = h /\ Bits(m, 4, 1) = l
        /\ sext(s * 2 ^ 12 + t * 2 ^ 11 + h * 32 + l * 2, 13) = m
    <3>1. HoldsB(ImmB(s, t, h, l), s, t, h, l)
      BY <2>2, ImmBBits, Zenon
    <3> QED BY <2>2, <3>1, Zenon DEF HoldsB
  <2> DEFINE rd == l * 2 + t
             f7 == s * 64 + h
  <2>4. rd \in 0 .. 31 /\ f7 \in 0 .. 127
        /\ Bits(rd, 0, 0) = t /\ Bits(rd, 4, 1) = l /\ Bits(f7, 6, 6) = s /\ Bits(f7, 5, 0) = h
    BY FieldParts
  <2>5. w = WordWith(99, rd, Funct3(op), i.rs1, i.rs2, f7)
    BY <2>1, <2>3, EncodeByFormat DEF w, op, m
  <2> HIDE DEF rd, f7
  <2>6. /\ w \in InsnWord /\ w.opc = 99 /\ w.rd = rd /\ w.f3 = Funct3(op)
        /\ w.rs1 = i.rs1 /\ w.rs2 = i.rs2 /\ w.f7 = f7
    BY <1>0, <1>f, <2>4, <2>5 DEF WordWith, InsnWord
  <2>7. OpOf(w) = op
    <3>1. op \notin System /\ op \notin RegOps \cup Shifts
      BY <1>5 DEF Branches, Shifts, System, RegOps
    <3> QED BY <1>0, <2>1, <2>6, <3>1, EncodedOp
  <2>8. imm_b(w) = m
    BY <2>3, <2>4, <2>6 DEF imm_b
  <2>9. ImmOf(w) = m
    BY <2>6, <2>8, ImmByOpcode
  <2>10. ClearsRd(w) /\ ~ClearsRs1(w) /\ ~ClearsRs2(w) /\ i.rd = 0
    BY <1>0, <2>1, <2>6, Cleared
  <2> QED BY <1>0, <2>6, <2>7, <2>9, <2>10, DecodedFields DEF op, m, w
<1>6. CASE op \in Upper
  <2>1. Format(op) = "U" /\ OpcodeOf(op) \in {55, 23}
    BY <1>6, OpcodeByKind DEF Upper
  <2>2. PICK g \in 0 .. 127, q \in 0 .. 31, r \in 0 .. 31, f \in 0 .. 7 : m = ImmU(g, q, r, f)
    <3>1. m \div 2 ^ 12 \in -(2 ^ 19) .. (2 ^ 19 - 1) /\ m % 2 ^ 12 = 0
      BY <1>0, <2>1 DEF ImmFits
    <3> QED BY <1>0, <3>1, ImmUParts, Zenon
  <2>3. /\ (m \div 2 ^ 25) % 128 = g /\ Bits(m, 24, 20) = q
        /\ Bits(m, 19, 15) = r /\ Bits(m, 14, 12) = f
        /\ sext(g * 2 ^ 13 + q * 2 ^ 8 + r * 8 + f, 20) * 2 ^ 12 = m
    <3>1. HoldsU(ImmU(g, q, r, f), g, q, r, f)
      BY <2>2, ImmUBits, Zenon
    <3> QED BY <2>2, <3>1, Zenon DEF HoldsU
  <2>4. w = WordWith(OpcodeOf(op), i.rd, f, r, q, g)
    BY <2>1, <2>3, EncodeByFormat DEF w, op, m
  <2>5. /\ w \in InsnWord /\ w.opc = OpcodeOf(op) /\ w.rd = i.rd /\ w.f3 = f
        /\ w.rs1 = r /\ w.rs2 = q /\ w.f7 = g
    <3>1. OpcodeOf(op) \in 0 .. 127
      BY <2>1
    <3> QED BY <1>0, <2>4, <3>1 DEF WordWith, InsnWord
  <2>6. OpOf(w) = op
    <3>1. op \notin System /\ op \notin RegOps \cup Shifts
      BY <1>6 DEF Upper, Shifts, System, RegOps
    <3> QED BY <1>0, <1>6, <2>5, <3>1, EncodedOp
  <2>7. imm_u(w) = m
    BY <2>3, <2>5 DEF imm_u
  <2>8. ImmOf(w) = m
    BY <2>1, <2>5, <2>7, ImmByOpcode
  <2>9. ~ClearsRd(w) /\ ClearsRs1(w) /\ ClearsRs2(w) /\ i.rs1 = 0 /\ i.rs2 = 0
    BY <1>0, <2>1, <2>5, Cleared
  <2> QED BY <1>0, <2>5, <2>6, <2>8, <2>9, DecodedFields DEF op, m, w
<1>7. CASE op = "JAL"
  <2>1. Format(op) = "J" /\ OpcodeOf(op) = 111
    BY <1>7, OpcodeByKind
  <2>2. PICK s \in {0, 1}, r \in 0 .. 31, f \in 0 .. 7, t \in {0, 1}, h \in 0 .. 63,
             l \in 0 .. 15 : m = ImmJ(s, r, f, t, h, l)
    <3>1. m \in -(2 ^ 20) .. (2 ^ 20 - 1) /\ m % 2 = 0
      BY <1>0, <2>1 DEF ImmFits
    <3> QED BY <3>1, ImmJParts, Zenon
  <2>3. /\ Bits(m, 20, 20) = s /\ Bits(m, 19, 15) = r /\ Bits(m, 14, 12) = f
        /\ Bits(m, 11, 11) = t /\ Bits(m, 10, 5) = h /\ Bits(m, 4, 1) = l
        /\ sext(s * 2 ^ 20 + (r * 8 + f) * 2 ^ 12 + t * 2 ^ 11 + h * 32 + l * 2, 21) = m
    <3>1. HoldsJ(ImmJ(s, r, f, t, h, l), s, r, f, t, h, l)
      BY <2>2, ImmJBits, Zenon
    <3> QED BY <2>2, <3>1, Zenon DEF HoldsJ
  <2> DEFINE rs2 == l * 2 + t
             f7 == s * 64 + h
  <2>4. rs2 \in 0 .. 31 /\ f7 \in 0 .. 127
        /\ Bits(rs2, 0, 0) = t /\ Bits(rs2, 4, 1) = l
        /\ Bits(f7, 6, 6) = s /\ Bits(f7, 5, 0) = h
    BY FieldParts
  <2>5. w = WordWith(111, i.rd, f, r, rs2, f7)
    BY <2>1, <2>3, EncodeByFormat DEF w, op, m
  <2> HIDE DEF rs2, f7
  <2>6. /\ w \in InsnWord /\ w.opc = 111 /\ w.rd = i.rd /\ w.f3 = f
        /\ w.rs1 = r /\ w.rs2 = rs2 /\ w.f7 = f7
    BY <1>0, <2>4, <2>5 DEF WordWith, InsnWord
  <2>7. OpOf(w) = op
    <3>1. op \notin System /\ op \notin RegOps \cup Shifts
      BY <1>7 DEF Shifts, System, RegOps
    <3> QED BY <1>0, <1>7, <2>1, <2>6, <3>1, EncodedOp
  <2>8. imm_j(w) = m
    BY <2>3, <2>4, <2>6 DEF imm_j
  <2>9. ImmOf(w) = m
    BY <2>6, <2>8, ImmByOpcode
  <2>10. ~ClearsRd(w) /\ ClearsRs1(w) /\ ClearsRs2(w) /\ i.rs1 = 0 /\ i.rs2 = 0
    BY <1>0, <2>1, <2>6, Cleared
  <2> QED BY <1>0, <2>6, <2>7, <2>9, <2>10, DecodedFields DEF op, m, w
<1>8. CASE op \in System
  <2>1. Format(op) = "none" /\ OpcodeOf(op) \in {15, 115}
    BY <1>8, OpcodeByKind DEF System
  <2> DEFINE rs2 == IF op = "EBREAK" THEN 1 ELSE 0
  <2>2. w = WordWith(OpcodeOf(op), i.rd, Funct3(op), i.rs1, rs2, Funct7(op))
    BY <2>1, EncodeByFormat DEF w, op
  <2>3. Funct3(op) = 0 /\ Funct7(op) = 0
    BY <1>8 DEF System, Funct3, Funct7
  <2>4. m = 0 /\ i.rd = 0 /\ i.rs1 = 0 /\ i.rs2 = 0
    BY <1>0, <2>1 DEF ImmFits
  <2>5. rs2 \in 0 .. 31
    OBVIOUS
  <2> HIDE DEF rs2
  <2>6. /\ w \in InsnWord /\ w.opc = OpcodeOf(op) /\ w.f3 = 0 /\ w.rs2 = rs2 /\ w.f7 = 0
    <3>1. OpcodeOf(op) \in 0 .. 127
      BY <2>1
    <3> QED BY <1>0, <1>f, <2>2, <2>3, <2>5, <3>1 DEF WordWith, InsnWord
  <2>7. OpOf(w) = op
    <3>1. op \notin RegOps \cup Shifts
      BY <1>8 DEF Shifts, System, RegOps
    <3> QED BY <1>0, <2>3, <2>6, <3>1, EncodedOp DEF rs2
  <2>8. ImmOf(w) = 0 /\ ClearsRd(w) /\ ClearsRs1(w) /\ ClearsRs2(w)
    BY <2>1, <2>6, ImmByOpcode, Cleared
  <2> QED BY <1>0, <2>4, <2>7, <2>8, DecodedFields DEF op, m, w
<1> QED BY <1>0, <1>1, <1>2, <1>3, <1>4, <1>5, <1>6, <1>7, <1>8, OpKinds

\* decode() recovers every legal instruction from its encoding.
THEOREM EncodingsDecode == Spec => []EncodedIsDecoded
<1>1. (unit = "encoder" => Legal(input)) => EncodedIsDecoded
  BY RoundTrip DEF EncodedIsDecoded
<1> QED BY <1>1, DecoderInputs, PTL

\* The opcode and the funct fields of a legal word are those the encoder
\* gives its operation.
LEMMA DecodedFunct ==
    ASSUME NEW w \in InsnWord, OpOf(w) # "ILLEGAL"
    PROVE  /\ OpOf(w) \in Op \ {"ILLEGAL"}
           /\ w.opc = OpcodeOf(OpOf(w))
           /\ OpOf(w) \notin Upper \cup {"JAL"} => w.f3 = Funct3(OpOf(w))
           /\ OpOf(w) \in RegOps \cup Shifts => w.f7 = Funct7(OpOf(w))
           /\ OpOf(w) \in {"ECALL", "EBREAK"} =>
                w.f7 = 0 /\ w.rs2 = IF OpOf(w) = "EBREAK" THEN 1 ELSE 0
<1> DEFINE op == OpOf(w)
<1>0. w.f3 \in 0 .. 7 /\ w.f7 \in 0 .. 127 /\ w.rs2 \in 0 .. 31
  BY DEF InsnWord
<1>1. CASE w.opc \in {55, 23, 111}
  BY <1>1, OpByOpcode, OpcodeByKind DEF Upper, RegOps, Shifts, Op, Jumps
<1>2. CASE w.opc = 103
  <2>1. op = "JALR" /\ w.f3 = 0
    BY <1>2, OpByOpcode
  <2> QED BY <1>2, <2>1, OpcodeByKind DEF Funct3, RegOps, Shifts, Op, Jumps
<1>3. CASE w.opc = 99
  <2>1. op = BranchOp(w.f3)
    BY <1>3, OpByOpcode
  <2>2. op \in Branches /\ w.f3 = Funct3(op)
    BY <1>0, <2>1 DEF BranchOp, Branches, Funct3
  <2> QED BY <1>3, <2>2, OpcodeByKind DEF Branches, RegOps, Shifts, Op
<1>4. CASE w.opc = 3
  <2>1. op = LoadOp(w.f3)
    BY <1>4, OpByOpcode
  <2>2. op \in Loads /\ w.f3 = Funct3(op)
    BY <1>0, <2>1 DEF LoadOp, Loads, Funct3
  <2> QED BY <1>4, <2>2, OpcodeByKind DEF Loads, RegOps, Shifts, Op
<1>5. CASE w.opc = 35
  <2>1. op = StoreOp(w.f3)
    BY <1>5, OpByOpcode
  <2>2. op \in Stores /\ w.f3 = Funct3(op)
    BY <1>0, <2>1 DEF StoreOp, Stores, Funct3
  <2> QED BY <1>5, <2>2, OpcodeByKind DEF Stores, RegOps, Shifts, Op
<1>6. CASE w.opc = 19
  <2>1. op = OpImmOp(w.f3, w.f7)
    BY <1>6, OpByOpcode
  <2>2. op \in ImmOps /\ w.f3 = Funct3(op) /\ (op \in Shifts => w.f7 = Funct7(op))
    <3>1. CASE w.f3 \in {1, 5}
      <4>1. op = ShiftOp(w.f3, w.f7)
        BY <2>1, <3>1 DEF OpImmOp
      <4>2. \/ op = "SLLI" /\ w.f3 = 1 /\ w.f7 = 0
            \/ op = "SRLI" /\ w.f3 = 5 /\ w.f7 = 0
            \/ op = "SRAI" /\ w.f3 = 5 /\ w.f7 = 32
        BY <4>1, Opcodes DEF ShiftOp
      <4> QED BY <4>2 DEF ImmOps, Funct3, Funct7
    <3>2. CASE w.f3 \notin {1, 5}
      <4>1. \/ (op = "ADDI"  /\ w.f3 = 0) \/ (op = "SLTI" /\ w.f3 = 2)
            \/ (op = "SLTIU" /\ w.f3 = 3) \/ (op = "XORI" /\ w.f3 = 4)
            \/ (op = "ORI"   /\ w.f3 = 6) \/ (op = "ANDI" /\ w.f3 = 7)
        BY <1>0, <2>1, <3>2 DEF OpImmOp
      <4> QED BY <4>1 DEF ImmOps, Shifts, Funct3
    <3> QED BY <3>1, <3>2
  <2>3. op \notin RegOps /\ op \notin {"ECALL", "EBREAK"} /\ op \in Op \ {"ILLEGAL"}
    BY <2>2 DEF ImmOps, RegOps, Op
  <2> QED BY <1>6, <2>2, <2>3, OpcodeByKind
<1>7. CASE w.opc = 51
  <2>1. op = OpOp(w.f3, w.f7)
    BY <1>7, OpByOpcode
  <2>2. /\ BaseOps[1] = "ADD" /\ BaseOps[2] = "SLL" /\ BaseOps[3] = "SLT"
        /\ BaseOps[4] = "SLTU" /\ BaseOps[5] = "XOR" /\ BaseOps[6] = "SRL"
        /\ BaseOps[7] = "OR" /\ BaseOps[8] = "AND"
    BY DEF BaseOps
  <2>3. op \in RegOps /\ w.f3 = Funct3(op) /\ w.f7 = Funct7(op)
    <3>1. CASE w.f7 = 0
      <4>1. op = BaseOps[w.f3 + 1]
        BY <2>1, <3>1, Opcodes DEF OpOp
      <4> QED BY <1>0, <2>2, <3>1, <4>1 DEF RegOps, Funct3, Funct7
    <3>2. CASE w.f7 # 0
      <4>1. \/ op = "SUB" /\ w.f3 = 0 /\ w.f7 = 32
            \/ op = "SRA" /\ w.f3 = 5 /\ w.f7 = 32
        BY <2>1, <3>2, Opcodes DEF OpOp
      <4> QED BY <4>1 DEF RegOps, Funct3, Funct7
    <3> QED BY <3>1, <3>2
  <2>4. op \notin {"ECALL", "EBREAK"} /\ op \in Op \ {"ILLEGAL"}
    BY <2>3 DEF RegOps, Op
  <2> QED BY <1>7, <2>3, <2>4, OpcodeByKind
<1>8. CASE w.opc \in {15, 115}
  <2>1. op = PrivilegedOp(w)
    BY <1>8, OpByOpcode
  <2>2. w.f3 = 0
    BY <2>1 DEF PrivilegedOp
  <2>3. CASE w.opc = 15
    <3>1. op = "FENCE"
      BY <2>1, <2>2, <2>3, Opcodes DEF PrivilegedOp
    <3> QED BY <2>2, <2>3, <3>1, OpcodeByKind DEF Funct3, RegOps, Shifts, Op, System
  <2>4. CASE w.opc = 115
    <3>1. op = SystemOp(w.f7 * 32 + w.rs2)
      BY <2>1, <2>2, <2>4, Opcodes DEF PrivilegedOp, funct12
    <3>2. \/ op = "ECALL" /\ w.f7 * 32 + w.rs2 = 0
          \/ op = "EBREAK" /\ w.f7 * 32 + w.rs2 = 1
      BY <3>1 DEF SystemOp
    <3>3. w.f7 = 0 /\ w.rs2 = w.f7 * 32 + w.rs2
      <4>1. \A x \in 0 .. 127, y \in 0 .. 31 :
              x * 32 + y \in {0, 1} => x = 0 /\ y = x * 32 + y
        OBVIOUS
      <4>2. w.f7 * 32 + w.rs2 \in {0, 1}
        BY <3>2
      <4> QED BY <1>0, <4>1, <4>2, Zenon
    <3> QED BY <2>2, <2>4, <3>2, <3>3, OpcodeByKind DEF Funct3, RegOps, Shifts, Op, System
  <2> QED BY <1>8, <2>3, <2>4
<1> QED BY <1>1, <1>2, <1>3, <1>4, <1>5, <1>6, <1>7, <1>8, OpByOpcode

\* A word is the record of its fields.
LEMMA WordRecord ==
    ASSUME NEW w \in InsnWord
    PROVE  /\ w = WordWith(w.opc, w.rd, w.f3, w.rs1, w.rs2, w.f7)
           /\ w.opc \in 0 .. 127 /\ w.rd \in 0 .. 31 /\ w.f3 \in 0 .. 7
           /\ w.rs1 \in 0 .. 31 /\ w.rs2 \in 0 .. 31 /\ w.f7 \in 0 .. 127
BY DEF InsnWord, WordWith

\* What decode() makes of a word.
LEMMA DecodedRecord ==
    ASSUME NEW w
    PROVE  LET i == decode_word(w)
           IN  /\ i.op = OpOf(w) /\ i.imm = ImmOf(w)
               /\ i.rd  = IF ClearsRd(w)  THEN 0 ELSE w.rd
               /\ i.rs1 = IF ClearsRs1(w) THEN 0 ELSE w.rs1
               /\ i.rs2 = IF ClearsRs2(w) THEN 0 ELSE w.rs2
BY DEF decode_word

\* A word decode() takes for an instruction is the encoding of what it says.
LEMMA WordTrip ==
    ASSUME NEW w \in InsnWord, OpOf(w) # "ILLEGAL", Format(OpOf(w)) # "none"
    PROVE  Encode(decode_word(w)) = w
<1> DEFINE i == decode_word(w)
           op == OpOf(w)
           m == ImmOf(w)
           e == Encode(i)
<1>0. /\ i.op = op /\ i.imm = m
      /\ i.rd  = IF ClearsRd(w)  THEN 0 ELSE w.rd
      /\ i.rs1 = IF ClearsRs1(w) THEN 0 ELSE w.rs1
      /\ i.rs2 = IF ClearsRs2(w) THEN 0 ELSE w.rs2
  BY DecodedRecord
<1>1. /\ op \in Op \ {"ILLEGAL"}
      /\ w.opc = OpcodeOf(op)
      /\ op \notin Upper \cup {"JAL"} => w.f3 = Funct3(op)
      /\ op \in RegOps \cup Shifts => w.f7 = Funct7(op)
  BY DecodedFunct
<1>2. /\ w = WordWith(w.opc, w.rd, w.f3, w.rs1, w.rs2, w.f7)
      /\ w.opc \in 0 .. 127 /\ w.rd \in 0 .. 31 /\ w.f3 \in 0 .. 7
      /\ w.rs1 \in 0 .. 31 /\ w.rs2 \in 0 .. 31 /\ w.f7 \in 0 .. 127
  BY WordRecord
<1>3. LET f == Format(op)
          opc == w.opc
          f3 == Funct3(op)
          f7 == Funct7(op)
      IN  /\ f = "R" => e = WordWith(opc, i.rd, f3, i.rs1, i.rs2, f7)
          /\ f = "shift" => e = WordWith(opc, i.rd, f3, i.rs1, m, f7)
          /\ f = "I" => e = WordWith(opc, i.rd, f3, i.rs1, Bits(m, 4, 0), Bits(m, 11, 5))
          /\ f = "S" => e = WordWith(opc, Bits(m, 4, 0), f3, i.rs1, i.rs2, Bits(m, 11, 5))
          /\ f = "B" => e = WordWith(opc, Bits(m, 4, 1) * 2 + Bits(m, 11, 11), f3, i.rs1,
                                     i.rs2, Bits(m, 12, 12) * 64 + Bits(m, 10, 5))
          /\ f = "U" => e = WordWith(opc, i.rd, Bits(m, 14, 12), Bits(m, 19, 15),
                                     Bits(m, 24, 20), (m \div 2 ^ 25) % 128)
          /\ f = "J" => e = WordWith(opc, i.rd, Bits(m, 14, 12), Bits(m, 19, 15),
                                     Bits(m, 4, 1) * 2 + Bits(m, 11, 11),
                                     Bits(m, 20, 20) * 64 + Bits(m, 10, 5))
  BY <1>0, <1>1, EncodeByFormat, Zenon
<1> HIDE DEF i, m, e, op
<1>4. CASE op \in RegOps
  <2>1. w.opc = 51 /\ Format(op) = "R" /\ op \notin Upper \cup {"JAL"}
    BY <1>1, <1>4, OpcodeByKind DEF RegOps, Upper
  <2>2. ~ClearsRd(w) /\ ~ClearsRs1(w) /\ ~ClearsRs2(w)
    BY <2>1, Cleared
  <2> QED BY <1>0, <1>1, <1>2, <1>3, <1>4, <2>1, <2>2 DEF e, i
<1>5. CASE op \in Shifts
  <2>1. op \in ImmOps /\ op \notin Upper \cup {"JAL"}
    BY <1>5 DEF Shifts, ImmOps, Upper
  <2>2. w.opc = 19 /\ Format(op) = "shift"
    BY <1>1, <1>5, <2>1, OpcodeByKind
  <2>3. ~ClearsRd(w) /\ ~ClearsRs1(w)
    BY <2>2, Cleared
  <2>4. m = imm_i(w) % 32
    BY <1>5, <2>2, ImmByOpcode DEF m, op, Shifts
  <2>5. imm_i(w) % 32 = w.rs2
    <3>1. \A x \in 0 .. 127, y \in 0 .. 31 : sext(x * 32 + y, 12) % 32 = y
      BY DEF sext
    <3>2. imm_i(w) = sext(w.f7 * 32 + w.rs2, 12)
      BY DEF imm_i, funct12
    <3> QED BY <1>2, <3>1, <3>2
  <2> QED BY <1>0, <1>1, <1>2, <1>3, <1>5, <2>1, <2>2, <2>3, <2>4, <2>5 DEF e, i
<1>6. CASE op \in Loads \/ op \in ImmOps \ Shifts \/ op = "JALR"
  <2>1. /\ w.opc \in {3, 19, 103} /\ Format(op) = "I" /\ op \notin Upper \cup {"JAL"}
        /\ w.opc = 103 => w.f3 = 0
    <3>1. CASE op \in Loads
      BY <1>1, <3>1, OpcodeByKind DEF Loads, Upper
    <3>2. CASE op \in ImmOps \ Shifts
      BY <1>1, <3>2, OpcodeByKind DEF ImmOps, Upper
    <3>3. CASE op = "JALR"
      <4>1. w.f3 = Funct3("JALR")
        BY <1>1, <3>3 DEF Upper
      <4> QED BY <1>1, <3>3, <4>1, OpcodeByKind DEF Funct3, Upper
    <3> QED BY <1>6, <3>1, <3>2, <3>3
  <2>2. ~ClearsRd(w) /\ ~ClearsRs1(w)
    BY <2>1, Cleared
  <2>3. m = imm_i(w)
    <3>1. op \notin {"SLLI", "SRLI", "SRAI"}
      BY <1>6 DEF Shifts, Loads
    <3> QED BY <2>1, <3>1, ImmByOpcode DEF m, op
  <2>4. m = sext(w.f7 * 32 + w.rs2, 12)
    BY <2>3 DEF imm_i, funct12
  <2>5. Bits(m, 11, 5) = w.f7 /\ Bits(m, 4, 0) = w.rs2
    BY <1>2, <2>4, Imm12, Zenon
  <2> QED BY <1>0, <1>1, <1>2, <1>3, <2>1, <2>2, <2>5 DEF e, i
<1>7. CASE op \in Stores
  <2>1. w.opc = 35 /\ Format(op) = "S" /\ op \notin Upper \cup {"JAL"}
    BY <1>1, <1>7, OpcodeByKind DEF Stores, Upper
  <2>2. ~ClearsRs1(w) /\ ~ClearsRs2(w)
    BY <2>1, Cleared
  <2>3. m = sext(w.f7 * 32 + w.rd, 12)
    BY <2>1, ImmByOpcode DEF m, imm_s
  <2>4. Bits(m, 11, 5) = w.f7 /\ Bits(m, 4, 0) = w.rd
    BY <1>2, <2>3, Imm12, Zenon
  <2> QED BY <1>0, <1>1, <1>2, <1>3, <2>1, <2>2, <2>4 DEF e, i
<1>8. CASE op \in Branches
  <2>1. w.opc = 99 /\ Format(op) = "B" /\ op \notin Upper \cup {"JAL"}
    BY <1>1, <1>8, OpcodeByKind DEF Branches, Upper
  <2>2. ~ClearsRs1(w) /\ ~ClearsRs2(w)
    BY <2>1, Cleared
  <2> DEFINE s == Bits(w.f7, 6, 6)
             t == Bits(w.rd, 0, 0)
             h == Bits(w.f7, 5, 0)
             l == Bits(w.rd, 4, 1)
  <2>3. /\ s \in {0, 1} /\ t \in {0, 1} /\ h \in 0 .. 63 /\ l \in 0 .. 15
        /\ l * 2 + t = w.rd /\ s * 64 + h = w.f7
    BY <1>2, FieldParts, Zenon
  <2>4. m = sext(s * 2 ^ 12 + t * 2 ^ 11 + h * 32 + l * 2, 13)
    BY <2>1, ImmByOpcode DEF m, imm_b
  <2> HIDE DEF s, t, h, l
  <2>5. HoldsB(ImmB(s, t, h, l), s, t, h, l)
    BY <2>3, ImmBBits, Zenon
  <2>6. HoldsB(m, s, t, h, l)
    BY <2>4, <2>5, Zenon DEF HoldsB
  <2>7. /\ Bits(m, 12, 12) = s /\ Bits(m, 11, 11) = t
        /\ Bits(m, 10, 5) = h /\ Bits(m, 4, 1) = l
    BY <2>6 DEF HoldsB
  <2> QED BY <1>0, <1>1, <1>2, <1>3, <2>1, <2>2, <2>3, <2>7 DEF e, i
<1>9. CASE op \in Upper
  <2>1. w.opc \in {55, 23} /\ Format(op) = "U"
    BY <1>1, <1>9, OpcodeByKind DEF Upper
  <2>2. ~ClearsRd(w)
    BY <2>1, Cleared
  <2>3. m = sext(w.f7 * 2 ^ 13 + w.rs2 * 2 ^ 8 + w.rs1 * 8 + w.f3, 20) * 2 ^ 12
    BY <2>1, ImmByOpcode DEF m, imm_u
  <2>4. HoldsU(ImmU(w.f7, w.rs2, w.rs1, w.f3), w.f7, w.rs2, w.rs1, w.f3)
    BY <1>2, ImmUBits, Zenon
  <2>5. HoldsU(m, w.f7, w.rs2, w.rs1, w.f3)
    BY <2>3, <2>4, Zenon DEF HoldsU
  <2>6. /\ (m \div 2 ^ 25) % 128 = w.f7 /\ Bits(m, 24, 20) = w.rs2
        /\ Bits(m, 19, 15) = w.rs1 /\ Bits(m, 14, 12) = w.f3
    BY <2>5 DEF HoldsU
  <2> QED BY <1>0, <1>2, <1>3, <2>1, <2>2, <2>6 DEF e, i
<1>10. CASE op = "JAL"
  <2>1. w.opc = 111 /\ Format(op) = "J"
    BY <1>1, <1>10, OpcodeByKind
  <2>2. ~ClearsRd(w)
    BY <2>1, Cleared
  <2> DEFINE s == Bits(w.f7, 6, 6)
             t == Bits(w.rs2, 0, 0)
             h == Bits(w.f7, 5, 0)
             l == Bits(w.rs2, 4, 1)
  <2>3. /\ s \in {0, 1} /\ t \in {0, 1} /\ h \in 0 .. 63 /\ l \in 0 .. 15
        /\ l * 2 + t = w.rs2 /\ s * 64 + h = w.f7
    BY <1>2, FieldParts, Zenon
  <2>4. m = sext(s * 2 ^ 20 + (w.rs1 * 8 + w.f3) * 2 ^ 12 + t * 2 ^ 11 + h * 32 + l * 2, 21)
    BY <2>1, ImmByOpcode DEF m, imm_j
  <2> HIDE DEF s, t, h, l
  <2>5. HoldsJ(ImmJ(s, w.rs1, w.f3, t, h, l), s, w.rs1, w.f3, t, h, l)
    BY <1>2, <2>3, ImmJBits, Zenon
  <2>6. HoldsJ(m, s, w.rs1, w.f3, t, h, l)
    BY <2>4, <2>5, Zenon DEF HoldsJ
  <2>7. /\ Bits(m, 20, 20) = s /\ Bits(m, 19, 15) = w.rs1 /\ Bits(m, 14, 12) = w.f3
        /\ Bits(m, 11, 11) = t /\ Bits(m, 10, 5) = h /\ Bits(m, 4, 1) = l
    BY <2>6 DEF HoldsJ
  <2> QED BY <1>0, <1>2, <1>3, <2>1, <2>2, <2>3, <2>7 DEF e, i
<1>11. op \notin System
  BY OpcodeByKind DEF op
<1> QED BY <1>1, <1>4, <1>5, <1>6, <1>7, <1>8, <1>9, <1>10, <1>11, OpKinds

\* decode() accepts only encodings: the word is the one the format and the
\* instruction listing give, and of FENCE, ECALL and EBREAK in the fields
\* that are not ignored.
THEOREM OnlyEncodingsDecode == Spec => []DecodedIsEncoded
<1>1. ASSUME NEW w \in InsnWord, OpOf(w) # "ILLEGAL", Format(OpOf(w)) = "none"
      PROVE  LET e == Encode(decode_word(w))
             IN  /\ e.opc = w.opc /\ e.f3 = w.f3
                 /\ OpOf(w) # "FENCE" => e.rs2 = w.rs2 /\ e.f7 = w.f7
  <2> DEFINE i == decode_word(w)
             op == OpOf(w)
             rs2 == IF op = "EBREAK" THEN 1 ELSE 0
  <2>1. i.op = op
    BY DecodedRecord
  <2>2. /\ op \in Op \ {"ILLEGAL"} /\ w.opc = OpcodeOf(op)
        /\ op \notin Upper \cup {"JAL"} => w.f3 = Funct3(op)
        /\ op \in {"ECALL", "EBREAK"} => w.f7 = 0 /\ w.rs2 = rs2
    BY <1>1, DecodedFunct
  <2>3. Encode(i) = WordWith(w.opc, i.rd, Funct3(op), i.rs1, rs2, Funct7(op))
    BY <1>1, <2>1, <2>2, EncodeByFormat, Zenon
  <2>4. op \in System
    BY <1>1, <2>2, OpKinds, OpcodeByKind DEF Upper
  <2>5. op \notin Upper \cup {"JAL"} /\ Funct7(op) = 0
    BY <2>4 DEF System, Upper, Funct7
  <2>6. op # "FENCE" => op \in {"ECALL", "EBREAK"}
    BY <2>4 DEF System
  <2> HIDE DEF i, op, rs2
  <2>7. Encode(i).opc = w.opc /\ Encode(i).f3 = Funct3(op) /\ Encode(i).rs2 = rs2
        /\ Encode(i).f7 = Funct7(op)
    BY <2>3 DEF WordWith
  <2> QED BY <2>2, <2>5, <2>6, <2>7 DEF op, i
<1>2. (unit = "decoder" => input \in InsnWord) => DecodedIsEncoded
  <2> SUFFICES ASSUME unit = "decoder", input \in InsnWord, decode_word(input).op # "ILLEGAL"
               PROVE  LET i == decode_word(input)
                          e == Encode(i)
                      IN  /\ e.opc = input.opc
                          /\ IF Format(i.op) # "none" THEN e = input
                             ELSE /\ e.f3 = input.f3
                                  /\ i.op # "FENCE" => e.rs2 = input.rs2 /\ e.f7 = input.f7
    BY DEF DecodedIsEncoded
  <2>1. decode_word(input).op = OpOf(input)
    BY DecodedRecord
  <2>2. CASE Format(OpOf(input)) = "none"
    BY <1>1, <2>1, <2>2
  <2>3. CASE Format(OpOf(input)) # "none"
    BY <2>1, <2>3, WordTrip
  <2> QED BY <2>2, <2>3
<1> QED BY <1>2, DecoderInputs, PTL

-----------------------------------------------------------------------------
(***************************************************************************)
(* The ALU.  Quotients by a power of two, whose exponent is a variable:    *)
(* every fact about them is traced to the uniqueness of quotient and       *)
(* remainder.                                                              *)
(***************************************************************************)

\* Products of whole numbers, as the arguments below need them.
LEMMA Products ==
    /\ \A p, d \in Nat : d >= 1 => p * d >= p
    /\ \A x, y, z \in Int : x * (y + z) = x * y + x * z
    /\ \A x, y, z \in Int : x * (y - z) = x * y - x * z
    /\ \A x, y, z \in Int : (x * y) * z = x * (y * z)
    /\ \A x, y \in Int : x * y = y * x /\ x * y \in Int
    /\ \A x, y \in Nat : x * y \in Nat
    /\ \A p, x, y \in Nat : x <= y => p * x <= p * y
<1>1. \A p, d \in Nat : d >= 1 => p * d >= p
  OBVIOUS
<1>2. \A x, y, z \in Int : x * (y + z) = x * y + x * z
  OBVIOUS
<1>3. \A x, y, z \in Int : x * (y - z) = x * y - x * z
  OBVIOUS
<1>4. \A x, y, z \in Int : (x * y) * z = x * (y * z)
  OBVIOUS
<1>5. \A x, y \in Int : x * y = y * x /\ x * y \in Int
  OBVIOUS
<1>6. \A x, y \in Nat : x * y \in Nat
  OBVIOUS
<1>7. \A p, x, y \in Nat : x <= y => p * x <= p * y
  OBVIOUS
<1> QED BY <1>1, <1>2, <1>3, <1>4, <1>5, <1>6, <1>7

\* Quotient and remainder.
LEMMA Divided ==
    ASSUME NEW x \in Int, NEW p \in Nat, p >= 1
    PROVE  /\ x \div p \in Int /\ x % p \in 0 .. (p - 1)
           /\ x = p * (x \div p) + (x % p)
OBVIOUS

\* They are the only ones.
LEMMA DivUnique ==
    ASSUME NEW p \in Nat, NEW q \in Int, NEW r \in Int, 0 <= r, r < p
    PROVE  (p * q + r) \div p = q /\ (p * q + r) % p = r
<1> DEFINE x == p * q + r
           y == x \div p
           s == x % p
<1>0. p * q \in Int /\ x \in Int
  BY Products
<1>1. y \in Int /\ s \in 0 .. (p - 1) /\ x = p * y + s
  BY <1>0, Divided
<1>2. ~(q < y)
  <2>1. SUFFICES ASSUME q < y PROVE FALSE
    OBVIOUS
  <2>2. y - q \in Nat /\ y - q >= 1
    BY <1>1, <2>1
  <2>3. p * (y - q) >= p
    BY <2>2, Products
  <2>4. p * (y - q) = p * y - p * q
    BY <1>1, Products
  <2>5. p * y \in Int
    BY <1>1, Products
  <2> HIDE DEF y, s
  <2> QED BY <1>0, <1>1, <2>3, <2>4, <2>5
<1>3. ~(y < q)
  <2>1. SUFFICES ASSUME y < q PROVE FALSE
    OBVIOUS
  <2>2. q - y \in Nat /\ q - y >= 1
    BY <1>1, <2>1
  <2>3. p * (q - y) >= p
    BY <2>2, Products
  <2>4. p * (q - y) = p * q - p * y
    BY <1>1, Products
  <2>5. p * y \in Int
    BY <1>1, Products
  <2> HIDE DEF y, s
  <2> QED BY <1>0, <1>1, <2>3, <2>4, <2>5
<1>4. y = q
  BY <1>1, <1>2, <1>3
<1>5. s = r
  <2> HIDE DEF y, s
  <2> QED BY <1>0, <1>1, <1>4
<1> QED BY <1>4, <1>5

\* Adding a multiple of the divisor adds to the quotient.
LEMMA DivShift ==
    ASSUME NEW x \in Int, NEW p \in Nat, p >= 1, NEW k \in Int
    PROVE  (x + p * k) \div p = (x \div p) + k
<1> DEFINE y == x \div p
           s == x % p
<1>1. y \in Int /\ s \in 0 .. (p - 1) /\ x = p * y + s
  BY Divided
<1> HIDE DEF y, s
<1>2. p * (y + k) = p * y + p * k /\ p * y \in Int /\ p * k \in Int
  BY <1>1, Products
<1>3. x + p * k = p * (y + k) + s
  BY <1>1, <1>2
<1>4. y + k \in Int /\ s \in Int /\ 0 <= s /\ s < p
  BY <1>1
<1>5. (p * (y + k) + s) \div p = y + k
  BY <1>4, DivUnique
<1> QED BY <1>3, <1>5 DEF y

\* Dividing twice is dividing by the product.
LEMMA DivDiv ==
    ASSUME NEW x \in Int, NEW p \in Nat, NEW q \in Nat, p >= 1, q >= 1
    PROVE  (x \div p) \div q = x \div (p * q)
<1> DEFINE y == x \div p
           s == x % p
           z == y \div q
           t == y % q
<1>1. y \in Int /\ s \in 0 .. (p - 1) /\ x = p * y + s
  BY Divided
<1>2. z \in Int /\ t \in 0 .. (q - 1) /\ y = q * z + t
  BY <1>1, Divided
<1> HIDE DEF y, s, z, t
<1>3. p * y = (p * q) * z + p * t
  BY <1>2, Products
<1>4. p * t \in Nat /\ p * t <= p * (q - 1) /\ p * (q - 1) = p * q - p
  <2>1. t \in Nat /\ q - 1 \in Nat /\ t <= q - 1
    BY <1>2
  <2>2. p * (q - 1) = p * q - p * 1 /\ p * 1 = p
    BY Products
  <2> QED BY <2>1, <2>2, Products
<1>5. p * q \in Nat /\ (p * q) * z \in Int
  BY <1>2, Products
<1>6. p * t + s \in Int /\ 0 <= p * t + s /\ p * t + s < p * q
  BY <1>1, <1>4, <1>5
<1>7. ((p * q) * z + (p * t + s)) \div (p * q) = z
  BY <1>2, <1>5, <1>6, DivUnique
<1>8. x = (p * q) * z + (p * t + s)
  <2> DEFINE a == p * y
             b == (p * q) * z
             c == p * t
  <2>1. a \in Int /\ b \in Int /\ c \in Int /\ s \in Int
    BY <1>1, <1>4, <1>5, Products
  <2>2. a = b + c /\ x = a + s
    BY <1>1, <1>3
  <2>3. x = b + (c + s)
    <3> HIDE DEF a, b, c
    <3> QED BY <2>1, <2>2
  <2> QED BY <2>3
<1> QED BY <1>7, <1>8 DEF z, y

\* A multiple divided by a multiple.
LEMMA DivScaled ==
    ASSUME NEW x \in Int, NEW p \in Nat, NEW q \in Nat, p >= 1, q >= 1
    PROVE  (x * p) \div (p * q) = x \div q
<1>1. x * p = 0 + p * x
  BY Products
<1>2. (0 + p * x) \div p = (0 \div p) + x
  BY DivShift
<1>3. 0 \div p = 0
  <2>1. p * 0 + 0 = 0
    OBVIOUS
  <2>2. (p * 0 + 0) \div p = 0
    BY DivUnique
  <2> QED BY <2>1, <2>2
<1>4. (x * p) \div p = x
  BY <1>1, <1>2, <1>3
<1>5. x * p \in Int
  BY Products
<1> QED BY <1>4, <1>5, DivDiv

\* Powers of two multiply by adding the exponents.
LEMMA Pow2Add ==
    ASSUME NEW i \in Nat, NEW j \in Nat
    PROVE  Pow2[i + j] = Pow2[i] * Pow2[j]
<1> DEFINE T == { k \in Nat : Pow2[i + k] = Pow2[i] * Pow2[k] }
<1>0. Pow2[i] \in Nat
  BY Pow2Def
<1>1. 0 \in T
  <2>1. i + 0 = i /\ Pow2[0] = 1
    BY Pow2Def
  <2> QED BY <1>0, <2>1
<1>2. ASSUME NEW k \in Nat, k \in T PROVE k + 1 \in T
  <2>1. Pow2[i + k] = Pow2[i] * Pow2[k]
    BY <1>2
  <2>2. i + (k + 1) = (i + k) + 1 /\ i + k \in Nat
    OBVIOUS
  <2>3. Pow2[(i + k) + 1] = 2 * Pow2[i + k] /\ Pow2[k + 1] = 2 * Pow2[k] /\ Pow2[k] \in Nat
    BY <2>2, Pow2Def
  <2>4. \A x, y \in Nat : 2 * (x * y) = x * (2 * y)
    OBVIOUS
  <2>5. 2 * (Pow2[i] * Pow2[k]) = Pow2[i] * (2 * Pow2[k])
    BY <1>0, <2>3, <2>4
  <2>6. Pow2[i + (k + 1)] = Pow2[i] * Pow2[k + 1]
    BY <2>1, <2>2, <2>3, <2>5
  <2> QED BY <2>6
<1>3. \A k \in Nat : k \in T
  <2> HIDE DEF T
  <2> QED BY <1>1, <1>2, ClimbNat
<1> QED BY <1>3

\* The powers of two are at least 1, and at least twice the smaller ones.
LEMMA Pow2Pos == \A n \in Nat : Pow2[n] \in Nat /\ Pow2[n] >= 1
BY Pow2Def

\* A bit is 0 or 1.
LEMMA BitValue ==
    ASSUME NEW x \in Int, NEW i \in Nat
    PROVE  Bit(x, i) \in {0, 1} /\ x \div Pow2[i] \in Int
<1>1. x \div Pow2[i] \in Int
  BY Pow2Pos, Divided
<1>2. \A y \in Int : y % 2 \in {0, 1}
  OBVIOUS
<1> QED BY <1>1, <1>2 DEF Bit

\* The bit above the lowest i bits.
LEMMA BitFound ==
    ASSUME NEW i \in Nat, NEW h \in Int, NEW c \in {0, 1}, NEW l \in Int,
           0 <= l, l < Pow2[i]
    PROVE  Bit(Pow2[i] * (2 * h + c) + l, i) = c
<1>1. (Pow2[i] * (2 * h + c) + l) \div Pow2[i] = 2 * h + c
  <2>1. 2 * h + c \in Int /\ Pow2[i] \in Nat
    BY Pow2Pos
  <2> QED BY <2>1, DivUnique
<1>2. (2 * h + c) % 2 = c
  OBVIOUS
<1> QED BY <1>1, <1>2 DEF Bit

\* A bit is not touched by what is added above it.
LEMMA BitBelow ==
    ASSUME NEW x \in Int, NEW n \in Nat, NEW i \in Nat, i < n, NEW k \in Int
    PROVE  Bit(x + Pow2[n] * k, i) = Bit(x, i)
<1> DEFINE P == Pow2[i]
           Q == Pow2[n - i - 1]
           y == x \div P
<1>1. P \in Nat /\ P >= 1 /\ Q \in Nat
  BY Pow2Pos
<1>2. Pow2[n] = P * (2 * Q)
  <2>1. n - i - 1 \in Nat /\ (n - i - 1) + 1 = n - i /\ i + (n - i) = n /\ n - i \in Nat
    OBVIOUS
  <2>2. Pow2[n - i] = 2 * Q
    BY <2>1, Pow2Def
  <2>3. Pow2[n] = P * Pow2[n - i]
    BY <2>1, Pow2Add
  <2> QED BY <2>2, <2>3
<1>3. y \in Int
  BY <1>1, Divided
<1> HIDE DEF P, Q
<1>4. Pow2[n] * k = P * (2 * (Q * k)) /\ Q * k \in Int
  <2>1. (P * (2 * Q)) * k = P * ((2 * Q) * k) /\ (2 * Q) * k = 2 * (Q * k) /\ Q * k \in Int
    BY <1>1, Products
  <2> QED BY <1>2, <2>1
<1>5. (x + P * (2 * (Q * k))) \div P = y + 2 * (Q * k)
  <2>1. 2 * (Q * k) \in Int
    BY <1>4
  <2> QED BY <1>1, <2>1, DivShift DEF y
<1>6. \A u, v \in Int : (u + 2 * v) % 2 = u % 2
  OBVIOUS
<1>7. (y + 2 * (Q * k)) % 2 = y % 2
  BY <1>3, <1>4, <1>6
<1> QED BY <1>4, <1>5, <1>7 DEF Bit, P, y

\* The lowest n + 1 bits are the lowest n and the next.
LEMMA LowStep ==
    ASSUME NEW x \in Int, NEW n \in Nat
    PROVE  x % Pow2[n + 1] = (x % Pow2[n]) + Pow2[n] * Bit(x, n)
<1> DEFINE P == Pow2[n]
           y == x \div P
           h == y \div 2
           c == y % 2
           l == x % P
<1>1. P \in Nat /\ P >= 1 /\ Pow2[n + 1] = 2 * P
  BY Pow2Def
<1>2. y \in Int /\ l \in 0 .. (P - 1) /\ x = P * y + l
  BY <1>1, Divided
<1> HIDE DEF P, y, l
<1>3. h \in Int /\ c \in {0, 1} /\ y = 2 * h + c
  BY <1>2
<1> HIDE DEF h, c
<1>4. P * y = (2 * P) * h + P * c
  BY <1>1, <1>3, Products
<1>5. P * c \in Nat /\ P * c <= P
  <2>1. P * 0 = 0 /\ P * 1 = P
    BY <1>1
  <2> QED BY <1>1, <1>3, <2>1
<1>6. P * c + l \in Int /\ 0 <= P * c + l /\ P * c + l < 2 * P /\ 2 * P \in Nat
  BY <1>1, <1>2, <1>5
<1>7. ((2 * P) * h + (P * c + l)) % (2 * P) = P * c + l
  BY <1>3, <1>6, DivUnique
<1>8. x = (2 * P) * h + (P * c + l)
  <2> DEFINE a == P * y
             b == (2 * P) * h
             d == P * c
  <2>1. a \in Int /\ b \in Int /\ d \in Int /\ l \in Int
    BY <1>1, <1>2, <1>3, <1>5, <1>6, Products
  <2>2. a = b + d /\ x = a + l
    BY <1>2, <1>4
  <2>3. x = b + (d + l)
    <3> HIDE DEF a, b, d
    <3> QED BY <2>1, <2>2
  <2> QED BY <2>3
<1>9. P * c + l = l + P * c
  BY <1>2, <1>5
<1>10. c = Bit(x, n)
  BY DEF c, y, P, Bit
<1> QED BY <1>1, <1>7, <1>8, <1>9, <1>10 DEF P, l

\* What an operator does to a pair of bits.
PairOp == [{0, 1} -> [{0, 1} -> {0, 1}]]

\* The lowest n bits of EachBit(f, a, b), as the recursion builds them up.
Builds(low, f, a, b) ==
    /\ low[0] = 0
    /\ \A n \in 0 .. (WordBits - 1) :
         low[n + 1] = low[n] + Pow2[n] * f[Bit(a, n)][Bit(b, n)]

\* The recursion of EachBit defines such a sequence.
LEMMA EachBitDef ==
    ASSUME NEW f \in PairOp, NEW a \in Nat, NEW b \in Nat
    PROVE  \E low : Builds(low, f, a, b) /\ EachBit(f, a, b) = low[WordBits]
<1> DEFINE step(n, x) == x + Pow2[n] * f[Bit(a, n)][Bit(b, n)]
           Eq(F) == F = [n \in 0 .. WordBits |->
                           IF n = 0 THEN 0
                           ELSE F[n - 1] + Pow2[n - 1] * f[Bit(a, n - 1)][Bit(b, n - 1)]]
           g == [k \in Nat |-> [x \in Nat |-> step(k, x)]]
<1>0. WordBits \in Nat
  BY WidthAssumption
<1>1. ASSUME NEW n \in Nat, NEW x \in Nat PROVE step(n, x) \in Nat
  <2>1. f[Bit(a, n)][Bit(b, n)] \in {0, 1}
    <3>1. Bit(a, n) \in {0, 1} /\ Bit(b, n) \in {0, 1}
      BY BitValue
    <3> QED BY <3>1 DEF PairOp
  <2>2. Pow2[n] \in Nat
    BY Pow2Pos
  <2> QED BY <2>1, <2>2
<1> HIDE DEF step
<1>2. \E F : Eq(F)
  <2>1. g \in [Nat -> [Nat -> Nat]]
    BY <1>1
  <2>2. PICK F : Follows(F, 0, g, Nat)
    <3>1. 0 \in Nat
      OBVIOUS
    <3> HIDE DEF g
    <3> QED BY <2>1, <3>1, SequenceExists, Zenon
  <2>3. F \in [Nat -> Nat] /\ F[0] = 0 /\ \A k \in Nat : F[k + 1] = g[k][F[k]]
    BY <2>2 DEF Follows
  <2> DEFINE L == [n \in 0 .. WordBits |-> F[n]]
  <2>4. ASSUME NEW n \in 0 .. WordBits
        PROVE  L[n] = IF n = 0 THEN 0
                      ELSE L[n - 1] + Pow2[n - 1] * f[Bit(a, n - 1)][Bit(b, n - 1)]
    <3>1. CASE n = 0
      BY <2>3, <3>1
    <3>2. CASE n # 0
      <4>1. n - 1 \in Nat /\ (n - 1) + 1 = n /\ n - 1 \in 0 .. WordBits
        BY <1>0, <3>2
      <4>2. F[n] = g[n - 1][F[n - 1]] /\ F[n - 1] \in Nat
        BY <2>3, <4>1
      <4>3. F[n] = step(n - 1, F[n - 1])
        BY <4>1, <4>2
      <4>4. L[n] = F[n] /\ L[n - 1] = F[n - 1]
        BY <4>1
      <4> QED BY <3>2, <4>3, <4>4 DEF step
    <3> QED BY <3>1, <3>2
  <2>5. Eq(L)
    BY <2>4
  <2> QED BY <2>5
<1> DEFINE low == CHOOSE F : Eq(F)
<1>3. Eq(low)
  <2> HIDE DEF Eq
  <2> QED BY <1>2
<1>4. EachBit(f, a, b) = low[WordBits]
  BY DEF EachBit
<1>5. Builds(low, f, a, b)
  <2> HIDE DEF low
  <2>1. low[0] = 0
    BY <1>0, <1>3
  <2>2. ASSUME NEW n \in 0 .. (WordBits - 1)
        PROVE  low[n + 1] = low[n] + Pow2[n] * f[Bit(a, n)][Bit(b, n)]
    <3>1. n + 1 \in 0 .. WordBits /\ n + 1 # 0 /\ (n + 1) - 1 = n
      BY <1>0
    <3>2. \A m \in 0 .. WordBits :
            low[m] = IF m = 0 THEN 0
                     ELSE low[m - 1] + Pow2[m - 1] * f[Bit(a, m - 1)][Bit(b, m - 1)]
      BY <1>3, Zenon
    <3> QED BY <3>1, <3>2
  <2> QED BY <2>1, <2>2 DEF Builds
<1> HIDE DEF low
<1> QED BY <1>4, <1>5

\* An operator applied to every bit yields a word, and the pair's result at
\* every bit.
LEMMA EachBitBits ==
    ASSUME NEW f \in PairOp, NEW a \in Nat, NEW b \in Nat
    PROVE  /\ EachBit(f, a, b) \in 0 .. (Pow2[WordBits] - 1)
           /\ \A i \in 0 .. (WordBits - 1) :
                Bit(EachBit(f, a, b), i) = f[Bit(a, i)][Bit(b, i)]
<1>0. WordBits \in Nat
  BY WidthAssumption
<1>1. PICK low : Builds(low, f, a, b) /\ EachBit(f, a, b) = low[WordBits]
  BY EachBitDef
<1> DEFINE c(n) == f[Bit(a, n)][Bit(b, n)]
           Ok(n) == /\ low[n] \in 0 .. (Pow2[n] - 1)
                    /\ \A i \in 0 .. (n - 1) : Bit(low[n], i) = c(i)
           T == { n \in 0 .. WordBits : Ok(n) }
<1>2. ASSUME NEW n \in Nat PROVE c(n) \in {0, 1}
  <2>1. Bit(a, n) \in {0, 1} /\ Bit(b, n) \in {0, 1}
    BY BitValue
  <2> QED BY <2>1 DEF PairOp
<1>3. 0 \in T
  <2>1. low[0] = 0 /\ Pow2[0] = 1
    BY <1>1, Pow2Def DEF Builds
  <2> QED BY <1>0, <2>1
<1>4. ASSUME NEW m \in 1 .. WordBits, m - 1 \in T PROVE m \in T
  <2> DEFINE n == m - 1
             P == Pow2[n]
             x == low[n]
  <2>1. n \in Nat /\ n \in 0 .. (WordBits - 1) /\ n + 1 = m
    BY <1>0
  <2>2. x \in 0 .. (P - 1) /\ \A i \in 0 .. (n - 1) : Bit(x, i) = c(i)
    BY <1>4
  <2>3. low[m] = x + P * c(n)
    <3>1. low[n + 1] = low[n] + Pow2[n] * f[Bit(a, n)][Bit(b, n)]
      BY <1>1, <2>1 DEF Builds
    <3> QED BY <2>1, <3>1
  <2>4. P \in Nat /\ P >= 1 /\ Pow2[m] = 2 * P
    BY <2>1, Pow2Def
  <2>5. c(n) \in {0, 1}
    BY <1>2, <2>1
  <2> HIDE DEF n, x, P, c
  <2>6. P * 0 = 0 /\ P * 1 = P
    BY <2>4
  <2>7. low[m] \in 0 .. (Pow2[m] - 1)
    BY <2>2, <2>3, <2>4, <2>5, <2>6
  <2>8. ASSUME NEW i \in 0 .. (m - 1) PROVE Bit(low[m], i) = c(i)
    <3>0. i \in Nat /\ x \in Int /\ c(n) \in Int
      BY <2>1, <2>2, <2>5
    <3>1. CASE i < n
      <4>1. Bit(x + Pow2[n] * c(n), i) = Bit(x, i)
        BY <2>1, <3>0, <3>1, BitBelow
      <4>2. i \in 0 .. (n - 1)
        BY <2>1, <3>1
      <4> QED BY <2>2, <2>3, <4>1, <4>2 DEF P
    <3>2. CASE i = n
      <4>1. Bit(Pow2[n] * (2 * 0 + c(n)) + x, n) = c(n)
        <5>1. 0 <= x /\ x < Pow2[n]
          BY <2>2, <2>4 DEF P
        <5>2. 0 \in Int
          OBVIOUS
        <5> QED BY <2>1, <2>5, <3>0, <5>1, <5>2, BitFound
      <4>2. 2 * 0 + c(n) = c(n)
        BY <2>5
      <4>3. P * c(n) + x = x + P * c(n)
        BY <2>4, <2>5, <2>6, <3>0
      <4> QED BY <2>3, <3>2, <4>1, <4>2, <4>3 DEF P
    <3> QED BY <2>1, <3>1, <3>2
  <2> QED BY <2>7, <2>8
<1>5. \A n \in 0 .. WordBits : n \in T
  <2> HIDE DEF T
  <2> QED BY <1>0, <1>3, <1>4, Climb
<1>6. Ok(WordBits)
  BY <1>0, <1>5
<1> QED BY <1>1, <1>6

\* The width of a word.
LEMMA Width ==
    /\ WordBits \in Nat /\ WordBits >= 1 /\ Top \in Nat /\ Top + 1 = WordBits
    /\ Pow2[Top] \in Nat /\ Pow2[Top] >= 1
    /\ WordValues = 2 * Pow2[Top] /\ WordValues = Pow2[WordBits]
    /\ WordValues \div 2 = Pow2[Top]
    /\ Word = 0 .. (2 * Pow2[Top] - 1) /\ Word \subseteq Nat
<1>1. WordBits \in Nat /\ WordBits >= 1 /\ Top \in Nat /\ Top + 1 = WordBits
  BY WidthAssumption DEF Top
<1>2. Pow2[Top] \in Nat /\ Pow2[Top] >= 1 /\ Pow2[WordBits] = 2 * Pow2[Top]
  BY <1>1, Pow2Def
<1>3. WordValues = Pow2[WordBits]
  BY WidthAssumption
<1>4. \A x \in Nat : (2 * x) \div 2 = x
  OBVIOUS
<1> QED BY <1>1, <1>2, <1>3, <1>4 DEF Word

\* A number reduced to a word keeps the bits of a word.
LEMMA UnsignedBits ==
    ASSUME NEW x \in Int
    PROVE  /\ Unsigned(x) \in Word
           /\ \A i \in BitNo : Bit(Unsigned(x), i) = Bit(x, i)
<1> DEFINE V == Pow2[WordBits]
           k == x \div V
           u == x % V
<1>1. WordBits \in Nat /\ V \in Nat /\ V >= 1
  BY Width, Pow2Pos
<1>2. k \in Int /\ u \in 0 .. (V - 1) /\ x = V * k + u
  BY <1>1, Divided
<1>3. Unsigned(x) = u
  BY Width DEF Unsigned
<1>4. u \in Word
  BY <1>2, Width DEF Word
<1>5. ASSUME NEW i \in BitNo PROVE Bit(u, i) = Bit(x, i)
  <2>1. i \in Nat /\ i < WordBits
    BY <1>1 DEF BitNo
  <2>2. u \in Int
    BY <1>1, <1>2
  <2>3. Bit(u + Pow2[WordBits] * k, i) = Bit(u, i)
    <3> HIDE DEF u, k
    <3> QED BY <1>1, <1>2, <2>1, <2>2, BitBelow
  <2>4. u + Pow2[WordBits] * k = x
    <3> DEFINE p == V * k
    <3>1. p \in Int
      BY <1>1, <1>2, Products
    <3>2. x = p + u
      BY <1>2
    <3>3. u + p = x
      <4> HIDE DEF p, u
      <4> QED BY <2>2, <3>1, <3>2
    <3> QED BY <3>3
  <2> QED BY <2>3, <2>4
<1> QED BY <1>3, <1>4, <1>5

\* The bits of a quotient by a power of two are the higher bits.
LEMMA ShiftedRight ==
    ASSUME NEW x \in Int, NEW n \in Nat, NEW i \in Nat
    PROVE  x \div Pow2[n] \in Int /\ Bit(x \div Pow2[n], i) = Bit(x, i + n)
<1>1. /\ Pow2[n] \in Nat /\ Pow2[n] >= 1 /\ Pow2[i] \in Nat /\ Pow2[i] >= 1
      /\ i + n \in Nat /\ i + n = n + i
  BY Pow2Pos
<1>2. Pow2[i + n] = Pow2[n] * Pow2[i]
  BY <1>1, Pow2Add
<1>3. (x \div Pow2[n]) \div Pow2[i] = x \div (Pow2[n] * Pow2[i])
  BY <1>1, DivDiv
<1>4. x \div Pow2[n] \in Int
  BY <1>1, Divided
<1> QED BY <1>2, <1>3, <1>4 DEF Bit

\* The bits of a multiple of a power of two are the lower bits, and none
\* below.
LEMMA ShiftedLeft ==
    ASSUME NEW x \in Int, NEW n \in Nat, NEW i \in Nat
    PROVE  /\ x * Pow2[n] \in Int
           /\ Bit(x * Pow2[n], i) = IF i >= n THEN Bit(x, i - n) ELSE 0
<1>1. Pow2[n] \in Nat /\ Pow2[n] >= 1 /\ x * Pow2[n] \in Int
  BY Pow2Pos, Products
<1>2. CASE i >= n
  <2>1. i - n \in Nat /\ n + (i - n) = i
    BY <1>2
  <2>2. Pow2[i - n] \in Nat /\ Pow2[i - n] >= 1 /\ Pow2[i] = Pow2[n] * Pow2[i - n]
    BY <2>1, Pow2Pos, Pow2Add
  <2>3. (x * Pow2[n]) \div (Pow2[n] * Pow2[i - n]) = x \div Pow2[i - n]
    BY <1>1, <2>2, DivScaled
  <2> QED BY <1>1, <1>2, <2>2, <2>3 DEF Bit
<1>3. CASE ~(i >= n)
  <2>1. 0 \in Int /\ i < n
    BY <1>3
  <2>2. Bit(0 + Pow2[n] * x, i) = Bit(0, i)
    BY <2>1, BitBelow
  <2>3. 0 + Pow2[n] * x = x * Pow2[n]
    BY <1>1, Products
  <2>4. Bit(0, i) = 0
    <3>1. Pow2[i] \in Nat /\ Pow2[i] >= 1
      BY Pow2Pos
    <3>2. Bit(Pow2[i] * (2 * 0 + 0) + 0, i) = 0
      <4>1. 0 \in {0, 1} /\ 0 \in Int /\ 0 <= 0 /\ 0 < Pow2[i]
        BY <3>1
      <4> QED BY <4>1, BitFound
    <3>3. Pow2[i] * (2 * 0 + 0) + 0 = 0
      BY <3>1
    <3> QED BY <3>2, <3>3
  <2> QED BY <1>1, <1>3, <2>2, <2>3, <2>4
<1> QED BY <1>2, <1>3

\* The sign: the top bit, repeated above.
LEMMA SignBits ==
    ASSUME NEW a \in Word
    PROVE  /\ Signed(a) \in Int
           /\ \A j \in Nat : Bit(Signed(a), j) = Bit(a, IF j <= Top THEN j ELSE Top)
           /\ Signed(a) = IF IsSet(a, Top) THEN a - 2 * Pow2[Top] ELSE a
           /\ IsSet(a, Top) <=> a >= Pow2[Top]
<1> DEFINE H == Pow2[Top]
           s == Signed(a)
<1>0. /\ H \in Nat /\ H >= 1 /\ a \in Nat /\ a < 2 * H /\ Top \in Nat
      /\ Top + 1 = WordBits /\ Pow2[WordBits] = 2 * H
  BY Width
<1>1. s = IF a >= H THEN a - 2 * H ELSE a
  BY Width DEF Signed
<1>2. Bit(a, Top) = IF a >= H THEN 1 ELSE 0
  <2>1. CASE a >= H
    <3>1. 0 \in Int /\ 1 \in {0, 1} /\ a - H \in Int /\ 0 <= a - H /\ a - H < H
      BY <1>0, <2>1
    <3>2. Bit(Pow2[Top] * (2 * 0 + 1) + (a - H), Top) = 1
      BY <1>0, <3>1, BitFound
    <3>3. Pow2[Top] * (2 * 0 + 1) + (a - H) = a
      BY <1>0
    <3> QED BY <2>1, <3>2, <3>3
  <2>2. CASE ~(a >= H)
    <3>1. 0 \in Int /\ 0 \in {0, 1} /\ a \in Int /\ 0 <= a /\ a < H
      BY <1>0, <2>2
    <3>2. Bit(Pow2[Top] * (2 * 0 + 0) + a, Top) = 0
      BY <1>0, <3>1, BitFound
    <3>3. Pow2[Top] * (2 * 0 + 0) + a = a
      BY <1>0
    <3> QED BY <2>2, <3>2, <3>3
  <2> QED BY <2>1, <2>2
<1> HIDE DEF H, s
<1>3. s \in Int
  BY <1>0, <1>1
<1>4. ASSUME NEW j \in Nat, j <= Top PROVE Bit(s, j) = Bit(a, j)
  <2>1. CASE a >= H
    <3>1. Bit(a + Pow2[WordBits] * (-1), j) = Bit(a, j)
      <4>1. -1 \in Int /\ WordBits \in Nat /\ j < WordBits /\ a \in Int
        BY <1>0, <1>4
      <4> QED BY <4>1, BitBelow
    <3>2. a + (2 * H) * (-1) = a - 2 * H
      BY <1>0
    <3> QED BY <1>0, <1>1, <2>1, <3>1, <3>2
  <2>2. CASE ~(a >= H)
    BY <1>1, <2>2
  <2> QED BY <2>1, <2>2
<1>5. ASSUME NEW j \in Nat, j > Top PROVE Bit(s, j) = Bit(a, Top)
  <2>1. Pow2[j] \in Nat /\ 2 * H <= Pow2[j]
    BY <1>0, <1>5, Pow2Pos, Pow2Grows DEF H
  <2>2. CASE a >= H
    <3>1. /\ -1 \in Int /\ 1 \in {0, 1} /\ s + Pow2[j] \in Int
          /\ 0 <= s + Pow2[j] /\ s + Pow2[j] < Pow2[j]
      BY <1>0, <1>1, <2>1, <2>2
    <3>2. Bit(Pow2[j] * (2 * (-1) + 1) + (s + Pow2[j]), j) = 1
      BY <3>1, BitFound
    <3>3. Pow2[j] * (2 * (-1) + 1) + (s + Pow2[j]) = s
      BY <1>3, <2>1
    <3> QED BY <1>2, <2>2, <3>2, <3>3
  <2>3. CASE ~(a >= H)
    <3>1. 0 \in Int /\ 0 \in {0, 1} /\ 0 <= s /\ s < Pow2[j]
      BY <1>0, <1>1, <2>1, <2>3
    <3>2. Bit(Pow2[j] * (2 * 0 + 0) + s, j) = 0
      BY <1>3, <3>1, BitFound
    <3>3. Pow2[j] * (2 * 0 + 0) + s = s
      BY <1>3, <2>1
    <3> QED BY <1>2, <2>3, <3>2, <3>3
  <2> QED BY <2>2, <2>3
<1>6. ASSUME NEW j \in Nat PROVE Bit(s, j) = Bit(a, IF j <= Top THEN j ELSE Top)
  <2>1. j <= Top \/ j > Top
    BY <1>0
  <2> QED BY <1>0, <1>4, <1>5, <2>1
<1>7. IsSet(a, Top) <=> a >= H
  BY <1>2 DEF IsSet
<1> QED BY <1>1, <1>3, <1>6, <1>7 DEF s, H

\* Each operation of the ALU.
LEMMA AluByOp ==
    ASSUME NEW a, NEW b
    PROVE  /\ alu_exec("ADD", a, b) = Unsigned(a + b)
           /\ alu_exec("SUB", a, b) = Unsigned(a - b)
           /\ alu_exec("AND", a, b) = EachBit(AndBit, a, b)
           /\ alu_exec("OR", a, b) = EachBit(OrBit, a, b)
           /\ alu_exec("XOR", a, b) = EachBit(XorBit, a, b)
           /\ alu_exec("SLL", a, b) = Unsigned(a * Pow2[Shamt(b)])
           /\ alu_exec("SRL", a, b) = a \div Pow2[Shamt(b)]
           /\ alu_exec("SRA", a, b) = Unsigned(Signed(a) \div Pow2[Shamt(b)])
           /\ alu_exec("SLT", a, b) = Flag(Signed(a) < Signed(b))
           /\ alu_exec("SLTU", a, b) = Flag(a < b)
           /\ alu_exec("PASS_B", a, b) = b
BY DEF alu_exec

\* The three logical operations on a pair of bits.
LEMMA PairOps ==
    /\ AndBit \in PairOp /\ OrBit \in PairOp /\ XorBit \in PairOp
    /\ \A x, y \in {0, 1} : /\ AndBit[x][y] = 1 <=> x = 1 /\ y = 1
                            /\ OrBit[x][y] = 1 <=> x = 1 \/ y = 1
                            /\ XorBit[x][y] = 1 <=> ~(x = 1 <=> y = 1)
                            /\ XorBit[x][y] = 0 <=> x = y
<1>1. AndBit \in PairOp /\ OrBit \in PairOp /\ XorBit \in PairOp
  BY DEF AndBit, OrBit, XorBit, PairOp
<1>2. ASSUME NEW x \in {0, 1}, NEW y \in {0, 1}
      PROVE  /\ AndBit[x][y] = 1 <=> x = 1 /\ y = 1
             /\ OrBit[x][y] = 1 <=> x = 1 \/ y = 1
             /\ XorBit[x][y] = 1 <=> ~(x = 1 <=> y = 1)
             /\ XorBit[x][y] = 0 <=> x = y
  BY DEF AndBit, OrBit, XorBit
<1> QED BY <1>1, <1>2

\* The shift amount is less than the width.
LEMMA ShamtRange == ASSUME NEW b \in Word PROVE Shamt(b) \in Nat /\ Shamt(b) < WordBits
<1>1. b \in Int /\ WordBits \in Nat /\ WordBits >= 1
  BY Width
<1>2. b % WordBits \in 0 .. (WordBits - 1)
  BY <1>1, Divided
<1> QED BY <1>1, <1>2 DEF Shamt

\* A word has no bit above the top one.
LEMMA NoBitAbove == ASSUME NEW a \in Word, NEW j \in Nat, j > Top PROVE Bit(a, j) = 0
<1>1. a \in Nat /\ a < 2 * Pow2[Top] /\ Top \in Nat /\ Pow2[Top] \in Nat
  BY Width
<1>2. Pow2[j] \in Nat /\ 2 * Pow2[Top] <= Pow2[j]
  BY <1>1, Pow2Pos, Pow2Grows
<1>3. 0 \in Int /\ 0 \in {0, 1} /\ a \in Int /\ 0 <= a /\ a < Pow2[j]
  BY <1>1, <1>2
<1>4. Bit(Pow2[j] * (2 * 0 + 0) + a, j) = 0
  BY <1>3, BitFound
<1>5. Pow2[j] * (2 * 0 + 0) + a = a
  BY <1>1, <1>2
<1> QED BY <1>4, <1>5

\* Every operation of the ALU yields a word.
LEMMA AluYieldsWords ==
    ASSUME NEW op \in AluOp, NEW a \in Word, NEW b \in Word
    PROVE  alu_exec(op, a, b) \in Word
<1>0. /\ a \in Nat /\ b \in Nat /\ Shamt(b) \in Nat /\ Pow2[Shamt(b)] \in Nat
      /\ Pow2[Shamt(b)] >= 1
  BY Width, ShamtRange, Pow2Pos
<1>1. CASE op \in {"ADD", "SUB"}
  <2>1. a + b \in Int /\ a - b \in Int
    BY <1>0
  <2> QED BY <1>1, <2>1, UnsignedBits, AluByOp
<1>2. CASE op \in {"AND", "OR", "XOR"}
  <2>1. Word = 0 .. (Pow2[WordBits] - 1)
    BY Width DEF Word
  <2>2. \A f \in PairOp : EachBit(f, a, b) \in Word
    BY <1>0, <2>1, EachBitBits
  <2> QED BY <1>2, <2>2, PairOps, AluByOp
<1>3. CASE op = "SLL"
  <2>1. a * Pow2[Shamt(b)] \in Int
    BY <1>0, Products
  <2> QED BY <1>3, <2>1, UnsignedBits, AluByOp
<1>4. CASE op = "SRL"
  <2>1. \A x, p \in Nat : p >= 1 => x \div p \in Nat /\ x \div p <= x
    OBVIOUS
  <2>2. a \div Pow2[Shamt(b)] \in Nat /\ a \div Pow2[Shamt(b)] <= a
    BY <1>0, <2>1
  <2>3. a \div Pow2[Shamt(b)] \in Word
    <3> DEFINE q == a \div Pow2[Shamt(b)]
    <3> HIDE DEF q
    <3>1. q \in Nat /\ q <= a
      BY <2>2 DEF q
    <3>2. q \in Word
      BY <1>0, <3>1, Width
    <3> QED BY <3>2 DEF q
  <2> QED BY <1>4, <2>3, AluByOp
<1>5. CASE op = "SRA"
  <2>1. Signed(a) \div Pow2[Shamt(b)] \in Int
    BY <1>0, SignBits, Divided
  <2> QED BY <1>5, <2>1, UnsignedBits, AluByOp
<1>6. CASE op \in {"SLT", "SLTU"}
  <2>1. 0 \in Word /\ 1 \in Word
    BY Width
  <2> QED BY <1>6, <2>1, AluByOp DEF Flag
<1>7. CASE op = "PASS_B"
  BY <1>7, AluByOp
<1> QED BY <1>1, <1>2, <1>3, <1>4, <1>5, <1>6, <1>7 DEF AluOp

\* The bits of the results.
LEMMA AluBits ==
    ASSUME NEW a \in Word, NEW b \in Word, NEW i \in BitNo
    PROVE  LET n == b % WordBits
           IN  /\ IsSet(alu_exec("AND", a, b), i) <=> IsSet(a, i) /\ IsSet(b, i)
               /\ IsSet(alu_exec("OR", a, b), i)  <=> IsSet(a, i) \/ IsSet(b, i)
               /\ IsSet(alu_exec("XOR", a, b), i) <=> ~(IsSet(a, i) <=> IsSet(b, i))
               /\ IsSet(alu_exec("SLL", a, b), i) <=> i >= n /\ IsSet(a, i - n)
               /\ IsSet(alu_exec("SRL", a, b), i) <=> i + n <= Top /\ IsSet(a, i + n)
               /\ IsSet(alu_exec("SRA", a, b), i)
                    <=> IsSet(a, IF i + n <= Top THEN i + n ELSE Top)
<1> DEFINE n == Shamt(b)
<1>0. /\ a \in Nat /\ b \in Nat /\ n \in Nat /\ n = b % WordBits
      /\ i \in Nat /\ i \in 0 .. (WordBits - 1) /\ Top \in Nat
  BY Width, ShamtRange DEF BitNo, Shamt
<1>1. Bit(a, i) \in {0, 1} /\ Bit(b, i) \in {0, 1}
  BY <1>0, BitValue
<1>2. \A f \in PairOp : Bit(EachBit(f, a, b), i) = f[Bit(a, i)][Bit(b, i)]
  BY <1>0, EachBitBits
<1>3. IsSet(alu_exec("AND", a, b), i) <=> IsSet(a, i) /\ IsSet(b, i)
  <2>1. Bit(alu_exec("AND", a, b), i) = AndBit[Bit(a, i)][Bit(b, i)]
    BY <1>2, PairOps, AluByOp
  <2> QED BY <1>1, <2>1, PairOps DEF IsSet
<1>4. IsSet(alu_exec("OR", a, b), i) <=> IsSet(a, i) \/ IsSet(b, i)
  <2>1. Bit(alu_exec("OR", a, b), i) = OrBit[Bit(a, i)][Bit(b, i)]
    BY <1>2, PairOps, AluByOp
  <2> QED BY <1>1, <2>1, PairOps DEF IsSet
<1>5. IsSet(alu_exec("XOR", a, b), i) <=> ~(IsSet(a, i) <=> IsSet(b, i))
  <2>1. Bit(alu_exec("XOR", a, b), i) = XorBit[Bit(a, i)][Bit(b, i)]
    BY <1>2, PairOps, AluByOp
  <2> QED BY <1>1, <2>1, PairOps DEF IsSet
<1> HIDE DEF n
<1>6. IsSet(alu_exec("SLL", a, b), i) <=> i >= n /\ IsSet(a, i - n)
  <2>1. /\ a * Pow2[n] \in Int
        /\ Bit(a * Pow2[n], i) = IF i >= n THEN Bit(a, i - n) ELSE 0
    BY <1>0, ShiftedLeft
  <2>2. Bit(Unsigned(a * Pow2[n]), i) = Bit(a * Pow2[n], i)
    BY <2>1, UnsignedBits
  <2>3. alu_exec("SLL", a, b) = Unsigned(a * Pow2[n])
    BY AluByOp DEF n
  <2> QED BY <2>1, <2>2, <2>3 DEF IsSet
<1>7. IsSet(alu_exec("SRL", a, b), i) <=> i + n <= Top /\ IsSet(a, i + n)
  <2>1. Bit(a \div Pow2[n], i) = Bit(a, i + n)
    BY <1>0, ShiftedRight
  <2>2. ~(i + n <= Top) => Bit(a, i + n) = 0
    <3>1. i + n \in Nat /\ (~(i + n <= Top) => i + n > Top)
      BY <1>0
    <3> QED BY <3>1, NoBitAbove
  <2>3. alu_exec("SRL", a, b) = a \div Pow2[n]
    BY AluByOp DEF n
  <2> QED BY <2>1, <2>2, <2>3 DEF IsSet
<1>8. IsSet(alu_exec("SRA", a, b), i) <=> IsSet(a, IF i + n <= Top THEN i + n ELSE Top)
  <2>1. Signed(a) \in Int
    BY SignBits
  <2>2. /\ Signed(a) \div Pow2[n] \in Int
        /\ Bit(Signed(a) \div Pow2[n], i) = Bit(Signed(a), i + n)
    BY <1>0, <2>1, ShiftedRight
  <2>3. Bit(Unsigned(Signed(a) \div Pow2[n]), i) = Bit(Signed(a) \div Pow2[n], i)
    BY <2>2, UnsignedBits
  <2>4. Bit(Signed(a), i + n) = Bit(a, IF i + n <= Top THEN i + n ELSE Top)
    <3>1. i + n \in Nat
      BY <1>0
    <3> QED BY <3>1, SignBits
  <2>5. alu_exec("SRA", a, b) = Unsigned(Signed(a) \div Pow2[n])
    BY AluByOp DEF n
  <2> QED BY <2>2, <2>3, <2>4, <2>5 DEF IsSet
<1> QED BY <1>0, <1>3, <1>4, <1>5, <1>6, <1>7, <1>8

\* The input of the ALU is a pair of words.
LEMMA AluInputs == Spec => [](unit = "alu" => input.a \in Word /\ input.b \in Word)
<1> DEFINE Inv == unit = "alu" => input.a \in Word /\ input.b \in Word
<1>1. Init => Inv
  BY DEF Init, Operands
<1>2. Inv /\ [Next]_vars => Inv'
  <2> SUFFICES ASSUME Inv, [Next]_vars PROVE Inv'
    OBVIOUS
  <2>1. CASE UNCHANGED vars
    BY <2>1 DEF vars
  <2>2. CASE Next
    BY <2>2 DEF Next, Touch
  <2> QED BY <2>1, <2>2
<1> QED BY <1>1, <1>2, PTL DEF Spec

\* The logical and shift operations of the ALU do to every bit what they
\* should, at every width, and no operation yields more than a word.
THEOREM AluMovesBits == Spec => []BitsMatch
<1>1. (unit = "alu" => input.a \in Word /\ input.b \in Word) => BitsMatch
  <2> SUFFICES ASSUME unit = "alu", input.a \in Word, input.b \in Word PROVE BitsMatch
    BY DEF BitsMatch
  <2> DEFINE a == input.a
             b == input.b
             n == b % WordBits
             res == [op \in AluOp |-> alu_exec(op, a, b)]
  <2>0. /\ res["AND"] = alu_exec("AND", a, b) /\ res["OR"] = alu_exec("OR", a, b)
        /\ res["XOR"] = alu_exec("XOR", a, b) /\ res["SLL"] = alu_exec("SLL", a, b)
        /\ res["SRL"] = alu_exec("SRL", a, b) /\ res["SRA"] = alu_exec("SRA", a, b)
    BY DEF AluOp
  <2>1. \A op \in AluOp : res[op] \in Word
    BY AluYieldsWords
  <2> HIDE DEF res, n
  <2>2. \A i \in BitNo :
          /\ IsSet(res["AND"], i) <=> IsSet(a, i) /\ IsSet(b, i)
          /\ IsSet(res["OR"], i)  <=> IsSet(a, i) \/ IsSet(b, i)
          /\ IsSet(res["XOR"], i) <=> ~(IsSet(a, i) <=> IsSet(b, i))
          /\ IsSet(res["SLL"], i) <=> i >= n /\ IsSet(a, i - n)
          /\ IsSet(res["SRL"], i) <=> i + n <= Top /\ IsSet(a, i + n)
          /\ IsSet(res["SRA"], i) <=> IsSet(a, IF i + n <= Top THEN i + n ELSE Top)
    BY <2>0, AluBits DEF n
  <2> QED BY <2>1, <2>2, Zenon DEF BitsMatch, res, n
<1> QED BY <1>1, AluInputs, PTL

\* The order of the lowest n bits is that of the highest bit in which they
\* differ.
DiffersUpTo(a, b, n) ==
    \E i \in 0 .. (n - 1) :
        /\ ~IsSet(a, i) /\ IsSet(b, i)
        /\ \A j \in 0 .. (n - 1) : j > i => (IsSet(a, j) <=> IsSet(b, j))

\* Numbers are compared from the top bit down.
LEMMA OrderByBits ==
    ASSUME NEW a \in Nat, NEW b \in Nat
    PROVE  \A n \in Nat : (a % Pow2[n] < b % Pow2[n]) <=> DiffersUpTo(a, b, n)
<1> DEFINE T == { n \in Nat : (a % Pow2[n] < b % Pow2[n]) <=> DiffersUpTo(a, b, n) }
<1>1. 0 \in T
  <2>1. Pow2[0] = 1 /\ \A x \in Nat : x % 1 = 0
    BY Pow2Def
  <2>2. ~DiffersUpTo(a, b, 0)
    BY DEF DiffersUpTo
  <2>3. ~(a % Pow2[0] < b % Pow2[0])
    BY <2>1
  <2> QED BY <2>2, <2>3
<1>2. ASSUME NEW n \in Nat, n \in T PROVE n + 1 \in T
  <2> DEFINE P == Pow2[n]
             x == a % P
             y == b % P
             c == Bit(a, n)
             d == Bit(b, n)
  <2>0. P \in Nat /\ P >= 1
    BY Pow2Pos
  <2>1. x \in 0 .. (P - 1) /\ y \in 0 .. (P - 1)
    <3>1. a \in Int /\ b \in Int
      OBVIOUS
    <3> HIDE DEF P
    <3> QED BY <2>0, <3>1, Divided
  <2>2. c \in {0, 1} /\ d \in {0, 1}
    BY BitValue
  <2>3. a % Pow2[n + 1] = x + P * c /\ b % Pow2[n + 1] = y + P * d
    BY LowStep
  <2>4. x < y <=> DiffersUpTo(a, b, n)
    BY <1>2
  <2>5. IsSet(a, n) <=> c = 1
    BY DEF IsSet
  <2>6. IsSet(b, n) <=> d = 1
    BY DEF IsSet
  <2> HIDE DEF P, x, y, c, d
  <2>7. P * 0 = 0 /\ P * 1 = P
    BY <2>0
  <2>8. (n + 1) - 1 = n /\ n \in 0 .. n
    OBVIOUS
  <2>9. CASE c = d
    <3>1. x + P * c < y + P * d <=> x < y
      BY <2>0, <2>1, <2>2, <2>7, <2>9
    <3>2. DiffersUpTo(a, b, n) => DiffersUpTo(a, b, n + 1)
      <4> SUFFICES ASSUME DiffersUpTo(a, b, n) PROVE DiffersUpTo(a, b, n + 1)
        OBVIOUS
      <4>1. PICK i \in 0 .. (n - 1) :
              /\ ~IsSet(a, i) /\ IsSet(b, i)
              /\ \A j \in 0 .. (n - 1) : j > i => (IsSet(a, j) <=> IsSet(b, j))
        BY DEF DiffersUpTo
      <4>2. i \in 0 .. ((n + 1) - 1)
        BY <4>1
      <4>3. ASSUME NEW j \in 0 .. ((n + 1) - 1), j > i PROVE IsSet(a, j) <=> IsSet(b, j)
        <5>1. j = n \/ j \in 0 .. (n - 1)
          OBVIOUS
        <5> QED BY <2>5, <2>6, <2>9, <4>1, <4>3, <5>1
      <4> QED BY <4>1, <4>2, <4>3 DEF DiffersUpTo
    <3>3. DiffersUpTo(a, b, n + 1) => DiffersUpTo(a, b, n)
      <4> SUFFICES ASSUME DiffersUpTo(a, b, n + 1) PROVE DiffersUpTo(a, b, n)
        OBVIOUS
      <4>1. PICK i \in 0 .. ((n + 1) - 1) :
              /\ ~IsSet(a, i) /\ IsSet(b, i)
              /\ \A j \in 0 .. ((n + 1) - 1) : j > i => (IsSet(a, j) <=> IsSet(b, j))
        BY DEF DiffersUpTo
      <4>2. i # n
        BY <2>5, <2>6, <2>9, <4>1
      <4>3. i \in 0 .. (n - 1) /\ \A j \in 0 .. (n - 1) : j \in 0 .. ((n + 1) - 1)
        BY <4>1, <4>2
      <4>4. \A j \in 0 .. (n - 1) : j > i => (IsSet(a, j) <=> IsSet(b, j))
        BY <4>1, <4>3
      <4> QED BY <4>1, <4>3, <4>4 DEF DiffersUpTo
    <3> QED BY <2>3, <2>4, <3>1, <3>2, <3>3
  <2>10. CASE c = 0 /\ d = 1
    <3>1. x + P * c < y + P * d
      BY <2>0, <2>1, <2>7, <2>10
    <3>2. DiffersUpTo(a, b, n + 1)
      <4>1. ~IsSet(a, n) /\ IsSet(b, n) /\ n \in 0 .. ((n + 1) - 1)
        BY <2>5, <2>6, <2>10
      <4>2. \A j \in 0 .. ((n + 1) - 1) : ~(j > n)
        OBVIOUS
      <4> QED BY <4>1, <4>2 DEF DiffersUpTo
    <3> QED BY <2>3, <3>1, <3>2
  <2>11. CASE c = 1 /\ d = 0
    <3>1. ~(x + P * c < y + P * d)
      BY <2>0, <2>1, <2>7, <2>11
    <3>2. ~DiffersUpTo(a, b, n + 1)
      <4> SUFFICES ASSUME DiffersUpTo(a, b, n + 1) PROVE FALSE
        OBVIOUS
      <4>1. PICK i \in 0 .. ((n + 1) - 1) :
              /\ ~IsSet(a, i) /\ IsSet(b, i)
              /\ \A j \in 0 .. ((n + 1) - 1) : j > i => (IsSet(a, j) <=> IsSet(b, j))
        BY DEF DiffersUpTo
      <4>2. i = n \/ (n > i /\ n \in 0 .. ((n + 1) - 1))
        BY <4>1
      <4> QED BY <2>5, <2>6, <2>11, <4>1, <4>2
    <3> QED BY <2>3, <3>1, <3>2
  <2> QED BY <2>2, <2>9, <2>10, <2>11
<1>3. \A n \in Nat : n \in T
  <2> HIDE DEF T
  <2> QED BY <1>1, <1>2, ClimbNat
<1> QED BY <1>3

\* A word is its lowest WordBits bits: the order of words is that of the
\* highest differing bit.
LEMMA WordOrder ==
    ASSUME NEW a \in Word, NEW b \in Word
    PROVE  a < b <=> \E i \in BitNo :
                        /\ ~IsSet(a, i) /\ IsSet(b, i)
                        /\ \A j \in BitNo : j > i => (IsSet(a, j) <=> IsSet(b, j))
<1>1. a \in Nat /\ b \in Nat /\ WordBits \in Nat
  BY Width
<1>2. ASSUME NEW x \in Word PROVE x % Pow2[WordBits] = x
  <2>1. Pow2[WordBits] \in Nat /\ x \in Int /\ 0 <= x /\ x < Pow2[WordBits]
    <3>1. Pow2[WordBits] \in Nat /\ Word = 0 .. (Pow2[WordBits] - 1)
      BY Width, Pow2Pos DEF Word
    <3> QED BY <3>1
  <2>2. (Pow2[WordBits] * 0 + x) % Pow2[WordBits] = x
    BY <2>1, DivUnique
  <2>3. Pow2[WordBits] * 0 + x = x
    BY <2>1
  <2> QED BY <2>2, <2>3
<1>3. a < b <=> DiffersUpTo(a, b, WordBits)
  BY <1>1, <1>2, OrderByBits
<1> QED BY <1>3 DEF DiffersUpTo, BitNo

\* The exclusive or is zero for equal words only.
LEMMA XorZero ==
    ASSUME NEW a \in Word, NEW b \in Word
    PROVE  alu_exec("XOR", a, b) = 0 <=> a = b
<1> DEFINE x == alu_exec("XOR", a, b)
<1>0. /\ x \in Word /\ 0 \in Word /\ a \in Nat /\ b \in Nat /\ x \in Nat
      /\ \A i \in BitNo : i \in Nat
  <2>1. x \in Word
    <3>1. "XOR" \in AluOp
      BY DEF AluOp
    <3> QED BY <3>1, AluYieldsWords
  <2>2. 0 \in Word
    BY Width
  <2> HIDE DEF x
  <2> QED BY <2>1, <2>2, Width DEF BitNo
<1>1. \A i \in BitNo : IsSet(x, i) <=> ~(IsSet(a, i) <=> IsSet(b, i))
  BY AluBits
<1>2. \A i \in BitNo : ~IsSet(0, i)
  <2>1. ASSUME NEW i \in BitNo PROVE Bit(0, i) = 0
    <3>1. Pow2[i] \in Nat /\ Pow2[i] >= 1 /\ i \in Nat
      BY <1>0, Pow2Pos
    <3>2. Bit(Pow2[i] * (2 * 0 + 0) + 0, i) = 0
      <4>1. 0 \in {0, 1} /\ 0 \in Int /\ 0 <= 0 /\ 0 < Pow2[i]
        BY <3>1
      <4> QED BY <3>1, <4>1, BitFound
    <3>3. Pow2[i] * (2 * 0 + 0) + 0 = 0
      BY <3>1
    <3> QED BY <3>2, <3>3
  <2> QED BY <2>1 DEF IsSet
<1> HIDE DEF x
<1>3. ASSUME x = 0 PROVE a = b
  <2>1. \A i \in BitNo : IsSet(a, i) <=> IsSet(b, i)
    BY <1>1, <1>2, <1>3
  <2>2. ~(a < b) /\ ~(b < a)
    BY <2>1, WordOrder
  <2> QED BY <1>0, <2>2
<1>4. ASSUME a = b PROVE x = 0
  <2>1. \A i \in BitNo : ~IsSet(x, i)
    BY <1>1, <1>4
  <2>2. ~(0 < x)
    BY <1>0, <2>1, WordOrder
  <2> QED BY <1>0, <2>2
<1> QED BY <1>3, <1>4 DEF x

\* Subtraction undoes addition, and the ALU's and the branch unit's
\* comparisons are the unsigned order, from the top bit down, and the same
\* with the sign bits inverted.
THEOREM ComparisonsAreOrders == Spec => []ComparisonsAgree
<1>1. ASSUME NEW a \in Word, NEW b \in Word
      PROVE  alu_exec("ADD", alu_exec("SUB", a, b), b) = a
  <2> DEFINE V == WordValues
             k == (a - b) \div V
             s == (a - b) % V
  <2>0. V \in Nat /\ V >= 1 /\ a \in Nat /\ b \in Nat /\ a < V
    BY Width DEF Word
  <2>1. a - b \in Int
    BY <2>0
  <2>2. k \in Int /\ s \in 0 .. (V - 1) /\ a - b = V * k + s
    BY <2>0, <2>1, Divided
  <2> HIDE DEF k, s, V
  <2>3. s + b = V * (-k) + a /\ -k \in Int /\ a \in Int /\ 0 <= a
    <3>1. V * (-k) = -(V * k) /\ V * k \in Int
      BY <2>0, <2>2
    <3> DEFINE p == V * k
    <3>2. p \in Int /\ V * (-k) = -p /\ a - b = p + s
      BY <2>2, <3>1
    <3>3. s + b = -p + a
      <4> HIDE DEF p
      <4> QED BY <2>0, <2>2, <3>2
    <3> QED BY <2>0, <2>2, <3>2, <3>3
  <2>4. (V * (-k) + a) % V = a
    BY <2>0, <2>3, DivUnique
  <2>5. alu_exec("SUB", a, b) = s /\ alu_exec("ADD", s, b) = (s + b) % V
    BY AluByOp DEF Unsigned, s, V
  <2> QED BY <2>3, <2>4, <2>5
<1>2. ASSUME NEW a \in Word, NEW b \in Word
      PROVE  LET flip(x) == (x + Pow2[Top]) % WordValues
             IN  Signed(a) < Signed(b) <=> flip(a) < flip(b)
  <2> DEFINE H == Pow2[Top]
             flip(x) == (x + H) % WordValues
  <2>0. H \in Nat /\ H >= 1 /\ WordValues = 2 * H /\ WordValues \div 2 = H
    BY Width
  <2>1. ASSUME NEW x \in Word PROVE flip(x) = Signed(x) + H /\ Signed(x) \in Int
    <3>0. x \in Nat /\ x < 2 * H
      BY Width
    <3>1. CASE x >= H
      <4>1. (2 * H) * 1 + (x - H) = x + H
        BY <2>0, <3>0
      <4>2. ((2 * H) * 1 + (x - H)) % (2 * H) = x - H
        <5>1. 2 * H \in Nat /\ 1 \in Int /\ x - H \in Int /\ 0 <= x - H /\ x - H < 2 * H
          BY <2>0, <3>0, <3>1
        <5> HIDE DEF H
        <5> QED BY <5>1, DivUnique
      <4>3. Signed(x) = x - 2 * H
        BY <2>0, <3>1 DEF Signed
      <4>4. x - H = (x - 2 * H) + H
        BY <2>0, <3>0
      <4>5. flip(x) = x - H
        BY <2>0, <4>1, <4>2, Zenon
      <4>6. Signed(x) \in Int
        BY <2>0, <3>0, <4>3
      <4> HIDE DEF H, flip
      <4> QED BY <4>3, <4>4, <4>5, <4>6
    <3>2. CASE ~(x >= H)
      <4>1. (2 * H) * 0 + (x + H) = x + H
        BY <2>0, <3>0
      <4>2. ((2 * H) * 0 + (x + H)) % (2 * H) = x + H
        <5>1. 2 * H \in Nat /\ 0 \in Int /\ x + H \in Int /\ 0 <= x + H /\ x + H < 2 * H
          BY <2>0, <3>0, <3>2
        <5> HIDE DEF H
        <5> QED BY <5>1, DivUnique
      <4>3. Signed(x) = x
        BY <2>0, <3>2 DEF Signed
      <4> QED BY <2>0, <3>0, <4>1, <4>2, <4>3
    <3> QED BY <3>1, <3>2
  <2>2. /\ flip(a) = Signed(a) + H /\ Signed(a) \in Int
        /\ flip(b) = Signed(b) + H /\ Signed(b) \in Int
    BY <2>1
  <2>3. Signed(a) < Signed(b) <=> Signed(a) + H < Signed(b) + H
    BY <2>0, <2>2
  <2>4. Signed(a) < Signed(b) <=> flip(a) < flip(b)
    BY <2>2, <2>3
  <2> QED BY <2>4
<1>3. ASSUME NEW a, NEW b
      PROVE  /\ branch_taken("BEQ", a, b) = (a = b) /\ branch_taken("BNE", a, b) = (a # b)
             /\ branch_taken("BLT", a, b) = (Signed(a) < Signed(b))
             /\ branch_taken("BGE", a, b) = (Signed(a) >= Signed(b))
             /\ branch_taken("BLTU", a, b) = (a < b) /\ branch_taken("BGEU", a, b) = (a >= b)
  BY DEF branch_taken
<1>4. (unit = "alu" => input.a \in Word /\ input.b \in Word) => ComparisonsAgree
  <2> SUFFICES ASSUME unit = "alu", input.a \in Word, input.b \in Word
               PROVE  ComparisonsAgree
    BY DEF ComparisonsAgree
  <2> DEFINE a == input.a
             b == input.b
             flip(x) == (x + Pow2[Top]) % WordValues
             ltu == alu_exec("SLTU", a, b) = 1
             lt  == alu_exec("SLT", a, b) = 1
  <2> HIDE DEF a, b
  <2>0. a \in Word /\ b \in Word /\ a \in Nat /\ b \in Nat
    BY Width DEF a, b
  <2>1. alu_exec("ADD", alu_exec("SUB", a, b), b) = a
    BY <1>1, <2>0
  <2>2. ltu <=> a < b
    BY AluByOp DEF Flag
  <2>3. lt <=> Signed(a) < Signed(b)
    BY AluByOp DEF Flag
  <2>4. (alu_exec("SLTU", flip(a), flip(b)) = 1) <=> flip(a) < flip(b)
    BY AluByOp DEF Flag
  <2>5. ltu <=> \E i \in BitNo :
                  /\ ~IsSet(a, i) /\ IsSet(b, i)
                  /\ \A j \in BitNo : j > i => (IsSet(a, j) <=> IsSet(b, j))
    BY <2>0, <2>2, WordOrder
  <2>6. lt <=> alu_exec("SLTU", flip(a), flip(b)) = 1
    BY <1>2, <2>0, <2>3, <2>4
  <2>7. Signed(a) \in Int /\ Signed(b) \in Int
    BY <2>0, SignBits
  <2>8. branch_taken("BLT", a, b) = lt /\ branch_taken("BGE", a, b) = ~lt
    <3>1. (Signed(a) >= Signed(b)) <=> ~(Signed(a) < Signed(b))
      BY <2>7
    <3> QED BY <1>3, <2>3, <3>1
  <2>9. branch_taken("BLTU", a, b) = ltu /\ branch_taken("BGEU", a, b) = ~ltu
    <3>1. (a >= b) <=> ~(a < b)
      BY <2>0
    <3> QED BY <1>3, <2>2, <3>1
  <2>10. branch_taken("BEQ", a, b) = (alu_exec("XOR", a, b) = 0)
    BY <1>3, <2>0, XorZero
  <2>11. branch_taken("BNE", a, b) = ~branch_taken("BEQ", a, b)
    BY <1>3
  <2> HIDE DEF ltu, lt, flip
  <2> QED BY <2>1, <2>5, <2>6, <2>8, <2>9, <2>10, <2>11, Zenon
          DEF ComparisonsAgree, a, b, flip, ltu, lt
<1> QED BY <1>4, AluInputs, PTL

\* The ALU and the comparator of the code are among those the proofs about
\* the pipeline are for: at every width they meet what module Machine
\* assumes of its parameters.
THEOREM AluFitsMachine ==
    /\ \A op \in AluOp, a, b \in Word : alu_exec(op, a, b) \in Word
    /\ \A a, b \in Word : alu_exec("ADD", a, b) = Plus(a, b)
    /\ \A a, b \in Word : alu_exec("PASS_B", a, b) = b
    /\ \A op \in Branches, a, b \in Word : branch_taken(op, a, b) \in BOOLEAN
    /\ \A op \in Op \ Branches, a, b \in Word : branch_taken(op, a, b) = FALSE
<1>1. \A op \in AluOp, a, b \in Word : alu_exec(op, a, b) \in Word
  BY AluYieldsWords
<1>2. \A a, b \in Word : alu_exec("ADD", a, b) = Plus(a, b) /\ alu_exec("PASS_B", a, b) = b
  BY AluByOp DEF Unsigned, Plus
<1>3. ASSUME NEW op \in Branches, NEW a \in Word, NEW b \in Word
      PROVE  branch_taken(op, a, b) \in BOOLEAN
  <2>1. /\ a \in Int /\ b \in Int /\ Signed(a) \in Int /\ Signed(b) \in Int
    BY SignBits, Width
  <2>2. \A x, y \in Int : (x < y) \in BOOLEAN /\ (x >= y) \in BOOLEAN
    OBVIOUS
  <2>3. CASE op \in {"BEQ", "BNE"}
    BY <2>3 DEF branch_taken
  <2>4. CASE op \in {"BLT", "BGE"}
    <3>1. (Signed(a) < Signed(b)) \in BOOLEAN /\ (Signed(a) >= Signed(b)) \in BOOLEAN
      BY <2>1, <2>2, Zenon
    <3> QED BY <2>4, <3>1, Zenon DEF branch_taken
  <2>5. CASE op \in {"BLTU", "BGEU"}
    <3>1. (a < b) \in BOOLEAN /\ (a >= b) \in BOOLEAN
      BY <2>1, <2>2, Zenon
    <3> QED BY <2>5, <3>1, Zenon DEF branch_taken
  <2> QED BY <2>3, <2>4, <2>5 DEF Branches
<1>4. ASSUME NEW op \in Op \ Branches, NEW a \in Word, NEW b \in Word
      PROVE  branch_taken(op, a, b) = FALSE
  BY DEF branch_taken, Branches
<1> QED BY <1>1, <1>2, <1>3, <1>4
=============================================================================
