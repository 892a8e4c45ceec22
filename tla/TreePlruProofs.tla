--------------------------- MODULE TreePlruProofs ---------------------------
(***************************************************************************)
(* Proofs about the replacement policy, for every number of ways.  Both    *)
(* walks over the tree are recursive functions: that they are defined, and *)
(* what they yield, is shown with the least counterexample.                *)
(***************************************************************************)
EXTENDS TreePlru, Integers, WellFoundedInduction, TLAPS

\* A set of naturals that is not empty has a least element.
LEMMA LeastNatural ==
    ASSUME NEW T \in SUBSET Nat, T # {}
    PROVE  \E x \in T : \A y \in T : x <= y
<1>1. \E x \in T : \A y \in T : ~(<<y, x>> \in OpToRel(<, Nat))
  BY NatLessThanWellFounded, WFMin
<1>2. ASSUME NEW x \in Nat, NEW y \in Nat, y < x
      PROVE  <<y, x>> \in OpToRel(<, Nat)
  <2>1. <<y, x>> \in { ss \in Nat \X Nat : ss[1] < ss[2] }
    BY <1>2
  <2> QED BY <2>1, Zenon DEF OpToRel
<1>3. \A x, y \in T : y < x => <<y, x>> \in OpToRel(<, Nat)
  <2>1. \A x \in T : x \in Nat
    OBVIOUS
  <2> QED BY <1>2, <2>1, Zenon
<1>4. \E x \in T : \A y \in T : ~(y < x)
  BY <1>1, <1>3, Zenon
<1> QED BY <1>4

\* There is at least one way.
LEMMA WaysPositive == Ways \in Nat /\ Ways >= 1
BY WaysAssumption

Tree == 1 .. (2 * Ways - 1)

\* The walk of victim(), as an equation.
IsLeafOf(f, bits) ==
    f = [n \in Tree |-> IF n >= Ways THEN n ELSE f[2 * n + bits[n]]]

\* Its solution below node m, which exists because the walk goes down.
Partial(g, m, bits) ==
    /\ g \in [m .. (2 * Ways - 1) -> Ways .. (2 * Ways - 1)]
    /\ \A n \in m .. (2 * Ways - 1) :
         g[n] = IF n >= Ways THEN n ELSE g[2 * n + bits[n]]

\* The path from each node down to a leaf exists, level by level from the
\* leaves up.
LEMMA PartialExists ==
    ASSUME NEW bits \in PlruBits
    PROVE  \E g : Partial(g, 1, bits)
<1> USE WaysPositive
<1> DEFINE T == { j \in Nat : j < Ways /\ ~\E g : Partial(g, Ways - j, bits) }
<1>1. SUFFICES T = {}
  <2>1. Ways - 1 \in Nat /\ Ways - (Ways - 1) = 1
    OBVIOUS
  <2>2. Ways - 1 \notin T
    BY <1>1
  <2>3. \E g : Partial(g, Ways - (Ways - 1), bits)
    BY <2>1, <2>2
  <2> QED BY <2>1, <2>3
<1>2. SUFFICES ASSUME T # {} PROVE FALSE
  OBVIOUS
<1>3. PICK j \in T : \A y \in T : j <= y
  <2>1. T \in SUBSET Nat
    OBVIOUS
  <2> QED BY <1>2, <2>1, LeastNatural
<1>4. j \in Nat /\ j < Ways /\ ~\E g : Partial(g, Ways - j, bits)
  BY <1>3
<1>5. CASE j = 0
  <2> DEFINE g == [n \in Ways .. (2 * Ways - 1) |-> n]
  <2>1. Partial(g, Ways, bits)
    BY DEF Partial
  <2> QED BY <1>4, <1>5, <2>1
<1>6. CASE j # 0
  <2>1. j - 1 \in Nat /\ j - 1 \notin T
    BY <1>3, <1>4, <1>6
  <2>2. PICK g : Partial(g, Ways - (j - 1), bits)
    BY <1>4, <2>1
  <2> DEFINE m == Ways - j
             h == [n \in m .. (2 * Ways - 1) |->
                     IF n = m THEN g[2 * m + bits[m]] ELSE g[n]]
  <2>3. /\ m \in Node /\ m + 1 = Ways - (j - 1) /\ m < Ways
        /\ bits[m] \in {0, 1}
        /\ 2 * m + bits[m] \in (m + 1) .. (2 * Ways - 1)
    BY <1>4, <1>6 DEF Node, PlruBits
  <2>4. /\ g \in [(m + 1) .. (2 * Ways - 1) -> Ways .. (2 * Ways - 1)]
        /\ \A n \in (m + 1) .. (2 * Ways - 1) :
             g[n] = IF n >= Ways THEN n ELSE g[2 * n + bits[n]]
    BY <2>2, <2>3 DEF Partial
  <2> HIDE DEF m
  <2>5. h \in [m .. (2 * Ways - 1) -> Ways .. (2 * Ways - 1)]
    BY <2>3, <2>4 DEF Node
  <2>6. ASSUME NEW n \in m .. (2 * Ways - 1)
        PROVE  h[n] = IF n >= Ways THEN n ELSE h[2 * n + bits[n]]
    <3>1. CASE n = m
      BY <2>3, <2>4, <3>1 DEF Node
    <3>2. CASE n # m /\ n >= Ways
      BY <2>3, <2>4, <3>2 DEF Node
    <3>3. CASE n # m /\ n < Ways
      <4>1. n \in (m + 1) .. (2 * Ways - 1) /\ bits[n] \in {0, 1}
            /\ 2 * n + bits[n] \in (m + 1) .. (2 * Ways - 1)
        BY <2>3, <3>3 DEF Node, PlruBits
      <4> QED BY <2>3, <2>4, <3>3, <4>1 DEF Node
    <3> QED BY <2>3, <3>1, <3>2, <3>3 DEF Node
  <2>7. Partial(h, m, bits)
    BY <2>5, <2>6 DEF Partial
  <2> QED BY <1>4, <2>7 DEF m
<1> QED BY <1>4, <1>5, <1>6

\* The walk of victim() is defined everywhere and ends at a leaf.
LEMMA LeafDefined ==
    ASSUME NEW bits \in PlruBits
    PROVE  LET f == CHOOSE f : IsLeafOf(f, bits)
           IN  /\ IsLeafOf(f, bits)
               /\ f \in [Tree -> Ways .. (2 * Ways - 1)]
<1> USE WaysPositive
<1>1. PICK g : Partial(g, 1, bits)
  BY PartialExists
<1>2. IsLeafOf(g, bits)
  BY <1>1 DEF Partial, IsLeafOf, Tree
<1> DEFINE f == CHOOSE f : IsLeafOf(f, bits)
<1>3. IsLeafOf(f, bits)
  BY <1>2
<1> HIDE DEF f
<1> DEFINE T == { j \in Nat : /\ j < 2 * Ways - 1
                              /\ f[2 * Ways - 1 - j] \notin Ways .. (2 * Ways - 1) }
<1>4. T = {}
  <2>1. SUFFICES ASSUME T # {} PROVE FALSE
    OBVIOUS
  <2>2. PICK j \in T : \A y \in T : j <= y
    <3>1. T \in SUBSET Nat
      OBVIOUS
    <3> QED BY <2>1, <3>1, LeastNatural
  <2> DEFINE n == 2 * Ways - 1 - j
  <2>3. j \in Nat /\ n \in Tree /\ f[n] \notin Ways .. (2 * Ways - 1)
    BY <2>2 DEF Tree
  <2>4. f[n] = IF n >= Ways THEN n ELSE f[2 * n + bits[n]]
    BY <1>3, <2>3 DEF IsLeafOf
  <2>5. n < Ways
    BY <2>3, <2>4 DEF Tree
  <2>6. bits[n] \in {0, 1} /\ 2 * n + bits[n] \in Tree /\ 2 * n + bits[n] > n
    BY <2>3, <2>5 DEF Tree, PlruBits, Node
  <2> DEFINE k == 2 * Ways - 1 - (2 * n + bits[n])
  <2>7. k \in Nat /\ k < j /\ k < 2 * Ways - 1 /\ 2 * Ways - 1 - k = 2 * n + bits[n]
    BY <2>3, <2>6 DEF Tree
  <2>8. k \notin T
    BY <2>2, <2>3, <2>7
  <2>9. f[2 * n + bits[n]] \in Ways .. (2 * Ways - 1)
    BY <2>7, <2>8
  <2> QED BY <2>3, <2>4, <2>5, <2>9
<1>5. ASSUME NEW n \in Tree PROVE f[n] \in Ways .. (2 * Ways - 1)
  <2>1. 2 * Ways - 1 - n \in Nat /\ 2 * Ways - 1 - n < 2 * Ways - 1
        /\ 2 * Ways - 1 - (2 * Ways - 1 - n) = n
    BY DEF Tree
  <2>2. 2 * Ways - 1 - n \notin T
    BY <1>4
  <2> QED BY <2>1, <2>2
<1>6. f \in [Tree -> Ways .. (2 * Ways - 1)]
  BY <1>3, <1>5 DEF IsLeafOf
<1> QED BY <1>3, <1>6 DEF f

\* victim() returns the way whose leaf the walk ends at.
LEMMA VictimIsLeaf ==
    ASSUME NEW bits \in PlruBits
    PROVE  victim(bits) = (CHOOSE f : IsLeafOf(f, bits))[1] - Ways
BY DEF victim, IsLeafOf, Tree

\* victim() names one of the ways, whatever the bits.
THEOREM VictimIsWay == \A bits \in PlruBits : victim(bits) \in Way
<1> TAKE bits \in PlruBits
<1> DEFINE f == CHOOSE f : IsLeafOf(f, bits)
<1>1. f \in [Tree -> Ways .. (2 * Ways - 1)]
  BY LeafDefined
<1>2. victim(bits) = f[1] - Ways
  BY VictimIsLeaf
<1> HIDE DEF f
<1>3. f[1] \in Ways .. (2 * Ways - 1)
  BY <1>1, WaysPositive DEF Tree
<1> QED BY <1>2, <1>3, WaysPositive DEF Way

\* touch() and the constructor leave one bit on every node.
LEMMA TouchType ==
    ASSUME NEW bits \in PlruBits, NEW w PROVE touch(bits, w) \in PlruBits
BY DEF touch, PlruBits

\* The initial tree is a tree.
LEMMA InitBits == PlruInit \in PlruBits
BY DEF PlruInit, PlruBits

-----------------------------------------------------------------------------
(***************************************************************************)
(* The way just touched is not the next victim.                            *)
(***************************************************************************)

\* The walk of touch(), as an equation: up from the leaf of w.
IsUpFrom(u, w) ==
    u = [k \in 0 .. Ways |-> IF k = 0 THEN w + Ways ELSE u[k - 1] \div 2]

\* It is defined on every level, and on none is a node above the first one.
LEMMA UpDefined ==
    ASSUME NEW w \in Way
    PROVE  LET u == CHOOSE u : IsUpFrom(u, w)
           IN  /\ u[0] = w + Ways
               /\ \A k \in 1 .. Ways : u[k] \in Nat /\ u[k] <= (w + Ways) \div 2
<1> USE WaysPositive
<1>w. w + Ways \in Nat
  BY DEF Way
<1> DEFINE Below(u, m) ==
      /\ u \in [0 .. m -> Nat]
      /\ \A k \in 0 .. m : u[k] = IF k = 0 THEN w + Ways ELSE u[k - 1] \div 2
<1> DEFINE T == { m \in Nat : ~\E u : Below(u, m) }
<1>1. T = {}
  <2>1. SUFFICES ASSUME T # {} PROVE FALSE
    OBVIOUS
  <2>2. PICK m \in T : \A y \in T : m <= y
    <3>1. T \in SUBSET Nat
      OBVIOUS
    <3> QED BY <2>1, <3>1, LeastNatural
  <2>3. m \in Nat /\ ~\E u : Below(u, m)
    BY <2>2
  <2>4. CASE m = 0
    <3>1. Below([k \in 0 .. 0 |-> w + Ways], 0)
      BY <1>w
    <3> QED BY <2>3, <2>4, <3>1
  <2>5. CASE m # 0
    <3>0. m - 1 \in Nat /\ ~(m <= m - 1)
      BY <2>3, <2>5
    <3>1. m - 1 \in Nat /\ m - 1 \notin T
      BY <2>2, <3>0, Zenon
    <3>2. PICK u : Below(u, m - 1)
      BY <3>1
    <3> DEFINE v == [k \in 0 .. m |-> IF k = m THEN u[m - 1] \div 2 ELSE u[k]]
    <3>3. v \in [0 .. m -> Nat]
      BY <2>3, <2>5, <3>2
    <3>4. ASSUME NEW k \in 0 .. m
          PROVE  v[k] = IF k = 0 THEN w + Ways ELSE v[k - 1] \div 2
      BY <2>3, <2>5, <3>2
    <3>5. Below(v, m)
      BY <3>3, <3>4
    <3> QED BY <2>3, <3>5
  <2> QED BY <2>4, <2>5
<1>2. PICK v : Below(v, Ways)
  BY <1>1
<1>3. IsUpFrom(v, w)
  BY <1>2 DEF IsUpFrom
<1> DEFINE u == CHOOSE u : IsUpFrom(u, w)
<1>4. IsUpFrom(u, w)
  BY <1>3
<1> HIDE DEF u, T, Below
<1>5. /\ u[0] = w + Ways
      /\ \A k \in 1 .. Ways : u[k] = u[k - 1] \div 2
  <2>1. u = [k \in 0 .. Ways |-> IF k = 0 THEN w + Ways ELSE u[k - 1] \div 2]
    BY <1>4 DEF IsUpFrom
  <2>2. \A k \in 0 .. Ways : u[k] = IF k = 0 THEN w + Ways ELSE u[k - 1] \div 2
    BY <2>1, Zenon
  <2> QED BY <2>2
<1> DEFINE S == { k \in Nat : /\ k \in 1 .. Ways
                              /\ ~(u[k] \in Nat /\ u[k] <= (w + Ways) \div 2) }
<1>6. S = {}
  <2>1. SUFFICES ASSUME S # {} PROVE FALSE
    OBVIOUS
  <2>2. PICK k \in S : \A y \in S : k <= y
    <3>1. S \in SUBSET Nat
      OBVIOUS
    <3> QED BY <2>1, <3>1, LeastNatural
  <2>3. k \in 1 .. Ways /\ ~(u[k] \in Nat /\ u[k] <= (w + Ways) \div 2)
    BY <2>2
  <2>4. u[k] = u[k - 1] \div 2
    BY <1>5, <2>3
  <2>5. CASE k = 1
    BY <1>5, <1>w, <2>3, <2>4, <2>5
  <2>6. CASE k # 1
    <3>1. k - 1 \in 1 .. Ways /\ k - 1 \notin S
      BY <2>2, <2>3, <2>6
    <3>2. u[k - 1] \in Nat /\ u[k - 1] <= (w + Ways) \div 2
      BY <3>1
    <3>3. (u[k - 1] \div 2) \in Nat /\ (u[k - 1] \div 2) <= u[k - 1]
      BY <3>2
    <3>4. (w + Ways) \div 2 \in Nat
      BY <1>w
    <3> QED BY <2>3, <2>4, <3>2, <3>3, <3>4
  <2> QED BY <2>5, <2>6
<1>7. \A k \in 1 .. Ways : u[k] \in Nat /\ u[k] <= (w + Ways) \div 2
  BY <1>6
<1> QED BY <1>5, <1>7 DEF u

\* The leaf is on the path of its way; its left sibling is not.
LEMMA PathOfLeaf ==
    ASSUME NEW w \in Way
    PROVE  /\ OnPath(w + Ways, w)
           /\ \A n \in Nat : n >= 1 /\ w + Ways = 2 * n + 1 => ~OnPath(2 * n, w)
<1> DEFINE u == CHOOSE u : IsUpFrom(u, w)
<1>1. /\ u[0] = w + Ways
      /\ \A k \in 1 .. Ways : u[k] \in Nat /\ u[k] <= (w + Ways) \div 2
  BY UpDefined
<1>2. \A n : OnPath(n, w) <=> \E k \in 0 .. Ways : u[k] = n
  BY DEF OnPath, IsUpFrom
<1> HIDE DEF u
<1>3. OnPath(w + Ways, w)
  BY <1>1, <1>2, WaysPositive
<1>4. ASSUME NEW n \in Nat, n >= 1, w + Ways = 2 * n + 1, OnPath(2 * n, w)
      PROVE  FALSE
  <2>1. PICK k \in 0 .. Ways : u[k] = 2 * n
    BY <1>2, <1>4
  <2>2. k # 0
    BY <1>1, <1>4, <2>1
  <2>3. u[k] <= (2 * n + 1) \div 2
    BY <1>1, <1>4, <2>2, WaysPositive
  <2>4. (2 * n + 1) \div 2 = n
    BY <1>4
  <2> QED BY <1>4, <2>1, <2>3, <2>4
<1> QED BY <1>3, <1>4

\* Once a way is touched, it is not the victim, whatever the bits were: with
\* two ways or more the line just used or just installed stays.
THEOREM TouchedSurvives ==
    ASSUME Ways > 1, NEW bits \in PlruBits, NEW w \in Way
    PROVE  victim(touch(bits, w)) # w
<1> USE WaysPositive
<1> DEFINE b == touch(bits, w)
           f == CHOOSE f : IsLeafOf(f, b)
<1>1. b \in PlruBits
  BY TouchType
<1>2. \A n \in Node : b[n] = IF OnPath(2 * n, w) THEN 1
                             ELSE IF OnPath(2 * n + 1, w) THEN 0 ELSE bits[n]
  BY DEF touch
<1>3. IsLeafOf(f, b) /\ f \in [Tree -> Ways .. (2 * Ways - 1)]
  BY <1>1, LeafDefined
<1>4. victim(b) = f[1] - Ways
  BY <1>1, VictimIsLeaf
<1> HIDE DEF b, f
<1>w. w \in Nat /\ w + Ways \in Nat /\ w + Ways \in Tree
  BY DEF Way, Tree
<1> DEFINE T == { j \in Nat : /\ j < 2 * Ways - 1
                              /\ 2 * Ways - 1 - j # w + Ways
                              /\ f[2 * Ways - 1 - j] = w + Ways }
<1>5. T = {}
  <2>1. SUFFICES ASSUME T # {} PROVE FALSE
    OBVIOUS
  <2>2. PICK j \in T : \A y \in T : j <= y
    <3>1. T \in SUBSET Nat
      OBVIOUS
    <3> QED BY <2>1, <3>1, LeastNatural
  <2> DEFINE n == 2 * Ways - 1 - j
  <2>3. j \in Nat /\ n \in Tree /\ n # w + Ways /\ f[n] = w + Ways
    BY <2>2 DEF Tree
  <2>4. n < Ways /\ f[n] = f[2 * n + b[n]]
    BY <1>3, <1>w, <2>3 DEF IsLeafOf, Tree
  <2>5. /\ n \in Node /\ b[n] \in {0, 1} /\ n \in Nat /\ n >= 1
        /\ 2 * n + b[n] \in Tree /\ 2 * n + b[n] > n
    BY <1>1, <2>3, <2>4 DEF Tree, PlruBits, Node
  <2> DEFINE k == 2 * Ways - 1 - (2 * n + b[n])
  <2>6. k \in Nat /\ k < j /\ k < 2 * Ways - 1 /\ 2 * Ways - 1 - k = 2 * n + b[n]
    BY <2>3, <2>5 DEF Tree
  <2>7. k \notin T
    BY <2>2, <2>3, <2>6
  <2>8. 2 * n + b[n] = w + Ways
    BY <2>3, <2>4, <2>6, <2>7
  <2>9. CASE b[n] = 0
    <3>1. 2 * n = w + Ways
      BY <2>5, <2>8, <2>9
    <3>2. OnPath(2 * n, w)
      BY <3>1, PathOfLeaf
    <3> QED BY <1>2, <2>5, <2>9, <3>2
  <2>10. CASE b[n] = 1
    <3>1. 2 * n + 1 = w + Ways
      BY <2>5, <2>8, <2>10
    <3>2. OnPath(2 * n + 1, w) /\ ~OnPath(2 * n, w)
      BY <2>5, <3>1, PathOfLeaf
    <3> QED BY <1>2, <2>5, <2>10, <3>2
  <2> QED BY <2>5, <2>9, <2>10
<1>6. f[1] # w + Ways
  <2>1. 2 * Ways - 2 \notin T
    BY <1>5
  <2>2. /\ 2 * Ways - 2 \in Nat /\ 2 * Ways - 2 < 2 * Ways - 1
        /\ 2 * Ways - 1 - (2 * Ways - 2) = 1
    OBVIOUS
  <2>3. 1 # w + Ways
    BY <1>w
  <2> QED BY <2>1, <2>2, <2>3
<1>7. f[1] \in Int
  BY <1>3 DEF Tree
<1> QED BY <1>4, <1>6, <1>7, <1>w DEF b
=============================================================================
