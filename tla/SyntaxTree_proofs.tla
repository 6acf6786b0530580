-------------------------- MODULE SyntaxTree_proofs --------------------------
(***************************************************************************)
(* Facts about trees in preorder, for the proofs about the walks over      *)
(* them.                                                                   *)
(***************************************************************************)
EXTENDS SyntaxTree, FiniteSetTheorems, WellFoundedInduction, TLAPS

(* A set of numbers has a least one; the order enters the library's fact   *)
(* as a set of pairs.                                                      *)
LEMMA LeastNumber ==
  ASSUME NEW T \in SUBSET Nat, T # {}
  PROVE  \E x \in T : \A y \in T : x <= y
<1> DEFINE R == OpToRel(<, Nat)
<1>1. \E x \in T : \A y \in T : ~ (<<y, x>> \in R)
  BY NatLessThanWellFounded, WFMin
<1>2. \A x, y \in Nat : <<y, x>> \in R <=> y < x
  BY DEF OpToRel
<1>3. PICK x \in T : \A y \in T : ~ (<<y, x>> \in R)
  BY <1>1
<1> HIDE DEF R
<1>4. \A y \in T : x <= y
  <2> SUFFICES ASSUME NEW y \in T PROVE x <= y
    OBVIOUS
  <2>1. x \in Nat /\ y \in Nat
    OBVIOUS
  <2>2. ~ (y < x)
    BY <1>2, <1>3, <2>1
  <2> QED
    BY <2>1, <2>2
<1> QED
  BY <1>4

(* A bounded set of numbers has a greatest one. *)
LEMMA GreatestNumber ==
  ASSUME NEW T \in SUBSET Nat, T # {}, NEW b \in Nat, \A x \in T : x <= b
  PROVE  \E x \in T : \A y \in T : y <= x
<1> DEFINE U == { u \in Nat : \A y \in T : y <= u }
<1>1. b \in U
  OBVIOUS
<1>2. PICK u \in U : \A v \in U : u <= v
  BY <1>1, LeastNumber
<1>3. u \in T
  <2> SUFFICES ASSUME u \notin T PROVE FALSE
    OBVIOUS
  <2>1. PICK y \in T : TRUE
    OBVIOUS
  <2>2. u # 0
    BY <2>1
  <2>3. u - 1 \in U
    <3>1. u - 1 \in Nat
      BY <2>2
    <3> QED
      BY <3>1
  <2> QED
    BY <1>2, <2>2, <2>3
<1> QED
  BY <1>3
-----------------------------------------------------------------------------
(* What the walks take for granted of a file. *)
IsPreorder(f) ==
  /\ Len(f.kind) \in Nat
  /\ \A n \in Nodes(f) : InPreorder(f, n)

LEMMA NodesAreNumbers ==
  ASSUME NEW f, IsPreorder(f)
  PROVE  /\ Len(f.kind) \in Nat
         /\ \A n \in Nodes(f) : n \in Nat /\ 1 <= n /\ n <= Len(f.kind)
         /\ \A n \in Nodes(f) : f.up[n] \in Nat /\ f.up[n] < n
BY DEF IsPreorder, Nodes, InPreorder

LEMMA EnclosesTransitive ==
  ASSUME NEW f, IsPreorder(f), NEW a \in Nodes(f), NEW b \in Nodes(f), NEW c \in Nodes(f),
         Encloses(f, a, b), Encloses(f, b, c)
  PROVE  Encloses(f, a, c)
<1>1. /\ a \in Nat /\ b \in Nat /\ c \in Nat /\ a < b /\ b < c
      /\ \A k \in Nodes(f) : f.up[k] \in Nat
  BY NodesAreNumbers DEF Encloses
<1>2. ASSUME NEW k \in a + 1 .. c PROVE f.up[k] >= a
  <2>1. k \in Nodes(f) /\ f.up[k] \in Nat
    BY <1>1, NodesAreNumbers DEF Nodes
  <2>2. CASE k <= b
    BY <1>1, <2>2 DEF Encloses
  <2>3. CASE k > b
    <3>1. k \in b + 1 .. c
      BY <1>1, <2>3
    <3>2. f.up[k] >= b
      BY <3>1 DEF Encloses
    <3> QED
      BY <1>1, <2>1, <3>2
  <2> QED
    BY <1>1, <2>2, <2>3
<1> QED
  BY <1>1, <1>2 DEF Encloses

(* Of two nodes around a third the earlier one is around the later. *)
LEMMA EnclosesPrefix ==
  ASSUME NEW f, IsPreorder(f), NEW a \in Nodes(f), NEW b \in Nodes(f), NEW c \in Nodes(f),
         Encloses(f, a, c), a < b, b <= c
  PROVE  Encloses(f, a, b)
<1>1. a \in Nat /\ b \in Nat /\ c \in Nat
  BY NodesAreNumbers
<1>2. a + 1 .. b \subseteq a + 1 .. c
  BY <1>1
<1> QED
  BY <1>1, <1>2 DEF Encloses

LEMMA ParentEncloses ==
  ASSUME NEW f, IsPreorder(f), NEW n \in Nodes(f), f.up[n] # 0
  PROVE  f.up[n] \in Nodes(f) /\ Encloses(f, f.up[n], n)
<1>1. n \in Nat /\ f.up[n] \in Nat /\ f.up[n] < n /\ f.up[n] \in Nodes(f)
  BY NodesAreNumbers DEF Nodes
<1>2. f.up[n] = n - 1 \/ Encloses(f, f.up[n], n - 1)
  BY DEF IsPreorder, InPreorder
<1>3. ASSUME NEW k \in f.up[n] + 1 .. n PROVE f.up[k] >= f.up[n]
  <2>1. CASE k = n
    BY <1>1, <2>1
  <2>2. CASE k # n
    <3>1. k \in f.up[n] + 1 .. n - 1
      BY <1>1, <2>2
    <3>2. f.up[n] # n - 1
      BY <1>1, <3>1
    <3> QED
      BY <1>2, <3>1, <3>2 DEF Encloses
  <2> QED
    BY <2>1, <2>2
<1> QED
  BY <1>1, <1>3 DEF Encloses

(* Around a node are its parent and what is around that. *)
LEMMA EnclosesByParent ==
  ASSUME NEW f, IsPreorder(f), NEW a \in Nodes(f), NEW n \in Nodes(f)
  PROVE  Encloses(f, a, n) <=>
           f.up[n] # 0 /\ (a = f.up[n] \/ Encloses(f, a, f.up[n]))
<1>1. /\ n \in Nat /\ a \in Nat /\ 1 <= a
      /\ f.up[n] \in Nat /\ f.up[n] < n
  BY NodesAreNumbers
<1>2. ASSUME Encloses(f, a, n)
      PROVE  f.up[n] # 0 /\ (a = f.up[n] \/ Encloses(f, a, f.up[n]))
  <2>1. n \in a + 1 .. n
    BY <1>1, <1>2 DEF Encloses
  <2>2. a <= f.up[n]
    BY <1>1, <1>2, <2>1 DEF Encloses
  <2>3. f.up[n] \in Nodes(f)
    BY <1>1, <2>2, NodesAreNumbers DEF Nodes
  <2> QED
    BY <1>1, <1>2, <2>2, <2>3, EnclosesPrefix
<1>3. ASSUME f.up[n] # 0, a = f.up[n] \/ Encloses(f, a, f.up[n])
      PROVE  Encloses(f, a, n)
  BY <1>3, ParentEncloses, EnclosesTransitive
<1> QED
  BY <1>2, <1>3

LEMMA EnclosesOrder ==
  ASSUME NEW f, IsPreorder(f), NEW a \in Nodes(f), NEW n \in Nodes(f), Encloses(f, a, n)
  PROVE  a < n /\ ~ Encloses(f, n, a) /\ a # n
BY NodesAreNumbers DEF Encloses
-----------------------------------------------------------------------------
(* After(f, n) is the end of the subtree of n. *)
LEMMA AfterEnds ==
  ASSUME NEW f, IsPreorder(f), NEW n \in Nodes(f)
  PROVE  /\ After(f, n) \in n + 1 .. Len(f.kind) + 1
         /\ After(f, n) \in Nat
         /\ \/ After(f, n) = Len(f.kind) + 1
            \/ After(f, n) \in Nodes(f) /\ ~ Encloses(f, n, After(f, n))
         /\ \A k \in Nodes(f) : Encloses(f, n, k) <=> n < k /\ k < After(f, n)
<1> DEFINE T == { m \in n + 1 .. Len(f.kind) + 1 : m = Len(f.kind) + 1 \/ ~ Encloses(f, n, m) }
           m0 == After(f, n)
<1>1. n \in Nat /\ 1 <= n /\ Len(f.kind) \in Nat /\ n <= Len(f.kind)
  BY NodesAreNumbers
<1>2. T \in SUBSET Nat /\ Len(f.kind) + 1 \in T
  BY <1>1
<1>3. PICK m \in T : \A y \in T : m <= y
  BY <1>2, LeastNumber
<1>4. \A k \in n + 1 .. m - 1 : Encloses(f, n, k)
  <2> SUFFICES ASSUME NEW k \in n + 1 .. m - 1, ~ Encloses(f, n, k) PROVE FALSE
    OBVIOUS
  <2>1. k \in T /\ k < m
    BY <1>1, <1>3
  <2> QED
    BY <1>1, <1>3, <2>1
<1>5. /\ m0 \in n + 1 .. Len(f.kind) + 1
      /\ m0 = Len(f.kind) + 1 \/ ~ Encloses(f, n, m0)
      /\ \A k \in n + 1 .. m0 - 1 : Encloses(f, n, k)
  BY <1>3, <1>4 DEF After
<1> HIDE DEF m0, T
<1>6. m0 \in Nat /\ (m0 = Len(f.kind) + 1 \/ m0 \in Nodes(f))
  BY <1>1, <1>5 DEF Nodes
<1>7. ASSUME NEW k \in Nodes(f), Encloses(f, n, k) PROVE n < k /\ k < m0
  <2>1. k \in Nat /\ n < k /\ k <= Len(f.kind)
    BY <1>7, NodesAreNumbers DEF Encloses
  <2>2. SUFFICES ASSUME m0 <= k PROVE FALSE
    BY <1>6, <2>1
  <2>3. m0 \in Nodes(f) /\ n < m0
    BY <1>1, <1>5, <1>6, <2>1, <2>2 DEF Nodes
  <2>4. Encloses(f, n, m0)
    BY <1>7, <2>2, <2>3, EnclosesPrefix
  <2> QED
    BY <1>1, <1>5, <2>1, <2>2, <2>4
<1>8. ASSUME NEW k \in Nodes(f), n < k, k < m0 PROVE Encloses(f, n, k)
  <2>1. k \in n + 1 .. m0 - 1
    BY <1>1, <1>6, <1>8, NodesAreNumbers
  <2> QED
    BY <1>5, <2>1
<1> QED
  BY <1>5, <1>6, <1>7, <1>8 DEF m0

(* The node after a subtree hangs from a node around its root. *)
LEMMA UpOfAfter ==
  ASSUME NEW f, IsPreorder(f), NEW n \in Nodes(f), After(f, n) \in Nodes(f)
  PROVE  LET p == f.up[After(f, n)] IN
         p = 0 \/ (p \in Nodes(f) /\ Encloses(f, p, n))
<1> DEFINE m == After(f, n)
           p == f.up[m]
<1>1. /\ m \in Nat /\ n \in Nat /\ 1 <= n /\ n < m /\ ~ Encloses(f, n, m)
      /\ \A k \in Nodes(f) : n < k /\ k < m => Encloses(f, n, k)
  BY AfterEnds, NodesAreNumbers
<1>2. p \in Nat /\ p < m
  BY NodesAreNumbers
<1> HIDE DEF m
<1> SUFFICES ASSUME p # 0 PROVE p \in Nodes(f) /\ Encloses(f, p, n)
  BY DEF m
<1>3. p \in Nodes(f) /\ Encloses(f, p, m)
  BY ParentEncloses DEF m
<1>4. p # n
  BY <1>1, <1>3
<1>5. ~ (n < p)
  <2> SUFFICES ASSUME n < p PROVE FALSE
    OBVIOUS
  <2>1. Encloses(f, n, p)
    BY <1>1, <1>2, <1>3
  <2> QED
    BY <1>1, <1>3, <2>1, EnclosesTransitive DEF m
<1>6. p < n
  BY <1>1, <1>2, <1>4, <1>5
<1>7. n <= m /\ m \in Nodes(f)
  BY <1>1 DEF m
<1> HIDE DEF p
<1> QED
  BY <1>3, <1>6, <1>7, EnclosesPrefix

(* Two subtrees that end together. *)
LEMMA AfterUnique ==
  ASSUME NEW f, IsPreorder(f), NEW n \in Nodes(f), NEW m \in n + 1 .. Len(f.kind) + 1,
         m \in Nodes(f) => ~ Encloses(f, n, m),
         \A k \in Nodes(f) : n < k /\ k < m => Encloses(f, n, k)
  PROVE  After(f, n) = m
<1>1. /\ n \in Nat /\ 1 <= n /\ Len(f.kind) \in Nat /\ m \in Nat /\ n < m
      /\ m = Len(f.kind) + 1 \/ m \in Nodes(f)
  BY NodesAreNumbers DEF Nodes
<1>2. /\ After(f, n) \in Nat /\ n < After(f, n) /\ After(f, n) <= Len(f.kind) + 1
      /\ \/ After(f, n) = Len(f.kind) + 1
         \/ After(f, n) \in Nodes(f) /\ ~ Encloses(f, n, After(f, n))
      /\ \A k \in Nodes(f) : Encloses(f, n, k) <=> n < k /\ k < After(f, n)
  BY <1>1, AfterEnds
<1>3. ~ (m < After(f, n))
  BY <1>1, <1>2
<1>4. ~ (After(f, n) < m)
  BY <1>1, <1>2
<1> QED
  BY <1>1, <1>2, <1>3, <1>4

(* The subtree of a node without a child is the node. *)
LEMMA AfterLeaf ==
  ASSUME NEW f, IsPreorder(f), NEW n \in Nodes(f),
         ~ (n + 1 \in Nodes(f) /\ f.up[n + 1] = n)
  PROVE  After(f, n) = n + 1
<1>1. n \in Nat /\ Len(f.kind) \in Nat /\ n <= Len(f.kind)
  BY NodesAreNumbers
<1>2. n + 1 \in Nodes(f) => ~ Encloses(f, n, n + 1)
  <2> SUFFICES ASSUME n + 1 \in Nodes(f), Encloses(f, n, n + 1) PROVE FALSE
    OBVIOUS
  <2>1. f.up[n + 1] \in Nat /\ f.up[n + 1] < n + 1
    BY NodesAreNumbers
  <2>2. f.up[n + 1] >= n
    BY <1>1 DEF Encloses
  <2> QED
    BY <1>1, <2>1, <2>2
<1>3. n + 1 \in n + 1 .. Len(f.kind) + 1
  BY <1>1
<1>4. ASSUME NEW k \in Nodes(f), n < k, k < n + 1 PROVE FALSE
  <2>1. k \in Nat
    BY NodesAreNumbers
  <2> QED
    BY <1>1, <1>4, <2>1
<1> QED
  BY <1>2, <1>3, <1>4, AfterUnique

(* The last subtree of a node ends with the subtree of the node. *)
LEMMA AfterLastChild ==
  ASSUME NEW f, IsPreorder(f), NEW n \in Nodes(f), f.up[n] # 0,
         After(f, n) \notin Nodes(f) \/ f.up[After(f, n)] # f.up[n]
  PROVE  After(f, f.up[n]) = After(f, n)
<1> DEFINE p == f.up[n]
           m == After(f, n)
<1>1. /\ p \in Nodes(f) /\ Encloses(f, p, n)
      /\ p \in Nat /\ n \in Nat /\ p < n /\ m \in Nat /\ n < m /\ m <= Len(f.kind) + 1
      /\ Len(f.kind) \in Nat
  BY AfterEnds, ParentEncloses, NodesAreNumbers
<1>2. m \in p + 1 .. Len(f.kind) + 1
  BY <1>1
<1>3. ASSUME m \in Nodes(f), Encloses(f, p, m) PROVE FALSE
  <2>1. f.up[m] # 0 /\ (p = f.up[m] \/ Encloses(f, p, f.up[m]))
    BY <1>1, <1>3, EnclosesByParent
  <2>2. Encloses(f, p, f.up[m]) /\ f.up[m] \in Nodes(f) /\ Encloses(f, f.up[m], n)
    BY <1>3, <2>1, UpOfAfter
  <2>3. f.up[m] = p \/ Encloses(f, f.up[m], p)
    BY <2>2, EnclosesByParent
  <2> QED
    BY <1>1, <2>2, <2>3, EnclosesOrder
<1>4. ASSUME NEW k \in Nodes(f), p < k, k < m PROVE Encloses(f, p, k)
  <2>1. CASE k <= n
    BY <1>1, <1>4, <2>1, EnclosesPrefix
  <2>2. CASE n < k
    <3>1. Encloses(f, n, k)
      BY <1>4, <2>2, AfterEnds
    <3> QED
      BY <1>1, <3>1, EnclosesTransitive
  <2> QED
    BY <1>1, <2>1, <2>2, NodesAreNumbers
<1> QED
  BY <1>1, <1>2, <1>3, <1>4, AfterUnique
(* Around the next node are at most the node and what is around it. *)
LEMMA AroundNext ==
  ASSUME NEW f, IsPreorder(f), NEW n \in Nodes(f), n + 1 \in Nodes(f), NEW m \in Nodes(f),
         Encloses(f, m, n + 1)
  PROVE  m = n \/ Encloses(f, m, n)
<1>1. m \in Nat /\ n \in Nat /\ m < n + 1
  BY NodesAreNumbers DEF Encloses
<1>2. m # n => m < n /\ n <= n + 1
  BY <1>1
<1> QED
  BY <1>2, EnclosesPrefix

(* What is around the node after a subtree is around its root. *)
LEMMA AroundAfter ==
  ASSUME NEW f, IsPreorder(f), NEW n \in Nodes(f), After(f, n) \in Nodes(f), NEW m \in Nodes(f),
         Encloses(f, m, After(f, n))
  PROVE  Encloses(f, m, n)
<1> DEFINE a == After(f, n)
<1>1. f.up[a] # 0 /\ (m = f.up[a] \/ Encloses(f, m, f.up[a]))
  BY EnclosesByParent
<1>2. f.up[a] \in Nodes(f) /\ Encloses(f, f.up[a], n)
  BY <1>1, UpOfAfter
<1> QED
  BY <1>1, <1>2, EnclosesTransitive

(* A subtree ends no later than the one it is in. *)
LEMMA AfterNested ==
  ASSUME NEW f, IsPreorder(f), NEW a \in Nodes(f), NEW n \in Nodes(f), Encloses(f, a, n)
  PROVE  After(f, n) <= After(f, a)
<1>1. /\ a \in Nat /\ n \in Nat /\ Len(f.kind) \in Nat /\ a < n
      /\ After(f, n) \in Nat /\ After(f, n) <= Len(f.kind) + 1
      /\ After(f, a) \in Nat /\ n < After(f, a)
      /\ \/ After(f, a) = Len(f.kind) + 1
         \/ After(f, a) \in Nodes(f) /\ ~ Encloses(f, a, After(f, a))
      /\ \A k \in Nodes(f) : Encloses(f, n, k) <=> n < k /\ k < After(f, n)
  <2>1. a \in Nat /\ n \in Nat /\ Len(f.kind) \in Nat /\ a < n
    BY NodesAreNumbers DEF Encloses
  <2>2. /\ After(f, n) \in Nat /\ After(f, n) <= Len(f.kind) + 1
        /\ \A k \in Nodes(f) : Encloses(f, n, k) <=> n < k /\ k < After(f, n)
    BY <2>1, AfterEnds
  <2>3. /\ After(f, a) \in Nat /\ n < After(f, a)
        /\ \/ After(f, a) = Len(f.kind) + 1
           \/ After(f, a) \in Nodes(f) /\ ~ Encloses(f, a, After(f, a))
    BY AfterEnds
  <2> QED
    BY <2>1, <2>2, <2>3
<1> SUFFICES ASSUME After(f, a) < After(f, n) PROVE FALSE
  BY <1>1
<1>2. After(f, a) \in Nodes(f) /\ ~ Encloses(f, a, After(f, a))
  BY <1>1
<1>3. Encloses(f, n, After(f, a))
  BY <1>1, <1>2
<1> QED
  BY <1>2, <1>3, EnclosesTransitive
-----------------------------------------------------------------------------
(* The nearest node of a kind is around n, and no other one is nearer. *)
LEMMA NearestIsInnermost ==
  ASSUME NEW f, IsPreorder(f), NEW kinds, NEW n \in Nodes(f)
  PROVE  LET h == Nearest(f, kinds, n) IN
         /\ h # 0 => h \in Nodes(f) /\ f.kind[h] \in kinds /\ Encloses(f, h, n)
         /\ \A m \in Nodes(f) :
              f.kind[m] \in kinds /\ Encloses(f, m, n) => h # 0 /\ m <= h
<1> DEFINE around == { m \in 1 .. n - 1 : f.kind[m] \in kinds /\ Encloses(f, m, n) }
           h == Nearest(f, kinds, n)
<1>1. n \in Nat /\ n <= Len(f.kind) /\ Len(f.kind) \in Nat
  BY NodesAreNumbers
<1>2. around \in SUBSET Nat /\ around \subseteq Nodes(f) /\ \A m \in around : m <= n
  BY <1>1 DEF Nodes
<1>3. \A m \in Nodes(f) : f.kind[m] \in kinds /\ Encloses(f, m, n) => m \in around
  BY <1>1, NodesAreNumbers DEF Encloses
<1>4. h = IF around = {} THEN 0 ELSE CHOOSE m \in around : \A k \in around : k <= m
  BY DEF Nearest
<1>5. around # {} => h \in around /\ \A k \in around : k <= h
  <2> SUFFICES ASSUME around # {} PROVE h \in around /\ \A k \in around : k <= h
    OBVIOUS
  <2> HIDE DEF around, h
  <2>1. \E m \in around : \A k \in around : k <= m
    BY <1>1, <1>2, GreatestNumber
  <2> QED
    BY <1>4, <2>1
<1>6. around # {} => h # 0
  BY <1>5, <1>2, NodesAreNumbers
<1> HIDE DEF around, h
<1>7. around = {} => h = 0
  BY <1>4
<1>8. h # 0 => f.kind[h] \in kinds /\ Encloses(f, h, n)
  BY <1>5, <1>7 DEF around
<1> QED
  BY <1>2, <1>3, <1>5, <1>6, <1>7, <1>8 DEF h
=============================================================================
