------------------------ MODULE RequireError_proofs ------------------------
(***************************************************************************)
(* For every package, pattern and order of the ranges over maps: what the  *)
(* require-error checker reports is what the rules, said of the tree, ask  *)
(* for.                                                                    *)
(***************************************************************************)
EXTENDS RequireError, SyntaxTree_proofs

(* s lists the numbers of S in order. *)
IsList(s, S) ==
  /\ s \in Seq(Nat)
  /\ S = { s[i] : i \in 1 .. Len(s) }
  /\ \A i, j \in 1 .. Len(s) : i < j => s[i] < s[j]

(* m files the calls of S under their keys. *)
FuncsList(m, S) ==
  /\ DOMAIN m = { FuncOf(n) : n \in S }
  /\ \A fd \in DOMAIN m : IsList(m[fd], { n \in S : FuncOf(n) = fd })
BlocksList(m, S) ==
  /\ DOMAIN m = { ParentBlock(n) : n \in S }
  /\ \A b \in DOMAIN m : IsList(m[b], { n \in S : ParentBlock(n) = b })

(* The walk has collected the calls before the node it is at, and is in no *)
(* assertion that it collected.                                            *)
Collecting ==
  /\ at \in 1 .. Len(file.kind) + 1
  /\ phase = "collect" /\ at \in Nodes(file) =>
       \A m \in Nodes(file) : Kind(m) \in Testify /\ FuncOf(m) # 0 => ~ Encloses(file, m, at)
  /\ phase # "collect" => at = Len(file.kind) + 1
  /\ FuncsList(callsByFunc, { n \in Calls : n < at })

(* Where the ranges over the maps are. *)
Ranging ==
  /\ phase \in {"collect", "group", "mark", "judge", "done"}
  /\ current \in {0} \cup DOMAIN callsByFunc /\ index \in 1 .. Len(Ranged) + 1
  /\ phase \notin {"group", "judge"} => AllRanged
  /\ ~ AllRanged => current \notin unvisited
  /\ phase = "collect" => current = 0 /\ unvisited = {}
  /\ phase \in {"group", "judge"} => unvisited \subseteq DOMAIN callsByFunc
  /\ phase = "mark" => unvisited \subseteq DOMAIN callsByBlock

(* The calls that a range over callsByFunc has produced. *)
Seen ==
  { n \in Calls :
      /\ FuncOf(n) \notin unvisited
      /\ FuncOf(n) = current => \E j \in 1 .. index - 1 : Ranged[j] = n }

Grouping ==
  /\ phase = "collect" => BlocksList(callsByBlock, {})
  /\ phase = "group" => BlocksList(callsByBlock, Seen)
  /\ phase \in {"mark", "judge", "done"} => BlocksList(callsByBlock, Calls)

(* n and one next to it in its block expect no error. *)
NextToOther(n) ==
  \E m \in SameBlock(n) :
    /\ m # n /\ Kind(m) \in {"NoError", "require"}
    /\ ~ \E k \in SameBlock(n) : k \in (m + 1 .. n - 1) \cup (n + 1 .. m - 1)
InNoErrorSequence == { n \in Calls : Kind(n) \in {"NoError", "require"} /\ NextToOther(n) }

Marking ==
  /\ phase \in {"collect", "group"} => inNoErrorSeq = {}
  /\ phase = "mark" => inNoErrorSeq = { n \in InNoErrorSequence : ParentBlock(n) \notin unvisited }
  /\ phase \in {"judge", "done"} => inNoErrorSeq = InNoErrorSequence

ReportsOf(S) ==
  /\ diagnostics \in Seq(Nat)
  /\ Reported = { n \in Candidates : n \in S /\ ~ Excused(n) }
  /\ \A i, j \in 1 .. Len(diagnostics) :
       i < j /\ FuncOf(diagnostics[i]) = FuncOf(diagnostics[j]) => diagnostics[i] < diagnostics[j]
Judging ==
  /\ phase \in {"collect", "group", "mark"} => ReportsOf({})
  /\ phase = "judge" => ReportsOf(Seen)
  /\ phase = "done" => ReportsOf(Calls)

IInv == file \in Files /\ Collecting /\ Ranging /\ Grouping /\ Marking /\ Judging
-----------------------------------------------------------------------------
(* The tree. *)
LEMMA FilesArePreorders ==
  ASSUME file \in Files
  PROVE  /\ IsFile(file) /\ IsPreorder(file)
         /\ Len(file.kind) \in Nat
         /\ \A n \in Nodes(file) : n \in Nat /\ 1 <= n /\ n <= Len(file.kind)
         /\ \A n : n \in Nodes(file) <=> n \in 1 .. Len(file.kind)
         /\ \A n \in Nodes(file) : Kind(n) \in Kinds
<1>1. IsFile(file)
  BY RequireErrorAssumption
<1>2. Len(file.kind) \in Nat /\ \A n \in 1 .. Len(file.kind) : file.kind[n] \in Kinds
  BY <1>1 DEF IsFile
<1>3. IsPreorder(file)
  BY <1>1, <1>2 DEF IsFile, IsPreorder, Fits
<1> QED
  BY <1>1, <1>2, <1>3 DEF Nodes, Kind

(* The nearest function and block of a node. *)
LEMMA FuncIsInnermost ==
  ASSUME file \in Files, NEW n \in Nodes(file)
  PROVE  /\ FuncOf(n) # 0 => /\ FuncOf(n) \in Nodes(file) /\ Kind(FuncOf(n)) \in FuncKinds
                             /\ Encloses(file, FuncOf(n), n)
         /\ \A m \in Nodes(file) :
              Kind(m) \in FuncKinds /\ Encloses(file, m, n) => FuncOf(n) # 0 /\ m <= FuncOf(n)
BY FilesArePreorders, NearestIsInnermost DEF FuncOf, Kind

LEMMA BlockIsInnermost ==
  ASSUME file \in Files, NEW n \in Nodes(file)
  PROVE  /\ ParentBlock(n) # 0 => /\ ParentBlock(n) \in Nodes(file)
                                  /\ Kind(ParentBlock(n)) = "block"
                                  /\ Encloses(file, ParentBlock(n), n)
         /\ \A m \in Nodes(file) :
              Kind(m) = "block" /\ Encloses(file, m, n)
              => ParentBlock(n) # 0 /\ m <= ParentBlock(n)
BY FilesArePreorders, NearestIsInnermost DEF ParentBlock, Kind

LEMMA IfIsAround ==
  ASSUME file \in Files, NEW n \in Nodes(file), ParentIf(n) # 0
  PROVE  ParentIf(n) \in Nodes(file) /\ Kind(ParentIf(n)) = "if"
BY FilesArePreorders, NearestIsInnermost DEF ParentIf, Kind

(* Below a function there is its body and nothing else. *)
LEMMA ChildOfFuncIsBody ==
  ASSUME file \in Files, NEW n \in Nodes(file), file.up[n] # 0, Kind(file.up[n]) \in FuncKinds
  PROVE  Kind(n) = "block" /\ \A m \in Nodes(file) : file.up[m] = file.up[n] => ~ (m < n)
<1> DEFINE p == file.up[n]
           k == file.kind[n]
           elder == { m \in Kids(file, p) : m < n }
<1>1. Fits(file, n) /\ k \in Kinds
  BY FilesArePreorders DEF IsFile, Kind
<1>2. file.kind[p] \in {"func", "exempt"} /\ p # 0
  BY DEF Kind, FuncKinds
<1>3. k = "block" /\ elder = {}
  <2>1. k \in FuncKinds => FALSE
    BY <1>1, <1>2 DEF Fits, FuncKinds
  <2>2. k = "var" => FALSE
    BY <1>1, <1>2, <2>1 DEF Fits, FuncKinds
  <2>3. k = "if" => FALSE
    BY <1>1, <1>2, <2>1 DEF Fits, FuncKinds
  <2>4. k = "return" => FALSE
    BY <1>1, <1>2, <2>1 DEF Fits, FuncKinds
  <2>5. k \in ExprKinds => FALSE
    BY <1>1, <1>2 DEF Fits, FuncKinds, ExprKinds, CallKinds, Testify, ErrorAssertions
  <2>6. k = "block" => elder = {}
    BY <1>1, <1>2 DEF Fits, FuncKinds
  <2> QED
    BY <1>1, <2>1, <2>2, <2>3, <2>4, <2>5, <2>6 DEF Kinds
<1> QED
  BY <1>3 DEF Kind, Kids

(* So a call in a function is in a block of that function. *)
LEMMA BlockInFunc ==
  ASSUME file \in Files, NEW n \in Nodes(file), Kind(n) \in CallKinds, FuncOf(n) # 0
  PROVE  ParentBlock(n) # 0 /\ FuncOf(n) < ParentBlock(n)
<1> DEFINE f == FuncOf(n)
           b == f + 1
<1>1. /\ IsPreorder(file) /\ f \in Nodes(file) /\ f \in Nat /\ n \in Nat /\ Kind(f) \in FuncKinds
      /\ Encloses(file, f, n) /\ n <= Len(file.kind) /\ f < n /\ Len(file.kind) \in Nat
  BY FilesArePreorders, FuncIsInnermost DEF Encloses
<1>2. \A k \in Nodes(file) : file.up[k] \in Nat /\ file.up[k] < k /\ k \in Nat
  BY <1>1, NodesAreNumbers
<1> HIDE DEF f
<1>3. \A k \in f + 1 .. n : k \in Nodes(file) /\ file.up[k] >= f
  BY <1>1 DEF Encloses, Nodes
<1>4. b \in Nodes(file) /\ file.up[b] = f /\ f # 0
  <2>1. b \in f + 1 .. n
    BY <1>1
  <2> QED
    BY <1>1, <1>2, <1>3, <2>1 DEF Nodes
<1>5. Kind(b) = "block" /\ b # n
  <2>1. Kind(b) = "block"
    BY <1>1, <1>4, ChildOfFuncIsBody
  <2> QED
    BY <2>1 DEF CallKinds, Testify, ErrorAssertions
<1>6. Encloses(file, b, n)
  <2>1. b < n
    BY <1>1, <1>5
  <2>2. ASSUME NEW k \in b + 1 .. n PROVE file.up[k] >= b
    <3>1. k \in f + 1 .. n /\ b < k /\ k \in Nat
      BY <1>1
    <3>2. k \in Nodes(file) /\ file.up[k] >= f /\ file.up[k] \in Nat
      BY <1>2, <1>3, <3>1
    <3>3. file.up[k] # f
      BY <1>1, <1>4, <3>1, <3>2, ChildOfFuncIsBody
    <3> QED
      BY <1>1, <3>2, <3>3
  <2> QED
    BY <2>1, <2>2 DEF Encloses
<1>7. ParentBlock(n) # 0 /\ b <= ParentBlock(n)
  BY <1>4, <1>5, <1>6, BlockIsInnermost
<1>8. ParentBlock(n) \in Nat
  BY <1>7, BlockIsInnermost, FilesArePreorders
<1> QED
  BY <1>1, <1>7, <1>8 DEF f

LEMMA SameBlockSameFunc ==
  ASSUME file \in Files, NEW n \in Calls, NEW m \in Calls, ParentBlock(n) = ParentBlock(m)
  PROVE  FuncOf(n) = FuncOf(m)
<1> DEFINE b == ParentBlock(n)
           f == FuncOf(n)
           g == FuncOf(m)
<1>1. IsPreorder(file) /\ n \in Nodes(file) /\ m \in Nodes(file) /\ f # 0 /\ g # 0
  BY FilesArePreorders DEF Calls
<1>2. /\ b # 0 /\ b \in Nodes(file) /\ f < b /\ g < b
      /\ Encloses(file, b, n) /\ Encloses(file, b, m)
  BY <1>1, BlockInFunc, BlockIsInnermost DEF Calls
<1>3. /\ f \in Nodes(file) /\ Kind(f) \in FuncKinds /\ Encloses(file, f, n)
      /\ g \in Nodes(file) /\ Kind(g) \in FuncKinds /\ Encloses(file, g, m)
  BY <1>1, FuncIsInnermost
<1>4. b \in Nat /\ n \in Nat /\ m \in Nat /\ f \in Nat /\ g \in Nat /\ b <= n /\ b <= m
  BY <1>1, <1>2, <1>3, NodesAreNumbers, EnclosesOrder
<1>5. Encloses(file, f, b) /\ Encloses(file, g, b)
  BY <1>1, <1>2, <1>3, <1>4, EnclosesPrefix
<1>6. Encloses(file, f, m) /\ Encloses(file, g, n)
  BY <1>1, <1>2, <1>3, <1>5, EnclosesTransitive
<1>7. f <= g /\ g <= f
  BY <1>1, <1>3, <1>6, FuncIsInnermost
<1> QED
  BY <1>4, <1>7
-----------------------------------------------------------------------------
(* Lists. *)
LEMMA ListEmpty == IsList(<<>>, {})
BY DEF IsList

LEMMA ListMembers ==
  ASSUME NEW s, NEW S, IsList(s, S)
  PROVE  /\ Len(s) \in Nat /\ S \subseteq Nat
         /\ \A i \in 1 .. Len(s) : s[i] \in S
         /\ \A n \in S : \E i \in 1 .. Len(s) : s[i] = n
         /\ \A i, j \in 1 .. Len(s) : s[i] < s[j] <=> i < j
<1>1. /\ Len(s) \in Nat /\ \A i \in 1 .. Len(s) : s[i] \in Nat
      /\ S = { s[i] : i \in 1 .. Len(s) }
      /\ \A i, j \in 1 .. Len(s) : i < j => s[i] < s[j]
  BY DEF IsList
<1>2. ASSUME NEW i \in 1 .. Len(s), NEW j \in 1 .. Len(s)
      PROVE  s[i] < s[j] <=> i < j
  <2>1. i < j \/ i = j \/ j < i
    BY <1>1
  <2> QED
    BY <1>1, <2>1
<1> QED
  BY <1>1, <1>2

LEMMA ListAppend ==
  ASSUME NEW s, NEW S, IsList(s, S), NEW c \in Nat, \A n \in S : n < c
  PROVE  IsList(Append(s, c), S \cup {c})
<1> DEFINE t == Append(s, c)
           k == Len(s)
<1>1. s \in Seq(Nat) /\ k \in Nat
  BY DEF IsList
<1>2. t \in Seq(Nat) /\ Len(t) = k + 1 /\ t[k + 1] = c /\ \A i \in 1 .. k : t[i] = s[i]
  BY <1>1
<1>3. /\ \A i \in 1 .. k : s[i] \in S /\ s[i] \in Nat
      /\ \A n \in S : \E i \in 1 .. k : s[i] = n
      /\ \A i, j \in 1 .. k : i < j => s[i] < s[j]
  BY ListMembers
<1> HIDE DEF t, k
<1>4. \A i, j \in 1 .. Len(t) : i < j => t[i] < t[j]
  <2> SUFFICES ASSUME NEW i \in 1 .. k + 1, NEW j \in 1 .. k + 1, i < j PROVE t[i] < t[j]
    BY <1>2
  <2>1. i \in 1 .. k
    BY <1>1
  <2>2. CASE j \in 1 .. k
    BY <1>2, <1>3, <2>1, <2>2
  <2>3. CASE j = k + 1
    BY <1>2, <1>3, <2>1, <2>3
  <2> QED
    BY <1>1, <2>2, <2>3
<1>5. S \cup {c} = { t[i] : i \in 1 .. Len(t) }
  <2>1. ASSUME NEW n \in S PROVE \E i \in 1 .. Len(t) : t[i] = n
    <3>1. PICK i \in 1 .. k : s[i] = n
      BY <1>3
    <3> QED
      BY <1>1, <1>2, <3>1
  <2>2. \E i \in 1 .. Len(t) : t[i] = c
    BY <1>1, <1>2
  <2>3. ASSUME NEW i \in 1 .. Len(t) PROVE t[i] \in S \cup {c}
    <3>1. i \in 1 .. k \/ i = k + 1
      BY <1>1, <1>2
    <3> QED
      BY <1>2, <1>3, <3>1
  <2> QED
    BY <2>1, <2>2, <2>3
<1> QED
  BY <1>2, <1>4, <1>5 DEF IsList, t

(* The last element is the greatest one. *)
LEMMA ListLast ==
  ASSUME NEW s, NEW S, IsList(s, S), NEW c \in S
  PROVE  s[Len(s)] = c <=> \A n \in S : n <= c
<1> DEFINE k == Len(s)
<1>1. /\ k \in Nat /\ S \subseteq Nat
      /\ \A i \in 1 .. k : s[i] \in S
      /\ \A n \in S : \E i \in 1 .. k : s[i] = n
      /\ \A i, j \in 1 .. k : s[i] < s[j] <=> i < j
  BY ListMembers
<1> HIDE DEF k
<1>2. PICK i \in 1 .. k : s[i] = c
  BY <1>1
<1>3. k \in 1 .. k /\ s[k] \in S
  BY <1>1
<1>4. ASSUME s[k] = c, NEW n \in S PROVE n <= c
  <2>1. PICK j \in 1 .. k : s[j] = n
    BY <1>1
  <2>2. ~ (s[k] < s[j])
    BY <1>1, <1>3
  <2> QED
    BY <1>1, <1>4, <2>1, <2>2
<1>5. ASSUME \A n \in S : n <= c PROVE s[k] = c
  <2>1. s[k] \in Nat /\ c \in Nat /\ s[k] <= c
    BY <1>1, <1>3, <1>5
  <2>2. ~ (s[k] < s[i])
    BY <1>1, <1>3
  <2> QED
    BY <1>2, <2>1, <2>2
<1> QED
  BY <1>4, <1>5 DEF k

(* Neighbours in the list have nothing between them. *)
LEMMA ListNeighbours ==
  ASSUME NEW s, NEW S, IsList(s, S), NEW i \in 1 .. Len(s), NEW m
  PROVE  /\ i + 1 \in 1 .. Len(s) /\ s[i + 1] = m
              <=> m \in S /\ s[i] < m /\ ~ \E k \in S : k \in s[i] + 1 .. m - 1
         /\ i - 1 \in 1 .. Len(s) /\ s[i - 1] = m
              <=> m \in S /\ m < s[i] /\ ~ \E k \in S : k \in m + 1 .. s[i] - 1
<1> DEFINE l == Len(s)
<1>1. /\ l \in Nat /\ S \subseteq Nat
      /\ \A h \in 1 .. l : s[h] \in S
      /\ \A n \in S : \E h \in 1 .. l : s[h] = n
      /\ \A h, j \in 1 .. l : s[h] < s[j] <=> h < j
  BY ListMembers
<1>2. i \in 1 .. l
  OBVIOUS
<1> HIDE DEF l
<1>3. ASSUME i + 1 \in 1 .. l, s[i + 1] = m
      PROVE  m \in S /\ s[i] < m /\ ~ \E k \in S : k \in s[i] + 1 .. m - 1
  <2>1. m \in S /\ s[i] < m
    BY <1>1, <1>2, <1>3
  <2>2. ASSUME NEW k \in S, k \in s[i] + 1 .. m - 1 PROVE FALSE
    <3>1. PICK h \in 1 .. l : s[h] = k
      BY <1>1
    <3>0. s[i] \in Nat /\ m \in Nat /\ k \in Nat
      BY <1>1, <1>2, <2>1
    <3>2. s[i] < s[h] /\ s[h] < s[i + 1]
      BY <1>3, <2>1, <2>2, <3>0, <3>1
    <3> QED
      BY <1>1, <1>2, <1>3, <3>2
  <2> QED
    BY <2>1, <2>2
<1>4. ASSUME m \in S, s[i] < m, ~ \E k \in S : k \in s[i] + 1 .. m - 1
      PROVE  i + 1 \in 1 .. l /\ s[i + 1] = m
  <2>1. PICK h \in 1 .. l : s[h] = m
    BY <1>1, <1>4
  <2>2. i < h
    BY <1>1, <1>2, <1>4, <2>1
  <2>3. i + 1 \in 1 .. l
    BY <1>1, <1>2, <2>2
  <2>4. s[i] < s[i + 1] /\ s[i + 1] \in S /\ s[i] \in S
    BY <1>1, <1>2, <2>3
  <2>5. ~ (s[i + 1] < s[h])
    <3>1. s[i] \in Nat /\ s[i + 1] \in Nat /\ m \in Nat
      BY <1>1, <1>4, <2>4
    <3>2. s[i + 1] < m => s[i + 1] \in s[i] + 1 .. m - 1
      BY <2>4, <3>1
    <3> QED
      BY <1>4, <2>1, <2>4, <3>2
  <2>6. h = i + 1
    BY <1>1, <2>2, <2>3, <2>5
  <2> QED
    BY <2>1, <2>3, <2>6
<1>5. ASSUME i - 1 \in 1 .. l, s[i - 1] = m
      PROVE  m \in S /\ m < s[i] /\ ~ \E k \in S : k \in m + 1 .. s[i] - 1
  <2>1. m \in S /\ m < s[i]
    BY <1>1, <1>2, <1>5
  <2>2. ASSUME NEW k \in S, k \in m + 1 .. s[i] - 1 PROVE FALSE
    <3>1. PICK h \in 1 .. l : s[h] = k
      BY <1>1
    <3>0. s[i] \in Nat /\ m \in Nat /\ k \in Nat
      BY <1>1, <1>2, <2>1
    <3>2. s[h] < s[i] /\ s[i - 1] < s[h]
      BY <1>5, <2>1, <2>2, <3>0, <3>1
    <3> QED
      BY <1>1, <1>2, <1>5, <3>2
  <2> QED
    BY <2>1, <2>2
<1>6. ASSUME m \in S, m < s[i], ~ \E k \in S : k \in m + 1 .. s[i] - 1
      PROVE  i - 1 \in 1 .. l /\ s[i - 1] = m
  <2>1. PICK h \in 1 .. l : s[h] = m
    BY <1>1, <1>6
  <2>2. h < i
    BY <1>1, <1>2, <1>6, <2>1
  <2>3. i - 1 \in 1 .. l
    BY <1>1, <1>2, <2>2
  <2>4. s[i - 1] < s[i] /\ s[i - 1] \in S /\ s[i] \in S
    BY <1>1, <1>2, <2>3
  <2>5. ~ (s[h] < s[i - 1])
    <3>1. s[i] \in Nat /\ s[i - 1] \in Nat /\ m \in Nat
      BY <1>1, <1>6, <2>4
    <3>2. m < s[i - 1] => s[i - 1] \in m + 1 .. s[i] - 1
      BY <2>4, <3>1
    <3> QED
      BY <1>6, <2>1, <2>4, <3>2
  <2>6. h = i - 1
    BY <1>1, <2>2, <2>3, <2>5
  <2> QED
    BY <2>1, <2>3, <2>6
<1> QED
  BY <1>3, <1>4, <1>5, <1>6 DEF l
-----------------------------------------------------------------------------
(* The maps. *)
LEMMA ExtendFuncs ==
  ASSUME NEW m, NEW S, FuncsList(m, S), NEW c \in Nat,
         \A n \in S : FuncOf(n) = FuncOf(c) => n < c
  PROVE  FuncsList(Extend(m, FuncOf(c), c), S \cup {c})
<1> DEFINE k == FuncOf(c)
           e == Extend(m, k, c)
           Under(T, x) == { n \in T : FuncOf(n) = x }
<1>1. /\ DOMAIN m = { FuncOf(n) : n \in S }
      /\ \A x \in DOMAIN m : IsList(m[x], Under(S, x))
  BY DEF FuncsList
<1>2. /\ DOMAIN e = DOMAIN m \cup {k}
      /\ \A x \in DOMAIN m : x # k => e[x] = m[x]
      /\ e[k] = Append(IF k \in DOMAIN m THEN m[k] ELSE <<>>, c)
  <2> HIDE DEF k
  <2> QED
    BY DEF Extend
<1>3. IsList(e[k], Under(S \cup {c}, k))
  <2> DEFINE l == IF k \in DOMAIN m THEN m[k] ELSE <<>>
  <2>1. IsList(l, Under(S, k))
    <3>1. CASE k \in DOMAIN m
      BY <1>1, <3>1
    <3>2. CASE k \notin DOMAIN m
      <4>1. Under(S, k) = {}
        BY <1>1, <3>2
      <4> QED
        BY <3>2, <4>1, ListEmpty
    <3> QED
      BY <3>1, <3>2
  <2>2. \A n \in Under(S, k) : n < c
    OBVIOUS
  <2>3. Under(S \cup {c}, k) = Under(S, k) \cup {c}
    OBVIOUS
  <2>4. e[k] = Append(l, c)
    BY <1>2
  <2> HIDE DEF k, e, l, Under
  <2>5. IsList(Append(l, c), Under(S, k) \cup {c})
    BY <2>1, <2>2, ListAppend
  <2> QED
    BY <2>3, <2>4, <2>5
<1>4. ASSUME NEW x \in DOMAIN m, x # k PROVE IsList(e[x], Under(S \cup {c}, x))
  <2>1. Under(S \cup {c}, x) = Under(S, x)
    BY <1>4
  <2> HIDE DEF k, e, Under
  <2> QED
    BY <1>1, <1>2, <1>4, <2>1
<1>5. DOMAIN e = { FuncOf(n) : n \in S \cup {c} }
  BY <1>1, <1>2
<1> HIDE DEF k, e
<1> QED
  BY <1>2, <1>3, <1>4, <1>5 DEF FuncsList, k, e

LEMMA ExtendBlocks ==
  ASSUME NEW m, NEW S, BlocksList(m, S), NEW c \in Nat,
         \A n \in S : ParentBlock(n) = ParentBlock(c) => n < c
  PROVE  BlocksList(Extend(m, ParentBlock(c), c), S \cup {c})
<1> DEFINE k == ParentBlock(c)
           e == Extend(m, k, c)
           Under(T, x) == { n \in T : ParentBlock(n) = x }
<1>1. /\ DOMAIN m = { ParentBlock(n) : n \in S }
      /\ \A x \in DOMAIN m : IsList(m[x], Under(S, x))
  BY DEF BlocksList
<1>2. /\ DOMAIN e = DOMAIN m \cup {k}
      /\ \A x \in DOMAIN m : x # k => e[x] = m[x]
      /\ e[k] = Append(IF k \in DOMAIN m THEN m[k] ELSE <<>>, c)
  <2> HIDE DEF k
  <2> QED
    BY DEF Extend
<1>3. IsList(e[k], Under(S \cup {c}, k))
  <2> DEFINE l == IF k \in DOMAIN m THEN m[k] ELSE <<>>
  <2>1. IsList(l, Under(S, k))
    <3>1. CASE k \in DOMAIN m
      BY <1>1, <3>1
    <3>2. CASE k \notin DOMAIN m
      <4>1. Under(S, k) = {}
        BY <1>1, <3>2
      <4> QED
        BY <3>2, <4>1, ListEmpty
    <3> QED
      BY <3>1, <3>2
  <2>2. \A n \in Under(S, k) : n < c
    OBVIOUS
  <2>3. Under(S \cup {c}, k) = Under(S, k) \cup {c}
    OBVIOUS
  <2>4. e[k] = Append(l, c)
    BY <1>2
  <2> HIDE DEF k, e, l, Under
  <2>5. IsList(Append(l, c), Under(S, k) \cup {c})
    BY <2>1, <2>2, ListAppend
  <2> QED
    BY <2>3, <2>4, <2>5
<1>4. ASSUME NEW x \in DOMAIN m, x # k PROVE IsList(e[x], Under(S \cup {c}, x))
  <2>1. Under(S \cup {c}, x) = Under(S, x)
    BY <1>4
  <2> HIDE DEF k, e, Under
  <2> QED
    BY <1>1, <1>2, <1>4, <2>1
<1>5. DOMAIN e = { ParentBlock(n) : n \in S \cup {c} }
  BY <1>1, <1>2
<1> HIDE DEF k, e
<1> QED
  BY <1>2, <1>3, <1>4, <1>5 DEF BlocksList, k, e

(* Operators of the tree keep their values while the package is the same. *)
LEMMA SamePackage ==
  ASSUME file' = file
  PROVE  /\ Nodes(file)' = Nodes(file)
         /\ \A n : Kind(n)' = Kind(n)
         /\ \A n : FuncOf(n)' = FuncOf(n)
         /\ \A n : ParentIf(n)' = ParentIf(n)
         /\ \A n : ParentBlock(n)' = ParentBlock(n)
         /\ \A n : RootIf(n)' = RootIf(n)
         /\ \A n : InIfCond(n)' <=> InIfCond(n)
         /\ \A n : InBoolExpr(n)' <=> InBoolExpr(n)
         /\ \A i, n : InElse(i, n)' <=> InElse(i, n)
         /\ \A b : EndsWithReturn(b)' <=> EndsWithReturn(b)
<1>1. Nodes(file)' = Nodes(file) /\ \A n : Kind(n)' = Kind(n)
  BY DEF Kind
<1>2. /\ \A n : FuncOf(n)' = FuncOf(n)
      /\ \A n : ParentIf(n)' = ParentIf(n)
      /\ \A n : ParentBlock(n)' = ParentBlock(n)
  BY DEF FuncOf, ParentIf, ParentBlock
<1>3. \A n : RootIf(n)' = RootIf(n)
  BY <1>2 DEF RootIf, Kind
<1>4. /\ \A n : InIfCond(n)' <=> InIfCond(n)
      /\ \A n : InBoolExpr(n)' <=> InBoolExpr(n)
  BY DEF InIfCond, InBoolExpr, Kind
<1>5. \A i, n : InElse(i, n)' <=> InElse(i, n)
  BY DEF InElse, Branches, Kind
<1>6. \A b : EndsWithReturn(b)' <=> EndsWithReturn(b)
  BY DEF EndsWithReturn, Kind
<1> QED
  BY <1>1, <1>2, <1>3, <1>4, <1>5, <1>6

LEMMA SameRules ==
  ASSUME file' = file, fnPattern' = fnPattern
  PROVE  /\ Calls' = Calls /\ Candidates' = Candidates /\ InNoErrorSequence' = InNoErrorSequence
         /\ \A n : Excused(n)' <=> Excused(n)
<1>1. Calls' = Calls
  BY SamePackage DEF Calls
<1>2. \A n : SameFunc(n)' = SameFunc(n) /\ SameBlock(n)' = SameBlock(n)
  BY <1>1, SamePackage DEF SameFunc, SameBlock
<1>3. Candidates' = Candidates
  BY <1>1, SamePackage DEF Candidates, Kind
<1>4. \A n : NextToOther(n)' <=> NextToOther(n)
  BY <1>2, SamePackage DEF NextToOther
<1>5. InNoErrorSequence' = InNoErrorSequence
  BY <1>1, <1>4, SamePackage DEF InNoErrorSequence
<1>6. \A n : NextToNoError(n)' <=> NextToNoError(n)
  BY <1>2, SamePackage DEF NextToNoError
<1>7. \A n : CallInSomeCondition(n)' <=> CallInSomeCondition(n)
  BY <1>2, SamePackage DEF CallInSomeCondition
<1>8. \A n : IsLast(n)' <=> IsLast(n)
  BY <1>2, SamePackage DEF IsLast
<1> QED
  BY <1>1, <1>3, <1>5, <1>6, <1>7, <1>8, SamePackage DEF Excused

LEMMA SameLists ==
  ASSUME file' = file
  PROVE  \A m, S : (FuncsList(m, S)' <=> FuncsList(m, S)) /\ (BlocksList(m, S)' <=> BlocksList(m, S))
BY SamePackage DEF FuncsList, BlocksList

LEMMA SameReports ==
  ASSUME file' = file, fnPattern' = fnPattern, diagnostics' = diagnostics
  PROVE  \A S : ReportsOf(S)' <=> ReportsOf(S)
BY SamePackage, SameRules DEF ReportsOf, Reported
-----------------------------------------------------------------------------
(* The invariant holds at first and every step keeps it. *)
LEMMA InitIInv == Init => IInv
<1> SUFFICES ASSUME Init PROVE IInv
  OBVIOUS
<1>1. /\ file \in Files /\ phase = "collect" /\ at = 1 /\ unvisited = {} /\ current = 0 /\ index = 1
      /\ inNoErrorSeq = {} /\ diagnostics = <<>>
      /\ DOMAIN callsByFunc = {} /\ DOMAIN callsByBlock = {}
  BY DEF Init
<1>2. Len(file.kind) \in Nat /\ \A n \in Nodes(file) : n \in Nat /\ 1 <= n
  BY <1>1, FilesArePreorders
<1>3. Collecting
  <2>1. \A m \in Nodes(file) : ~ Encloses(file, m, at)
    BY <1>1, <1>2 DEF Encloses
  <2>2. { n \in Calls : n < at } = {}
    BY <1>1, <1>2 DEF Calls
  <2>3. FuncsList(callsByFunc, {})
    BY <1>1 DEF FuncsList
  <2>4. FuncsList(callsByFunc, { n \in Calls : n < at })
    BY <2>2, <2>3
  <2>5. at \in 1 .. Len(file.kind) + 1
    BY <1>1, <1>2
  <2> QED
    BY <1>1, <2>1, <2>4, <2>5 DEF Collecting
<1>4. Ranging
  <2>1. Ranged = <<>> /\ Len(Ranged) = 0
    BY <1>1 DEF Ranged
  <2> QED
    BY <1>1, <2>1 DEF Ranging, AllRanged
<1>5. Grouping
  BY <1>1 DEF Grouping, BlocksList
<1>6. Marking
  BY <1>1 DEF Marking
<1>7. Judging
  <2>1. Reported = {} /\ diagnostics \in Seq(Nat) /\ Len(diagnostics) = 0
    BY <1>1 DEF Reported
  <2> QED
    BY <1>1, <2>1 DEF Judging, ReportsOf
<1> QED
  BY <1>1, <1>3, <1>4, <1>5, <1>6, <1>7 DEF IInv

(* The calls that the walk passes: the one it collects. *)
LEMMA CollectedCall ==
  ASSUME IInv, CollectCall
  PROVE  /\ at \in Calls /\ at' \in 1 .. Len(file.kind) + 1
         /\ { n \in Calls : n < at' } = { n \in Calls : n < at } \cup {at}
         /\ at' \in Nodes(file) =>
              \A m \in Nodes(file) : Kind(m) \in Testify /\ FuncOf(m) # 0 => ~ Encloses(file, m, at')
<1>1. /\ file \in Files /\ phase = "collect" /\ at \in Nodes(file)
      /\ Kind(at) \in CallKinds /\ FuncOf(at) # 0
      /\ at' = IF Kind(at) \in Testify THEN After(file, at) ELSE at + 1
      /\ \A m \in Nodes(file) : Kind(m) \in Testify /\ FuncOf(m) # 0 => ~ Encloses(file, m, at)
  BY DEF IInv, Collecting, CollectCall
<1>2. /\ IsPreorder(file) /\ Len(file.kind) \in Nat /\ at \in Nat /\ 1 <= at /\ at <= Len(file.kind)
      /\ \A n \in Nodes(file) : n \in Nat
      /\ After(file, at) \in at + 1 .. Len(file.kind) + 1
      /\ \A k \in Nodes(file) : Encloses(file, at, k) <=> at < k /\ k < After(file, at)
  BY <1>1, FilesArePreorders, AfterEnds
<1>3. at \in Calls
  BY <1>1 DEF Calls
<1>4. at' \in at + 1 .. Len(file.kind) + 1
  BY <1>1, <1>2
<1>5. ASSUME NEW n \in Calls, at < n PROVE ~ (n < at')
  <2>1. n \in Nodes(file) /\ n \in Nat
    BY <1>2 DEF Calls
  <2>2. CASE Kind(at) \in Testify
    <3>1. ~ Encloses(file, at, n)
      BY <1>1, <2>2 DEF Calls
    <3> QED
      BY <1>1, <1>2, <1>5, <2>1, <2>2, <3>1
  <2>3. CASE Kind(at) \notin Testify
    BY <1>1, <1>2, <1>5, <2>1, <2>3
  <2> QED
    BY <2>2, <2>3
<1>6. { n \in Calls : n < at' } = { n \in Calls : n < at } \cup {at}
  <2>1. \A n \in Calls : n \in Nat
    BY <1>2 DEF Calls
  <2>2. at' \in Nat /\ at < at'
    BY <1>2, <1>4
  <2>3. \A n \in Calls : n < at' <=> n < at \/ n = at
    BY <1>2, <1>5, <2>1, <2>2
  <2> QED
    BY <1>3, <2>3
<1>7. ASSUME at' \in Nodes(file), NEW m \in Nodes(file), Kind(m) \in Testify, FuncOf(m) # 0,
             Encloses(file, m, at')
      PROVE  FALSE
  <2>1. CASE Kind(at) \in Testify
    BY <1>1, <1>2, <1>7, <2>1, AroundAfter
  <2>2. CASE Kind(at) \notin Testify
    <3>1. m = at \/ Encloses(file, m, at)
      BY <1>1, <1>2, <1>7, <2>2, AroundNext
    <3> QED
      BY <1>1, <1>7, <2>2, <3>1
  <2> QED
    BY <2>1, <2>2
<1> QED
  BY <1>2, <1>3, <1>4, <1>6, <1>7

(* Or none, at a node that is no call of a function. *)
LEMMA PassedNode ==
  ASSUME IInv, PassNode
  PROVE  /\ at' \in 1 .. Len(file.kind) + 1
         /\ { n \in Calls : n < at' } = { n \in Calls : n < at }
         /\ at' \in Nodes(file) =>
              \A m \in Nodes(file) : Kind(m) \in Testify /\ FuncOf(m) # 0 => ~ Encloses(file, m, at')
<1>1. /\ file \in Files /\ phase = "collect" /\ at \in Nodes(file) /\ at' = at + 1
      /\ Kind(at) \notin CallKinds \/ FuncOf(at) = 0
      /\ \A m \in Nodes(file) : Kind(m) \in Testify /\ FuncOf(m) # 0 => ~ Encloses(file, m, at)
  BY DEF IInv, Collecting, PassNode
<1>2. /\ IsPreorder(file) /\ Len(file.kind) \in Nat /\ at \in Nat /\ 1 <= at /\ at <= Len(file.kind)
      /\ \A n \in Nodes(file) : n \in Nat
  BY <1>1, FilesArePreorders
<1>3. at \notin Calls /\ \A n \in Calls : n \in Nat
  BY <1>1, <1>2 DEF Calls
<1>4. { n \in Calls : n < at' } = { n \in Calls : n < at }
  BY <1>1, <1>2, <1>3
<1>5. ASSUME at' \in Nodes(file), NEW m \in Nodes(file), Kind(m) \in Testify, FuncOf(m) # 0,
             Encloses(file, m, at')
      PROVE  FALSE
  <2>1. m = at \/ Encloses(file, m, at)
    BY <1>1, <1>2, <1>5, AroundNext
  <2>2. Kind(m) \in CallKinds
    BY <1>5 DEF CallKinds
  <2> QED
    BY <1>1, <1>5, <2>1, <2>2
<1> QED
  BY <1>1, <1>2, <1>4, <1>5

LEMMA CollectStep ==
  ASSUME IInv, CollectCall \/ PassNode
  PROVE  IInv'
<1>1. /\ file \in Files /\ phase = "collect" /\ phase' = "collect" /\ current = 0 /\ unvisited = {}
      /\ file' = file /\ fnPattern' = fnPattern /\ callsByBlock' = callsByBlock
      /\ unvisited' = unvisited /\ current' = current /\ index' = index
      /\ inNoErrorSeq' = inNoErrorSeq /\ diagnostics' = diagnostics
      /\ at \in Nodes(file) /\ at \in Nat
  BY FilesArePreorders DEF IInv, Ranging, CollectCall, PassNode
<1>2. Collecting'
  <2>1. /\ at' \in 1 .. Len(file.kind) + 1
        /\ at' \in Nodes(file) =>
             \A m \in Nodes(file) : Kind(m) \in Testify /\ FuncOf(m) # 0 => ~ Encloses(file, m, at')
    BY CollectedCall, PassedNode
  <2>2. FuncsList(callsByFunc', { n \in Calls : n < at' })
    <3>1. FuncsList(callsByFunc, { n \in Calls : n < at })
      BY DEF IInv, Collecting
    <3>2. CASE CollectCall
      <4> DEFINE S == { n \in Calls : n < at }
      <4>1. { n \in Calls : n < at' } = S \cup {at}
        BY <3>2, CollectedCall
      <4>2. callsByFunc' = Extend(callsByFunc, FuncOf(at), at)
        BY <3>2 DEF CollectCall
      <4>3. \A n \in S : n < at
        OBVIOUS
      <4> HIDE DEF S
      <4>4. FuncsList(Extend(callsByFunc, FuncOf(at), at), S \cup {at})
        BY <1>1, <3>1, <4>3, ExtendFuncs DEF S
      <4> QED
        BY <4>1, <4>2, <4>4
    <3>3. CASE PassNode
      <4>1. callsByFunc' = callsByFunc
        BY <3>3 DEF PassNode
      <4> QED
        BY <3>1, <3>3, <4>1, PassedNode
    <3> QED
      BY <3>2, <3>3
  <2>3. FuncsList(callsByFunc, { n \in Calls : n < at })'
    BY <1>1, <2>2, SameRules, SameLists
  <2> QED
    BY <1>1, <2>1, <2>3, SamePackage DEF Collecting
<1>3. Ranging'
  <2>1. Ranged = <<>> /\ Ranged' = <<>> /\ Len(Ranged) = 0 /\ Len(Ranged') = 0
    BY <1>1 DEF Ranged
  <2> QED
    BY <1>1, <2>1 DEF IInv, Ranging, AllRanged
<1>4. Grouping'
  BY <1>1, SameLists DEF IInv, Grouping
<1>5. Marking'
  BY <1>1 DEF IInv, Marking
<1>6. Judging'
  BY <1>1, SameReports DEF IInv, Judging
<1> QED
  BY <1>1, <1>2, <1>3, <1>4, <1>5, <1>6 DEF IInv

(* After the walk all calls are filed under their functions. *)
LEMMA CallsAreFiled ==
  ASSUME IInv, at \notin Nodes(file)
  PROVE  /\ at = Len(file.kind) + 1 /\ file \in Files
         /\ FuncsList(callsByFunc, Calls) /\ DOMAIN callsByFunc = { FuncOf(n) : n \in Calls }
         /\ \A n \in Calls : n \in Nat /\ n \in Nodes(file) /\ FuncOf(n) # 0 /\ Kind(n) \in CallKinds
<1>1. file \in Files /\ at \in 1 .. Len(file.kind) + 1
  BY DEF IInv, Collecting
<1>2. /\ Len(file.kind) \in Nat /\ \A n \in Nodes(file) : n \in Nat /\ n <= Len(file.kind)
      /\ at \notin 1 .. Len(file.kind)
  BY <1>1, FilesArePreorders
<1>3. at = Len(file.kind) + 1
  BY <1>1, <1>2
<1>4. \A n \in Calls : n \in Nat /\ n \in Nodes(file) /\ FuncOf(n) # 0 /\ Kind(n) \in CallKinds
  BY <1>2 DEF Calls
<1>5. { n \in Calls : n < at } = Calls
  BY <1>2, <1>3, <1>4
<1>6. FuncsList(callsByFunc, { n \in Calls : n < at })
  BY DEF IInv, Collecting
<1>7. FuncsList(callsByFunc, Calls)
  BY <1>5, <1>6
<1> QED
  BY <1>1, <1>3, <1>4, <1>7 DEF FuncsList

LEMMA WalkIsOver ==
  ASSUME IInv, phase # "collect"
  PROVE  at \notin Nodes(file)
<1>1. file \in Files /\ at = Len(file.kind) + 1
  BY DEF IInv, Collecting
<1>2. Len(file.kind) \in Nat /\ \A n \in Nodes(file) : n <= Len(file.kind)
  BY <1>1, FilesArePreorders
<1> QED
  BY <1>1, <1>2

LEMMA StaysCollected ==
  ASSUME IInv, at \notin Nodes(file), phase' # "collect",
         file' = file, at' = at, callsByFunc' = callsByFunc, fnPattern' = fnPattern
  PROVE  Collecting'
<1>1. /\ at = Len(file.kind) + 1 /\ at \in 1 .. Len(file.kind) + 1
      /\ FuncsList(callsByFunc, { n \in Calls : n < at })
  BY CallsAreFiled DEF IInv, Collecting
<1>2. FuncsList(callsByFunc, { n \in Calls : n < at })'
  BY <1>1, SameRules, SameLists
<1> QED
  BY <1>1, <1>2 DEF Collecting

(* The calls that are ranged over are those of one function. *)
LEMMA RangedIsList ==
  ASSUME IInv, phase # "collect", current # 0
  PROVE  Ranged = callsByFunc[current] /\ IsList(Ranged, { n \in Calls : FuncOf(n) = current })
<1>1. FuncsList(callsByFunc, Calls) /\ current \in DOMAIN callsByFunc
  BY WalkIsOver, CallsAreFiled DEF IInv, Ranging
<1> QED
  BY <1>1 DEF FuncsList, Ranged

(* When a function's calls come to an end only the keys count. *)
LEMMA SeenByKeys ==
  ASSUME IInv, phase \in {"group", "judge"}, AllRanged
  PROVE  Seen = { n \in Calls : FuncOf(n) \notin unvisited }
<1>1. \A n \in Calls : FuncOf(n) # 0
  BY WalkIsOver, CallsAreFiled
<1>2. ASSUME NEW n \in Calls, FuncOf(n) = current
      PROVE  \E j \in 1 .. index - 1 : Ranged[j] = n
  <2>1. IsList(Ranged, { m \in Calls : FuncOf(m) = current })
    BY <1>1, <1>2, RangedIsList
  <2>2. Len(Ranged) \in Nat /\ \E j \in 1 .. Len(Ranged) : Ranged[j] = n
    BY <1>2, <2>1, ListMembers
  <2>3. index \in 1 .. Len(Ranged) + 1 /\ index > Len(Ranged)
    BY DEF IInv, Ranging, AllRanged
  <2> QED
    BY <2>2, <2>3
<1> QED
  BY <1>2 DEF Seen

(* So at its end a range over the map has produced every call. *)
LEMMA SeenAtEnd ==
  ASSUME IInv, phase \in {"group", "judge"}, unvisited = {}, AllRanged
  PROVE  Seen = Calls
BY SeenByKeys

LEMMA StageStep ==
  ASSUME IInv, EndOfWalk \/ EndOfGrouping \/ EndOfMarking \/ EndOfJudging
  PROVE  IInv'
<1>1. /\ file' = file /\ fnPattern' = fnPattern /\ at' = at /\ callsByFunc' = callsByFunc
      /\ callsByBlock' = callsByBlock /\ current' = current /\ index' = index
      /\ inNoErrorSeq' = inNoErrorSeq /\ diagnostics' = diagnostics
      /\ unvisited = {} /\ AllRanged
      /\ \/ phase = "collect" /\ at \notin Nodes(file) /\ phase' = "group"
            /\ unvisited' = DOMAIN callsByFunc
         \/ phase = "group" /\ phase' = "mark" /\ unvisited' = DOMAIN callsByBlock
         \/ phase = "mark" /\ phase' = "judge" /\ unvisited' = DOMAIN callsByFunc
         \/ phase = "judge" /\ phase' = "done" /\ unvisited' = {}
  BY DEF EndOfWalk, EndOfGrouping, EndOfMarking, EndOfJudging, NextStage
<1>2. at \notin Nodes(file)
  BY <1>1, WalkIsOver
<1>3. Collecting'
  BY <1>1, <1>2, StaysCollected
<1>4. Ranging'
  <2>1. Ranged' = Ranged /\ (AllRanged' <=> AllRanged)
    BY <1>1 DEF Ranged, AllRanged
  <2> QED
    BY <1>1, <2>1 DEF IInv, Ranging
<1>5. phase' \in {"group", "judge"} => Seen' = {}
  <2> SUFFICES ASSUME phase' \in {"group", "judge"} PROVE Seen' = {}
    OBVIOUS
  <2>1. \A n \in Calls : FuncOf(n) \in unvisited'
    BY <1>1, <1>2, CallsAreFiled
  <2>2. Calls' = Calls /\ \A n : FuncOf(n)' = FuncOf(n)
    BY <1>1, SameRules, SamePackage
  <2> QED
    BY <2>1, <2>2 DEF Seen
<1>6. Grouping'
  <2>1. CASE phase = "collect"
    BY <1>1, <1>5, <2>1, SameLists DEF IInv, Grouping
  <2>2. CASE phase = "group"
    <3>1. Seen = Calls /\ Calls' = Calls
      BY <1>1, <2>2, SeenAtEnd, SameRules
    <3>2. BlocksList(callsByBlock, Calls)
      BY <2>2, <3>1 DEF IInv, Grouping
    <3> QED
      BY <1>1, <2>2, <3>1, <3>2, SameLists DEF Grouping
  <2>3. CASE phase \in {"mark", "judge"}
    <3>1. BlocksList(callsByBlock, Calls) /\ Calls' = Calls
      BY <1>1, <2>3, SameRules DEF IInv, Grouping
    <3> QED
      BY <1>1, <2>3, <3>1, SameLists DEF Grouping
  <2> QED
    BY <1>1, <2>1, <2>2, <2>3
<1>7. Marking'
  <2>1. CASE phase \in {"collect", "judge"}
    BY <1>1, <2>1, SameRules DEF IInv, Marking
  <2>2. CASE phase = "group"
    <3>1. InNoErrorSequence' = InNoErrorSequence /\ \A n : ParentBlock(n)' = ParentBlock(n)
      BY <1>1, SameRules, SamePackage
    <3>2. \A n \in InNoErrorSequence : ParentBlock(n) \in unvisited'
      <4>1. BlocksList(callsByBlock, Seen) /\ Seen = Calls
        BY <1>1, <2>2, SeenAtEnd DEF IInv, Grouping
      <4> QED
        BY <1>1, <2>2, <4>1 DEF BlocksList, InNoErrorSequence
    <3>3. inNoErrorSeq = {}
      BY <2>2 DEF IInv, Marking
    <3> QED
      BY <1>1, <2>2, <3>1, <3>2, <3>3 DEF Marking
  <2>3. CASE phase = "mark"
    <3>1. inNoErrorSeq = InNoErrorSequence
      BY <1>1, <2>3 DEF IInv, Marking
    <3> QED
      BY <1>1, <2>3, <3>1, SameRules DEF Marking
  <2> QED
    BY <1>1, <2>1, <2>2, <2>3
<1>8. Judging'
  <2>1. CASE phase \in {"collect", "group"}
    BY <1>1, <2>1, SameReports DEF IInv, Judging
  <2>2. CASE phase = "mark"
    BY <1>1, <1>5, <2>2, SameReports DEF IInv, Judging
  <2>3. CASE phase = "judge"
    <3>1. Seen = Calls /\ Calls' = Calls
      BY <1>1, <2>3, SeenAtEnd, SameRules
    <3>2. ReportsOf(Calls)
      BY <2>3, <3>1 DEF IInv, Judging
    <3> QED
      BY <1>1, <2>3, <3>1, <3>2, SameReports DEF Judging
  <2> QED
    BY <1>1, <2>1, <2>2, <2>3
<1> QED
  BY <1>1, <1>3, <1>4, <1>6, <1>7, <1>8 DEF IInv

LEMMA RangeOverStep ==
  ASSUME IInv, NEW fd \in unvisited, RangeOver(fd)
  PROVE  IInv'
<1>1. /\ file' = file /\ fnPattern' = fnPattern /\ at' = at /\ callsByFunc' = callsByFunc
      /\ callsByBlock' = callsByBlock /\ phase' = phase /\ phase \in {"group", "judge"}
      /\ inNoErrorSeq' = inNoErrorSeq /\ diagnostics' = diagnostics
      /\ AllRanged /\ unvisited' = unvisited \ {fd} /\ current' = fd /\ index' = 1
  BY DEF RangeOver
<1>2. /\ at \notin Nodes(file) /\ fd \in DOMAIN callsByFunc /\ unvisited \subseteq DOMAIN callsByFunc
      /\ fd # 0 /\ DOMAIN callsByFunc = { FuncOf(n) : n \in Calls } /\ FuncsList(callsByFunc, Calls)
  BY <1>1, WalkIsOver, CallsAreFiled DEF IInv, Ranging
<1>3. Collecting'
  BY <1>1, <1>2, StaysCollected
<1>4. Ranging'
  <2>1. Ranged' = callsByFunc[fd]
    BY <1>1, <1>2 DEF Ranged
  <2>2. Len(Ranged') \in Nat
    BY <1>2, <2>1, ListMembers DEF FuncsList
  <2>3. index' \in 1 .. Len(Ranged') + 1
    BY <1>1, <2>2
  <2> QED
    BY <1>1, <1>2, <2>3 DEF Ranging
<1>5. Seen' = Seen
  <2>1. Seen = { n \in Calls : FuncOf(n) \notin unvisited }
    BY <1>1, SeenByKeys
  <2>2. Calls' = Calls /\ \A n : FuncOf(n)' = FuncOf(n)
    BY <1>1, SameRules, SamePackage
  <2>3. Seen' = { n \in Calls : FuncOf(n) \notin unvisited \ {fd} /\ FuncOf(n) # fd }
    <3>1. 1 .. index' - 1 = {}
      BY <1>1
    <3> QED
      BY <1>1, <2>2, <3>1 DEF Seen
  <2> QED
    BY <2>1, <2>3
<1>6. Grouping'
  BY <1>1, <1>5, SameLists, SameRules DEF IInv, Grouping
<1>7. Marking'
  BY <1>1, SameRules DEF IInv, Marking
<1>8. Judging'
  BY <1>1, <1>5, SameReports DEF IInv, Judging
<1> QED
  BY <1>1, <1>3, <1>4, <1>6, <1>7, <1>8 DEF IInv

(* A step that takes the next call of the function it ranges over. *)
LEMMA CallIsNext ==
  ASSUME IInv, phase \in {"group", "judge"}, ~ AllRanged
  PROVE  LET c == Ranged[index] IN
         /\ index \in 1 .. Len(Ranged) /\ current \notin unvisited
         /\ IsList(Ranged, { n \in Calls : FuncOf(n) = current })
         /\ c \in Calls /\ c \in Nat /\ FuncOf(c) = current
         /\ \A n \in Seen : FuncOf(n) = current => n < c
<1> DEFINE c == Ranged[index]
           S == { n \in Calls : FuncOf(n) = current }
<1>1. /\ index \in 1 .. Len(Ranged) + 1 /\ ~ (index > Len(Ranged)) /\ current \notin unvisited
      /\ current # 0
  <2>1. index \in 1 .. Len(Ranged) + 1 /\ ~ (index > Len(Ranged)) /\ current \notin unvisited
    BY DEF IInv, Ranging, AllRanged
  <2>2. current = 0 => Len(Ranged) = 0
    BY DEF Ranged
  <2> QED
    BY <2>1, <2>2
<1>2. IsList(Ranged, S)
  BY <1>1, RangedIsList
<1>3. /\ Len(Ranged) \in Nat /\ S \subseteq Nat
      /\ \A i \in 1 .. Len(Ranged) : Ranged[i] \in S
      /\ \A i, j \in 1 .. Len(Ranged) : Ranged[i] < Ranged[j] <=> i < j
  <2> HIDE DEF S
  <2> QED
    BY <1>2, ListMembers
<1>4. index \in 1 .. Len(Ranged)
  BY <1>1, <1>3
<1>5. c \in S /\ c \in Nat
  BY <1>3, <1>4
<1>6. ASSUME NEW n \in Seen, FuncOf(n) = current PROVE n < c
  <2>1. PICK j \in 1 .. index - 1 : Ranged[j] = n
    BY <1>6 DEF Seen
  <2>2. j \in 1 .. Len(Ranged) /\ j < index
    BY <1>3, <1>4
  <2> QED
    BY <1>3, <1>4, <2>1, <2>2
<1> QED
  BY <1>1, <1>2, <1>4, <1>5, <1>6

(* It has then produced that call too. *)
LEMMA CallIsSeen ==
  ASSUME IInv, phase \in {"group", "judge"}, Iterate(phase), fnPattern' = fnPattern
  PROVE  /\ Collecting' /\ Ranging' /\ Seen' = Seen \cup {Ranged[index]}
<1> DEFINE c == Ranged[index]
<1>1. /\ file' = file /\ fnPattern' = fnPattern /\ at' = at /\ callsByFunc' = callsByFunc
      /\ phase' = phase /\ current' = current /\ index' = index + 1 /\ unvisited' = unvisited
      /\ ~ AllRanged
  BY DEF Iterate
<1>2. at \notin Nodes(file)
  BY WalkIsOver
<1>3. Collecting'
  BY <1>1, <1>2, StaysCollected
<1>4. /\ index \in 1 .. Len(Ranged) /\ current \notin unvisited
      /\ c \in Calls /\ FuncOf(c) = current
      /\ \A n \in Seen : FuncOf(n) = current => n < c
  BY <1>1, CallIsNext
<1>5. Len(Ranged) \in Nat /\ Ranged' = Ranged
  <2>1. Len(Ranged) \in Nat
    BY <1>1, CallIsNext, ListMembers
  <2> QED
    BY <1>1, <2>1 DEF Ranged
<1>6. Ranging'
  <2>1. index' \in 1 .. Len(Ranged') + 1
    BY <1>1, <1>4, <1>5
  <2> QED
    BY <1>1, <1>4, <1>5, <2>1 DEF IInv, Ranging
<1>7. Seen' = Seen \cup {c}
  <2>1. Calls' = Calls /\ \A n : FuncOf(n)' = FuncOf(n)
    BY <1>1, SameRules, SamePackage
  <2>2. Seen' = { n \in Calls : /\ FuncOf(n) \notin unvisited
                                /\ FuncOf(n) = current => \E j \in 1 .. index : Ranged[j] = n }
    <3>1. index' - 1 = index
      BY <1>1, <1>4, <1>5
    <3> QED
      BY <1>1, <1>5, <2>1, <3>1 DEF Seen
  <2>3. \A n : (\E j \in 1 .. index : Ranged[j] = n)
               <=> (\E j \in 1 .. index - 1 : Ranged[j] = n) \/ n = c
    <3>1. 1 .. index = (1 .. index - 1) \cup {index}
      BY <1>4, <1>5
    <3> QED
      BY <3>1
  <2> QED
    BY <1>4, <2>2, <2>3 DEF Seen
<1> QED
  BY <1>3, <1>6, <1>7

LEMMA GroupStep ==
  ASSUME IInv, GroupCall
  PROVE  IInv'
<1> DEFINE c == Ranged[index]
<1>1. /\ phase = "group" /\ Iterate(phase) /\ phase' = phase /\ ~ AllRanged
      /\ file' = file /\ fnPattern' = fnPattern
      /\ inNoErrorSeq' = inNoErrorSeq /\ diagnostics' = diagnostics
      /\ callsByBlock' = IF ParentBlock(c) = 0 THEN callsByBlock
                         ELSE Extend(callsByBlock, ParentBlock(c), c)
  BY DEF GroupCall, Iterate
<1>2. Collecting' /\ Ranging' /\ Seen' = Seen \cup {c}
  BY <1>1, CallIsSeen
<1>3. /\ file \in Files /\ c \in Calls /\ c \in Nat /\ FuncOf(c) = current
      /\ \A n \in Seen : FuncOf(n) = current => n < c
  BY <1>1, CallIsNext DEF IInv
<1> HIDE DEF c
<1>4. Grouping'
  <2>1. ParentBlock(c) # 0
    BY <1>3, BlockInFunc DEF Calls
  <2>2. \A n \in Seen : ParentBlock(n) = ParentBlock(c) => n < c
    BY <1>3, SameBlockSameFunc DEF Seen
  <2>3. BlocksList(callsByBlock, Seen)
    BY <1>1 DEF IInv, Grouping
  <2>4. BlocksList(callsByBlock', Seen \cup {c})
    BY <1>1, <1>3, <2>1, <2>2, <2>3, ExtendBlocks
  <2>5. BlocksList(callsByBlock, Seen)'
    BY <1>1, <1>2, <2>4, SameLists
  <2> QED
    BY <1>1, <2>5 DEF Grouping
<1>5. Marking'
  BY <1>1 DEF IInv, Marking
<1>6. Judging'
  BY <1>1, SameReports DEF IInv, Judging
<1> QED
  BY <1>1, <1>2, <1>3, <1>4, <1>5, <1>6 DEF IInv

(* In the list of a block a sequence is what it is in the tree. *)
LEMMA SequenceInTree ==
  ASSUME NEW b, NEW s, IsList(s, { n \in Calls : ParentBlock(n) = b }), NEW i \in 1 .. Len(s)
  PROVE  s[i] \in Calls /\ ParentBlock(s[i]) = b /\ (InSequence(s, i) <=> s[i] \in InNoErrorSequence)
<1> DEFINE S == { n \in Calls : ParentBlock(n) = b }
           c == s[i]
           Expects(m) == Kind(m) \in {"NoError", "require"}
<1>a. IsList(s, S)
  OBVIOUS
<1>1. c \in S /\ S \subseteq Nat /\ Len(s) \in Nat
  <2> HIDE DEF S
  <2> QED
    BY <1>a, ListMembers
<1>2. SameBlock(c) = S
  BY <1>1 DEF SameBlock
<1>3. \A m : /\ i + 1 \in 1 .. Len(s) /\ s[i + 1] = m
                  <=> m \in S /\ c < m /\ ~ \E k \in S : k \in c + 1 .. m - 1
             /\ i - 1 \in 1 .. Len(s) /\ s[i - 1] = m
                  <=> m \in S /\ m < c /\ ~ \E k \in S : k \in m + 1 .. c - 1
  <2> HIDE DEF S
  <2> QED
    BY <1>a, ListNeighbours
<1>4. \A j : IsNoError(s, j) <=> j \in 1 .. Len(s) /\ Expects(s[j])
  BY DEF IsNoError
<1>5. \A m \in S : /\ m < c => m # c /\ c + 1 .. m - 1 = {}
                   /\ c < m => m # c /\ m + 1 .. c - 1 = {}
                   /\ m # c => m < c \/ c < m
  BY <1>1
<1>6. ASSUME IsNoError(s, i - 1) PROVE NextToOther(c)
  <2> DEFINE m == s[i - 1]
  <2>1. m \in S /\ m < c /\ ~ \E k \in S : k \in m + 1 .. c - 1
    BY <1>3, <1>4, <1>6
  <2>2. m # c /\ c + 1 .. m - 1 = {} /\ Expects(m)
    BY <1>4, <1>5, <1>6, <2>1
  <2> HIDE DEF m, c, S
  <2> QED
    BY <1>2, <2>1, <2>2 DEF NextToOther
<1>7. ASSUME IsNoError(s, i + 1) PROVE NextToOther(c)
  <2> DEFINE m == s[i + 1]
  <2>1. m \in S /\ c < m /\ ~ \E k \in S : k \in c + 1 .. m - 1
    BY <1>3, <1>4, <1>7
  <2>2. m # c /\ m + 1 .. c - 1 = {} /\ Expects(m)
    BY <1>4, <1>5, <1>7, <2>1
  <2> HIDE DEF m, c, S
  <2> QED
    BY <1>2, <2>1, <2>2 DEF NextToOther
<1>8. ASSUME NextToOther(c) PROVE IsNoError(s, i - 1) \/ IsNoError(s, i + 1)
  <2>1. PICK m \in S : /\ m # c /\ Expects(m)
                       /\ ~ \E k \in S : k \in (m + 1 .. c - 1) \cup (c + 1 .. m - 1)
    BY <1>2, <1>8 DEF NextToOther
  <2>2. CASE m < c
    BY <1>3, <1>4, <2>1, <2>2
  <2>3. CASE c < m
    BY <1>3, <1>4, <2>1, <2>3
  <2> QED
    BY <1>5, <2>1, <2>2, <2>3
<1>9. InSequence(s, i) <=> Expects(c) /\ NextToOther(c)
  BY <1>4, <1>6, <1>7, <1>8 DEF InSequence
<1> QED
  BY <1>1, <1>9 DEF InNoErrorSequence

LEMMA MarkStep ==
  ASSUME IInv, NEW b \in unvisited, MarkBlock(b)
  PROVE  IInv'
<1> DEFINE calls == callsByBlock[b]
<1>1. /\ file' = file /\ fnPattern' = fnPattern /\ at' = at /\ callsByFunc' = callsByFunc
      /\ callsByBlock' = callsByBlock /\ phase' = phase /\ phase = "mark"
      /\ current' = current /\ index' = index /\ diagnostics' = diagnostics
      /\ unvisited' = unvisited \ {b}
      /\ inNoErrorSeq' =
           inNoErrorSeq \cup { calls[i] : i \in { j \in 1 .. Len(calls) : InSequence(calls, j) } }
  BY DEF MarkBlock
<1>2. Collecting'
  BY <1>1, WalkIsOver, StaysCollected
<1>3. Ranging'
  <2>1. Ranged' = Ranged /\ (AllRanged' <=> AllRanged)
    BY <1>1 DEF Ranged, AllRanged
  <2> QED
    BY <1>1, <2>1 DEF IInv, Ranging
<1>4. Grouping'
  BY <1>1, SameLists, SameRules DEF IInv, Grouping
<1>5. Marking'
  <2>1. inNoErrorSeq = { n \in InNoErrorSequence : ParentBlock(n) \notin unvisited }
    BY <1>1 DEF IInv, Marking
  <2>2. IsList(calls, { n \in Calls : ParentBlock(n) = b })
    BY <1>1 DEF IInv, Ranging, Grouping, BlocksList
  <2> HIDE DEF calls
  <2>3. \A i \in 1 .. Len(calls) :
          ParentBlock(calls[i]) = b /\ (InSequence(calls, i) <=> calls[i] \in InNoErrorSequence)
    BY <2>2, SequenceInTree
  <2>4. ASSUME NEW n \in InNoErrorSequence, ParentBlock(n) = b
        PROVE  \E i \in 1 .. Len(calls) : calls[i] = n
    <3>1. n \in { m \in Calls : ParentBlock(m) = b }
      BY <2>4 DEF InNoErrorSequence
    <3> QED
      BY <2>2, <3>1, ListMembers
  <2>5. { calls[i] : i \in { j \in 1 .. Len(calls) : InSequence(calls, j) } }
        = { n \in InNoErrorSequence : ParentBlock(n) = b }
    BY <2>3, <2>4
  <2>6. inNoErrorSeq' = { n \in InNoErrorSequence : ParentBlock(n) \notin unvisited \ {b} }
    BY <1>1, <2>1, <2>5
  <2>7. InNoErrorSequence' = InNoErrorSequence /\ \A n : ParentBlock(n)' = ParentBlock(n)
    BY <1>1, SameRules, SamePackage
  <2> QED
    BY <1>1, <2>6, <2>7 DEF Marking
<1>6. Judging'
  BY <1>1, SameReports DEF IInv, Judging
<1> QED
  BY <1>1, <1>2, <1>3, <1>4, <1>5, <1>6 DEF IInv

(* The context the code looks at is the one the rules speak of. *)
LEMMA ContextIsExact ==
  ASSUME IInv, phase = "judge", ~ AllRanged, Kind(Ranged[index]) \in ErrorAssertions
  PROVE  needToSkipBasedOnContext(Ranged, index) <=> Excused(Ranged[index])
<1> DEFINE c == Ranged[index]
           s == Ranged
           i == index
           S == SameFunc(c)
<1>1. /\ i \in 1 .. Len(s) /\ c \in Calls /\ c \in Nat /\ FuncOf(c) = current
      /\ IsList(s, { n \in Calls : FuncOf(n) = current })
  BY CallIsNext
<1>2. S = { n \in Calls : FuncOf(n) = current }
  BY <1>1 DEF SameFunc
<1>3. IsList(s, S)
  BY <1>1, <1>2
<1>4. /\ Len(s) \in Nat /\ S \subseteq Nat
      /\ \A j \in 1 .. Len(s) : s[j] \in S
      /\ \A n \in S : \E j \in 1 .. Len(s) : s[j] = n
      /\ \A h, j \in 1 .. Len(s) : s[h] < s[j] <=> h < j
  <2> HIDE DEF S, s
  <2> QED
    BY <1>3, ListMembers
<1>5. c \in inNoErrorSeq <=> NextToNoError(c)
  <2>1. inNoErrorSeq = InNoErrorSequence
    BY DEF IInv, Marking
  <2>2. Kind(c) \in {"NoError", "require"} <=> Kind(c) = "NoError"
    BY DEF ErrorAssertions
  <2> HIDE DEF c
  <2> QED
    BY <1>1, <2>1, <2>2 DEF InNoErrorSequence, NextToNoError, NextToOther
<1>6. (/\ RootIf(c) # 0
       /\ \E j \in 1 .. Len(s) : RootIf(s[j]) = RootIf(c) /\ InIfCond(s[j]))
      <=> CallInSomeCondition(c)
  <2> HIDE DEF c, s
  <2> QED
    BY <1>4 DEF CallInSomeCondition, S
<1>7. IsLastCallInBlock(c) <=> \A m \in SameBlock(c) : m <= c
  <2> DEFINE l == callsByBlock[ParentBlock(c)]
             B == SameBlock(c)
  <2>1. BlocksList(callsByBlock, Calls)
    BY DEF IInv, Grouping
  <2>2. IsList(l, B) /\ c \in B
    BY <1>1, <2>1 DEF BlocksList, SameBlock
  <2> HIDE DEF B, c
  <2>3. l[Len(l)] = c <=> \A m \in B : m <= c
    <3> HIDE DEF l
    <3> QED
      BY <2>2, ListLast
  <2> QED
    BY <2>3 DEF IsLastCallInBlock, B
<1>8. NoCallsAfter(s, i)
      <=> \/ EndsWithReturn(ParentBlock(c))
          \/ \A m \in S : m > c => ParentIf(c) # 0 /\ InElse(ParentIf(c), m)
  <2> DEFINE P(m) == ParentIf(c) # 0 /\ InElse(ParentIf(c), m)
  <2>1. (\A j \in i + 1 .. Len(s) : P(s[j])) <=> \A m \in S : m > c => P(m)
    <3> HIDE DEF P
    <3>1. ASSUME \A j \in i + 1 .. Len(s) : P(s[j]), NEW m \in S, m > c PROVE P(m)
      <4>1. PICK j \in 1 .. Len(s) : s[j] = m
        BY <1>4
      <4>2. i < j
        BY <1>1, <1>4, <3>1, <4>1
      <4>3. j \in i + 1 .. Len(s)
        BY <1>1, <1>4, <4>2
      <4> QED
        BY <3>1, <4>1, <4>3
    <3>2. ASSUME \A m \in S : m > c => P(m), NEW j \in i + 1 .. Len(s) PROVE P(s[j])
      <4>1. j \in 1 .. Len(s) /\ i < j
        BY <1>1, <1>4
      <4>2. s[j] \in S /\ s[i] < s[j] /\ s[j] \in Nat /\ s[i] \in Nat
        BY <1>1, <1>4, <4>1
      <4> QED
        BY <3>2, <4>2
    <3> QED
      BY <3>1, <3>2
  <2> QED
    BY <2>1 DEF NoCallsAfter
<1> HIDE DEF c, s, i, S
<1> QED
  <2>1. needToSkipBasedOnContext(s, i) <=>
          \/ InIfCond(c) \/ InBoolExpr(c) \/ c \in inNoErrorSeq
          \/ /\ RootIf(c) # 0
             /\ \E j \in 1 .. Len(s) : RootIf(s[j]) = RootIf(c) /\ InIfCond(s[j])
          \/ IsLastCallInBlock(c) /\ NoCallsAfter(s, i)
    BY DEF needToSkipBasedOnContext, c, s, i
  <2>2. IsLast(c) <=> IsLastCallInBlock(c) /\ NoCallsAfter(s, i)
    BY <1>7, <1>8 DEF IsLast, S
  <2>3. needToSkipBasedOnContext(s, i) <=> Excused(c)
    BY <1>5, <1>6, <2>1, <2>2 DEF Excused
  <2> QED
    BY <2>3 DEF c, s, i

(* The call is reported when the rules ask for it. *)
LEMMA JudgeStep ==
  ASSUME IInv, JudgeCall
  PROVE  IInv'
<1> DEFINE c == Ranged[index]
           reported == /\ Kind(current) # "exempt" /\ Kind(c) \in ErrorAssertions
                       /\ ~ needToSkipBasedOnContext(Ranged, index)
                       /\ Kind(c) \in fnPattern
<1>1. /\ phase = "judge" /\ Iterate(phase) /\ phase' = phase /\ ~ AllRanged
      /\ file' = file /\ fnPattern' = fnPattern
      /\ inNoErrorSeq' = inNoErrorSeq /\ callsByBlock' = callsByBlock
      /\ diagnostics' = IF reported THEN Append(diagnostics, c) ELSE diagnostics
  BY DEF JudgeCall, Iterate
<1>2. Collecting' /\ Ranging' /\ Seen' = Seen \cup {c}
  BY <1>1, CallIsSeen
<1>3. /\ file \in Files /\ c \in Calls /\ c \in Nat /\ FuncOf(c) = current
      /\ \A n \in Seen : FuncOf(n) = current => n < c
  BY <1>1, CallIsNext DEF IInv
<1>4. reported <=> c \in Candidates /\ ~ Excused(c)
  <2>1. Kind(current) \in FuncKinds
    BY <1>3, FuncIsInnermost DEF Calls
  <2>2. Kind(current) # "exempt" <=> Kind(FuncOf(c)) = "func"
    BY <1>3, <2>1 DEF FuncKinds
  <2>3. c \in Candidates <=>
          Kind(c) \in ErrorAssertions /\ Kind(c) \in fnPattern /\ Kind(FuncOf(c)) = "func"
    BY <1>3 DEF Candidates
  <2>4. Kind(c) \in ErrorAssertions =>
          (needToSkipBasedOnContext(Ranged, index) <=> Excused(c))
    BY <1>1, ContextIsExact
  <2> HIDE DEF c
  <2> QED
    BY <2>2, <2>3, <2>4
<1> HIDE DEF c, reported
<1>5. Grouping' /\ Marking'
  BY <1>1, SameLists, SameRules DEF IInv, Grouping, Marking
<1>6. ReportsOf(Seen)
  BY <1>1 DEF IInv, Judging
<1>7. ReportsOf(Seen)'
  <2> DEFINE Due(S) == { n \in Candidates : n \in S /\ ~ Excused(n) }
             Told(d) == { d[i] : i \in 1 .. Len(d) }
  <2>0. /\ \A n : FuncOf(n)' = FuncOf(n) /\ (Excused(n)' <=> Excused(n))
        /\ Candidates' = Candidates
    BY <1>1, SameRules, SamePackage
  <2>1. CASE ~ reported
    <3>1. diagnostics' = diagnostics
      BY <1>1, <2>1
    <3>2. Due(Seen \cup {c}) = Due(Seen)
      BY <1>4, <2>1
    <3>3. ReportsOf(Seen \cup {c})
      BY <1>6, <3>2 DEF ReportsOf
    <3> QED
      BY <1>1, <1>2, <3>1, <3>3, SameReports
  <2>2. CASE reported
    <3> DEFINE d == diagnostics
               e == diagnostics'
               k == Len(d)
    <3>1. e = Append(d, c) /\ d \in Seq(Nat)
      BY <1>1, <1>6, <2>2 DEF ReportsOf
    <3>2. /\ e \in Seq(Nat) /\ k \in Nat /\ Len(e) = k + 1 /\ e[k + 1] = c
          /\ \A i \in 1 .. k : e[i] = d[i]
      BY <1>3, <3>1
    <3>3. /\ Told(d) = Due(Seen)
          /\ \A i, j \in 1 .. k : i < j /\ FuncOf(d[i]) = FuncOf(d[j]) => d[i] < d[j]
      BY <1>6 DEF ReportsOf, Reported
    <3> HIDE DEF d, e, k
    <3>4. Told(e) = Told(d) \cup {c}
      <4>1. 1 .. Len(e) = (1 .. k) \cup {k + 1}
        BY <3>2
      <4>2. Told(d) = { e[i] : i \in 1 .. k }
        BY <3>2 DEF k
      <4> QED
        BY <3>2, <4>1, <4>2
    <3>5. Due(Seen \cup {c}) = Due(Seen) \cup {c}
      BY <1>4, <2>2
    <3>6. \A i, j \in 1 .. Len(e) : i < j /\ FuncOf(e[i]) = FuncOf(e[j]) => e[i] < e[j]
      <4> SUFFICES ASSUME NEW i \in 1 .. k + 1, NEW j \in 1 .. k + 1, i < j,
                          FuncOf(e[i]) = FuncOf(e[j])
                   PROVE  e[i] < e[j]
        BY <3>2
      <4>1. i \in 1 .. k /\ e[i] = d[i]
        BY <3>2
      <4>2. CASE j \in 1 .. k
        <5>1. e[j] = d[j]
          BY <3>2, <4>2
        <5> QED
          BY <3>3, <4>1, <4>2, <5>1
      <4>3. CASE j = k + 1
        <5>1. d[i] \in Seen
          BY <3>3, <4>1 DEF k
        <5> QED
          BY <1>3, <3>2, <4>1, <4>3, <5>1
      <4> QED
        BY <3>2, <4>2, <4>3
    <3>7. Reported' = Due(Seen \cup {c})
      BY <3>3, <3>4, <3>5 DEF Reported, e
    <3>8. Due(Seen)' = Due(Seen \cup {c})
      BY <1>2, <2>0
    <3> QED
      BY <2>0, <3>2, <3>6, <3>7, <3>8 DEF ReportsOf, e
  <2> QED
    BY <2>1, <2>2
<1>8. Judging'
  BY <1>1, <1>7 DEF Judging
<1> QED
  BY <1>1, <1>2, <1>3, <1>5, <1>8 DEF IInv

LEMMA StutterKeepsIInv ==
  ASSUME IInv, UNCHANGED vars
  PROVE  IInv'
<1>1. /\ file' = file /\ fnPattern' = fnPattern /\ phase' = phase /\ at' = at
      /\ callsByFunc' = callsByFunc /\ callsByBlock' = callsByBlock /\ unvisited' = unvisited
      /\ current' = current /\ index' = index /\ inNoErrorSeq' = inNoErrorSeq
      /\ diagnostics' = diagnostics
  BY DEF vars
<1>2. /\ Calls' = Calls /\ InNoErrorSequence' = InNoErrorSequence
      /\ \A n : FuncOf(n)' = FuncOf(n) /\ ParentBlock(n)' = ParentBlock(n)
  BY <1>1, SameRules, SamePackage
<1>3. Ranged' = Ranged
  BY <1>1 DEF Ranged
<1>4. Seen' = Seen
  BY <1>1, <1>2, <1>3 DEF Seen
<1>5. Collecting'
  <2>1. FuncsList(callsByFunc, { n \in Calls : n < at })
    BY DEF IInv, Collecting
  <2>2. FuncsList(callsByFunc, { n \in Calls : n < at })'
    BY <1>1, <1>2, <2>1, SameLists
  <2> QED
    BY <1>1, <2>2, SamePackage DEF IInv, Collecting
<1>6. Ranging'
  BY <1>1, <1>3 DEF IInv, Ranging, AllRanged
<1>7. Grouping'
  BY <1>1, <1>2, <1>4, SameLists DEF IInv, Grouping
<1>8. Marking'
  BY <1>1, <1>2 DEF IInv, Marking
<1>9. Judging'
  BY <1>1, <1>2, <1>4, SameReports DEF IInv, Judging
<1> QED
  BY <1>1, <1>5, <1>6, <1>7, <1>8, <1>9 DEF IInv

(* IInv holds in every state of the checker.                               *)
THEOREM InductiveInvariant == Spec => []IInv
<1>1. Init => IInv
  BY InitIInv
<1>2. IInv /\ [Next]_vars => IInv'
  <2> SUFFICES ASSUME IInv, [Next]_vars PROVE IInv'
    OBVIOUS
  <2>1. CASE CollectCall \/ PassNode
    BY <2>1, CollectStep
  <2>2. CASE EndOfWalk \/ EndOfGrouping \/ EndOfMarking \/ EndOfJudging
    BY <2>2, StageStep
  <2>3. CASE \E fd \in unvisited : RangeOver(fd)
    BY <2>3, RangeOverStep
  <2>4. CASE GroupCall
    BY <2>4, GroupStep
  <2>5. CASE \E b \in unvisited : MarkBlock(b)
    BY <2>5, MarkStep
  <2>6. CASE JudgeCall
    BY <2>6, JudgeStep
  <2>7. CASE UNCHANGED vars
    BY <2>7, StutterKeepsIInv
  <2> QED
    BY <2>1, <2>2, <2>3, <2>4, <2>5, <2>6, <2>7 DEF Next
<1> QED
  BY <1>1, <1>2, PTL DEF Spec

(* In whatever order the maps of calls are ranged over, the checker has at *)
(* its end reported exactly the error assertions that nothing in the tree  *)
(* excuses, each once and in the order of the source.                      *)
THEOREM ReportsCorrect == Spec => []ReportsDetermined
<1>1. IInv => ReportsDetermined
  <2> SUFFICES ASSUME IInv, phase = "done"
               PROVE  /\ Reported = { n \in Candidates : ~ Excused(n) }
                      /\ \A i, j \in 1 .. Len(diagnostics) :
                           i < j /\ FuncOf(diagnostics[i]) = FuncOf(diagnostics[j])
                           => diagnostics[i] < diagnostics[j]
    BY DEF ReportsDetermined
  <2>1. ReportsOf(Calls)
    BY DEF IInv, Judging
  <2>2. { n \in Candidates : n \in Calls /\ ~ Excused(n) } = { n \in Candidates : ~ Excused(n) }
    BY DEF Candidates
  <2> QED
    BY <2>1, <2>2 DEF ReportsOf
<1> QED
  BY <1>1, InductiveInvariant, PTL

(* Outside else branches and blocks that end with a return, no call of the *)
(* function can run after an assertion that goes unreported as the last    *)
(* operation only.                                                         *)
THEOREM LastCorrect == Spec => []LastIsLast
<1>1. IInv => LastIsLast
  <2> SUFFICES ASSUME IInv, phase = "done", NEW n \in SilentAsLast,
                      InThen(n), ~ EndsWithReturn(ParentBlock(n)),
                      NEW m \in SameFunc(n), RunsAfter(n, m)
               PROVE  FALSE
    BY DEF LastIsLast
  <2> DEFINE i == ParentIf(n)
  <2>1. ReportsOf(Calls) /\ file \in Files
    BY DEF IInv, Judging
  <2>2. n \in Candidates /\ n \in Calls /\ n \in Nodes(file) /\ n \notin Reported
    BY DEF SilentAsLast, Candidates, Calls
  <2>3. Excused(n)
    BY <2>1, <2>2 DEF ReportsOf
  <2>4. IsLast(n)
    BY <2>3 DEF SilentAsLast, Excused
  <2>5. m > n => i # 0 /\ InElse(i, m)
    BY <2>4 DEF IsLast
  <2>6. i # 0 /\ InElse(i, m)
    BY <2>5 DEF RunsAfter
  <2>7. i \in Nodes(file) /\ Kind(i) = "if"
    BY <2>1, <2>2, <2>6, IfIsAround
  <2>8. \E b \in Branches(i) : Encloses(file, b, n) /\ ~ InElse(i, n)
    BY <2>6 DEF InThen
  <2> QED
    BY <2>6, <2>7, <2>8 DEF RunsAfter
<1> QED
  BY <1>1, InductiveInvariant, PTL
=============================================================================
