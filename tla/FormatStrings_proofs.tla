------------------------ MODULE FormatStrings_proofs ------------------------
(***************************************************************************)
(* Facts about formats of any length: where the parts of a directive are   *)
(* in the tokens of its format, and which arguments a directive reads.     *)
(***************************************************************************)
EXTENDS FormatStrings, FiniteSetsExt, SequenceTheorems, WellFoundedInduction, TLAPS

(* ToSet, unfolded.                                                        *)
LEMMA ToSetIs == \A s : ToSet(s) = { s[i] : i \in DOMAIN s }
BY DEF ToSet

(* Induction, with the induction hypothesis as a set of numbers. *)
LEMMA Induction ==
  ASSUME NEW S, 0 \in S, \A n \in Nat : n \in S => n + 1 \in S
  PROVE  \A n \in Nat : n \in S
<1> DEFINE T == Nat \ S
           R == OpToRel(<, Nat)
<1>1. SUFFICES T = {}
  OBVIOUS
<1>2. SUFFICES ASSUME T # {} PROVE FALSE
  OBVIOUS
<1>3. T \subseteq Nat
  OBVIOUS
<1>4. \A x, y \in Nat : <<y, x>> \in R <=> y < x
  BY DEF OpToRel
<1> HIDE DEF T
<1>5. \E x \in T : \A y \in T : ~ (<<y, x>> \in R)
  BY <1>2, <1>3, NatLessThanWellFounded, WFMin
<1>6. PICK x \in T : \A y \in T : ~ (<<y, x>> \in R)
  BY <1>5
<1> HIDE DEF R
<1> USE DEF T
<1>7. x \in Nat /\ x \notin S /\ x # 0
  OBVIOUS
<1>8. x - 1 \in Nat /\ x - 1 < x /\ (x - 1) + 1 = x
  BY <1>7
<1>9. x - 1 \notin T
  BY <1>4, <1>6, <1>7, <1>8
<1> QED
  BY <1>7, <1>8, <1>9

(* What is defined by recursion along a sequence of sequences exists. *)
IsFlattening(f, s) ==
  f = [i \in 1 .. Len(s) |-> IF i = 1 THEN s[i] ELSE f[i - 1] \o s[i]]

(* The concatenations of ever longer prefixes of a sequence of sequences   *)
(* exist.                                                                  *)
LEMMA FlatteningExists ==
  ASSUME NEW S, NEW s \in Seq(Seq(S))
  PROVE  \E f : IsFlattening(f, s)
<1> DEFINE Upto(f, n) == f = [i \in 1 .. n |-> IF i = 1 THEN s[i] ELSE f[i - 1] \o s[i]]
           N == { n \in Nat : \E f : Upto(f, n) }
<1>1. 0 \in N
  <2>1. Upto([i \in 1 .. 0 |-> <<>>], 0)
    OBVIOUS
  <2> QED
    BY <2>1
<1>2. ASSUME NEW n \in Nat, n \in N PROVE n + 1 \in N
  <2>1. PICK f : Upto(f, n)
    BY <1>2
  <2> DEFINE g == [i \in 1 .. n + 1 |->
                     IF i <= n THEN f[i] ELSE IF i = 1 THEN s[i] ELSE f[i - 1] \o s[i]]
  <2>2. \A i \in 1 .. n : g[i] = f[i]
    OBVIOUS
  <2>3. \A i \in 1 .. n : f[i] = IF i = 1 THEN s[i] ELSE f[i - 1] \o s[i]
    BY <2>1, Zenon
  <2>4. \A i \in 1 .. n + 1 : g[i] = IF i = 1 THEN s[i] ELSE g[i - 1] \o s[i]
    <3> SUFFICES ASSUME NEW i \in 1 .. n + 1
                 PROVE  g[i] = IF i = 1 THEN s[i] ELSE g[i - 1] \o s[i]
      OBVIOUS
    <3>1. CASE i = 1
      BY <3>1, <2>3
    <3>2. CASE i # 1
      <4>1. i - 1 \in 1 .. n /\ g[i - 1] = f[i - 1]
        BY <3>2, <2>2
      <4>2. g[i] = f[i - 1] \o s[i]
        <5>1. CASE i <= n
          <6>1. i \in 1 .. n
            BY <5>1
          <6> QED
            BY <2>2, <2>3, <3>2, <6>1
        <5>2. CASE ~ (i <= n)
          BY <3>2, <5>2
        <5> QED
          BY <5>1, <5>2
      <4> QED
        BY <3>2, <4>1, <4>2
    <3> QED
      BY <3>1, <3>2
  <2>5. g = [i \in 1 .. n + 1 |-> g[i]]
    OBVIOUS
  <2> HIDE DEF g
  <2>6. Upto(g, n + 1)
    BY <2>4, <2>5
  <2> HIDE DEF Upto
  <2>7. n + 1 \in Nat /\ \E h : Upto(h, n + 1)
    BY <2>6
  <2> QED
    BY <2>7
<1> HIDE DEF N
<1>3. \A n \in Nat : n \in N
  BY <1>1, <1>2, Induction
<1>4. Len(s) \in N
  BY <1>3
<1> QED
  BY <1>4 DEF N, IsFlattening

(* FlattenSeq unfolds to the last of these concatenations.                 *)
LEMMA FlattenSeqIs ==
  ASSUME NEW S, NEW s \in Seq(Seq(S)), s # <<>>
  PROVE  \E f : /\ FlattenSeq(s) = f[Len(s)]
                /\ \A i \in 1 .. Len(s) : f[i] = IF i = 1 THEN s[i] ELSE f[i - 1] \o s[i]
<1> DEFINE g == CHOOSE f : IsFlattening(f, s)
<1>1. IsFlattening(g, s)
  BY FlatteningExists
<1>2. Len(s) # 0
  OBVIOUS
<1>3. FlattenSeq(s) = g[Len(s)]
  BY <1>2, Zenon DEF FlattenSeq, IsFlattening
<1> HIDE DEF g
<1>4. \A i \in 1 .. Len(s) : g[i] = IF i = 1 THEN s[i] ELSE g[i - 1] \o s[i]
  BY <1>1, Zenon DEF IsFlattening
<1> QED
  BY <1>3, <1>4

(* The text of a list of texts grows at its end. *)
LEMMA FlattenAppend ==
  ASSUME NEW S, NEW s \in Seq(Seq(S)), NEW x \in Seq(S)
  PROVE  FlattenSeq(Append(s, x)) = FlattenSeq(s) \o x
<1> DEFINE t == Append(s, x)
           n == Len(s)
<1>1. t \in Seq(Seq(S)) /\ Len(t) = n + 1 /\ t # <<>> /\ n \in Nat /\ t[n + 1] = x
      /\ \A i \in 1 .. n : t[i] = s[i]
  BY AppendProperties, LenProperties
<1> HIDE DEF t
<1>2. PICK g : /\ FlattenSeq(t) = g[Len(t)]
               /\ \A i \in 1 .. Len(t) : g[i] = IF i = 1 THEN t[i] ELSE g[i - 1] \o t[i]
  BY <1>1, FlattenSeqIs
<1>3. CASE s = <<>>
  <2>1. n = 0 /\ FlattenSeq(s) = <<>>
    BY <1>3 DEF FlattenSeq
  <2>2. FlattenSeq(t) = x
    BY <1>1, <1>2, <2>1
  <2> QED
    BY <2>1, <2>2, ConcatEmptySeq DEF t
<1>4. CASE s # <<>>
  <2>1. PICK f : /\ FlattenSeq(s) = f[n]
                 /\ \A i \in 1 .. n : f[i] = IF i = 1 THEN s[i] ELSE f[i - 1] \o s[i]
    BY <1>4, FlattenSeqIs
  <2> DEFINE N == { i \in Nat : i \in 1 .. n => f[i] = g[i] }
  <2>2. 0 \in N
    OBVIOUS
  <2>3. ASSUME NEW i \in Nat, i \in N PROVE i + 1 \in N
    <3> SUFFICES ASSUME i + 1 \in 1 .. n PROVE f[i + 1] = g[i + 1]
      OBVIOUS
    <3>1. i + 1 \in 1 .. n + 1 /\ t[i + 1] = s[i + 1] /\ (i + 1) - 1 = i
      BY <1>1
    <3>2. f[i + 1] = (IF i + 1 = 1 THEN s[i + 1] ELSE f[i] \o s[i + 1])
      BY <2>1, <3>1
    <3>3. g[i + 1] = (IF i + 1 = 1 THEN t[i + 1] ELSE g[i] \o t[i + 1])
      BY <1>1, <1>2, <3>1
    <3>4. CASE i = 0
      BY <3>1, <3>2, <3>3, <3>4
    <3>5. CASE i # 0
      <4>1. f[i] = g[i]
        BY <2>3, <3>5
      <4> QED
        BY <3>1, <3>2, <3>3, <3>5, <4>1
    <3> QED
      BY <3>4, <3>5
  <2> HIDE DEF N
  <2>4. n \in N
    BY <1>1, <2>2, <2>3, Induction
  <2>5. n \in 1 .. n /\ n + 1 \in 1 .. n + 1 /\ n + 1 # 1 /\ (n + 1) - 1 = n
    BY <1>1, <1>4
  <2>6. f[n] = g[n]
    BY <2>4, <2>5 DEF N
  <2>7. g[n + 1] = g[n] \o x
    BY <1>1, <1>2, <2>5
  <2> QED
    BY <1>2, <2>1, <2>6, <2>7 DEF t
<1> QED
  BY <1>3, <1>4

(* Nothing concatenated is nothing.                                        *)
LEMMA FlattenEmpty == FlattenSeq(<<>>) = <<>>
BY DEF FlattenSeq

(* The argument that an item reads after one that read the argument a. *)
Read(x, a) == IF x # "" THEN IndexOf(x) ELSE a + 1
LastRead(items) == IF items = <<>> THEN 0 ELSE Last(Reads(items))

(* An index token stands for a number, 0 if it is malformed.               *)
LEMMA IndexIsNumber == \A t : IndexOf(t) \in Nat
<1> SUFFICES ASSUME NEW t PROVE IndexOf(t) \in Nat
  OBVIOUS
<1>1. CASE t \in ToSet(IndexTokens)
  <2>1. \E k \in DOMAIN IndexTokens : IndexTokens[k] = t
    BY <1>1 DEF ToSet, IndexTokens
  <2>2. DOMAIN IndexTokens \subseteq Nat
    BY DEF IndexTokens
  <2>3. IndexOf(t) \in DOMAIN IndexTokens
    BY <1>1, <2>1 DEF IndexOf
  <2> QED
    BY <2>2, <2>3
<1>2. CASE t \notin ToSet(IndexTokens)
  BY <1>2 DEF IndexOf
<1> QED
  BY <1>1, <1>2

(* What an item reads is a number.                                         *)
LEMMA ReadIsNumber == \A x : \A a \in Nat : Read(x, a) \in Nat
<1> SUFFICES ASSUME NEW x, NEW a \in Nat PROVE Read(x, a) \in Nat
  OBVIOUS
<1>1. IndexOf(x) \in Nat /\ a + 1 \in Nat
  BY IndexIsNumber
<1> QED
  BY <1>1, Zenon DEF Read

IsCount(f, items) ==
  f = [k \in 0 .. Len(items) |->
         IF k = 0 THEN 0
         ELSE IF items[k] # "" THEN IndexOf(items[k]) ELSE f[k - 1] + 1]

(* The function by which Reads numbers the arguments exists.               *)
LEMMA CountExists ==
  ASSUME NEW S, NEW items \in Seq(S)
  PROVE  \E f : IsCount(f, items)
<1> DEFINE Item(k, a) == IF items[k] # "" THEN IndexOf(items[k]) ELSE a + 1
           Upto(f, n) == f = [k \in 0 .. n |-> IF k = 0 THEN 0 ELSE Item(k, f[k - 1])]
           N == { n \in Nat : \E f : Upto(f, n) }
<1>1. 0 \in N
  <2> DEFINE f == [k \in 0 .. 0 |-> 0]
  <2>1. f = [k \in 0 .. 0 |-> IF k = 0 THEN 0 ELSE Item(k, f[k - 1])]
    OBVIOUS
  <2> QED
    BY <2>1, Zenon
<1>2. ASSUME NEW n \in Nat, n \in N PROVE n + 1 \in N
  <2>1. PICK f : Upto(f, n)
    BY <1>2
  <2> HIDE DEF Item
  <2> DEFINE g == [k \in 0 .. n + 1 |-> IF k <= n THEN f[k] ELSE Item(k, f[k - 1])]
  <2>2. \A k \in 0 .. n : g[k] = f[k] /\ f[k] = IF k = 0 THEN 0 ELSE Item(k, f[k - 1])
    <3>1. \A k \in 0 .. n : f[k] = IF k = 0 THEN 0 ELSE Item(k, f[k - 1])
      BY <2>1, Zenon
    <3> QED
      BY <3>1
  <2>3. \A k \in 0 .. n + 1 : g[k] = IF k = 0 THEN 0 ELSE Item(k, g[k - 1])
    <3> SUFFICES ASSUME NEW k \in 0 .. n + 1
                 PROVE  g[k] = IF k = 0 THEN 0 ELSE Item(k, g[k - 1])
      OBVIOUS
    <3>1. CASE k = 0
      <4>1. 0 \in 0 .. n
        OBVIOUS
      <4>2. g[0] = 0
        BY <2>2, <4>1
      <4> QED
        BY <3>1, <4>2
    <3>2. CASE k # 0
      <4>1. k - 1 \in 0 .. n /\ g[k - 1] = f[k - 1]
        BY <3>2, <2>2
      <4>2. g[k] = Item(k, f[k - 1])
        <5>1. CASE k <= n
          <6>1. k \in 0 .. n
            BY <5>1
          <6> QED
            BY <2>2, <3>2, <6>1
        <5>2. CASE ~ (k <= n)
          BY <3>2, <5>2
        <5> QED
          BY <5>1, <5>2
      <4> QED
        BY <3>2, <4>1, <4>2
    <3> QED
      BY <3>1, <3>2
  <2>4. g = [k \in 0 .. n + 1 |-> g[k]]
    OBVIOUS
  <2> HIDE DEF g
  <2>5. Upto(g, n + 1)
    BY <2>3, <2>4
  <2> HIDE DEF Upto
  <2>6. n + 1 \in Nat /\ \E h : Upto(h, n + 1)
    BY <2>5
  <2> QED
    BY <2>6
<1> HIDE DEF N
<1>3. \A n \in Nat : n \in N
  BY <1>1, <1>2, Induction
<1>4. Len(items) \in N
  BY <1>3
<1> QED
  BY <1>4, Zenon DEF N, IsCount

(* Reads numbers each item from the one before it.                         *)
LEMMA ReadsAre ==
  ASSUME NEW S, NEW items \in Seq(S)
  PROVE  \E f : /\ f[0] = 0
                /\ \A k \in 1 .. Len(items) : f[k] = Read(items[k], f[k - 1])
                /\ Reads(items) = [k \in DOMAIN items |-> f[k]]
<1> DEFINE g == CHOOSE f : IsCount(f, items)
<1>1. IsCount(g, items)
  BY CountExists
<1>2. Reads(items) = [k \in DOMAIN items |-> g[k]]
  BY Zenon DEF Reads, IsCount
<1> HIDE DEF g
<1>3. \A k \in 0 .. Len(items) :
        g[k] = IF k = 0 THEN 0
               ELSE IF items[k] # "" THEN IndexOf(items[k]) ELSE g[k - 1] + 1
  BY <1>1, Zenon DEF IsCount
<1>4. g[0] = 0
  <2>1. 0 \in 0 .. Len(items)
    OBVIOUS
  <2> QED
    BY <1>3, <2>1
<1>5. \A k \in 1 .. Len(items) : g[k] = Read(items[k], g[k - 1])
  <2> SUFFICES ASSUME NEW k \in 1 .. Len(items) PROVE g[k] = Read(items[k], g[k - 1])
    OBVIOUS
  <2>1. k \in 0 .. Len(items) /\ k # 0
    OBVIOUS
  <2> QED
    BY <1>3, <2>1, Zenon DEF Read
<1> QED
  BY <1>2, <1>4, <1>5

(* Reads gives one number per item.                                        *)
LEMMA ReadsAreNumbers ==
  ASSUME NEW S, NEW items \in Seq(S)
  PROVE  Reads(items) \in Seq(Nat) /\ Len(Reads(items)) = Len(items) /\ LastRead(items) \in Nat
<1>1. PICK f : /\ f[0] = 0
               /\ \A k \in 1 .. Len(items) : f[k] = Read(items[k], f[k - 1])
               /\ Reads(items) = [k \in DOMAIN items |-> f[k]]
  BY ReadsAre
<1> DEFINE N == { n \in Nat : n <= Len(items) => f[n] \in Nat }
<1>2. 0 \in N
  BY <1>1
<1>3. ASSUME NEW n \in Nat, n \in N PROVE n + 1 \in N
  <2> SUFFICES ASSUME n + 1 <= Len(items) PROVE f[n + 1] \in Nat
    OBVIOUS
  <2>1. n + 1 \in 1 .. Len(items) /\ (n + 1) - 1 = n /\ f[n] \in Nat
    BY <1>3
  <2>2. f[n + 1] = Read(items[n + 1], f[n])
    BY <1>1, <2>1
  <2> QED
    BY <2>1, <2>2, ReadIsNumber
<1> HIDE DEF N
<1>4. \A n \in Nat : n \in N
  BY <1>2, <1>3, Induction
<1>5. \A k \in 1 .. Len(items) : f[k] \in Nat
  BY <1>4 DEF N
<1>6. Reads(items) = [k \in 1 .. Len(items) |-> f[k]] /\ Len(items) \in Nat
  BY <1>1
<1>7. Reads(items) \in Seq(Nat) /\ Len(Reads(items)) = Len(items)
  BY <1>5, <1>6
<1>8. LastRead(items) \in Nat
  <2>1. CASE items = <<>>
    BY <2>1, Zenon DEF LastRead
  <2>2. CASE items # <<>>
    <3>1. Len(items) \in 1 .. Len(items)
      BY <2>2
    <3>2. Reads(items)[Len(items)] \in Nat
      BY <1>5, <1>6, <3>1
    <3>3. LastRead(items) = Reads(items)[Len(items)]
      BY <1>7, <2>2, Zenon DEF LastRead, Last
    <3> QED
      BY <3>2, <3>3
  <2> QED
    BY <2>1, <2>2
<1> QED
  BY <1>7, <1>8

(* One more item: the others read what they read. *)
LEMMA ReadsAppend ==
  ASSUME NEW S, NEW items \in Seq(S), NEW x \in S
  PROVE  Reads(Append(items, x)) = Append(Reads(items), Read(x, LastRead(items)))
<1> DEFINE more == Append(items, x)
           n == Len(items)
<1>1. /\ more \in Seq(S) /\ Len(more) = n + 1 /\ n \in Nat /\ more[n + 1] = x
      /\ \A k \in 1 .. n : more[k] = items[k]
  OBVIOUS
<1> HIDE DEF more
<1>2. PICK f : /\ f[0] = 0
               /\ \A k \in 1 .. Len(items) : f[k] = Read(items[k], f[k - 1])
               /\ Reads(items) = [k \in DOMAIN items |-> f[k]]
  BY ReadsAre
<1>3. PICK g : /\ g[0] = 0
               /\ \A k \in 1 .. Len(more) : g[k] = Read(more[k], g[k - 1])
               /\ Reads(more) = [k \in DOMAIN more |-> g[k]]
  BY <1>1, ReadsAre
<1> DEFINE N == { k \in Nat : k <= n => f[k] = g[k] }
<1>4. 0 \in N
  BY <1>2, <1>3
<1>5. ASSUME NEW k \in Nat, k \in N PROVE k + 1 \in N
  <2> SUFFICES ASSUME k + 1 <= n PROVE f[k + 1] = g[k + 1]
    OBVIOUS
  <2>1. /\ k + 1 \in 1 .. Len(items) /\ k + 1 \in 1 .. Len(more) /\ (k + 1) - 1 = k
        /\ f[k] = g[k] /\ more[k + 1] = items[k + 1]
    BY <1>1, <1>5
  <2>2. f[k + 1] = Read(items[k + 1], f[k]) /\ g[k + 1] = Read(more[k + 1], g[k])
    BY <1>2, <1>3, <2>1
  <2> QED
    BY <2>1, <2>2
<1> HIDE DEF N
<1>6. \A k \in Nat : k \in N
  BY <1>4, <1>5, Induction
<1>7. \A k \in 0 .. n : f[k] = g[k]
  BY <1>1, <1>6 DEF N
<1>8. Reads(items) = [k \in 1 .. n |-> f[k]] /\ Reads(more) = [k \in 1 .. n + 1 |-> g[k]]
  BY <1>1, <1>2, <1>3
<1>9. LastRead(items) = f[n]
  BY <1>1, <1>2, <1>8 DEF LastRead, Last
<1>10. g[n + 1] = Read(x, f[n])
  <2>1. n + 1 \in 1 .. Len(more) /\ (n + 1) - 1 = n /\ n \in 0 .. n
    BY <1>1
  <2> QED
    BY <1>1, <1>3, <1>7, <2>1
<1>11. Reads(items) \in Seq(Nat) /\ Len(Reads(items)) = n
  BY ReadsAreNumbers
<1>12. Reads(more) \in Seq(Nat) /\ Len(Reads(more)) = n + 1
  BY <1>1, ReadsAreNumbers
<1> DEFINE r == Reads(items)
           q == Reads(more)
           y == Read(x, LastRead(items))
<1>13. q[n + 1] = y /\ \A k \in 1 .. n : q[k] = r[k]
  <2>1. y = Read(x, f[n])
    BY <1>9, Zenon
  <2>2. n + 1 \in 1 .. n + 1 /\ \A k \in 1 .. n : k \in 1 .. n + 1 /\ k \in 0 .. n
    BY <1>1
  <2>3. r = [k \in 1 .. n |-> f[k]] /\ q = [k \in 1 .. n + 1 |-> g[k]]
    BY <1>8
  <2> HIDE DEF r, q, y
  <2> QED
    BY <1>7, <1>10, <2>1, <2>2, <2>3
<1>14. r \in Seq(Nat) /\ Len(r) = n /\ q \in Seq(Nat) /\ Len(q) = n + 1
  BY <1>11, <1>12
<1>15. y \in Nat
  BY ReadIsNumber, ReadsAreNumbers, Zenon
<1> HIDE DEF r, q, y
<1>16. q = Append(r, y)
  BY <1>1, <1>13, <1>14, <1>15
<1> QED
  BY <1>16 DEF r, q, y, more

(* A list of texts of which each is the one before and a piece more.       *)
LEMMA FlattenStep ==
  ASSUME NEW S, NEW s \in Seq(Seq(S)), NEW k \in 1 .. Len(s)
  PROVE  FlattenSeq([j \in 1 .. k |-> s[j]]) = FlattenSeq([j \in 1 .. k - 1 |-> s[j]]) \o s[k]
<1> DEFINE a == [j \in 1 .. k - 1 |-> s[j]]
           b == [j \in 1 .. k |-> s[j]]
<1>1. k \in Nat /\ k - 1 \in Nat /\ Len(s) \in Nat /\ s[k] \in Seq(S)
  OBVIOUS
<1>2. a \in Seq(Seq(S)) /\ Len(a) = k - 1 /\ \A j \in 1 .. k - 1 : a[j] = s[j]
  BY <1>1
<1>3. b \in Seq(Seq(S)) /\ Len(b) = k /\ \A j \in 1 .. k : b[j] = s[j]
  BY <1>1
<1> HIDE DEF a, b
<1>4. b = Append(a, s[k])
  <2> DEFINE c == Append(a, s[k])
  <2>1. /\ c \in Seq(Seq(S)) /\ Len(c) = k /\ c[k] = s[k]
        /\ \A j \in 1 .. k - 1 : c[j] = a[j]
    BY <1>1, <1>2
  <2> HIDE DEF c
  <2>2. \A j \in 1 .. k : b[j] = c[j]
    <3> SUFFICES ASSUME NEW j \in 1 .. k PROVE b[j] = c[j]
      OBVIOUS
    <3>1. j = k \/ j \in 1 .. k - 1
      BY <1>1
    <3> QED
      BY <1>2, <1>3, <2>1, <3>1
  <2>3. b = c
    BY <1>3, <2>1, <2>2, SeqEqual
  <2> QED
    BY <2>3 DEF c
<1>5. FlattenSeq(Append(a, s[k])) = FlattenSeq(a) \o s[k]
  BY <1>1, <1>2, FlattenAppend
<1> QED
  BY <1>4, <1>5 DEF a, b

(* The concatenation of a prefix has the elements of its parts.            *)
LEMMA FlattenIsSeq ==
  ASSUME NEW S, NEW s \in Seq(Seq(S)), NEW k \in 0 .. Len(s)
  PROVE  FlattenSeq([j \in 1 .. k |-> s[j]]) \in Seq(S)
<1> DEFINE Text(i) == FlattenSeq([j \in 1 .. i |-> s[j]])
           N == { i \in Nat : i <= Len(s) => Text(i) \in Seq(S) }
<1>1. 0 \in N
  <2>1. Text(0) = <<>>
    BY DEF FlattenSeq
  <2>2. <<>> \in Seq(S)
    OBVIOUS
  <2> HIDE DEF Text
  <2> QED
    BY <2>1, <2>2
<1>2. ASSUME NEW i \in Nat, i \in N PROVE i + 1 \in N
  <2> SUFFICES ASSUME i + 1 <= Len(s) PROVE Text(i + 1) \in Seq(S)
    OBVIOUS
  <2>1. i + 1 \in 1 .. Len(s) /\ (i + 1) - 1 = i /\ Text(i) \in Seq(S) /\ s[i + 1] \in Seq(S)
    BY <1>2
  <2>2. Text(i + 1) = Text((i + 1) - 1) \o s[i + 1]
    BY <2>1, FlattenStep
  <2>3. Text(i) \o s[i + 1] \in Seq(S)
    BY <2>1, ConcatProperties
  <2> HIDE DEF Text
  <2> QED
    BY <2>1, <2>2, <2>3
<1> HIDE DEF N
<1>3. \A i \in Nat : i \in N
  BY <1>1, <1>2, Induction
<1> QED
  BY <1>3 DEF N

(* Each of these texts begins with those before it. *)
LEMMA FlattenPrefix ==
  ASSUME NEW S, NEW s \in Seq(Seq(S)), NEW k \in 0 .. Len(s)
  PROVE  LET Text(i) == FlattenSeq([j \in 1 .. i |-> s[j]])
         IN  \A i \in k .. Len(s) :
               /\ Len(Text(k)) <= Len(Text(i))
               /\ \A p \in 1 .. Len(Text(k)) : Text(i)[p] = Text(k)[p]
<1> DEFINE Text(i) == FlattenSeq([j \in 1 .. i |-> s[j]])
           Prefix(i) == /\ Len(Text(k)) <= Len(Text(i))
                        /\ \A p \in 1 .. Len(Text(k)) : Text(i)[p] = Text(k)[p]
           N == { i \in Nat : i \in k .. Len(s) => Prefix(i) }
<1>1. \A i \in 0 .. Len(s) : Text(i) \in Seq(S) /\ Len(Text(i)) \in Nat
  BY FlattenIsSeq, LenProperties
<1>2. \A i \in 1 .. Len(s) : Text(i) = Text(i - 1) \o s[i]
  BY FlattenStep
<1> HIDE DEF Text
<1>3. Prefix(k)
  BY <1>1
<1> HIDE DEF Prefix
<1>4. 0 \in N
  BY <1>3
<1>5. ASSUME NEW i \in Nat, i \in N PROVE i + 1 \in N
  <2> SUFFICES ASSUME i + 1 \in k .. Len(s) PROVE Prefix(i + 1)
    OBVIOUS
  <2>1. CASE i + 1 = k
    BY <1>3, <2>1
  <2>2. CASE i + 1 # k
    <3>1. i \in k .. Len(s) /\ i \in 0 .. Len(s) /\ i + 1 \in 1 .. Len(s) /\ (i + 1) - 1 = i
      BY <2>2
    <3>2. Prefix(i)
      BY <1>5, <3>1
    <3>3. Text(i) \in Seq(S) /\ s[i + 1] \in Seq(S) /\ Text(i + 1) = Text(i) \o s[i + 1]
      <4>1. Text(i + 1) = Text((i + 1) - 1) \o s[i + 1]
        BY <1>2, <3>1
      <4>2. Text(i) \in Seq(S) /\ s[i + 1] \in Seq(S)
        BY <1>1, <3>1
      <4> QED
        BY <3>1, <4>1, <4>2
    <3>4. /\ Len(Text(i + 1)) = Len(Text(i)) + Len(s[i + 1])
          /\ \A p \in 1 .. Len(Text(i)) : Text(i + 1)[p] = Text(i)[p]
      BY <3>3, ConcatProperties
    <3>5. Len(Text(k)) \in Nat /\ Len(Text(i)) \in Nat /\ Len(s[i + 1]) \in Nat
      BY <1>1, <3>1, <3>3, LenProperties
    <3> QED
      BY <3>2, <3>4, <3>5 DEF Prefix
  <2> QED
    BY <2>1, <2>2
<1> HIDE DEF N
<1>6. \A i \in Nat : i \in N
  BY <1>4, <1>5, Induction
<1>7. \A i \in k .. Len(s) : Prefix(i)
  BY <1>6 DEF N
<1> QED
  BY <1>7 DEF Prefix, Text

(* Where item i of a list of texts begins in the whole.                    *)
Place(s, i) == Len(FlattenSeq([j \in 1 .. i - 1 |-> s[j]])) + 1

Placed(s, S) ==
  /\ FlattenSeq(s) \in Seq(S)
  /\ Place(s, 1) = 1 /\ Place(s, Len(s) + 1) = Len(FlattenSeq(s)) + 1
  /\ \A i \in 1 .. Len(s) :
       /\ Place(s, i) \in Nat \ {0} /\ Place(s, i + 1) = Place(s, i) + Len(s[i])
       /\ Place(s, i + 1) <= Len(FlattenSeq(s)) + 1
       /\ \A q \in 1 .. Len(s[i]) : FlattenSeq(s)[Place(s, i) + q - 1] = s[i][q]

(* Each text is found in the whole where the texts before it end.          *)
LEMMA FlattenPlaces ==
  ASSUME NEW S, NEW s \in Seq(Seq(S))
  PROVE  Placed(s, S)
<1> DEFINE Text(i) == FlattenSeq([j \in 1 .. i |-> s[j]])
<1>1. Len(s) \in Nat /\ s = [j \in 1 .. Len(s) |-> s[j]]
  OBVIOUS
<1>2. FlattenSeq(s) = Text(Len(s))
  BY <1>1, Zenon
<1>3. \A i \in 0 .. Len(s) : Text(i) \in Seq(S) /\ Len(Text(i)) \in Nat
  BY FlattenIsSeq, LenProperties
<1>4. \A i \in 1 .. Len(s) : Text(i) = Text(i - 1) \o s[i]
  BY FlattenStep
<1>5. \A i \in 0 .. Len(s) :
        /\ Len(Text(i)) <= Len(Text(Len(s)))
        /\ \A p \in 1 .. Len(Text(i)) : Text(Len(s))[p] = Text(i)[p]
  <2> SUFFICES ASSUME NEW i \in 0 .. Len(s)
               PROVE  /\ Len(Text(i)) <= Len(Text(Len(s)))
                      /\ \A p \in 1 .. Len(Text(i)) : Text(Len(s))[p] = Text(i)[p]
    OBVIOUS
  <2>1. Len(s) \in i .. Len(s)
    BY <1>1
  <2>2. \A m \in i .. Len(s) :
           /\ Len(Text(i)) <= Len(Text(m))
           /\ \A p \in 1 .. Len(Text(i)) : Text(m)[p] = Text(i)[p]
    BY FlattenPrefix
  <2> HIDE DEF Text
  <2> QED
    BY <2>1, <2>2
<1>6. \A i : Place(s, i) = Len(Text(i - 1)) + 1
  BY Zenon DEF Place
<1>7. Text(0) = <<>>
  BY DEF FlattenSeq
<1> HIDE DEF Text
<1>8. Place(s, 1) = 1
  <2>1. Place(s, 1) = Len(Text(1 - 1)) + 1 /\ 1 - 1 = 0
    BY <1>6
  <2> QED
    BY <1>7, <2>1
<1>9. Place(s, Len(s) + 1) = Len(Text(Len(s))) + 1
  <2>1. Place(s, Len(s) + 1) = Len(Text((Len(s) + 1) - 1)) + 1 /\ (Len(s) + 1) - 1 = Len(s)
    BY <1>1, <1>6
  <2> QED
    BY <2>1
<1>10. ASSUME NEW i \in 1 .. Len(s)
       PROVE  /\ Place(s, i) \in Nat \ {0} /\ Place(s, i + 1) = Place(s, i) + Len(s[i])
              /\ Place(s, i + 1) <= Len(Text(Len(s))) + 1
              /\ \A q \in 1 .. Len(s[i]) : Text(Len(s))[Place(s, i) + q - 1] = s[i][q]
  <2> DEFINE t == Text(i - 1)
             u == Text(i)
             v == Text(Len(s))
             x == s[i]
  <2>1. i - 1 \in 0 .. Len(s) /\ i \in 0 .. Len(s) /\ x \in Seq(S) /\ (i + 1) - 1 = i
    OBVIOUS
  <2>2. t \in Seq(S) /\ Len(t) \in Nat /\ u = t \o x /\ Len(x) \in Nat
    BY <1>3, <1>4, <2>1, LenProperties
  <2>3. Len(u) <= Len(v) /\ \A p \in 1 .. Len(u) : v[p] = u[p]
    BY <1>5, <2>1
  <2>4. Place(s, i) = Len(t) + 1
    BY <1>6
  <2>5. Place(s, i + 1) = Len(u) + 1
    <3>1. Place(s, i + 1) = Len(Text((i + 1) - 1)) + 1
      BY <1>6
    <3> QED
      BY <2>1, <3>1
  <2> HIDE DEF t, u, v, x
  <2>6. /\ Len(u) = Len(t) + Len(x)
        /\ \A p \in 1 .. Len(t) + Len(x) :
             u[p] = IF p <= Len(t) THEN t[p] ELSE x[p - Len(t)]
    BY <2>1, <2>2, ConcatProperties
  <2>7. ASSUME NEW q \in 1 .. Len(x) PROVE v[Place(s, i) + q - 1] = x[q]
    <3>1. /\ Place(s, i) + q - 1 = Len(t) + q /\ Len(t) + q \in 1 .. Len(t) + Len(x)
          /\ ~ (Len(t) + q <= Len(t)) /\ (Len(t) + q) - Len(t) = q
      BY <2>2, <2>4
    <3>2. u[Len(t) + q] = x[q]
      BY <2>6, <3>1
    <3> QED
      BY <2>3, <2>6, <3>1, <3>2
  <2>8. Len(v) \in Nat /\ Len(u) \in Nat
    BY <1>1, <1>3, <2>1 DEF u, v
  <2>9. /\ Place(s, i) \in Nat \ {0} /\ Place(s, i + 1) = Place(s, i) + Len(x)
        /\ Place(s, i + 1) <= Len(v) + 1
    BY <2>2, <2>3, <2>4, <2>5, <2>6, <2>8
  <2> QED
    BY <2>7, <2>9 DEF v, x
<1>11. Text(Len(s)) \in Seq(S)
  BY <1>1, <1>3
<1> QED
  BY <1>2, <1>8, <1>9, <1>10, <1>11 DEF Placed

(* The ten fields of a directive, and as the pieces of its text. *)
Fields(d) ==
  <<"~", "%", d.flag, d.index, d.width, d.dot, d.dotIndex, d.dotNum, d.verbIndex, d.verb>>
Words(d) == { Fields(d)[i] : i \in 1 .. 10 }
FieldTexts(d) == [i \in 1 .. 10 |-> Part(Fields(d)[i])]

(* A part of a directive is one token, or none.                            *)
LEMMA PartIsSeq ==
  ASSUME NEW S, NEW p \in S
  PROVE  /\ Part(p) \in Seq(S)
         /\ p = "" => Len(Part(p)) = 0
         /\ p # "" => Len(Part(p)) = 1 /\ Part(p)[1] = p
<1>1. Part(p) = IF p = "" THEN <<>> ELSE <<p>>
  BY DEF Part
<1>2. <<>> \in Seq(S) /\ Len(<<>>) = 0
  OBVIOUS
<1>3. <<p>> \in Seq(S) /\ Len(<<p>>) = 1 /\ <<p>>[1] = p
  OBVIOUS
<1> QED
  BY <1>1, <1>2, <1>3

(* The tokens of a directive are those of its ten fields, one after the    *)
(* other.                                                                  *)
LEMMA TokensAre == \A d : Tokens(d) = FlattenSeq(FieldTexts(d))
<1> SUFFICES ASSUME NEW d PROVE Tokens(d) = FlattenSeq(FieldTexts(d))
  OBVIOUS
<1> DEFINE S == Words(d)
           s == FieldTexts(d)
           Text(i) == FlattenSeq([j \in 1 .. i |-> s[j]])
<1>1. \A i \in 1 .. 10 : Fields(d)[i] \in S /\ s[i] = Part(Fields(d)[i])
  BY DEF Words, FieldTexts
<1>2. \A i \in 1 .. 10 : s[i] \in Seq(S)
  BY <1>1, PartIsSeq
<1>3. s \in Seq(Seq(S)) /\ Len(s) = 10 /\ s = [j \in 1 .. 10 |-> s[j]]
  <2>1. s = [j \in 1 .. 10 |-> s[j]]
    BY DEF FieldTexts
  <2> HIDE DEF s
  <2> QED
    BY <1>2, <2>1
<1>4. \A i \in 1 .. 10 : \A j \in 0 .. 9 : i = j + 1 => Text(i) = Text(j) \o s[i]
  <2> SUFFICES ASSUME NEW i \in 1 .. 10, NEW j \in 0 .. 9, i = j + 1
               PROVE  Text(i) = Text(j) \o s[i]
    OBVIOUS
  <2>1. Text(i) = Text(i - 1) \o s[i]
    <3> HIDE DEF s
    <3> QED
      BY <1>3, FlattenStep
  <2>2. i - 1 = j
    OBVIOUS
  <2> HIDE DEF Text, s
  <2> QED
    BY <2>1, <2>2
<1>5. Text(0) = <<>> /\ Text(10) = FlattenSeq(s)
  <2>1. Text(10) = FlattenSeq(s)
    BY <1>3, Zenon
  <2>2. [j \in 1 .. 0 |-> s[j]] = <<>>
    OBVIOUS
  <2>3. Text(0) = <<>>
    BY <2>2, FlattenEmpty
  <2> QED
    BY <2>1, <2>3
<1>6. /\ s[1] = <<"~">> /\ s[2] = <<"%">> /\ s[3] = Part(d.flag) /\ s[4] = Part(d.index)
      /\ s[5] = Part(d.width) /\ s[6] = Part(d.dot) /\ s[7] = Part(d.dotIndex)
      /\ s[8] = Part(d.dotNum) /\ s[9] = Part(d.verbIndex) /\ s[10] = Part(d.verb)
  <2>1. Part("~") = <<"~">> /\ Part("%") = <<"%">>
    BY DEF Part
  <2> QED
    BY <1>1, <2>1 DEF Fields
<1> HIDE DEF s, Text, S
<1>7. Text(2) = <<"~", "%">>
  <2>1. Text(1) = Text(0) \o s[1] /\ Text(2) = Text(1) \o s[2]
    <3>1. 1 \in 1 .. 10 /\ 2 \in 1 .. 10 /\ 0 \in 0 .. 9 /\ 1 \in 0 .. 9 /\ 1 = 0 + 1 /\ 2 = 1 + 1
      OBVIOUS
    <3> QED
      BY <1>4, <3>1, Zenon
  <2>2. Text(1) = <<"~">>
    BY <1>5, <1>6, <2>1
  <2>3. <<"~">> \o <<"%">> = <<"~", "%">>
    <3> DEFINE A == {"~", "%"}
               a == <<"~">>
               b == <<"%">>
               ab == <<"~", "%">>
    <3>1. a \in Seq(A) /\ b \in Seq(A) /\ Len(a) = 1 /\ Len(b) = 1
      OBVIOUS
    <3>2. ab \in Seq(A) /\ Len(ab) = 2 /\ ab[1] = a[1] /\ ab[2] = b[1]
      OBVIOUS
    <3> HIDE DEF A, a, b, ab
    <3>3. /\ a \o b \in Seq(A) /\ Len(a \o b) = 2
          /\ (a \o b)[1] = a[1] /\ (a \o b)[2] = b[1]
      <4>1. /\ a \o b \in Seq(A) /\ Len(a \o b) = Len(a) + Len(b)
            /\ \A i \in 1 .. Len(a) + Len(b) :
                 (a \o b)[i] = IF i <= Len(a) THEN a[i] ELSE b[i - Len(a)]
        BY <3>1, ConcatProperties
      <4> QED
        BY <3>1, <4>1
    <3>4. \A i \in 1 .. Len(ab) : ab[i] = (a \o b)[i]
      BY <3>2, <3>3
    <3>5. ab = a \o b
      BY <3>2, <3>3, <3>4, SeqEqual
    <3> QED
      BY <3>5 DEF a, b, ab
  <2> QED
    BY <1>6, <2>1, <2>2, <2>3
<1>8. /\ Text(3) = Text(2) \o s[3] /\ Text(4) = Text(3) \o s[4] /\ Text(5) = Text(4) \o s[5]
      /\ Text(6) = Text(5) \o s[6] /\ Text(7) = Text(6) \o s[7] /\ Text(8) = Text(7) \o s[8]
      /\ Text(9) = Text(8) \o s[9] /\ Text(10) = Text(9) \o s[10]
  <2>1. /\ 3 = 2 + 1 /\ 4 = 3 + 1 /\ 5 = 4 + 1 /\ 6 = 5 + 1 /\ 7 = 6 + 1 /\ 8 = 7 + 1
        /\ 9 = 8 + 1 /\ 10 = 9 + 1
        /\ \A i \in {3, 4, 5, 6, 7, 8, 9, 10} : i \in 1 .. 10
        /\ \A j \in {2, 3, 4, 5, 6, 7, 8, 9} : j \in 0 .. 9
    OBVIOUS
  <2> QED
    BY <1>4, <2>1, Zenon
<1> QED
  BY <1>5, <1>6, <1>7, <1>8, Zenon DEF Tokens, s

(* The text of each directive, and where its field i begins in the format. *)
Texts(ds) == [k \in DOMAIN ds |-> Tokens(ds[k])]
Start(ds, k) == Place(Texts(ds), k)
Where(ds, k, i) == Start(ds, k) + Place(FieldTexts(ds[k]), i) - 1

FieldsFit(d) ==
  /\ Place(FieldTexts(d), 1) = 1 /\ Place(FieldTexts(d), 11) = Len(Tokens(d)) + 1
  /\ \A i \in 1 .. 10 :
       /\ Place(FieldTexts(d), i) \in Nat \ {0} /\ Place(FieldTexts(d), i + 1) \in Nat \ {0}
       /\ Place(FieldTexts(d), i) <= Len(Tokens(d)) + 1
       /\ Fields(d)[i] = "" => Place(FieldTexts(d), i + 1) = Place(FieldTexts(d), i)
       /\ Fields(d)[i] # "" =>
            /\ Place(FieldTexts(d), i + 1) = Place(FieldTexts(d), i) + 1
            /\ Place(FieldTexts(d), i) \in 1 .. Len(Tokens(d))
            /\ Tokens(d)[Place(FieldTexts(d), i)] = Fields(d)[i]

(* Where the fields of a directive are in its own text.                    *)
LEMMA FieldPlaces == \A d : Tokens(d) \in Seq(Words(d)) /\ FieldsFit(d)
<1> SUFFICES ASSUME NEW d PROVE Tokens(d) \in Seq(Words(d)) /\ FieldsFit(d)
  OBVIOUS
<1> DEFINE s == FieldTexts(d)
           t == Tokens(d)
           P(i) == Place(s, i)
           S == Words(d)
<1>1. t = FlattenSeq(s)
  BY TokensAre
<1>2. \A i \in 1 .. 10 : s[i] = Part(Fields(d)[i]) /\ Fields(d)[i] \in S
  BY DEF FieldTexts, Words
<1>3. \A i \in 1 .. 10 :
        /\ s[i] \in Seq(S)
        /\ Fields(d)[i] = "" => Len(s[i]) = 0
        /\ Fields(d)[i] # "" => Len(s[i]) = 1 /\ s[i][1] = Fields(d)[i]
  BY <1>2, PartIsSeq
<1>4. s \in Seq(Seq(S)) /\ Len(s) = 10
  <2>1. s = [j \in 1 .. 10 |-> s[j]]
    BY DEF FieldTexts
  <2>2. \A i \in 1 .. 10 : s[i] \in Seq(S)
    BY <1>3
  <2> HIDE DEF s
  <2> QED
    BY <2>1, <2>2
<1> HIDE DEF s, t
<1>5. /\ t \in Seq(S) /\ P(1) = 1 /\ P(Len(s) + 1) = Len(t) + 1
      /\ \A i \in 1 .. Len(s) :
           /\ P(i) \in Nat \ {0} /\ P(i + 1) = P(i) + Len(s[i]) /\ P(i + 1) <= Len(t) + 1
           /\ \A q \in 1 .. Len(s[i]) : t[P(i) + q - 1] = s[i][q]
  <2>1. Placed(s, S)
    BY <1>4, FlattenPlaces, Zenon
  <2> QED
    BY <1>1, <2>1, Zenon DEF Placed
<1>6. P(11) = Len(t) + 1 /\ Len(t) \in Nat
  <2>1. Len(s) + 1 = 11
    BY <1>4
  <2>2. Len(t) \in Nat
    BY <1>5, LenProperties
  <2> HIDE DEF P
  <2> QED
    BY <1>5, <2>1, <2>2
<1> HIDE DEF P
<1>7. ASSUME NEW i \in 1 .. 10
      PROVE  /\ P(i) \in Nat \ {0} /\ P(i + 1) \in Nat \ {0} /\ P(i) <= Len(t) + 1
             /\ Fields(d)[i] = "" => P(i + 1) = P(i)
             /\ Fields(d)[i] # "" =>
                  P(i + 1) = P(i) + 1 /\ P(i) \in 1 .. Len(t) /\ t[P(i)] = Fields(d)[i]
  <2>1. /\ P(i) \in Nat \ {0} /\ P(i + 1) = P(i) + Len(s[i]) /\ P(i + 1) <= Len(t) + 1
        /\ \A q \in 1 .. Len(s[i]) : t[P(i) + q - 1] = s[i][q]
    BY <1>4, <1>5
  <2>2. CASE Fields(d)[i] = ""
    <3>1. Len(s[i]) = 0
      BY <1>3, <2>2
    <3>2. P(i) \in Nat \ {0} /\ P(i + 1) = P(i) + Len(s[i]) /\ P(i + 1) <= Len(t) + 1
      BY <2>1
    <3>3. P(i + 1) = P(i)
      BY <3>1, <3>2
    <3> QED
      BY <2>2, <3>2, <3>3
  <2>3. CASE Fields(d)[i] # ""
    <3>1. Len(s[i]) = 1 /\ s[i][1] = Fields(d)[i]
      BY <1>3, <2>3
    <3>2. 1 \in 1 .. Len(s[i]) /\ P(i) + 1 - 1 = P(i)
      BY <2>1, <3>1
    <3>3. t[P(i)] = Fields(d)[i]
      <4>1. t[P(i) + 1 - 1] = s[i][1]
        BY <2>1, <3>2
      <4> QED
        BY <3>1, <3>2, <4>1
    <3>4. /\ P(i) \in Nat \ {0} /\ P(i + 1) \in Nat \ {0} /\ P(i + 1) = P(i) + 1
          /\ P(i) <= Len(t) + 1 /\ P(i) \in 1 .. Len(t)
      BY <1>6, <2>1, <3>1
    <3> QED
      BY <2>3, <3>3, <3>4
  <2> QED
    BY <2>2, <2>3
<1> QED
  BY <1>5, <1>6, <1>7, Zenon DEF FieldsFit, P, s, t

FieldFits(ds, k, i) ==
  /\ Where(ds, k, i) \in Nat \ {0} /\ Where(ds, k, i + 1) \in Nat \ {0}
  /\ Where(ds, k, i) <= Len(Render(ds)) + 1
  /\ Fields(ds[k])[i] = "" => Where(ds, k, i + 1) = Where(ds, k, i)
  /\ Fields(ds[k])[i] # "" =>
       /\ Where(ds, k, i + 1) = Where(ds, k, i) + 1
       /\ Where(ds, k, i) <= Len(Render(ds))
       /\ Render(ds)[Where(ds, k, i)] = Fields(ds[k])[i]

(* Where the directives and their fields are in the rendered format.       *)
LEMMA Places ==
  ASSUME NEW D, NEW ds \in Seq(D)
  PROVE  /\ Len(Render(ds)) \in Nat /\ Start(ds, 1) = 1
         /\ Start(ds, Len(ds) + 1) = Len(Render(ds)) + 1
         /\ \A k \in 1 .. Len(ds) :
              /\ Start(ds, k) \in Nat \ {0}
              /\ Where(ds, k, 1) = Start(ds, k) /\ Where(ds, k, 11) = Start(ds, k + 1)
              /\ \A i \in 1 .. 10 : FieldFits(ds, k, i)
<1> DEFINE S == UNION { Words(ds[k]) : k \in 1 .. Len(ds) }
           s == Texts(ds)
           t == Render(ds)
           P(k) == Place(s, k)
<1>1. t = FlattenSeq(s)
  BY Zenon DEF Render, Texts
<1>2. \A k \in 1 .. Len(ds) : Words(ds[k]) \subseteq S
  OBVIOUS
<1> HIDE DEF S
<1>3. \A k \in 1 .. Len(ds) : Tokens(ds[k]) \in Seq(S)
  BY <1>2, FieldPlaces, SeqMonotonic
<1>4. s \in Seq(Seq(S)) /\ Len(s) = Len(ds) /\ \A k \in 1 .. Len(ds) : s[k] = Tokens(ds[k])
  BY <1>3 DEF Texts
<1> HIDE DEF s, t
<1>5. /\ t \in Seq(S) /\ P(1) = 1 /\ P(Len(s) + 1) = Len(t) + 1
      /\ \A k \in 1 .. Len(s) :
           /\ P(k) \in Nat \ {0} /\ P(k + 1) = P(k) + Len(s[k]) /\ P(k + 1) <= Len(t) + 1
           /\ \A q \in 1 .. Len(s[k]) : t[P(k) + q - 1] = s[k][q]
  <2>1. Placed(s, S)
    BY <1>4, FlattenPlaces, Zenon
  <2> QED
    BY <1>1, <2>1, Zenon DEF Placed
<1>6. Len(t) \in Nat
  BY <1>5, LenProperties
<1>7. \A k : Start(ds, k) = P(k)
  BY DEF Start, s
<1> HIDE DEF P
<1>8. ASSUME NEW k \in 1 .. Len(ds)
      PROVE  /\ Start(ds, k) \in Nat \ {0}
             /\ Where(ds, k, 1) = Start(ds, k) /\ Where(ds, k, 11) = Start(ds, k + 1)
             /\ \A i \in 1 .. 10 : FieldFits(ds, k, i)
  <2> DEFINE x == Tokens(ds[k])
             Q(i) == Place(FieldTexts(ds[k]), i)
             F(i) == Fields(ds[k])[i]
  <2>1. /\ x \in Seq(S) /\ Q(1) = 1 /\ Q(11) = Len(x) + 1
        /\ \A i \in 1 .. 10 :
              /\ Q(i) \in Nat \ {0} /\ Q(i + 1) \in Nat \ {0} /\ Q(i) <= Len(x) + 1
              /\ F(i) = "" => Q(i + 1) = Q(i)
              /\ F(i) # "" => Q(i + 1) = Q(i) + 1 /\ Q(i) \in 1 .. Len(x) /\ x[Q(i)] = F(i)
    <3>1. FieldsFit(ds[k]) /\ Tokens(ds[k]) \in Seq(S)
      BY <1>3, FieldPlaces, Zenon
    <3> QED
      BY <3>1, Zenon DEF FieldsFit
  <2>2. Len(x) \in Nat
    BY <2>1, LenProperties
  <2>3. /\ P(k) \in Nat \ {0} /\ P(k + 1) = P(k) + Len(x) /\ P(k + 1) <= Len(t) + 1
        /\ \A q \in 1 .. Len(x) : t[P(k) + q - 1] = x[q]
    BY <1>4, <1>5
  <2>4. \A i : Where(ds, k, i) = P(k) + Q(i) - 1
    BY <1>7, Zenon DEF Where
  <2> HIDE DEF x, Q, F
  <2>5. Where(ds, k, 1) = P(k) /\ Where(ds, k, 11) = P(k + 1)
    <3>1. Where(ds, k, 1) = P(k) + Q(1) - 1 /\ Where(ds, k, 11) = P(k) + Q(11) - 1
      BY <2>4, Zenon
    <3>2. Q(1) = 1 /\ Q(11) = Len(x) + 1
      BY <2>1
    <3>3. P(k) \in Nat /\ P(k + 1) = P(k) + Len(x)
      BY <2>3
    <3> QED
      BY <2>2, <3>1, <3>2, <3>3
  <2>6. ASSUME NEW i \in 1 .. 10
        PROVE  /\ Where(ds, k, i) \in Nat \ {0} /\ Where(ds, k, i + 1) \in Nat \ {0}
               /\ Where(ds, k, i) <= Len(t) + 1
               /\ F(i) = "" => Where(ds, k, i + 1) = Where(ds, k, i)
               /\ F(i) # "" =>
                        /\ Where(ds, k, i + 1) = Where(ds, k, i) + 1
                        /\ Where(ds, k, i) <= Len(t)
                        /\ t[Where(ds, k, i)] = F(i)
    <3>1. /\ Q(i) \in Nat \ {0} /\ Q(i + 1) \in Nat \ {0} /\ Q(i) <= Len(x) + 1
          /\ F(i) = "" => Q(i + 1) = Q(i)
          /\ F(i) # "" => Q(i + 1) = Q(i) + 1 /\ Q(i) \in 1 .. Len(x) /\ x[Q(i)] = F(i)
      BY <2>1
    <3>2. Where(ds, k, i) = P(k) + Q(i) - 1 /\ Where(ds, k, i + 1) = P(k) + Q(i + 1) - 1
      BY <2>4
    <3>3. F(i) # "" => t[P(k) + Q(i) - 1] = F(i)
      BY <2>3, <3>1
    <3> QED
      <4> DEFINE w == Where(ds, k, i)
                 v == Where(ds, k, i + 1)
      <4>1. w = P(k) + Q(i) - 1 /\ v = P(k) + Q(i + 1) - 1
        BY <3>2
      <4> HIDE DEF w, v
      <4>2. P(k) \in Nat \ {0} /\ P(k) + Len(x) <= Len(t) + 1
        BY <2>3
      <4>3. /\ w \in Nat \ {0} /\ v \in Nat \ {0} /\ w <= Len(t) + 1
            /\ F(i) = "" => v = w
            /\ F(i) # "" => v = w + 1 /\ w <= Len(t)
        <5>1. /\ Q(i) \in Nat \ {0} /\ Q(i + 1) \in Nat \ {0} /\ Q(i) <= Len(x) + 1
              /\ Len(x) \in Nat /\ Len(t) \in Nat
          BY <1>6, <2>2, <3>1
        <5>2. w \in Nat \ {0} /\ v \in Nat \ {0} /\ w <= Len(t) + 1
          <6>1. ASSUME NEW p \in Nat \ {0}, NEW a \in Nat \ {0}, NEW l \in Nat, NEW m \in Nat,
                       p + l <= m + 1, a <= l + 1
                PROVE  p + a - 1 \in Nat \ {0} /\ p + a - 1 <= m + 1
            BY <6>1
          <6>2. ASSUME NEW p \in Nat \ {0}, NEW a \in Nat \ {0}
                PROVE  p + a - 1 \in Nat \ {0}
            OBVIOUS
          <6>3. w \in Nat \ {0} /\ w <= Len(t) + 1
            <7> HIDE DEF Q
            <7> QED
              BY <4>1, <4>2, <5>1, <6>1
          <6>4. v \in Nat \ {0}
            <7> HIDE DEF Q
            <7> QED
              BY <4>1, <4>2, <5>1, <6>2
          <6> QED
            BY <6>3, <6>4
        <5>3. ASSUME F(i) = "" PROVE v = w
          BY <3>1, <4>1, <5>3
        <5>4. ASSUME F(i) # "" PROVE v = w + 1 /\ w <= Len(t)
          <6>1. Q(i + 1) = Q(i) + 1 /\ Q(i) <= Len(x)
            <7>1. Q(i + 1) = Q(i) + 1 /\ Q(i) \in 1 .. Len(x)
              BY <3>1, <5>4, Zenon
            <7> QED
              BY <2>2, <7>1
          <6>2. ASSUME NEW p \in Nat, NEW a \in Nat, NEW b \in Nat, NEW l \in Nat, NEW m \in Nat,
                       p + l <= m + 1, b = a + 1, a <= l
                PROVE  p + b - 1 = (p + a - 1) + 1 /\ p + a - 1 <= m
            BY <6>2
          <6>3. /\ P(k) + Q(i + 1) - 1 = (P(k) + Q(i) - 1) + 1
                /\ P(k) + Q(i) - 1 <= Len(t)
            <7> HIDE DEF Q
            <7> QED
              BY <4>2, <5>1, <6>1, <6>2
          <6> QED
            BY <4>1, <6>3, Zenon
        <5> QED
          BY <5>2, <5>3, <5>4
      <4> QED
        BY <3>3, <4>1, <4>3 DEF w, v
  <2> QED
    <3>1. \A i \in 1 .. 10 : FieldFits(ds, k, i)
      BY <2>6, Zenon DEF F, t, FieldFits
    <3> QED
      BY <1>7, <2>3, <2>5, <3>1
<1>9. Start(ds, 1) = 1 /\ Start(ds, Len(ds) + 1) = Len(t) + 1
  BY <1>4, <1>5, <1>7
<1> QED
  BY <1>6, <1>8, <1>9 DEF t

(* The rendered format is a sequence.                                      *)
LEMMA RenderIsSeq ==
  ASSUME NEW D, NEW ds \in Seq(D)
  PROVE  DOMAIN Render(ds) = 1 .. Len(Render(ds))
<1> DEFINE S == UNION { Words(ds[k]) : k \in 1 .. Len(ds) }
           s == Texts(ds)
<1>1. Render(ds) = FlattenSeq(s)
  BY Zenon DEF Render, Texts
<1>2. \A k \in 1 .. Len(ds) : Words(ds[k]) \subseteq S
  OBVIOUS
<1> HIDE DEF S
<1>3. \A k \in 1 .. Len(ds) : Tokens(ds[k]) \in Seq(S)
  BY <1>2, FieldPlaces, SeqMonotonic
<1>4. s \in Seq(Seq(S))
  BY <1>3 DEF Texts
<1> HIDE DEF s
<1>5. FlattenSeq(s) \in Seq(S)
  <2>1. Placed(s, S)
    BY <1>4, FlattenPlaces, Zenon
  <2> QED
    BY <2>1, Zenon DEF Placed
<1> QED
  BY <1>1, <1>5

TokenAt(ds, p) == IF p > Len(Render(ds)) THEN "" ELSE Render(ds)[p]

(* The token at the place of field i: the field, or what comes after it.   *)
LEMMA TokenIs ==
  ASSUME NEW D, NEW ds \in Seq(D), NEW k \in 1 .. Len(ds), NEW i \in 1 .. 10
  PROVE  TokenAt(ds, Where(ds, k, i)) =
           IF Fields(ds[k])[i] # "" THEN Fields(ds[k])[i] ELSE TokenAt(ds, Where(ds, k, i + 1))
<1> DEFINE W == Where(ds, k, i)
           V == Where(ds, k, i + 1)
           F == Fields(ds[k])[i]
           t == Render(ds)
<1>1. FieldFits(ds, k, i)
  BY Places, Zenon
<1>2. TokenAt(ds, W) = IF W > Len(t) THEN "" ELSE t[W]
  BY DEF TokenAt
<1>3. W \in Nat /\ Len(t) \in Nat
  BY <1>1, Places DEF FieldFits
<1>4. F = "" => V = W
  BY <1>1, Zenon DEF FieldFits
<1>5. F # "" => W <= Len(t) /\ t[W] = F
  BY <1>1, Zenon DEF FieldFits
<1> HIDE DEF W, V, F, t
<1>6. CASE F = ""
  BY <1>4, <1>6 DEF W, V, F
<1>7. CASE F # ""
  <2>1. W <= Len(t) /\ t[W] = F
    BY <1>5, <1>7, Zenon
  <2>2. ~ (W > Len(t))
    BY <1>3, <2>1
  <2> QED
    BY <1>2, <1>7, <2>1, <2>2, Zenon DEF W, F
<1> QED
  BY <1>6, <1>7

(* After a directive the text before the next one begins, or the end.      *)
LEMMA TokenAfter ==
  ASSUME NEW D, NEW ds \in Seq(D), NEW k \in 1 .. Len(ds)
  PROVE  TokenAt(ds, Where(ds, k, 11)) = IF k < Len(ds) THEN "~" ELSE ""
<1>1. /\ Len(Render(ds)) \in Nat /\ Start(ds, Len(ds) + 1) = Len(Render(ds)) + 1
      /\ Where(ds, k, 11) = Start(ds, k + 1)
  BY Places
<1>2. CASE k < Len(ds)
  <2>1. k + 1 \in 1 .. Len(ds) /\ 1 \in 1 .. 10
    BY <1>2
  <2>2. Where(ds, k + 1, 1) = Start(ds, k + 1)
    BY <2>1, Places
  <2>3. Fields(ds[k + 1])[1] = "~"
    BY DEF Fields
  <2>4. TokenAt(ds, Where(ds, k + 1, 1)) =
          IF Fields(ds[k + 1])[1] # "" THEN Fields(ds[k + 1])[1]
          ELSE TokenAt(ds, Where(ds, k + 1, 1 + 1))
    BY <2>1, TokenIs
  <2> QED
    BY <1>1, <1>2, <2>2, <2>3, <2>4
<1>3. CASE ~ (k < Len(ds))
  <2>1. k + 1 = Len(ds) + 1
    BY <1>3
  <2>2. Where(ds, k, 11) = Len(Render(ds)) + 1
    BY <1>1, <2>1
  <2>3. Len(Render(ds)) + 1 > Len(Render(ds))
    BY <1>1
  <2> QED
    BY <1>3, <2>2, <2>3 DEF TokenAt
<1> QED
  BY <1>2, <1>3

(* The bracket tokens, one by one.                                         *)
LEMMA BracketsAre ==
  /\ Brackets = {"[1]", "[2]", "[3]", "[?]", "["}
  /\ ToSet(IndexTokens) = {"[1]", "[2]", "[3]"}
<1>1. DOMAIN IndexTokens = {1, 2, 3}
  BY DEF IndexTokens
<1>2. ToSet(IndexTokens) = { IndexTokens[i] : i \in {1, 2, 3} }
  BY <1>1 DEF ToSet
<1>3. IndexTokens[1] = "[1]" /\ IndexTokens[2] = "[2]" /\ IndexTokens[3] = "[3]"
  BY DEF IndexTokens
<1>4. ToSet(IndexTokens) = {"[1]", "[2]", "[3]"}
  BY <1>2, <1>3
<1> QED
  BY <1>4 DEF Brackets

(* The fields of a directive. *)
LEMMA FieldsAre ==
  ASSUME NEW d \in Directives
  PROVE  /\ d.flag \in {"", "#", "0", "+", "-", " "}
         /\ d.index \in {"", "[1]", "[2]", "[3]", "[?]", "["}
         /\ d.width \in {"", "9", "*"}
         /\ d.dot \in {"", "."}
         /\ d.dotIndex \in {"", "[1]", "[2]", "[3]", "[?]", "["}
         /\ d.dotNum \in {"", "9", "*"}
         /\ d.verbIndex \in {"", "[1]", "[2]", "[3]", "[?]", "["}
         /\ d.dot = "" => d.dotIndex = "" /\ d.dotNum = ""
         /\ d.verbIndex # "" =>
              IF d.dot = "." THEN d.dotIndex # "" \/ d.dotNum # ""
              ELSE d.index # "" \/ d.width # ""
         /\ d.verb \notin {"#", "0", "+", "-", " ", "[1]", "[2]", "[3]", "[?]", "[", "9", "*", "."}
         /\ VerbOf(d) = d.verb \/ d.verb # "%"
BY BracketsAre DEF Directives, Parts, Flags

(* What stands at the places of a directive.                               *)
Reading(ds, k) ==
  LET d == ds[k]
      W(i) == Where(ds, k, i)
      T(i) == TokenAt(ds, W(i))
  IN  /\ T(1) = "~" /\ W(2) = W(1) + 1
      /\ T(2) = "%" /\ W(3) = W(2) + 1
      /\ T(3) = IF d.flag # "" THEN d.flag ELSE T(4)
      /\ W(4) = IF d.flag # "" THEN W(3) + 1 ELSE W(3)
      /\ T(4) = IF d.index # "" THEN d.index ELSE T(5)
      /\ W(5) = IF d.index # "" THEN W(4) + 1 ELSE W(4)
      /\ T(5) = IF d.width # "" THEN d.width ELSE T(6)
      /\ W(6) = IF d.width # "" THEN W(5) + 1 ELSE W(5)
      /\ T(6) = IF d.dot # "" THEN d.dot ELSE T(7)
      /\ W(7) = IF d.dot # "" THEN W(6) + 1 ELSE W(6)
      /\ T(7) = IF d.dotIndex # "" THEN d.dotIndex ELSE T(8)
      /\ W(8) = IF d.dotIndex # "" THEN W(7) + 1 ELSE W(7)
      /\ T(8) = IF d.dotNum # "" THEN d.dotNum ELSE T(9)
      /\ W(9) = IF d.dotNum # "" THEN W(8) + 1 ELSE W(8)
      /\ T(9) = IF d.verbIndex # "" THEN d.verbIndex ELSE T(10)
      /\ W(10) = IF d.verbIndex # "" THEN W(9) + 1 ELSE W(9)
      /\ T(10) = IF d.verb # "" THEN d.verb ELSE T(11)
      /\ W(11) = IF d.verb # "" THEN W(10) + 1 ELSE W(10)
      /\ T(11) = IF k < Len(ds) THEN "~" ELSE ""

(* So a format reads, field by field, in every directive.                  *)
LEMMA ReadingHolds ==
  ASSUME NEW D, NEW ds \in Seq(D), NEW k \in 1 .. Len(ds)
  PROVE  Reading(ds, k)
<1> DEFINE d == ds[k]
           W(i) == Where(ds, k, i)
           T(i) == TokenAt(ds, W(i))
           F(i) == Fields(d)[i]
<1>1. \A i \in 1 .. 10 :
        /\ T(i) = IF F(i) # "" THEN F(i) ELSE T(i + 1)
        /\ F(i) = "" => W(i + 1) = W(i)
        /\ F(i) # "" => W(i + 1) = W(i) + 1
  <2> SUFFICES ASSUME NEW i \in 1 .. 10
               PROVE  /\ T(i) = IF F(i) # "" THEN F(i) ELSE T(i + 1)
                      /\ F(i) = "" => W(i + 1) = W(i)
                      /\ F(i) # "" => W(i + 1) = W(i) + 1
    BY Zenon
  <2>1. FieldFits(ds, k, i)
    BY Places, Zenon
  <2>2. T(i) = IF F(i) # "" THEN F(i) ELSE T(i + 1)
    BY TokenIs
  <2> QED
    BY <2>1, <2>2, Zenon DEF FieldFits
<1>2. /\ F(1) = "~" /\ F(2) = "%" /\ F(3) = d.flag /\ F(4) = d.index /\ F(5) = d.width
      /\ F(6) = d.dot /\ F(7) = d.dotIndex /\ F(8) = d.dotNum /\ F(9) = d.verbIndex
      /\ F(10) = d.verb
  BY DEF Fields
<1>3. T(11) = IF k < Len(ds) THEN "~" ELSE ""
  BY TokenAfter
<1> HIDE DEF F, T, W, d
<1>4. \A i \in 1 .. 10 : \A j \in 2 .. 11 : j = i + 1 =>
        /\ T(i) = IF F(i) # "" THEN F(i) ELSE T(j)
        /\ W(j) = IF F(i) # "" THEN W(i) + 1 ELSE W(i)
  BY <1>1
<1>5. /\ 2 = 1 + 1 /\ 3 = 2 + 1 /\ 4 = 3 + 1 /\ 5 = 4 + 1 /\ 6 = 5 + 1 /\ 7 = 6 + 1 /\ 8 = 7 + 1
      /\ 9 = 8 + 1 /\ 10 = 9 + 1 /\ 11 = 10 + 1
      /\ \A i \in {1, 2, 3, 4, 5, 6, 7, 8, 9, 10} : i \in 1 .. 10
      /\ \A j \in {2, 3, 4, 5, 6, 7, 8, 9, 10, 11} : j \in 2 .. 11
  OBVIOUS
<1>6. /\ T(1) = "~" /\ W(2) = W(1) + 1
      /\ T(2) = "%" /\ W(3) = W(2) + 1
  <2>1. "~" # "" /\ "%" # ""
    OBVIOUS
  <2> QED
    BY <1>2, <1>4, <1>5, <2>1, Zenon
<1>7. /\ T(3) = IF d.flag # "" THEN d.flag ELSE T(4)
      /\ W(4) = IF d.flag # "" THEN W(3) + 1 ELSE W(3)
      /\ T(4) = IF d.index # "" THEN d.index ELSE T(5)
      /\ W(5) = IF d.index # "" THEN W(4) + 1 ELSE W(4)
  BY <1>2, <1>4, <1>5, Zenon
<1>8. /\ T(5) = IF d.width # "" THEN d.width ELSE T(6)
      /\ W(6) = IF d.width # "" THEN W(5) + 1 ELSE W(5)
      /\ T(6) = IF d.dot # "" THEN d.dot ELSE T(7)
      /\ W(7) = IF d.dot # "" THEN W(6) + 1 ELSE W(6)
  BY <1>2, <1>4, <1>5, Zenon
<1>9. /\ T(7) = IF d.dotIndex # "" THEN d.dotIndex ELSE T(8)
      /\ W(8) = IF d.dotIndex # "" THEN W(7) + 1 ELSE W(7)
      /\ T(8) = IF d.dotNum # "" THEN d.dotNum ELSE T(9)
      /\ W(9) = IF d.dotNum # "" THEN W(8) + 1 ELSE W(8)
  BY <1>2, <1>4, <1>5, Zenon
<1>10. /\ T(9) = IF d.verbIndex # "" THEN d.verbIndex ELSE T(10)
       /\ W(10) = IF d.verbIndex # "" THEN W(9) + 1 ELSE W(9)
       /\ T(10) = IF d.verb # "" THEN d.verb ELSE T(11)
       /\ W(11) = IF d.verb # "" THEN W(10) + 1 ELSE W(10)
  BY <1>2, <1>4, <1>5, Zenon
<1> QED
  BY <1>3, <1>6, <1>7, <1>8, <1>9, <1>10, Zenon DEF Reading, F, T, W, d

(* Which tokens can stand at the places of a directive.                    *)
Classes(ds, k) ==
  LET d == ds[k]
      T(i) == TokenAt(ds, Where(ds, k, i))
  IN  /\ T(4) \notin Flags
      /\ T(4) \in Brackets <=> d.index # ""
      /\ T(5) = "*" <=> d.width = "*"
      /\ T(6) = "." <=> d.dot = "."
      /\ T(6) \notin {"0", "9"}
      /\ d.dot = "." => (T(7) \in Brackets <=> d.dotIndex # "")
      /\ T(8) = "*" <=> d.dotNum = "*"
      /\ T(9) \notin {"0", "9"}
      /\ T(9) \in Brackets <=> d.verbIndex # ""
      /\ T(10) \notin Flags \cup {"0", "9", "*", "."} \cup Brackets

(* What can stand where each part of a directive is looked for: no part is *)
(* mistaken for another.                                                   *)
LEMMA TokenClasses ==
  ASSUME NEW D, NEW ds \in Seq(D), NEW k \in 1 .. Len(ds), ds[k] \in Directives
  PROVE  Classes(ds, k)
<1> DEFINE d == ds[k]
           T(i) == TokenAt(ds, Where(ds, k, i))
<1>1. /\ T(4) = IF d.index # "" THEN d.index ELSE T(5)
      /\ T(5) = IF d.width # "" THEN d.width ELSE T(6)
      /\ T(6) = IF d.dot # "" THEN d.dot ELSE T(7)
      /\ T(7) = IF d.dotIndex # "" THEN d.dotIndex ELSE T(8)
      /\ T(8) = IF d.dotNum # "" THEN d.dotNum ELSE T(9)
      /\ T(9) = IF d.verbIndex # "" THEN d.verbIndex ELSE T(10)
      /\ T(10) = IF d.verb # "" THEN d.verb ELSE T(11)
      /\ T(11) = IF k < Len(ds) THEN "~" ELSE ""
  BY ReadingHolds, Zenon DEF Reading
<1>2. /\ d.flag \in {"", "#", "0", "+", "-", " "}
      /\ d.index \in {"", "[1]", "[2]", "[3]", "[?]", "["}
      /\ d.width \in {"", "9", "*"}
      /\ d.dot \in {"", "."}
      /\ d.dotIndex \in {"", "[1]", "[2]", "[3]", "[?]", "["}
      /\ d.dotNum \in {"", "9", "*"}
      /\ d.verbIndex \in {"", "[1]", "[2]", "[3]", "[?]", "["}
      /\ d.dot = "" => d.dotIndex = "" /\ d.dotNum = ""
      /\ d.verbIndex # "" =>
              IF d.dot = "." THEN d.dotIndex # "" \/ d.dotNum # ""
              ELSE d.index # "" \/ d.width # ""
      /\ d.verb \notin {"#", "0", "+", "-", " ", "[1]", "[2]", "[3]", "[?]", "[", "9", "*", "."}
  BY FieldsAre
<1>3. Brackets = {"[1]", "[2]", "[3]", "[?]", "["} /\ Flags = {"#", "0", "+", "-", " "}
  BY BracketsAre DEF Flags
<1> HIDE DEF T, d
<1>4. T(10) \notin {"#", "0", "+", "-", " ", "[1]", "[2]", "[3]", "[?]", "[", "9", "*", "."}
  BY <1>1, <1>2
<1>5. /\ T(9) \notin {"#", "0", "+", "-", " ", "9", "*", "."}
      /\ T(9) \in Brackets <=> d.verbIndex # ""
  BY <1>1, <1>2, <1>3, <1>4
<1>6. /\ T(8) \notin {"#", "0", "+", "-", " ", "."}
      /\ T(8) = "*" <=> d.dotNum = "*"
  BY <1>1, <1>2, <1>5
<1>7. d.dot = "." => (T(7) \in Brackets <=> d.dotIndex # "")
  BY <1>1, <1>2, <1>3, <1>4
<1>8. /\ d.dot = "" => T(6) = T(9)
      /\ T(6) = "." <=> d.dot = "."
      /\ T(6) \notin {"#", "0", "+", "-", " ", "9", "*"}
  BY <1>1, <1>2, <1>5
<1>9. T(5) = "*" <=> d.width = "*"
  BY <1>1, <1>2, <1>8
<1>10. T(5) \notin Flags /\ (d.index = "" => T(5) \notin Brackets)
  BY <1>1, <1>2, <1>3, <1>4, <1>5, <1>8
<1>11. T(4) \notin Flags /\ (T(4) \in Brackets <=> d.index # "")
  BY <1>1, <1>2, <1>3, <1>10
<1>12. T(10) \notin Flags \cup {"0", "9", "*", "."} \cup Brackets
  BY <1>3, <1>4
<1> QED
  BY <1>5, <1>6, <1>7, <1>8, <1>9, <1>11, <1>12, Zenon DEF Classes, T, d


(* One item more, or none: its number comes after those before it.         *)
LEMMA ReadsExtend ==
  ASSUME NEW S, NEW its \in Seq(S), NEW c \in BOOLEAN, NEW x \in S
  PROVE  LET more == its \o (IF c THEN <<x>> ELSE <<>>)
         IN  /\ more \in Seq(S)
             /\ Reads(more) = Reads(its) \o (IF c THEN <<Read(x, LastRead(its))>> ELSE <<>>)
             /\ LastRead(more) = IF c THEN Read(x, LastRead(its)) ELSE LastRead(its)
<1> DEFINE more == its \o (IF c THEN <<x>> ELSE <<>>)
           y == Read(x, LastRead(its))
<1>1. Reads(its) \in Seq(Nat) /\ LastRead(its) \in Nat
  BY ReadsAreNumbers
<1>2. y \in Nat
  BY <1>1, ReadIsNumber
<1>3. CASE ~ c
  <2>1. more = its \o <<>> /\ its \o <<>> = its /\ Reads(its) \o <<>> = Reads(its)
    BY <1>1, <1>3, ConcatEmptySeq
  <2> HIDE DEF more
  <2> QED
    BY <1>3, <2>1 DEF more
<1>4. CASE c
  <2> HIDE DEF y
  <2>1. Append(its, x) = its \o <<x>> /\ Append(Reads(its), y) = Reads(its) \o <<y>>
    BY <1>1, <1>2, AppendIsConcat
  <2>2. Reads(Append(its, x)) = Append(Reads(its), y)
    BY ReadsAppend DEF y
  <2>3. /\ Append(its, x) \in Seq(S) /\ Append(its, x) # <<>>
        /\ Len(Append(Reads(its), y)) = Len(Reads(its)) + 1
        /\ Append(Reads(its), y)[Len(Reads(its)) + 1] = y
    BY <1>1, <1>2, AppendProperties
  <2>4. Last(Append(Reads(its), y)) = y
    BY <2>3 DEF Last
  <2>5. LastRead(Append(its, x)) = y
    BY <2>2, <2>3, <2>4 DEF LastRead
  <2>6. more = its \o <<x>>
    BY <1>4
  <2> HIDE DEF more
  <2> QED
    BY <1>4, <2>1, <2>2, <2>3, <2>5, <2>6 DEF more, y
<1> QED
  BY <1>3, <1>4

(* The argument that a width, a precision and the value of directive d     *)
(* read, or would read, after one that read the argument l.                *)
WidthArg(d, l) == IF d.index # "" THEN IndexOf(d.index) ELSE l + 1
AfterWidth(d, l) == IF d.width = "*" THEN WidthArg(d, l) + 1 ELSE WidthArg(d, l)
DotArg(d, l) == IF d.dotIndex # "" THEN IndexOf(d.dotIndex) ELSE AfterWidth(d, l)
AfterDot(d, l) == IF d.dotNum = "*" THEN DotArg(d, l) + 1 ELSE DotArg(d, l)
ValueArg(d, l) ==
  IF Pending(d) = "" /\ d.verbIndex # "" THEN IndexOf(d.verbIndex) ELSE AfterDot(d, l)

WidthReads(d, l) == IF d.width = "*" THEN <<WidthArg(d, l)>> ELSE <<>>
DotReads(d, l) == WidthReads(d, l) \o (IF d.dotNum = "*" THEN <<DotArg(d, l)>> ELSE <<>>)
AllReads(d, l) ==
  DotReads(d, l) \o (IF VerbOf(d) \notin {"%", ""} THEN <<ValueArg(d, l)>> ELSE <<>>)

WidthLast(d, l) == IF d.width = "*" THEN WidthArg(d, l) ELSE l
DotLast(d, l) == IF d.dotNum = "*" THEN DotArg(d, l) ELSE WidthLast(d, l)
AllLast(d, l) == IF VerbOf(d) \notin {"%", ""} THEN ValueArg(d, l) ELSE DotLast(d, l)

(* The arguments of a directive are numbers.                               *)
LEMMA ArgsAreNumbers ==
  ASSUME NEW d, NEW l \in Nat
  PROVE  /\ WidthArg(d, l) \in Nat /\ AfterWidth(d, l) \in Nat /\ DotArg(d, l) \in Nat
         /\ AfterDot(d, l) \in Nat /\ ValueArg(d, l) \in Nat
<1>1. \A t : IndexOf(t) \in Nat
  BY IndexIsNumber
<1>2. WidthArg(d, l) \in Nat
  <2>1. l + 1 \in Nat
    OBVIOUS
  <2> QED
    BY <1>1, <2>1, Zenon DEF WidthArg
<1>3. AfterWidth(d, l) \in Nat
  BY <1>2 DEF AfterWidth
<1>4. DotArg(d, l) \in Nat
  BY <1>1, <1>3 DEF DotArg
<1>5. AfterDot(d, l) \in Nat
  BY <1>4 DEF AfterDot
<1>6. ValueArg(d, l) \in Nat
  BY <1>1, <1>5 DEF ValueArg
<1> QED
  BY <1>2, <1>3, <1>4, <1>5, <1>6

DotItem(d) == Latest(IF d.width = "*" THEN "" ELSE d.index, d.dotIndex)
ValueItem(d) == IF Pending(d) # "" THEN Pending(d) ELSE d.verbIndex

(* The items of a directive read these arguments.                          *)
LEMMA ItemArgs ==
  ASSUME NEW d, NEW l \in Nat
  PROVE  /\ Read(d.index, l) = WidthArg(d, l)
         /\ Read(DotItem(d), WidthLast(d, l)) = DotArg(d, l)
         /\ Read(ValueItem(d), DotLast(d, l)) = ValueArg(d, l)
<1> DEFINE i == d.index
           w == d.width
           j == d.dotIndex
           p == d.dotNum
           v == d.verbIndex
           N(t) == IndexOf(t)
<1>1. \A t : N(t) \in Nat
  BY IndexIsNumber
<1>2. \A t, a : Read(t, a) = IF t # "" THEN N(t) ELSE a + 1
  BY DEF Read
<1>3. WidthArg(d, l) = IF i # "" THEN N(i) ELSE l + 1
  BY DEF WidthArg
<1>4. AfterWidth(d, l) = IF w = "*" THEN WidthArg(d, l) + 1 ELSE WidthArg(d, l)
  BY DEF AfterWidth
<1>5. DotArg(d, l) = IF j # "" THEN N(j) ELSE AfterWidth(d, l)
  BY DEF DotArg
<1>6. AfterDot(d, l) = IF p = "*" THEN DotArg(d, l) + 1 ELSE DotArg(d, l)
  BY DEF AfterDot
<1>7. ValueArg(d, l) = IF Pending(d) = "" /\ v # "" THEN N(v) ELSE AfterDot(d, l)
  BY DEF ValueArg
<1>8. DotItem(d) = IF j # "" THEN j ELSE IF w = "*" THEN "" ELSE i
  BY DEF DotItem, Latest
<1>9. Pending(d) = IF p = "*" THEN "" ELSE IF j # "" THEN j ELSE IF w = "*" THEN "" ELSE i
  BY DEF Pending, Latest
<1>10. ValueItem(d) = IF Pending(d) # "" THEN Pending(d) ELSE v
  BY DEF ValueItem
<1>11. /\ WidthLast(d, l) = IF w = "*" THEN WidthArg(d, l) ELSE l
       /\ DotLast(d, l) = IF p = "*" THEN DotArg(d, l) ELSE WidthLast(d, l)
  BY DEF WidthLast, DotLast
<1> HIDE DEF i, w, j, p, v, N
<1>12. Read(i, l) = WidthArg(d, l)
  BY <1>2, <1>3
<1>13. Read(DotItem(d), WidthLast(d, l)) = DotArg(d, l)
  BY <1>1, <1>2, <1>3, <1>4, <1>5, <1>8, <1>11
<1>14. Read(ValueItem(d), DotLast(d, l)) = ValueArg(d, l)
  BY <1>1, <1>2, <1>3, <1>4, <1>5, <1>6, <1>7, <1>9, <1>10, <1>11
<1> QED
  BY <1>12, <1>13, <1>14 DEF i

(* One element, or none.                                                   *)
LEMMA MaybeIsSeq ==
  ASSUME NEW S, NEW c \in BOOLEAN, NEW x \in S
  PROVE  (IF c THEN <<x>> ELSE <<>>) \in Seq(S)
OBVIOUS

Regrouped(s, a, b, c) == s \o a \o b \o c = s \o (a \o b \o c)

(* Concatenation is associative on T.                                      *)
Associative(T) == \A p, q, r \in T : (p \o q) \o r = p \o (q \o r)

(* Concatenation of sequences is.                                          *)
LEMMA ConcatThree == ASSUME NEW S PROVE Associative(Seq(S))
BY ConcatAssociative DEF Associative

(* Concatenation can be regrouped.                                         *)
LEMMA ConcatFour ==
  ASSUME NEW S, NEW s \in Seq(S), NEW a \in Seq(S), NEW b \in Seq(S), NEW c \in Seq(S)
  PROVE  Regrouped(s, a, b, c)
<1>1. a \o b \in Seq(S)
  BY ConcatProperties
<1>2. s \o a \o b = s \o (a \o b)
  BY ConcatAssociative
<1>3. (s \o (a \o b)) \o c = s \o ((a \o b) \o c)
  <2>1. Associative(Seq(S))
    BY ConcatThree
  <2> QED
    BY <1>1, <2>1, Zenon DEF Associative
<1> QED
  BY <1>2, <1>3 DEF Regrouped

(* The words an item can be.                                               *)
ItemWords == Brackets \cup {""}
Indexing(d) == d.index \in ItemWords /\ d.dotIndex \in ItemWords /\ d.verbIndex \in ItemWords

(* The items of a directive, named.                                        *)
LEMMA ItemsAre ==
  ASSUME NEW d, Indexing(d)
  PROVE  /\ d.index \in ItemWords /\ DotItem(d) \in ItemWords /\ ValueItem(d) \in ItemWords
         /\ Items(d) = (IF d.width = "*" THEN <<d.index>> ELSE <<>>)
                         \o (IF d.dotNum = "*" THEN <<DotItem(d)>> ELSE <<>>)
                         \o (IF VerbOf(d) \notin {"%", ""} THEN <<ValueItem(d)>> ELSE <<>>)
         /\ Items(d) \in Seq(ItemWords)
<1>1. d.index \in ItemWords /\ d.dotIndex \in ItemWords /\ d.verbIndex \in ItemWords
  BY DEF Indexing
<1>2. "" \in ItemWords
  BY DEF ItemWords
<1>3. DotItem(d) \in ItemWords /\ ValueItem(d) \in ItemWords
  BY <1>1, <1>2 DEF DotItem, ValueItem, Latest, Pending
<1> DEFINE a == IF d.width = "*" THEN <<d.index>> ELSE <<>>
           b == IF d.dotNum = "*" THEN <<DotItem(d)>> ELSE <<>>
           c == IF VerbOf(d) \notin {"%", ""} THEN <<ValueItem(d)>> ELSE <<>>
<1>4. Items(d) = a \o b \o c
  <2>1. (IF VerbOf(d) \in {"%", ""} THEN <<>> ELSE <<ValueItem(d)>>) = c
    OBVIOUS
  <2> QED
    BY <2>1, Zenon DEF Items, DotItem, ValueItem
<1>5. a \in Seq(ItemWords) /\ b \in Seq(ItemWords) /\ c \in Seq(ItemWords)
  BY <1>1, <1>3, MaybeIsSeq
<1> HIDE DEF a, b, c
<1>6. a \o b \o c \in Seq(ItemWords)
  BY <1>5, ConcatProperties
<1> QED
  BY <1>1, <1>3, <1>4, <1>6 DEF a, b, c

(* The items of a directive, after others, read what AllReads says.        *)
LEMMA DirectiveReads ==
  ASSUME NEW its \in Seq(ItemWords), NEW d, Indexing(d)
  PROVE  LET l == LastRead(its)
             more == its \o Items(d)
         IN  /\ more \in Seq(ItemWords)
             /\ Reads(more) = Reads(its) \o AllReads(d, l)
             /\ AllReads(d, l) \in Seq(Nat)
             /\ LastRead(more) = AllLast(d, l)
<1> DEFINE l == LastRead(its)
           hasW == d.width = "*"
           hasP == d.dotNum = "*"
           hasV == VerbOf(d) \notin {"%", ""}
           a == IF hasW THEN <<d.index>> ELSE <<>>
           b == IF hasP THEN <<DotItem(d)>> ELSE <<>>
           c == IF hasV THEN <<ValueItem(d)>> ELSE <<>>
           ra == IF hasW THEN <<WidthArg(d, l)>> ELSE <<>>
           rb == IF hasP THEN <<DotArg(d, l)>> ELSE <<>>
           rc == IF hasV THEN <<ValueArg(d, l)>> ELSE <<>>
<1>1. /\ d.index \in ItemWords /\ DotItem(d) \in ItemWords /\ ValueItem(d) \in ItemWords
      /\ Items(d) = a \o b \o c
  BY ItemsAre
<1>2. l \in Nat /\ Reads(its) \in Seq(Nat)
  BY ReadsAreNumbers
<1>3. /\ Read(d.index, l) = WidthArg(d, l)
      /\ Read(DotItem(d), WidthLast(d, l)) = DotArg(d, l)
      /\ Read(ValueItem(d), DotLast(d, l)) = ValueArg(d, l)
  BY <1>2, ItemArgs
<1>4. WidthArg(d, l) \in Nat /\ DotArg(d, l) \in Nat /\ ValueArg(d, l) \in Nat
  BY <1>2, ArgsAreNumbers
<1>5. /\ a \in Seq(ItemWords) /\ b \in Seq(ItemWords) /\ c \in Seq(ItemWords)
      /\ ra \in Seq(Nat) /\ rb \in Seq(Nat) /\ rc \in Seq(Nat)
  BY <1>1, <1>4, MaybeIsSeq
<1>6. hasW \in BOOLEAN /\ hasP \in BOOLEAN /\ hasV \in BOOLEAN
  OBVIOUS
<1>7. AllReads(d, l) = ra \o rb \o rc
  BY Zenon DEF AllReads, DotReads, WidthReads
<1>8. /\ its \o a \in Seq(ItemWords) /\ Reads(its \o a) = Reads(its) \o ra
      /\ LastRead(its \o a) = WidthLast(d, l)
  <2>1. /\ its \o a \in Seq(ItemWords)
        /\ Reads(its \o a) = Reads(its) \o (IF hasW THEN <<Read(d.index, l)>> ELSE <<>>)
        /\ LastRead(its \o a) = IF hasW THEN Read(d.index, l) ELSE l
    <3> HIDE DEF hasW
    <3> QED
      BY <1>1, <1>6, ReadsExtend, ZenonT(30)
  <2> QED
    BY <1>3, <2>1, Zenon DEF WidthLast
<1>9. /\ its \o a \o b \in Seq(ItemWords) /\ Reads(its \o a \o b) = Reads(its) \o ra \o rb
      /\ LastRead(its \o a \o b) = DotLast(d, l)
  <2> DEFINE m == its \o a
  <2> HIDE DEF m
  <2>1. m \in Seq(ItemWords) /\ Reads(m) = Reads(its) \o ra /\ LastRead(m) = WidthLast(d, l)
    BY <1>8 DEF m
  <2>2. /\ m \o b \in Seq(ItemWords)
        /\ Reads(m \o b) = Reads(m) \o (IF hasP THEN <<Read(DotItem(d), LastRead(m))>> ELSE <<>>)
        /\ LastRead(m \o b) = IF hasP THEN Read(DotItem(d), LastRead(m)) ELSE LastRead(m)
    <3> HIDE DEF hasP
    <3> QED
      BY <1>1, <1>6, <2>1, ReadsExtend, ZenonT(30)
  <2> QED
    BY <1>3, <2>1, <2>2, Zenon DEF DotLast, m
<1>10. /\ its \o a \o b \o c \in Seq(ItemWords)
       /\ Reads(its \o a \o b \o c) = Reads(its) \o ra \o rb \o rc
       /\ LastRead(its \o a \o b \o c) = AllLast(d, l)
  <2> DEFINE m == its \o a \o b
  <2> HIDE DEF m
  <2>1. m \in Seq(ItemWords) /\ Reads(m) = Reads(its) \o ra \o rb /\ LastRead(m) = DotLast(d, l)
    BY <1>9 DEF m
  <2>2. /\ m \o c \in Seq(ItemWords)
        /\ Reads(m \o c) = Reads(m) \o (IF hasV THEN <<Read(ValueItem(d), LastRead(m))>> ELSE <<>>)
        /\ LastRead(m \o c) = IF hasV THEN Read(ValueItem(d), LastRead(m)) ELSE LastRead(m)
    <3> HIDE DEF hasV
    <3> QED
      BY <1>1, <1>6, <2>1, ReadsExtend, ZenonT(30)
  <2> QED
    BY <1>3, <2>1, <2>2, Zenon DEF AllLast, m
<1> HIDE DEF a, b, c, ra, rb, rc
<1>11. its \o a \o b \o c = its \o (a \o b \o c)
  <2>1. Regrouped(its, a, b, c)
    BY <1>5, ConcatFour, Zenon
  <2> QED
    BY <2>1, Zenon DEF Regrouped
<1>12. Reads(its) \o ra \o rb \o rc = Reads(its) \o (ra \o rb \o rc)
  <2>1. Regrouped(Reads(its), ra, rb, rc)
    BY <1>2, <1>5, ConcatFour, Zenon
  <2> QED
    BY <2>1, Zenon DEF Regrouped
<1>13. ra \o rb \o rc \in Seq(Nat)
  BY <1>5, ConcatProperties
<1> QED
  BY <1>1, <1>7, <1>10, <1>11, <1>12, <1>13

(* What is left of a concatenation behind its first part is its second     *)
(* part.                                                                   *)
LEMMA RestOfConcat ==
  ASSUME NEW S, NEW r \in Seq(S), NEW q \in Seq(S)
  PROVE  SubSeq(r \o q, Len(r) + 1, Len(r \o q)) = q
<1> DEFINE t == r \o q
           m == Len(r) + 1
           n == Len(r \o q)
           u == SubSeq(t, m, n)
<1>1. Len(r) \in Nat /\ Len(q) \in Nat
  BY LenProperties
<1>2. /\ t \in Seq(S) /\ n = Len(r) + Len(q)
      /\ \A i \in 1 .. Len(r) + Len(q) : t[i] = IF i <= Len(r) THEN r[i] ELSE q[i - Len(r)]
  BY ConcatProperties
<1>3. m \in Int /\ n \in Int /\ \A i \in m .. n : t[i] \in S
  <2>1. \A i \in 1 .. n : t[i] \in S
    BY <1>2, ElementOfSeq
  <2>2. m \in Int /\ n \in Int /\ \A i \in m .. n : i \in 1 .. n
    BY <1>1, <1>2
  <2> QED
    BY <2>1, <2>2
<1> HIDE DEF t, m, n
<1>4. /\ u \in Seq(S) /\ Len(u) = IF m <= n THEN n - m + 1 ELSE 0
      /\ \A i \in 1 .. n - m + 1 : u[i] = t[m + i - 1]
  BY <1>3, SubSeqProperties
<1>5. n - m + 1 = Len(q) /\ m = Len(r) + 1 /\ n = Len(r) + Len(q)
  BY <1>1, <1>2 DEF m
<1>6. Len(u) = Len(q)
  BY <1>1, <1>4, <1>5
<1>7. \A i \in 1 .. Len(q) : u[i] = q[i]
  <2> SUFFICES ASSUME NEW i \in 1 .. Len(q) PROVE u[i] = q[i]
    OBVIOUS
  <2>1. u[i] = t[m + i - 1]
    BY <1>4, <1>5
  <2>2. /\ m + i - 1 = Len(r) + i /\ Len(r) + i \in 1 .. Len(r) + Len(q)
        /\ ~ (Len(r) + i <= Len(r)) /\ (Len(r) + i) - Len(r) = i
    BY <1>1, <1>5
  <2>3. t[Len(r) + i] = q[(Len(r) + i) - Len(r)]
    BY <1>2, <2>2
  <2> QED
    BY <2>1, <2>2, <2>3
<1> HIDE DEF u
<1>8. u = q
  BY <1>4, <1>6, <1>7, SeqEqual
<1> QED
  BY <1>8 DEF u, t, m, n

(* The last argument that the first k directives read. *)
LastOf(ds, k) == LastRead(ItemsOf(ds, k))

(* The items of the first k directives end with those of directive k.      *)
LEMMA ItemsStep ==
  ASSUME NEW D, NEW ds \in Seq(D), \A j \in 1 .. Len(ds) : Indexing(ds[j]), NEW k \in 1 .. Len(ds)
  PROVE  /\ ItemsOf(ds, k - 1) \in Seq(ItemWords)
         /\ ItemsOf(ds, k) = ItemsOf(ds, k - 1) \o Items(ds[k])
<1> DEFINE s == [j \in 1 .. Len(ds) |-> Items(ds[j])]
<1>1. \A j \in 1 .. Len(ds) : Items(ds[j]) \in Seq(ItemWords)
  BY ItemsAre
<1>2. /\ s \in Seq(Seq(ItemWords)) /\ Len(s) = Len(ds)
      /\ \A j \in 1 .. Len(ds) : s[j] = Items(ds[j])
  BY <1>1
<1> HIDE DEF s
<1>3. \A i \in 0 .. Len(ds) : ItemsOf(ds, i) = FlattenSeq([j \in 1 .. i |-> s[j]])
  <2> SUFFICES ASSUME NEW i \in 0 .. Len(ds)
               PROVE  ItemsOf(ds, i) = FlattenSeq([j \in 1 .. i |-> s[j]])
    OBVIOUS
  <2>1. [j \in 1 .. i |-> s[j]] = [j \in 1 .. i |-> Items(ds[j])]
    BY <1>2
  <2> QED
    BY <2>1, Zenon DEF ItemsOf
<1>4. k \in 1 .. Len(s) /\ k - 1 \in 0 .. Len(s) /\ k \in 0 .. Len(ds) /\ k - 1 \in 0 .. Len(ds)
  BY <1>2
<1>5. FlattenSeq([j \in 1 .. k |-> s[j]]) = FlattenSeq([j \in 1 .. k - 1 |-> s[j]]) \o s[k]
  BY <1>2, <1>4, FlattenStep
<1>6. FlattenSeq([j \in 1 .. k - 1 |-> s[j]]) \in Seq(ItemWords)
  BY <1>2, <1>4, FlattenIsSeq
<1> QED
  BY <1>2, <1>3, <1>4, <1>5, <1>6

(* What a directive reads depends on its parts and on the last argument    *)
(* read before it.                                                         *)
LEMMA ReadsOfIs ==
  ASSUME NEW D, NEW ds \in Seq(D), \A j \in 1 .. Len(ds) : Indexing(ds[j]), NEW k \in 1 .. Len(ds)
  PROVE  /\ LastOf(ds, k - 1) \in Nat
         /\ ReadsOf(ds, k) = AllReads(ds[k], LastOf(ds, k - 1))
         /\ AllReads(ds[k], LastOf(ds, k - 1)) \in Seq(Nat)
         /\ LastOf(ds, k) = AllLast(ds[k], LastOf(ds, k - 1))
<1> DEFINE its == ItemsOf(ds, k - 1)
           more == ItemsOf(ds, k)
           q == AllReads(ds[k], LastRead(its))
           r == Reads(its)
<1>1. its \in Seq(ItemWords) /\ more = its \o Items(ds[k]) /\ Indexing(ds[k])
  BY ItemsStep
<1>2. r \in Seq(Nat) /\ Len(r) = Len(its) /\ LastRead(its) \in Nat
  BY <1>1, ReadsAreNumbers
<1>3. /\ more \in Seq(ItemWords) /\ Reads(more) = r \o q /\ q \in Seq(Nat)
      /\ LastRead(more) = AllLast(ds[k], LastRead(its))
  BY <1>1, DirectiveReads
<1>4. Len(more) = Len(r \o q)
  BY <1>3, ReadsAreNumbers
<1>5. (IF k = 1 THEN 0 ELSE Len(its)) = Len(r)
  <2>1. CASE k = 1
    <3>1. [j \in 1 .. k - 1 |-> Items(ds[j])] = <<>>
      BY <2>1
    <3>2. its = <<>>
      BY <3>1, FlattenEmpty DEF ItemsOf
    <3> QED
      BY <1>2, <2>1, <3>2
  <2>2. CASE k # 1
    BY <1>2, <2>2
  <2> QED
    BY <2>1, <2>2
<1>6. ReadsOf(ds, k) = SubSeq(Reads(more), (IF k = 1 THEN 0 ELSE Len(its)) + 1, Len(more))
  BY Zenon DEF ReadsOf
<1> HIDE DEF its, more, q, r
<1>7. ReadsOf(ds, k) = SubSeq(r \o q, Len(r) + 1, Len(r \o q))
  BY <1>3, <1>4, <1>5, <1>6
<1>8. ReadsOf(ds, k) = q
  BY <1>2, <1>3, <1>7, RestOfConcat
<1> QED
  BY <1>2, <1>3, <1>8, Zenon DEF LastOf, its, more, q

(* Before the first directive no argument was read.                        *)
LEMMA LastOfNone == \A ds : LastOf(ds, 0) = 0
<1>1. \A ds : [j \in 1 .. 0 |-> Items(ds[j])] = <<>>
  OBVIOUS
<1> QED
  BY <1>1, FlattenEmpty DEF LastOf, LastRead, ItemsOf
=============================================================================
