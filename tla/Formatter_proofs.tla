-------------------------- MODULE Formatter_proofs --------------------------
(***************************************************************************)
(* For every set of assertions, however deep their Sprintf calls: fixes    *)
(* keep the message, lead to the same assertion in whatever order, and     *)
(* each leaves less to fix.                                                *)
(***************************************************************************)
EXTENDS Formatter, SequenceTheorems, WellFoundedInduction, TLAPS

(* The calls of Sprintf around a message. *)
Calls == [rest : Seq(Arguments), spread : BOOLEAN]

(* A set of natural numbers has a least element. *)
LEMMA LeastNumber ==
  ASSUME NEW T \in SUBSET Nat, T # {}
  PROVE  \E x \in T : \A y \in T : x <= y
<1> DEFINE R == OpToRel(<, Nat)
<1>1. \E x \in T : \A y \in T : ~ (<<y, x>> \in R)
  BY NatLessThanWellFounded, WFMin
<1>2. \A x, y \in Nat : <<y, x>> \in R <=> y < x
  BY DEF OpToRel
<1>3. PICK x \in T : \A y \in T : ~ (<<y, x>> \in R)
  BY <1>1
<1> HIDE DEF R
<1>4. \A y \in T : x \in Nat /\ y \in Nat /\ ~ (y < x)
  BY <1>2, <1>3
<1>5. \A y \in T : x <= y
  BY <1>4
<1> QED
  BY <1>3, <1>5

(* The positions of a sequence that are in a set have extremes. *)
LEMMA Extremes ==
  ASSUME NEW n \in Nat, NEW T \in SUBSET (1 .. n), T # {}
  PROVE  /\ Min(T) \in T
         /\ Max(T) \in T /\ \A y \in T : y <= Max(T)
<1> DEFINE U == { u \in 0 .. n : n - u \in T }
<1>1. T \in SUBSET Nat /\ U \in SUBSET Nat
  OBVIOUS
<1>2. U # {}
  <2>1. PICK x \in T : TRUE
    OBVIOUS
  <2>2. x \in 1 .. n /\ n - x \in 0 .. n /\ n - (n - x) = x
    BY <2>1
  <2> QED
    BY <2>2
<1>3. \E x \in T : \A y \in T : x <= y
  BY <1>1, LeastNumber
<1>4. Min(T) \in T
  BY <1>3 DEF Min
<1>5. PICK u \in U : \A v \in U : u <= v
  BY <1>1, <1>2, LeastNumber
<1>6. \A y \in T : n - u >= y
  <2> SUFFICES ASSUME NEW y \in T PROVE n - u >= y
    OBVIOUS
  <2>1. y \in 1 .. n /\ n - y \in 0 .. n /\ n - (n - y) = y
    OBVIOUS
  <2>2. n - y \in U
    BY <2>1
  <2>3. u <= n - y /\ u \in 0 .. n
    BY <1>5, <2>2
  <2> QED
    BY <2>1, <2>3
<1>7. \E x \in T : \A y \in T : x >= y
  BY <1>5, <1>6
<1>8. Max(T) \in T /\ \A y \in T : Max(T) >= y
  BY <1>7 DEF Max
<1>9. \A y \in T : y <= Max(T)
  BY <1>8
<1> QED
  BY <1>4, <1>8, <1>9
-----------------------------------------------------------------------------
(* A message whose Sprintf calls are replaced is the same otherwise.       *)
LEMMA WithSprintfs ==
  ASSUME NEW e, e = [kind |-> e.kind, format |-> e.format, sprintfs |-> e.sprintfs], NEW s
  PROVE  [e EXCEPT !.sprintfs = s] = [kind |-> e.kind, format |-> e.format, sprintfs |-> s]
<1> DEFINE kind == e.kind  format == e.format  sprintfs == e.sprintfs
<1>1. e = [kind |-> kind, format |-> format, sprintfs |-> sprintfs]
  OBVIOUS
<1> HIDE DEF kind, format, sprintfs
<1>2. [e EXCEPT !.sprintfs = s] = [kind |-> kind, format |-> format, sprintfs |-> s]
  BY <1>1
<1> QED
  BY <1>2 DEF kind, format

(* What is under the k-th Sprintf is a message with k - 1 of them.         *)
LEMMA UnderIs ==
  ASSUME NEW e, IsMessage(e), NEW k \in 1 .. Len(e.sprintfs) + 1
  PROVE  /\ Under(e, k) =
              [kind |-> e.kind, format |-> e.format, sprintfs |-> SubSeq(e.sprintfs, 1, k - 1)]
         /\ SubSeq(e.sprintfs, 1, k - 1) \in Seq(Calls)
         /\ Len(SubSeq(e.sprintfs, 1, k - 1)) = k - 1
         /\ \A i \in 1 .. k - 1 : SubSeq(e.sprintfs, 1, k - 1)[i] = e.sprintfs[i]
         /\ IsMessage(Under(e, k))
<1>1. e = [kind |-> e.kind, format |-> e.format, sprintfs |-> e.sprintfs]
  BY DEF IsMessage
<1>2. Under(e, k) =
        [kind |-> e.kind, format |-> e.format, sprintfs |-> SubSeq(e.sprintfs, 1, k - 1)]
  BY <1>1, WithSprintfs DEF Under
<1>3. e.sprintfs \in Seq(Calls)
  BY DEF IsMessage, Calls
<1>4. k - 1 \in 0 .. Len(e.sprintfs) /\ Len(e.sprintfs) \in Nat
  BY <1>3
<1>5. /\ SubSeq(e.sprintfs, 1, k - 1) \in Seq(Calls)
      /\ Len(SubSeq(e.sprintfs, 1, k - 1)) = k - 1
      /\ \A i \in 1 .. k - 1 : SubSeq(e.sprintfs, 1, k - 1)[i] = e.sprintfs[i]
  BY <1>3, <1>4
<1>6. e.kind = "value" => SubSeq(e.sprintfs, 1, k - 1) = <<>>
  BY <1>3, <1>4, <1>5 DEF IsMessage, IsSprintf
<1> QED
  BY <1>2, <1>5, <1>6 DEF IsMessage, IsSprintf, Calls

(* Taking off the outer calls first changes nothing. *)
LEMMA UnderUnder ==
  ASSUME NEW e, IsMessage(e), NEW k \in 1 .. Len(e.sprintfs) + 1, NEW j \in 1 .. k
  PROVE  Under(Under(e, k), j) = Under(e, j)
<1> DEFINE s == SubSeq(e.sprintfs, 1, k - 1)
<1>1. Len(e.sprintfs) \in Nat /\ e.sprintfs \in Seq(Calls)
  BY DEF IsMessage, Calls
<1>2. j \in 1 .. Len(e.sprintfs) + 1
  BY <1>1
<1>3. /\ Under(e, k).sprintfs = s /\ Len(s) = k - 1 /\ IsMessage(Under(e, k))
      /\ Under(e, k).kind = e.kind /\ Under(e, k).format = e.format
      /\ s \in Seq(Calls) /\ \A i \in 1 .. k - 1 : s[i] = e.sprintfs[i]
  BY UnderIs
<1>4. j \in 1 .. Len(Under(e, k).sprintfs) + 1
  BY <1>3
<1> HIDE DEF s
<1>5. SubSeq(s, 1, j - 1) = SubSeq(e.sprintfs, 1, j - 1)
  BY <1>1, <1>2, <1>3
<1>6. Under(Under(e, k), j) =
        [kind |-> e.kind, format |-> e.format, sprintfs |-> SubSeq(s, 1, j - 1)]
  BY <1>3, <1>4, UnderIs
<1> QED
  BY <1>2, <1>5, <1>6, UnderIs

(* What unwrapping takes off, and what it leaves.                          *)
LEMMA InnerOuter ==
  ASSUME NEW e, IsMessage(e), IsSprintf(e)
  PROVE  /\ Len(e.sprintfs) \in Nat \ {0} /\ e.sprintfs \in Seq(Calls)
         /\ Last(e.sprintfs) = e.sprintfs[Len(e.sprintfs)]
         /\ Last(e.sprintfs) \in Calls
         /\ IsMessage(Inner(e)) /\ Inner(e).kind = e.kind /\ e.kind # "value"
         /\ Len(Inner(e).sprintfs) = Len(e.sprintfs) - 1
         /\ \A i \in 1 .. Len(e.sprintfs) - 1 : Inner(e).sprintfs[i] = e.sprintfs[i]
         /\ Under(Inner(e), 1) = Under(e, 1)
<1>1. e.sprintfs \in Seq(Calls) /\ e.sprintfs # <<>> /\ e.kind # "value"
  BY DEF IsMessage, IsSprintf, Calls
<1>2. Len(e.sprintfs) \in Nat \ {0} /\ Last(e.sprintfs) \in Calls
      /\ Last(e.sprintfs) = e.sprintfs[Len(e.sprintfs)]
  BY <1>1 DEF Last
<1>3. Len(e.sprintfs) \in 1 .. Len(e.sprintfs) + 1 /\ 1 \in 1 .. Len(e.sprintfs)
  BY <1>2
<1> DEFINE n == Len(e.sprintfs)
<1>4. n \in 1 .. Len(e.sprintfs) + 1 /\ 1 \in 1 .. n
  BY <1>3
<1>5. /\ IsMessage(Under(e, n)) /\ Under(e, n).kind = e.kind
      /\ Len(Under(e, n).sprintfs) = n - 1
      /\ \A i \in 1 .. n - 1 : Under(e, n).sprintfs[i] = e.sprintfs[i]
  <2> HIDE DEF n
  <2> QED
    BY <1>4, UnderIs
<1>6. Under(Under(e, n), 1) = Under(e, 1)
  <2> HIDE DEF n
  <2> QED
    BY <1>4, UnderUnder
<1> QED
  BY <1>1, <1>2, <1>5, <1>6 DEF Inner

(* Taking the outermost Sprintf off loses that call alone.                 *)
LEMMA ProperOfInner ==
  ASSUME NEW e, IsMessage(e), IsSprintf(e)
  PROVE  /\ Proper(e) \subseteq 1 .. Len(e.sprintfs)
         /\ Proper(Inner(e)) \subseteq 1 .. Len(e.sprintfs) - 1
         /\ Last(e.sprintfs).rest = <<>> => Proper(e) = Proper(Inner(e))
         /\ Last(e.sprintfs).rest # <<>> => Len(e.sprintfs) \in Proper(e)
<1> DEFINE n == Len(e.sprintfs)
<1>1. /\ n \in Nat \ {0} /\ Last(e.sprintfs) = e.sprintfs[n]
      /\ DOMAIN e.sprintfs = 1 .. n /\ DOMAIN Inner(e).sprintfs = 1 .. n - 1
      /\ \A i \in 1 .. n - 1 : Inner(e).sprintfs[i] = e.sprintfs[i]
  <2>1. Inner(e).sprintfs \in Seq(Calls)
    BY InnerOuter DEF IsMessage, Calls
  <2> QED
    BY <2>1, InnerOuter
<1> HIDE DEF n
<1>2. Proper(e) \subseteq 1 .. n /\ Proper(Inner(e)) \subseteq 1 .. n - 1
  BY <1>1 DEF Proper
<1>3. ASSUME Last(e.sprintfs).rest = <<>> PROVE Proper(e) = Proper(Inner(e))
  <2> SUFFICES ASSUME NEW k PROVE k \in Proper(e) <=> k \in Proper(Inner(e))
    OBVIOUS
  <2>1. k \in 1 .. n /\ k # n <=> k \in 1 .. n - 1
    BY <1>1
  <2> QED
    BY <1>1, <1>3, <2>1 DEF Proper
<1>4. Last(e.sprintfs).rest # <<>> => n \in Proper(e)
  BY <1>1 DEF Proper
<1> QED
  BY <1>2, <1>3, <1>4 DEF n

(* What follows the format when Sprintf is taken off.                      *)
LEMMA ListOfUnwrapped ==
  ASSUME NEW e, NEW r \in Seq(Arguments)
  PROVE  /\ <<e>> \o r \in Seq({e} \cup Arguments)
         /\ Len(<<e>> \o r) = Len(r) + 1 /\ Len(r) \in Nat
         /\ <<e>> \o r # <<>> /\ Head(<<e>> \o r) = e
         /\ Tail(<<e>> \o r) = r
         /\ r = <<>> <=> Len(r) = 0
<1>1. <<e>> \in Seq({e} \cup Arguments) /\ r \in Seq({e} \cup Arguments)
  OBVIOUS
<1>2. Len(<<e>> \o r) = Len(r) + 1 /\ Len(r) \in Nat /\ <<e>> \o r \in Seq({e} \cup Arguments)
  BY <1>1
<1>3. <<e>> \o r # <<>> /\ Head(<<e>> \o r) = e
  BY <1>1, <1>2
<1>4. Tail(<<e>> \o r) = r
  BY <1>1, <1>2, <1>3
<1> QED
  BY <1>2, <1>3, <1>4

(* A lone argument is stripped down to its outermost proper Sprintf.       *)
LEMMA StrippedOfOne ==
  ASSUME NEW e
  PROVE  /\ Proper(e) = {} => Stripped(<<e>>) = <<Under(e, 1)>>
         /\ Proper(e) # {} =>
              Stripped(<<e>>) =
                <<Under(e, Max(Proper(e)))>> \o e.sprintfs[Max(Proper(e))].rest
<1>1. Len(<<e>>) = 1 /\ Head(<<e>>) = e
  OBVIOUS
<1> DEFINE w == <<e>>
<1> HIDE DEF w
<1>2. Stripped(w) =
        IF Len(w) # 1 THEN w
        ELSE IF Proper(Head(w)) = {} THEN <<Under(Head(w), 1)>>
        ELSE <<Under(Head(w), Max(Proper(Head(w))))>> \o Head(w).sprintfs[Max(Proper(Head(w)))].rest
  BY Zenon DEF Stripped
<1> QED
  BY <1>1, <1>2, Zenon DEF w

(* Taking off one Sprintf is a step towards taking off all.                *)
LEMMA StrippedOfUnwrapped ==
  ASSUME NEW e, IsMessage(e), IsSprintf(e)
  PROVE  Stripped(<<Inner(e)>> \o Last(e.sprintfs).rest) = Stripped(<<e>>)
<1> DEFINE n == Len(e.sprintfs)
           r == Last(e.sprintfs).rest
<1>1. n \in Nat \ {0} /\ r \in Seq(Arguments) /\ Last(e.sprintfs) = e.sprintfs[n]
  BY InnerOuter DEF Calls
<1>2. Len(<<e>>) = 1 /\ Head(<<e>>) = e
  OBVIOUS
<1>3. CASE r = <<>>
  <2>1. <<Inner(e)>> \o r = <<Inner(e)>>
    BY <1>3
  <2>2. Proper(e) = Proper(Inner(e)) /\ Proper(e) \subseteq 1 .. n - 1
    BY <1>3, ProperOfInner
  <2>3. CASE Proper(e) = {}
    <3>1. Stripped(<<e>>) = <<Under(e, 1)>> /\ Stripped(<<Inner(e)>>) = <<Under(Inner(e), 1)>>
      BY <2>2, <2>3, StrippedOfOne
    <3> QED
      BY <2>1, <3>1, InnerOuter
  <2>4. CASE Proper(e) # {}
    <3> DEFINE k == Max(Proper(e))
    <3>1. k \in 1 .. n - 1
      <4>1. n - 1 \in Nat /\ Proper(e) \in SUBSET (1 .. n - 1)
        BY <1>1, <2>2
      <4> QED
        BY <2>4, <4>1, Extremes
    <3>2. Stripped(<<e>>) = <<Under(e, k)>> \o e.sprintfs[k].rest
      BY <2>4, StrippedOfOne
    <3>3. Stripped(<<Inner(e)>>) = <<Under(Inner(e), k)>> \o Inner(e).sprintfs[k].rest
      BY <2>2, <2>4, StrippedOfOne
    <3> HIDE DEF k
    <3>4. Inner(e).sprintfs[k] = e.sprintfs[k]
      BY <3>1, InnerOuter
    <3>5. Under(Inner(e), k) = Under(e, k)
      BY <1>1, <3>1, UnderUnder DEF Inner
    <3> QED
      BY <2>1, <3>2, <3>3, <3>4, <3>5
  <2> QED
    BY <2>3, <2>4
<1>4. CASE r # <<>>
  <2>1. n \in Proper(e) /\ Proper(e) \subseteq 1 .. n
    BY <1>4, ProperOfInner
  <2>2. Max(Proper(e)) \in Proper(e) /\ n <= Max(Proper(e))
    BY <1>1, <2>1, Extremes
  <2>3. Max(Proper(e)) \in 1 .. n
    BY <2>1, <2>2
  <2>4. Max(Proper(e)) = n
    BY <1>1, <2>2, <2>3
  <2>5. Stripped(<<e>>) = <<Under(e, n)>> \o e.sprintfs[n].rest
    BY <2>1, <2>4, StrippedOfOne
  <2>6. Len(<<Inner(e)>> \o r) # 1
    <3> HIDE DEF r
    <3> QED
      BY <1>1, <1>4, ListOfUnwrapped
  <2>7. Stripped(<<Inner(e)>> \o r) = <<Inner(e)>> \o r
    BY <2>6 DEF Stripped
  <2> QED
    BY <1>1, <2>5, <2>7 DEF Inner
<1> QED
  BY <1>3, <1>4

(* No part of the empty sequence has elements.                             *)
LEMMA SubSeqEmptyIsEmpty == SubSeq(<<>>, 1, 1 - 1) = <<>>
<1>1. <<>> \in Seq(Calls) /\ 1 - 1 = 0
  OBVIOUS
<1> QED
  BY <1>1

(* A text that is printed as it is stands in idle calls only.              *)
LEMMA TextOfIdle ==
  ASSUME NEW e, IsMessage(e)
  PROVE  /\ TextOf(e) \in {Empty, Lit(<<>>)} => IsPlain(e) /\ Proper(e) = {}
         /\ IsPlain(e) /\ Proper(e) = {} => TextOf(e) = Under(e, 1)
<1> DEFINE n == Len(e.sprintfs)
<1>1. e.sprintfs \in Seq(Calls) /\ n \in Nat /\ DOMAIN e.sprintfs = 1 .. n
  BY DEF IsMessage, Calls
<1>2. e = [kind |-> e.kind, format |-> e.format, sprintfs |-> e.sprintfs]
  BY DEF IsMessage
<1>3. ASSUME IsPlain(e), Proper(e) = {} PROVE TextOf(e) = Under(e, 1)
  <2>1. SubSeq(e.sprintfs, n + 1, n) = <<>> /\ SubSeq(e.sprintfs, 1, 0) = <<>>
    BY <1>1
  <2>2. TextOf(e) = [e EXCEPT !.sprintfs = SubSeq(e.sprintfs, n + 1, n)]
    BY <1>3, Zenon DEF TextOf
  <2>3. Under(e, 1) = [e EXCEPT !.sprintfs = SubSeq(e.sprintfs, 1, 1 - 1)] /\ 1 - 1 = 0
    BY DEF Under
  <2> HIDE DEF n
  <2> QED
    BY <2>1, <2>2, <2>3, Zenon
<1>4. ASSUME TextOf(e) \in {Empty, Lit(<<>>)} PROVE IsPlain(e) /\ Proper(e) = {}
  <2>1. TextOf(e).sprintfs = <<>>
    BY <1>4 DEF Empty, Lit, Bare
  <2>2. IsPlain(e)
    <3> SUFFICES ASSUME ~ IsPlain(e) PROVE FALSE
      OBVIOUS
    <3>1. TextOf(e) = e
      BY DEF TextOf
    <3>2. e.sprintfs = <<>> /\ SubSeq(<<>>, 1, 1 - 1) = <<>>
      BY <2>1, <3>1, SubSeqEmptyIsEmpty
    <3>3. Under(e, 1) = e
      BY <1>2, <3>2, WithSprintfs DEF Under
    <3> QED
      BY <1>4, <3>1, <3>3 DEF IsPlain
  <2>3. Proper(e) = {}
    <3> SUFFICES ASSUME Proper(e) # {} PROVE FALSE
      OBVIOUS
    <3> DEFINE m == Min(Proper(e))
    <3>1. Proper(e) \subseteq 1 .. n
      BY <1>1 DEF Proper
    <3>2. m \in 1 .. n
      BY <1>1, <3>1, Extremes
    <3>3. TextOf(e) = [e EXCEPT !.sprintfs = SubSeq(e.sprintfs, m - 1 + 1, n)]
      BY <2>2 DEF TextOf
    <3> HIDE DEF m
    <3>4. TextOf(e).sprintfs = SubSeq(e.sprintfs, m, n)
      <4>1. m - 1 + 1 = m
        BY <3>2
      <4> HIDE DEF n
      <4>2. TextOf(e) = [e EXCEPT !.sprintfs = SubSeq(e.sprintfs, m, n)]
        BY <3>3, <4>1, Zenon
      <4> DEFINE t == SubSeq(e.sprintfs, m, n)
      <4> HIDE DEF t
      <4>3. TextOf(e) = [kind |-> e.kind, format |-> e.format, sprintfs |-> t]
        BY <1>2, <4>2, WithSprintfs DEF t
      <4>4. TextOf(e).sprintfs = t
        BY <4>3
      <4> QED
        BY <4>4, Zenon DEF t
    <3>5. Len(SubSeq(e.sprintfs, m, n)) = n - m + 1
      BY <1>1, <3>2
    <3> QED
      BY <1>1, <2>1, <3>2, <3>4, <3>5
  <2> QED
    BY <2>2, <2>3
<1> QED
  BY <1>3, <1>4

(* What Sprintf formats, and what it does not need to be called for.       *)
LEMMA TextOfUnwrapped ==
  ASSUME NEW e, IsMessage(e), IsSprintf(e), ~ NeedsSprintf(e)
  PROVE  /\ Last(e.sprintfs).rest = <<>> => TextOf(Inner(e)) = TextOf(e)
         /\ Last(e.sprintfs).rest # <<>> => Sprintf(Inner(e), Last(e.sprintfs).rest, FALSE) = e
<1> DEFINE n == Len(e.sprintfs)
           r == Last(e.sprintfs).rest
<1>1. ASSUME r = <<>> PROVE TextOf(Inner(e)) = TextOf(e)
  <2>1. TextOf(Inner(e)) \in {Empty, Lit(<<>>)}
    BY <1>1 DEF NeedsSprintf
  <2>2. IsMessage(Inner(e)) /\ Under(Inner(e), 1) = Under(e, 1)
    BY InnerOuter
  <2>3. IsPlain(Inner(e)) /\ Proper(Inner(e)) = {} /\ TextOf(Inner(e)) = Under(Inner(e), 1)
    BY <2>1, <2>2, TextOfIdle
  <2>4. IsPlain(e) /\ Proper(e) = {}
    BY <1>1, <2>2, <2>3, ProperOfInner DEF IsPlain
  <2> QED
    BY <2>2, <2>3, <2>4, TextOfIdle
<1>2. Sprintf(Inner(e), r, FALSE) = e
  <2> DEFINE c == [rest |-> r, spread |-> FALSE]
             s == e.sprintfs
             t == SubSeq(s, 1, n - 1)
  <2>1. Last(s) = c
    <3>1. Last(s) \in Calls /\ Last(s).spread = FALSE
      BY InnerOuter DEF NeedsSprintf, Calls
    <3> QED
      BY <3>1 DEF Calls
  <2>2. n \in Nat \ {0} /\ s \in Seq(Calls) /\ Last(s) = s[n] /\ c \in Calls
    BY <2>1, InnerOuter
  <2>3. t \in Seq(Calls) /\ Len(t) = n - 1 /\ \A i \in 1 .. n - 1 : t[i] = s[i]
    BY <2>2
  <2>4. Append(t, c) = s
    <3> HIDE DEF c, t, s
    <3>1. Append(t, c) \in Seq(Calls) /\ Len(Append(t, c)) = n /\ n = Len(s)
      BY <2>2, <2>3 DEF s
    <3>2. \A i \in 1 .. n : Append(t, c)[i] = s[i]
      BY <2>1, <2>2, <2>3
    <3> QED
      BY <2>2, <3>1, <3>2
  <2>5. Inner(e) = [kind |-> e.kind, format |-> e.format, sprintfs |-> t]
    <3>1. n \in 1 .. Len(e.sprintfs) + 1
      BY <2>2
    <3> QED
      BY <3>1, UnderIs DEF Inner
  <2>6. e = [kind |-> e.kind, format |-> e.format, sprintfs |-> s]
    BY DEF IsMessage
  <2> HIDE DEF c, t, s
  <2>7. [Inner(e) EXCEPT !.sprintfs = Append(t, c)] =
          [kind |-> e.kind, format |-> e.format, sprintfs |-> Append(t, c)]
    BY <2>5, WithSprintfs
  <2>8. Inner(e).sprintfs = t
    BY <2>5
  <2> QED
    BY <2>4, <2>6, <2>7, <2>8 DEF Sprintf, c
<1> QED
  BY <1>1, <1>2
-----------------------------------------------------------------------------
(* What is left to fix in an assertion.                                    *)
Weight(a) ==
  IF a.args = <<>> THEN 0
  ELSE 3 * Len(Head(a.args).sprintfs)
         + (IF HasStringType(Head(a.args)) THEN 1 ELSE 3) + (IF a.f THEN 0 ELSE 1)

(* What makes b a good fix of a. *)
FixOf(a, b) ==
  /\ IsAssertion(b)
  /\ NormalArgs(b) = NormalArgs(a) /\ NormalF(b) = NormalF(a)
  /\ Printed(b) = Printed(a) \/ NeedsSprintf(Head(a.args))
  /\ Weight(b) < Weight(a)

(* What a list of arguments that begins with a message looks like.         *)
LEMMA ListIs ==
  ASSUME NEW a, IsAssertion(a), a.args # <<>>
  PROVE  LET e == Head(a.args)
             r == Tail(a.args)
         IN  /\ IsMessage(e) /\ a.args = <<e>> \o r
             /\ Len(a.args) = Len(r) + 1 /\ Len(r) \in Nat
             /\ Len(a.args) = 1 => a.args = <<e>> /\ ~ (a.f /\ a.spread)
<1> DEFINE e == Head(a.args)
           r == Tail(a.args)
           S == {e} \cup Arguments
<1>1. IsMessage(e) /\ a.args \in Seq(S)
  BY DEF IsAssertion
<1> HIDE DEF S
<1>2. a.args = <<e>> \o r /\ Len(a.args) = Len(r) + 1 /\ Len(r) \in Nat
  BY <1>1
<1>3. Len(a.args) = 1 => a.args = <<e>>
  BY <1>1
<1>4. Len(a.args) = 1 => ~ (a.f /\ a.spread)
  BY DEF IsAssertion
<1> QED
  BY <1>1, <1>2, <1>3, <1>4

(* Only calls of Sprintf are taken off: what is left begins with the text. *)
LEMMA StrippedHead ==
  ASSUME NEW e, IsMessage(e)
  PROVE  /\ Stripped(<<e>>) # <<>> /\ Head(Stripped(<<e>>)).kind = e.kind
         /\ ~ IsSprintf(e) => Stripped(<<e>>) = <<e>>
<1> DEFINE n == Len(e.sprintfs)
<1>1. e.sprintfs \in Seq(Calls) /\ n \in Nat /\ DOMAIN e.sprintfs = 1 .. n
  BY DEF IsMessage, Calls
<1>2. Proper(e) \subseteq 1 .. n
  BY <1>1 DEF Proper
<1>3. ASSUME Proper(e) = {} PROVE Stripped(<<e>>) = <<Under(e, 1)>> /\ Under(e, 1).kind = e.kind
  <2>1. Under(e, 1).kind = e.kind
    BY WithSprintfs DEF Under, IsMessage
  <2> QED
    BY <1>3, <2>1, StrippedOfOne
<1>4. ASSUME Proper(e) # {} PROVE Stripped(<<e>>) # <<>> /\ Head(Stripped(<<e>>)).kind = e.kind
  <2> DEFINE k == Max(Proper(e))
             r == e.sprintfs[k].rest
  <2>1. k \in 1 .. n
    BY <1>1, <1>2, <1>4, Extremes
  <2>2. Stripped(<<e>>) = <<Under(e, k)>> \o r
    BY <1>4, StrippedOfOne
  <2> HIDE DEF k
  <2>3. r \in Seq(Arguments)
    <3>1. e.sprintfs[k] \in Calls
      BY <1>1, <2>1
    <3> QED
      BY <3>1 DEF Calls
  <2>4. Under(e, k).kind = e.kind
    BY <1>1, <2>1, UnderIs
  <2> HIDE DEF r
  <2>5. Stripped(<<e>>) # <<>> /\ Head(Stripped(<<e>>)) = Under(e, k)
    BY <2>2, <2>3, ListOfUnwrapped
  <2> QED
    BY <2>4, <2>5
<1>5. ASSUME ~ IsSprintf(e) PROVE Stripped(<<e>>) = <<e>>
  <2>1. e.sprintfs = <<>> /\ Proper(e) = {}
    BY <1>1, <1>2, <1>5 DEF IsSprintf
  <2>2. Under(e, 1) = e
    <3>1. SubSeq(e.sprintfs, 1, 1 - 1) = e.sprintfs
      BY <2>1, SubSeqEmptyIsEmpty, Zenon
    <3>2. e = [kind |-> e.kind, format |-> e.format, sprintfs |-> e.sprintfs]
      BY DEF IsMessage
    <3>3. [e EXCEPT !.sprintfs = e.sprintfs] = e
      BY <3>2, WithSprintfs, Zenon
    <3> QED
      BY <3>1, <3>3, Zenon DEF Under
  <2> QED
    BY <1>3, <2>1, <2>2, Zenon
<1> QED
  BY <1>3, <1>4, <1>5

(* Several arguments, or a lone one that is no call, are left as they are. *)
LEMMA StrippedIs ==
  ASSUME NEW a, IsAssertion(a)
  PROVE  /\ a.args = <<>> => Stripped(a.args) = <<>>
         /\ a.args # <<>> => /\ Stripped(a.args) # <<>>
                             /\ Head(Stripped(a.args)).kind = Head(a.args).kind
         /\ (a.args # <<>> /\ (Len(a.args) = 1 => ~ IsSprintf(Head(a.args)))) =>
              Stripped(a.args) = a.args
<1>1. ASSUME Len(a.args) # 1 PROVE Stripped(a.args) = a.args
  BY <1>1, Zenon DEF Stripped
<1>2. a.args = <<>> => Len(a.args) # 1
  OBVIOUS
<1>3. ASSUME a.args # <<>>, Len(a.args) = 1
      PROVE  IsMessage(Head(a.args)) /\ a.args = <<Head(a.args)>>
  BY <1>3, ListIs
<1> QED
  BY <1>1, <1>2, <1>3, StrippedHead

(* Messages of a kind of their own are told apart by it.                   *)
LEMMA Kinds ==
  /\ IsMessage(Empty) /\ IsMessage(Value) /\ IsMessage(PlusV)
  /\ Empty.kind = "empty" /\ Value.kind = "value" /\ PlusV.kind = "literal"
  /\ Empty.sprintfs = <<>> /\ Value.sprintfs = <<>> /\ PlusV.sprintfs = <<>>
<1> DEFINE d == [flag |-> "+", index |-> "", width |-> "", dot |-> "", dotIndex |-> "",
                 dotNum |-> "", verbIndex |-> "", verb |-> "v"]
<1>1. IsFormat(<<>>)
  BY DEF IsFormat
<1>2. d \in Directives
  <2>1. Brackets = {"[1]", "[2]", "[3]", "[?]", "["}
    BY DEF Brackets, IndexTokens, ToSet
  <2>2. d \in Parts
    BY DEF Parts, SpecialVerbs, Flags
  <2>3. VerbOf(d) = "v"
    BY DEF VerbOf, Pending, Latest
  <2> QED
    BY <2>1, <2>2, <2>3 DEF Directives, Flags
<1>3. VerbOf(d) # ""
  BY DEF VerbOf, Pending, Latest
<1>4. IsFormat(<<d>>)
  <2> HIDE DEF d
  <2>1. <<d>> \in Seq(Directives)
    BY <1>2
  <2>2. DOMAIN <<d>> = 1 .. 1 /\ Len(<<d>>) = 1 /\ <<d>>[1] = d
    OBVIOUS
  <2>3. \A k \in 1 .. 1 : k = 1
    OBVIOUS
  <2> QED
    BY <1>3, <2>1, <2>2, <2>3, Zenon DEF IsFormat
<1>5. PlusV = [kind |-> "literal", format |-> <<d>>, sprintfs |-> <<>>]
  BY DEF PlusV, Lit, Bare
<1> HIDE DEF d
<1> QED
  BY <1>1, <1>4, <1>5 DEF Empty, Value, Bare, IsMessage, IsSprintf

-----------------------------------------------------------------------------
(* An assertion whose arguments are replaced is the same otherwise.        *)
LEMMA WithArgs ==
  ASSUME NEW a, a = [fn |-> a.fn, f |-> a.f, args |-> a.args, spread |-> a.spread], NEW s
  PROVE  [a EXCEPT !.args = s] = [fn |-> a.fn, f |-> a.f, args |-> s, spread |-> a.spread]
<1> DEFINE fn == a.fn  f == a.f  args == a.args  spread == a.spread
<1>1. a = [fn |-> fn, f |-> f, args |-> args, spread |-> spread]
  OBVIOUS
<1> HIDE DEF fn, f, args, spread
<1>2. [a EXCEPT !.args = s] = [fn |-> fn, f |-> f, args |-> s, spread |-> spread]
  BY <1>1
<1> QED
  BY <1>2 DEF fn, f, spread

(* An assertion whose f suffix is replaced is the same otherwise.          *)
LEMMA WithF ==
  ASSUME NEW a, a = [fn |-> a.fn, f |-> a.f, args |-> a.args, spread |-> a.spread], NEW g
  PROVE  [a EXCEPT !.f = g] = [fn |-> a.fn, f |-> g, args |-> a.args, spread |-> a.spread]
<1> DEFINE fn == a.fn  f == a.f  args == a.args  spread == a.spread
<1>1. a = [fn |-> fn, f |-> f, args |-> args, spread |-> spread]
  OBVIOUS
<1> HIDE DEF fn, f, args, spread
<1>2. [a EXCEPT !.f = g] = [fn |-> fn, f |-> g, args |-> args, spread |-> spread]
  BY <1>1
<1> QED
  BY <1>2 DEF fn, args, spread

(* Sprintf is taken off. *)
LEMMA UnwrapFixes ==
  ASSUME IsAssertion(assertion), assertion.args # <<>>, IsJudged(assertion), UnnecessarySprintf
  PROVE  FixOf(assertion, Unwrapped)
<1> DEFINE a == assertion
           e == Message
           r == Last(e.sprintfs).rest
           b == [fn |-> a.fn, f |-> a.f, args |-> <<Inner(e)>> \o r, spread |-> a.spread]
<1>1. /\ IsMessage(e) /\ IsSprintf(e) /\ a.args = <<e>> /\ Len(a.args) = 1 /\ Head(a.args) = e
      /\ ~ a.spread /\ a.spread \in BOOLEAN
  BY ListIs DEF Message, UnnecessarySprintf, IsSingle, IsJudged, IsAssertion
<1>2. /\ r \in Seq(Arguments) /\ IsMessage(Inner(e)) /\ HasStringType(Inner(e)) /\ HasStringType(e)
      /\ Len(e.sprintfs) \in Nat \ {0} /\ Len(Inner(e).sprintfs) = Len(e.sprintfs) - 1
  BY <1>1, InnerOuter DEF Calls, HasStringType
<1>3. Unwrapped = b
  <2>1. a = [fn |-> a.fn, f |-> a.f, args |-> a.args, spread |-> a.spread]
    BY DEF IsAssertion
  <2>2. Unwrapped = [a EXCEPT !.args = <<Inner(e)>> \o r]
    BY DEF Unwrapped
  <2> HIDE DEF e, r
  <2> QED
    BY <2>1, <2>2, WithArgs
<1>4. b.fn = a.fn /\ b.f = a.f /\ b.args = <<Inner(e)>> \o r /\ b.spread = FALSE
  BY <1>1
<1> DEFINE w == <<Inner(e)>> \o r
<1> HIDE DEF r
<1>5. /\ w \in Seq({Inner(e)} \cup Arguments) /\ Len(w) = Len(r) + 1 /\ Len(r) \in Nat
      /\ w # <<>> /\ Head(w) = Inner(e) /\ Tail(w) = r /\ (r = <<>> <=> Len(r) = 0)
  BY <1>2, ListOfUnwrapped
<1> HIDE DEF w
<1>6. IsAssertion(b)
  BY <1>1, <1>2, <1>4, <1>5 DEF IsAssertion, HasStringType, w
<1>7. Stripped(w) = Stripped(<<e>>)
  BY <1>1, StrippedOfUnwrapped DEF w, r
<1>8. NormalArgs(b) = NormalArgs(a) /\ NormalF(b) = NormalF(a)
  <2>1. IsJudged(b) /\ IsJudged(a) /\ Stripped(b.args) = Stripped(a.args)
    BY <1>1, <1>4, <1>7 DEF IsJudged, w
  <2>2. NormalArgs(b) = NormalArgs(a)
    BY <2>1, Zenon DEF NormalArgs
  <2> QED
    BY <1>4, <2>1, <2>2, Zenon DEF NormalF
<1>9. ASSUME ~ NeedsSprintf(e) PROVE Printed(b) = Printed(a)
  <2>1. Printed(a) = TextOf(e)
    BY <1>1, <1>2 DEF Printed
  <2>2. CASE r = <<>>
    <3>1. Len(w) = 1
      BY <1>5, <2>2
    <3>2. Printed(b) = TextOf(Inner(e))
      BY <1>2, <1>4, <1>5, <3>1 DEF Printed, w
    <3> QED
      BY <1>1, <1>9, <2>1, <2>2, <3>2, TextOfUnwrapped DEF r
  <2>3. CASE r # <<>>
    <3>1. Len(w) # 1
      BY <1>5, <2>3
    <3>2. Printed(b) = TextOf(Sprintf(Inner(e), r, FALSE))
      BY <1>2, <1>4, <1>5, <3>1 DEF Printed, w
    <3> QED
      BY <1>1, <1>9, <2>1, <2>3, <3>2, TextOfUnwrapped DEF r
  <2> QED
    BY <2>2, <2>3
<1>10. Weight(b) < Weight(a)
  <2>1. Weight(a) = 3 * Len(e.sprintfs) + 1 + (IF a.f THEN 0 ELSE 1)
    BY <1>1, <1>2 DEF Weight
  <2>2. Weight(b) = 3 * Len(Inner(e).sprintfs) + 1 + (IF a.f THEN 0 ELSE 1)
    BY <1>2, <1>4, <1>5 DEF Weight, w
  <2> DEFINE m == Len(e.sprintfs)
             q == IF a.f THEN 0 ELSE 1
             x == Weight(a)
             y == Weight(b)
  <2>3. m \in Nat /\ q \in Nat /\ x = 3 * m + 1 + q /\ y = 3 * (m - 1) + 1 + q
    BY <1>2, <2>1, <2>2
  <2> HIDE DEF m, q, x, y
  <2>4. y < x
    BY <2>3
  <2> QED
    BY <2>4 DEF x, y
<1> HIDE DEF b
<1> QED
  BY <1>1, <1>3, <1>6, <1>8, <1>9, <1>10 DEF FixOf

(* The f-function is used. *)
LEMMA RenameFixes ==
  ASSUME IsAssertion(assertion), assertion.args # <<>>, IsJudged(assertion), ~ assertion.f,
         HasStringType(Message), settings.requireFFuncs
  PROVE  FixOf(assertion, Renamed)
<1> DEFINE a == assertion
           b == [fn |-> a.fn, f |-> TRUE, args |-> a.args, spread |-> a.spread]
<1>1. a = [fn |-> a.fn, f |-> a.f, args |-> a.args, spread |-> a.spread]
  BY DEF IsAssertion
<1>2. Renamed = b
  BY <1>1, WithF, Zenon DEF Renamed
<1>3. b.fn = a.fn /\ b.f = TRUE /\ b.args = a.args /\ b.spread = a.spread
  OBVIOUS
<1>4. a.fn \in {"Equal", "Fail"} /\ ~ a.spread
  BY DEF IsJudged
<1>5. IsAssertion(b)
  BY <1>3, <1>4 DEF IsAssertion, HasStringType, Message
<1>6. IsJudged(b) /\ NormalArgs(b) = NormalArgs(a)
  BY <1>3, Zenon DEF IsJudged, NormalArgs
<1>7. NormalArgs(a) # <<>> => HasStringType(Head(NormalArgs(a)))
  <2>1. Head(Stripped(a.args)).kind # "value" /\ Stripped(a.args) # <<>>
    BY StrippedIs DEF HasStringType, Message
  <2>2. Stripped(a.args) # <<Value>>
    BY <2>1, Kinds
  <2> HIDE DEF a
  <2>3. NormalArgs(a) = <<>> \/ NormalArgs(a) = Stripped(a.args)
    BY <2>2, Zenon DEF NormalArgs, a
  <2> QED
    BY <2>1, <2>3 DEF HasStringType
<1>8. NormalF(b) = NormalF(a)
  BY <1>3, <1>6, <1>7, Zenon DEF NormalF
<1>9. Printed(b) = Printed(a)
  BY <1>3, Zenon DEF Printed
<1>10. Weight(b) < Weight(a)
  <2>1. IsMessage(Head(a.args))
    BY ListIs
  <2> DEFINE m == Len(Head(a.args).sprintfs)
             x == Weight(a)
             y == Weight(b)
  <2>2. m \in Nat
    BY <2>1 DEF IsMessage
  <2>3. x = 3 * m + 1 + 1
    BY DEF Weight, Message
  <2>4. y = 3 * m + 1 + 0
    BY <1>3 DEF Weight, Message
  <2> HIDE DEF m, x, y
  <2>5. y < x
    BY <2>2, <2>3, <2>4
  <2> QED
    BY <2>5 DEF x, y
<1> HIDE DEF b
<1> QED
  BY <1>2, <1>5, <1>6, <1>8, <1>9, <1>10 DEF FixOf

(* An empty message is removed. *)
LEMMA RemoveFixes ==
  ASSUME IsAssertion(assertion), assertion.args # <<>>, IsJudged(assertion),
         Message = Empty, IsSingle
  PROVE  FixOf(assertion, Removed)
<1> DEFINE a == assertion
           b == [fn |-> a.fn, f |-> FALSE, args |-> <<>>, spread |-> a.spread]
<1>1. a.args = <<Empty>> /\ ~ a.spread /\ a.fn \in Functions /\ a.spread \in BOOLEAN
  BY ListIs DEF Message, IsSingle, IsJudged, IsAssertion
<1>2. Removed = b
  <2>1. a = [fn |-> a.fn, f |-> a.f, args |-> a.args, spread |-> a.spread]
    BY DEF IsAssertion
  <2>2. [a EXCEPT !.args = <<>>] = [fn |-> a.fn, f |-> a.f, args |-> <<>>, spread |-> a.spread]
    BY <2>1, WithArgs
  <2>3. Removed = [[a EXCEPT !.args = <<>>] EXCEPT !.f = FALSE]
    BY DEF Removed
  <2> DEFINE c == [fn |-> a.fn, f |-> a.f, args |-> <<>>, spread |-> a.spread]
  <2>4. c.fn = a.fn /\ c.args = <<>> /\ c.spread = a.spread
        /\ c = [fn |-> c.fn, f |-> c.f, args |-> c.args, spread |-> c.spread]
    OBVIOUS
  <2> HIDE DEF c
  <2>5. [c EXCEPT !.f = FALSE] = b
    BY <2>4, WithF
  <2> QED
    BY <2>2, <2>3, <2>5 DEF c
<1>3. b.fn = a.fn /\ b.f = FALSE /\ b.args = <<>> /\ b.spread = a.spread
  OBVIOUS
<1>4. IsAssertion(b)
  BY <1>1, <1>3 DEF IsAssertion
<1>5. NormalArgs(a) = <<>>
  <2>1. Stripped(a.args) = <<Empty>>
    BY <1>1, Kinds, StrippedHead DEF IsSprintf
  <2> QED
    BY <2>1, Zenon DEF NormalArgs
<1>6. NormalArgs(b) = <<>>
  <2>1. Stripped(b.args) = <<>>
    BY <1>3, <1>4, StrippedIs
  <2>2. <<>> # <<Empty>> /\ <<>> # <<Value>>
    OBVIOUS
  <2> HIDE DEF b
  <2> QED
    BY <1>3, <2>1, <2>2, Zenon DEF NormalArgs
<1>7. NormalF(b) = NormalF(a)
  BY <1>5, <1>6, Zenon DEF NormalF
<1>8. Printed(b) = Printed(a)
  <2>1. IsPlain(Empty) /\ Proper(Empty) = {} /\ Under(Empty, 1) = Empty
    <3>1. Under(Empty, 1) = Empty
      <4>1. Empty = [kind |-> Empty.kind, format |-> Empty.format, sprintfs |-> Empty.sprintfs]
        BY Kinds DEF IsMessage
      <4> QED
        BY <4>1, Kinds, WithSprintfs, SubSeqEmptyIsEmpty DEF Under
    <3>2. DOMAIN Empty.sprintfs = {}
      BY Kinds
    <3> QED
      BY <3>1, <3>2, Zenon DEF IsPlain, Proper
  <2>2. TextOf(Empty) = Empty
    BY <2>1, Kinds, TextOfIdle
  <2>3. Len(<<Empty>>) = 1 /\ Head(<<Empty>>) = Empty /\ <<Empty>> # <<>>
    OBVIOUS
  <2> QED
    BY <1>1, <1>3, <2>2, <2>3, Kinds DEF Printed, HasStringType
<1>9. Weight(b) < Weight(a)
  <2>1. Weight(b) = 0
    BY <1>3 DEF Weight
  <2>2. Len(Message.sprintfs) = 0 /\ HasStringType(Message)
    BY Kinds DEF HasStringType
  <2>3. Weight(a) = 3 * 0 + 1 + (IF a.f THEN 0 ELSE 1)
    BY <2>2 DEF Weight, Message
  <2> QED
    BY <2>1, <2>3
<1> HIDE DEF b
<1> QED
  BY <1>2, <1>4, <1>5, <1>6, <1>7, <1>8, <1>9 DEF FixOf

(* A lone value is told apart by its kind. *)
LEMMA ValueIsValue ==
  ASSUME NEW e, IsMessage(e), ~ HasStringType(e)
  PROVE  e = Value
BY DEF IsMessage, IsSprintf, HasStringType, Value, Bare

(* Two sequences of one element make the pair.                             *)
LEMMA PairIs ==
  ASSUME NEW x, NEW y
  PROVE  <<x>> \o <<y>> = <<x, y>>
<1> DEFINE S == {x, y}
           s == <<x>>
           t == <<y>>
           u == <<x, y>>
<1>1. /\ s \in Seq(S) /\ Len(s) = 1 /\ s[1] = x
      /\ t \in Seq(S) /\ Len(t) = 1 /\ t[1] = y
      /\ u \in Seq(S) /\ Len(u) = 2 /\ u[1] = x /\ u[2] = y
  OBVIOUS
<1> HIDE DEF S, s, t, u
<1>2. s \o t \in Seq(S) /\ Len(s \o t) = 2 /\ (s \o t)[1] = x /\ (s \o t)[2] = y
  <2>1. s \o t \in Seq(S) /\ Len(s \o t) = 1 + 1
    BY <1>1
  <2>2. (s \o t)[1] = x
    BY <1>1
  <2>3. (s \o t)[2] = y
    <3>1. \A i \in 1 .. 1 + 1 : (s \o t)[i] = IF i <= 1 THEN s[i] ELSE t[i - 1]
      BY <1>1, ConcatProperties
    <3>2. 2 \in 1 .. 1 + 1 /\ ~ (2 <= 1) /\ 2 - 1 = 1
      OBVIOUS
    <3>3. (s \o t)[2] = IF 2 <= 1 THEN s[2] ELSE t[2 - 1]
      BY <3>1, <3>2
    <3> QED
      BY <1>1, <3>2, <3>3
  <2> QED
    BY <1>1, <2>1, <2>2, <2>3
<1>3. s \o t = u
  BY <1>1, <1>2
<1> QED
  BY <1>3 DEF s, t, u

(* "%+v" is introduced. *)
LEMMA IntroduceFixes ==
  ASSUME IsAssertion(assertion), assertion.args # <<>>, IsJudged(assertion), ~ assertion.f,
         ~ HasStringType(Message), IsSingle, settings.requireStringMsg
  PROVE  FixOf(assertion, Introduced)
<1> DEFINE a == assertion
           b == [fn |-> a.fn, f |-> a.f, args |-> <<PlusV, Value>>, spread |-> a.spread]
<1>1. a.args = <<Value>> /\ ~ a.spread /\ a.fn \in Functions /\ a.spread \in BOOLEAN
      /\ ~ a.f /\ a.f \in BOOLEAN
  BY ListIs, ValueIsValue DEF Message, IsSingle, IsJudged, IsAssertion
<1>2. Introduced = b
  <2>1. a = [fn |-> a.fn, f |-> a.f, args |-> a.args, spread |-> a.spread]
    BY DEF IsAssertion
  <2>2. <<PlusV>> \o <<Value>> = <<PlusV, Value>>
    BY PairIs
  <2>3. Introduced = [a EXCEPT !.args = <<PlusV, Value>>]
    BY <1>1, <2>2 DEF Introduced
  <2> QED
    BY <2>1, <2>3, WithArgs
<1>3. b.fn = a.fn /\ b.f = a.f /\ b.args = <<PlusV, Value>> /\ b.spread = a.spread
  OBVIOUS
<1> DEFINE w == <<PlusV, Value>>
<1>4. /\ Len(w) = 2 /\ w # <<>> /\ Head(w) = PlusV /\ Tail(w) = <<Value>>
      /\ w \in Seq({PlusV} \cup {Value})
  OBVIOUS
<1>5. Len(<<Value>>) = 1 /\ Head(<<Value>>) = Value /\ <<Value>> # <<>> /\ Len(<<Empty>>) = 1
  OBVIOUS
<1> HIDE DEF w
<1>6. IsAssertion(b)
  <2>1. w \in Seq({PlusV} \cup Arguments)
    BY <1>4, FormatterAssumption
  <2>2. PlusV.kind # "value"
    BY Kinds
  <2> QED
    BY <1>1, <1>3, <1>4, <2>1, <2>2, Kinds DEF IsAssertion, w
<1>7. NormalArgs(a) = w
  <2>1. Stripped(a.args) = <<Value>>
    BY <1>1, Kinds, StrippedHead DEF IsSprintf
  <2>2. <<Value>> # <<Empty>>
    BY Kinds
  <2> HIDE DEF a
  <2> QED
    BY <2>1, <2>2, Zenon DEF NormalArgs, w, a
<1>8. NormalArgs(b) = w
  <2>1. Stripped(b.args) = w
    <3>1. Len(b.args) # 1 /\ b.args # <<>>
      BY <1>3, <1>4 DEF w
    <3> QED
      BY <1>3, <1>6, <3>1, StrippedIs DEF w
  <2>2. w # <<Empty>> /\ w # <<Value>>
    <3>1. Len(w) # Len(<<Empty>>) /\ Len(w) # Len(<<Value>>)
      BY <1>4, <1>5
    <3> QED
      BY <3>1, Zenon
  <2>3. b.args = w
    BY DEF w
  <2> HIDE DEF b
  <2> QED
    BY <2>1, <2>2, <2>3, Zenon DEF NormalArgs
<1>9. NormalF(b) = NormalF(a)
  <2>1. IsJudged(b) = IsJudged(a)
    BY <1>3, Zenon DEF IsJudged
  <2> QED
    BY <1>3, <1>7, <1>8, <2>1, Zenon DEF NormalF
<1>10. Printed(b) = Printed(a)
  <2>1. Printed(a) = TextOf(Sprintf(PlusV, <<Value>>, FALSE))
    BY <1>1, <1>5, Kinds DEF Printed, HasStringType
  <2>2. b.args # <<>> /\ Head(b.args) = PlusV /\ Len(b.args) # 1 /\ Tail(b.args) = <<Value>>
        /\ b.spread = FALSE
    BY <1>1, <1>3, <1>4 DEF w
  <2> HIDE DEF b
  <2>3. Printed(b) = TextOf(Sprintf(PlusV, <<Value>>, FALSE))
    BY <2>2, Kinds DEF Printed, HasStringType
  <2> QED
    BY <2>1, <2>3
<1>11. Weight(b) < Weight(a)
  <2>1. Weight(a) = 3 * 0 + 3 + 1
    <3>1. Len(Value.sprintfs) = 0 /\ ~ HasStringType(Value)
      BY Kinds DEF HasStringType
    <3> QED
      BY <1>1, <1>5, <3>1 DEF Weight
  <2>2. Weight(b) = 3 * 0 + 1 + 1
    <3>1. Len(PlusV.sprintfs) = 0 /\ HasStringType(PlusV)
      BY Kinds DEF HasStringType
    <3> QED
      BY <1>1, <1>3, <1>4, <3>1 DEF Weight, w
  <2> QED
    BY <2>1, <2>2
<1> HIDE DEF b
<1> QED
  BY <1>2, <1>6, <1>7, <1>8, <1>9, <1>10, <1>11 DEF FixOf
-----------------------------------------------------------------------------
(* No fix is suggested to an assertion that is in its normal form or       *)
(* cannot be fixed.                                                        *)
Settled(res) ==
  /\ assertion.args = NormalArgs(assertion)
  /\ res = "" => assertion.f = NormalF(assertion)
  /\ res = "" /\ assertion.args # <<>> /\ IsJudged(assertion) => KeepsRules

Answered ==
  stage = "answer" =>
    /\ \A b \in fixes : FixOf(assertion, b)
    /\ fixes = {} => Settled(result)

SettingValues == [requireFFuncs : BOOLEAN, requireStringMsg : BOOLEAN, checkFormatString : BOOLEAN]

IInv ==
  /\ settings \in SettingValues
  /\ IsAssertion(assertion)
  /\ NormalArgs(assertion) = NormalArgs(original)
  /\ NormalF(assertion) = NormalF(original)
  /\ stage = "printf" => assertion.args # <<>> /\ assertion.f /\ IsLiteral
  /\ Answered

(* Not judged, or without a message.                                       *)
LEMMA UnjudgedSettles ==
  ASSUME IsAssertion(assertion), ~ assertion.f, assertion.args = <<>> \/ ~ IsJudged(assertion)
  PROVE  \A res : Settled(res)
<1>1. ASSUME assertion.args = <<>> PROVE NormalArgs(assertion) = <<>>
  <2>1. Stripped(assertion.args) = <<>>
    BY <1>1, StrippedIs
  <2>2. <<>> # <<Empty>> /\ <<>> # <<Value>>
    OBVIOUS
  <2> QED
    BY <1>1, <2>1, <2>2, Zenon DEF NormalArgs
<1>2. ~ IsJudged(assertion) => NormalArgs(assertion) = assertion.args
  BY Zenon DEF NormalArgs
<1>3. NormalArgs(assertion) = assertion.args
  BY <1>1, <1>2
<1>4. NormalF(assertion) = FALSE
  BY <1>3, Zenon DEF NormalF
<1> QED
  BY <1>3, <1>4 DEF Settled, IsAssertion

(* A message that is neither unwrapped nor removed nor introduced.         *)
LEMMA ArgsStay ==
  ASSUME IsAssertion(assertion), assertion.args # <<>>, ~ UnnecessarySprintf,
         IsSingle => /\ Message # Empty
                     /\ HasStringType(Message) \/ ~ settings.requireStringMsg
  PROVE  NormalArgs(assertion) = assertion.args
<1> DEFINE w == assertion.args
<1>1. Stripped(w) = w
  BY StrippedIs DEF UnnecessarySprintf, IsSingle, Message
<1>2. w # <<Empty>>
  <2>1. Len(<<Empty>>) = 1 /\ Head(<<Empty>>) = Empty
    OBVIOUS
  <2> QED
    BY <2>1, Zenon DEF IsSingle, Message
<1>3. w = <<Value>> => ~ settings.requireStringMsg
  BY Kinds DEF IsSingle, Message, HasStringType
<1> QED
  BY <1>1, <1>2, <1>3, Zenon DEF NormalArgs

(* What testify prints of a message is no panic.                           *)
LEMMA MessagePrints ==
  ASSUME IsAssertion(assertion), assertion.args # <<>>, IsSingle \/ HasStringType(Message)
  PROVE  Printed(assertion) # Bare("panic", <<>>)
<1> DEFINE a == assertion
           e == Message
<1>1. IsMessage(e)
  BY ListIs DEF Message
<1>2. ASSUME NEW m, m = [kind |-> m.kind, format |-> m.format, sprintfs |-> m.sprintfs]
      PROVE  TextOf(m).kind = m.kind
  <2>1. \A s : [m EXCEPT !.sprintfs = s].kind = m.kind
    BY <1>2, WithSprintfs
  <2> QED
    BY <2>1, Zenon DEF TextOf
<1>3. ASSUME NEW m, IsMessage(m), NEW r, NEW g
      PROVE  TextOf(Sprintf(m, r, g)).kind = m.kind
  <2> DEFINE s == Append(m.sprintfs, [rest |-> r, spread |-> g])
             c == [kind |-> m.kind, format |-> m.format, sprintfs |-> s]
  <2>1. Sprintf(m, r, g) = c
    BY <1>3, WithSprintfs DEF Sprintf, IsMessage
  <2>2. c.kind = m.kind /\ c = [kind |-> c.kind, format |-> c.format, sprintfs |-> c.sprintfs]
    OBVIOUS
  <2> HIDE DEF c
  <2> QED
    BY <1>2, <2>1, <2>2
<1>4. Printed(a) = TextOf(e) \/ (\E r, g : Printed(a) = TextOf(Sprintf(PlusV, r, g)))
        \/ (\E r, g : Printed(a) = TextOf(Sprintf(e, r, g)))
  BY Zenon DEF Printed, Message, IsSingle
<1>5. Printed(a).kind \in {e.kind, PlusV.kind}
  <2>1. TextOf(e).kind = e.kind
    BY <1>1, <1>2 DEF IsMessage
  <2> QED
    BY <1>1, <1>3, <1>4, <2>1, Kinds
<1>6. Bare("panic", <<>>).kind = "panic" /\ e.kind # "panic" /\ PlusV.kind # "panic"
  BY <1>1, Kinds DEF Bare, IsMessage
<1> QED
  BY <1>5, <1>6

(* A format that is left to the printf check.                              *)
LEMMA FmtSettles ==
  ASSUME IsAssertion(assertion), assertion.f, ~ UnnecessarySprintf, Message # Empty
  PROVE  \A res : Settled(res)
<1>1. assertion.args # <<>> /\ HasStringType(Message) /\ IsJudged(assertion)
  BY DEF IsAssertion, HasStringType, Message, IsJudged
<1>2. NormalArgs(assertion) = assertion.args
  BY <1>1, ArgsStay
<1>3. NormalF(assertion) = TRUE
  BY <1>1, <1>2, Zenon DEF NormalF
<1>4. KeepsRules
  BY <1>1, MessagePrints DEF KeepsRules
<1>5. assertion.f = TRUE
  BY DEF IsAssertion
<1> QED
  BY <1>2, <1>3, <1>4, <1>5 DEF Settled

(* A message that testify formats or prints as it is, and no f-function    *)
(* required.                                                               *)
LEMMA MessageSettles ==
  ASSUME IsAssertion(assertion), assertion.args # <<>>, ~ assertion.f, ~ UnnecessarySprintf,
         Message # Empty, IsSingle \/ HasStringType(Message),
         IF HasStringType(Message) THEN ~ settings.requireFFuncs ELSE ~ settings.requireStringMsg
  PROVE  Settled("")
<1>1. NormalArgs(assertion) = assertion.args
  BY ArgsStay
<1>2. NormalF(assertion) = FALSE
  BY <1>1, Zenon DEF NormalF, Message
<1>3. KeepsRules
  BY MessagePrints, Zenon DEF KeepsRules
<1>4. assertion.f = FALSE
  BY DEF IsAssertion
<1> QED
  BY <1>1, <1>2, <1>3, <1>4 DEF Settled

(* A step that leaves the settings leaves what assertions should become.   *)
LEMMA SameNormal ==
  ASSUME settings' = settings
  PROVE  /\ \A a : NormalArgs(a)' = NormalArgs(a) /\ NormalF(a)' = NormalF(a)
         /\ \A a, b : FixOf(a, b)' <=> FixOf(a, b)
<1>1. \A a : NormalArgs(a)' = NormalArgs(a)
  BY Zenon DEF NormalArgs
<1>2. \A a : NormalF(a)' = NormalF(a)
  BY <1>1, Zenon DEF NormalF
<1> QED
  BY <1>1, <1>2, Zenon DEF FixOf

(* Everything but the answer stays. *)
LEMMA CheckKeeps ==
  ASSUME IInv, UNCHANGED <<original, assertion, settings>>
  PROVE  /\ settings' \in SettingValues /\ IsAssertion(assertion)'
         /\ NormalArgs(assertion)' = NormalArgs(original)'
         /\ NormalF(assertion)' = NormalF(original)'
<1>1. NormalArgs(assertion)' = NormalArgs(assertion) /\ NormalArgs(original)' = NormalArgs(original)
  BY Zenon DEF NormalArgs
<1>2. NormalF(assertion)' = NormalF(assertion) /\ NormalF(original)' = NormalF(original)
  BY <1>1, Zenon DEF NormalF
<1> QED
  BY <1>1, <1>2 DEF IInv

(* An answer of good fixes, or of none where there is nothing to fix.      *)
LEMMA AnswerKeeps ==
  ASSUME IInv, NEW what, NEW fs, Answer(what, fs),
         \A b \in fs : FixOf(assertion, b), fs = {} => Settled(what)
  PROVE  IInv'
<1>1. /\ stage' = "answer" /\ result' = what /\ fixes' = fs
      /\ UNCHANGED <<original, assertion, settings>>
  BY DEF Answer
<1>2. \A b \in fixes' : FixOf(assertion, b)'
  <2>1. \A b : FixOf(assertion, b)' <=> FixOf(assertion, b)
    BY <1>1, SameNormal, Zenon DEF FixOf
  <2> QED
    BY <1>1, <2>1
<1>3. ASSUME Settled(what) PROVE Settled(result)'
  <2>1. NormalArgs(assertion)' = NormalArgs(assertion) /\ NormalF(assertion)' = NormalF(assertion)
    BY <1>1, Zenon DEF NormalArgs, NormalF
  <2>2. KeepsRules' <=> KeepsRules
    BY <1>1, Zenon DEF KeepsRules, UnnecessarySprintf, IsSingle, Message
  <2>3. IsJudged(assertion)' <=> IsJudged(assertion)
    BY <1>1, Zenon DEF IsJudged
  <2> QED
    BY <1>1, <1>3, <2>1, <2>2, <2>3, Zenon DEF Settled
<1> QED
  BY <1>1, <1>2, <1>3, CheckKeeps DEF IInv, Answered

(* A check that answers without a fix keeps the invariant.                 *)
LEMMA SilentKeeps ==
  ASSUME IInv, NEW what, Answer(what, {}), Settled(what)
  PROVE  IInv'
<1> DEFINE fs == {}
<1>1. \A b \in fs : FixOf(assertion, b)
  OBVIOUS
<1>2. Answer(what, fs) /\ (fs = {} => Settled(what))
  OBVIOUS
<1> HIDE DEF fs
<1> QED
  BY <1>1, <1>2, AnswerKeeps

(* An empty message is removed unless something follows it.                *)
LEMMA EmptyKeeps ==
  ASSUME IInv, assertion.args # <<>>, IsJudged(assertion), Message = Empty,
         Answer("empty message", IF IsSingle THEN {Removed} ELSE {})
  PROVE  IInv'
<1>1. IsAssertion(assertion)
  BY DEF IInv
<1>2. CASE IsSingle
  <2>1. {Removed} # {} /\ \A b \in {Removed} : FixOf(assertion, b)
    BY <1>1, <1>2, RemoveFixes
  <2> QED
    BY <1>2, <2>1, AnswerKeeps
<1>3. CASE ~ IsSingle
  <2>1. ~ UnnecessarySprintf
    BY <1>3 DEF UnnecessarySprintf
  <2>2. Settled("empty message")
    BY <1>1, <1>3, <2>1, ArgsStay DEF Settled
  <2> QED
    BY <1>3, <2>2, SilentKeeps
<1> QED
  BY <1>2, <1>3
-----------------------------------------------------------------------------
(* The invariant holds at the start.                                       *)
LEMMA InitIInv == Init => IInv
<1> SUFFICES ASSUME Init PROVE IInv
  OBVIOUS
<1>1. /\ IsAssertion(assertion) /\ assertion = original
      /\ settings \in SettingValues /\ stage = "check"
  BY FormatterAssumption DEF Init, SettingValues
<1> QED
  BY <1>1 DEF IInv, Answered

(* The answers to an assertion without `f`. *)
LEMMA NotFmtKeeps ==
  ASSUME IInv, NotPrintfLike \/ Fail \/ RemoveSprintf \/ EmptyMessage \/ StringMessage
                 \/ ValueMessage
  PROVE  IInv'
<1>1. IsAssertion(assertion) /\ assertion.f \in BOOLEAN
  BY DEF IInv, IsAssertion
<1>2. CASE NotPrintfLike
  <2>1. ~ assertion.f /\ (assertion.args = <<>> \/ ~ IsJudged(assertion)) /\ Answer("", {})
    BY <1>2 DEF NotPrintfLike, CheckNotFmt, IsPrintfLike, IsJudged
  <2> QED
    BY <1>1, <2>1, UnjudgedSettles, SilentKeeps
<1>3. CASE Fail
  <2>1. ~ assertion.f /\ ~ IsJudged(assertion)
    BY <1>3 DEF Fail, CheckNotFmt, IsJudged
  <2>2. PICK what : Answer(what, {})
    BY <1>3 DEF Fail
  <2> QED
    BY <1>1, <2>1, <2>2, UnjudgedSettles, SilentKeeps
<1>4. ASSUME CheckMessage
      PROVE  ~ assertion.f /\ assertion.args # <<>> /\ IsJudged(assertion) /\ IsMessage(Message)
  BY <1>1, <1>4, ListIs DEF CheckMessage, CheckNotFmt, IsPrintfLike, IsJudged, Message
<1>5. ~ IsSprintf(Empty) /\ HasStringType(Empty)
  BY Kinds DEF IsSprintf, HasStringType
<1>6. CASE RemoveSprintf
  <2>1. CheckMessage /\ UnnecessarySprintf
    BY <1>6 DEF RemoveSprintf
  <2>2. FixOf(assertion, Unwrapped)
    BY <1>1, <1>4, <2>1, UnwrapFixes
  <2>3. CASE settings.requireFFuncs
    <3>1. HasStringType(Message)
      BY <1>4, <2>1, InnerOuter DEF UnnecessarySprintf, HasStringType
    <3>2. FixOf(assertion, Renamed)
      BY <1>1, <1>4, <2>1, <2>3, <3>1, RenameFixes
    <3>3. Answer("remove Sprintf and use f-function", {Unwrapped, Renamed})
      BY <1>6, <2>3 DEF RemoveSprintf
    <3>4. \A b \in {Unwrapped, Renamed} : FixOf(assertion, b)
      BY <2>2, <3>2
    <3>5. {Unwrapped, Renamed} # {}
      OBVIOUS
    <3> QED
      BY <3>3, <3>4, <3>5, AnswerKeeps
  <2>4. CASE ~ settings.requireFFuncs
    <3>1. Answer("remove Sprintf", {Unwrapped})
      BY <1>6, <2>4 DEF RemoveSprintf
    <3>2. {Unwrapped} # {} /\ \A b \in {Unwrapped} : FixOf(assertion, b)
      BY <2>2
    <3> QED
      BY <3>1, <3>2, AnswerKeeps
  <2> QED
    BY <2>3, <2>4
<1>7. CASE EmptyMessage
  <2>1. CheckMessage /\ Message = Empty
        /\ Answer("empty message", IF IsSingle THEN {Removed} ELSE {})
    BY <1>7 DEF EmptyMessage
  <2> QED
    BY <1>1, <1>4, <2>1, EmptyKeeps
<1>8. CASE StringMessage
  <2>1. CheckMessage /\ ~ UnnecessarySprintf /\ HasStringType(Message) /\ Message # Empty
    BY <1>8 DEF StringMessage
  <2>2. CASE settings.requireFFuncs
    <3>1. Answer("use f-function", {Renamed})
      BY <1>8, <2>2 DEF StringMessage
    <3>2. {Renamed} # {} /\ \A b \in {Renamed} : FixOf(assertion, b)
      BY <1>1, <1>4, <2>1, <2>2, RenameFixes
    <3> QED
      BY <3>1, <3>2, AnswerKeeps
  <2>3. CASE ~ settings.requireFFuncs
    <3>1. Answer("", {})
      BY <1>8, <2>3 DEF StringMessage
    <3>2. Settled("")
      BY <1>1, <1>4, <2>1, <2>3, MessageSettles
    <3> QED
      BY <3>1, <3>2, SilentKeeps
  <2> QED
    BY <2>2, <2>3
<1>9. CASE ValueMessage
  <2>1. CheckMessage /\ ~ HasStringType(Message)
    BY <1>9 DEF ValueMessage
  <2>2. Message = Value /\ Message # Empty /\ ~ UnnecessarySprintf
    BY <1>4, <1>5, <2>1, Kinds, ValueIsValue DEF UnnecessarySprintf, IsSprintf
  <2>3. CASE ~ IsSingle
    <3>1. Answer("message causes panic", {})
      BY <1>9, <2>3 DEF ValueMessage
    <3>2. Settled("message causes panic")
      BY <1>1, <1>4, <2>1, <2>2, <2>3, ArgsStay DEF Settled
    <3> QED
      BY <3>1, <3>2, SilentKeeps
  <2>4. CASE IsSingle /\ settings.requireStringMsg
    <3>1. Answer("non-string message", {Introduced})
      BY <1>9, <2>4 DEF ValueMessage
    <3>2. {Introduced} # {} /\ \A b \in {Introduced} : FixOf(assertion, b)
      BY <1>1, <1>4, <2>1, <2>4, IntroduceFixes
    <3> QED
      BY <3>1, <3>2, AnswerKeeps
  <2>5. CASE IsSingle /\ ~ settings.requireStringMsg
    <3>1. Answer("", {})
      BY <1>9, <2>5 DEF ValueMessage
    <3>2. Settled("")
      BY <1>1, <1>4, <2>1, <2>2, <2>5, MessageSettles
    <3> QED
      BY <3>1, <3>2, SilentKeeps
  <2> QED
    BY <2>3, <2>4, <2>5
<1> QED
  BY <1>2, <1>3, <1>6, <1>7, <1>8, <1>9

(* The answers to an f-assertion. *)
LEMMA FmtKeeps ==
  ASSUME IInv, RemoveSprintfOfFmt \/ UnknownFormat \/ EmptyFormat \/ FormatNotChecked
                 \/ StartPrintf \/ PrintfStep \/ EndPrintf
  PROVE  IInv'
<1>1. IsAssertion(assertion)
  BY DEF IInv
<1>2. ASSUME CheckFmt PROVE assertion.f /\ assertion.args # <<>> /\ IsJudged(assertion)
  BY <1>1, <1>2 DEF CheckFmt, IsAssertion, IsJudged
<1>3. IsLiteral => ~ UnnecessarySprintf /\ Message # Empty
  BY Kinds DEF IsLiteral, UnnecessarySprintf
<1>4. CASE RemoveSprintfOfFmt
  <2>1. CheckFmt /\ UnnecessarySprintf /\ Answer("remove Sprintf", {Unwrapped})
    BY <1>4 DEF RemoveSprintfOfFmt
  <2>2. {Unwrapped} # {} /\ \A b \in {Unwrapped} : FixOf(assertion, b)
    BY <1>1, <1>2, <2>1, UnwrapFixes
  <2> QED
    BY <2>1, <2>2, AnswerKeeps
<1>5. CASE UnknownFormat
  <2>1. CheckFmt /\ ~ UnnecessarySprintf /\ Message # Empty /\ Answer("", {})
    BY <1>5 DEF UnknownFormat
  <2> QED
    BY <1>1, <1>2, <2>1, FmtSettles, SilentKeeps
<1>6. CASE EmptyFormat
  <2>1. CheckFmt /\ Message = Empty
        /\ Answer("empty message", IF IsSingle THEN {Removed} ELSE {})
    BY <1>6 DEF EmptyFormat
  <2> QED
    BY <1>1, <1>2, <2>1, EmptyKeeps
<1>7. CASE FormatNotChecked
  <2>1. CheckFmt /\ IsLiteral /\ Answer("", {})
    BY <1>7 DEF FormatNotChecked
  <2> QED
    BY <1>1, <1>2, <1>3, <2>1, FmtSettles, SilentKeeps
<1>8. CASE StartPrintf
  <2>1. CheckFmt /\ IsLiteral /\ stage' = "printf" /\ UNCHANGED <<original, assertion, settings>>
    BY <1>8 DEF StartPrintf
  <2>2. IsLiteral'
    BY <2>1 DEF IsLiteral, Message
  <2> QED
    BY <1>2, <2>1, <2>2, CheckKeeps DEF IInv, Answered
<1>9. CASE PrintfStep
  <2>1. /\ stage = "printf" /\ stage' = "printf"
        /\ UNCHANGED <<original, assertion, settings>>
    BY <1>9 DEF PrintfStep
  <2>2. IsLiteral' /\ assertion'.args # <<>> /\ assertion'.f
    BY <2>1 DEF IInv, IsLiteral, Message
  <2> QED
    BY <2>1, <2>2, CheckKeeps DEF IInv, Answered
<1>10. CASE EndPrintf
  <2>1. assertion.f /\ IsLiteral
    BY <1>10 DEF EndPrintf, IInv
  <2>2. Answer(IF reports = <<>> THEN "" ELSE Last(reports), {})
    BY <1>10 DEF EndPrintf
  <2>3. PICK what : Answer(what, {})
    BY <2>2
  <2> QED
    BY <1>1, <1>3, <2>1, <2>3, FmtSettles, SilentKeeps
<1> QED
  BY <1>4, <1>5, <1>6, <1>7, <1>8, <1>9, <1>10

(* Applying a suggested fix keeps the invariant.                           *)
LEMMA FixKeeps ==
  ASSUME IInv, ApplyFix
  PROVE  IInv'
<1>1. /\ stage = "answer" /\ assertion' \in fixes /\ stage' = "check"
      /\ UNCHANGED <<original, settings>>
  BY DEF ApplyFix
<1>2. FixOf(assertion, assertion')
  BY <1>1 DEF IInv, Answered
<1>3. /\ IsAssertion(assertion') /\ NormalArgs(assertion') = NormalArgs(original)
      /\ NormalF(assertion') = NormalF(original)
  BY <1>2 DEF IInv, FixOf
<1>4. /\ NormalArgs(assertion)' = NormalArgs(assertion')
      /\ NormalArgs(original)' = NormalArgs(original)
  BY <1>1, Zenon DEF NormalArgs
<1>5. NormalF(assertion)' = NormalF(assertion') /\ NormalF(original)' = NormalF(original)
  BY <1>1, <1>4, Zenon DEF NormalF
<1> QED
  BY <1>1, <1>3, <1>4, <1>5 DEF IInv, Answered

(* Every step keeps the invariant.                                         *)
LEMMA NextIInv == IInv /\ [Next]_vars => IInv'
<1> SUFFICES ASSUME IInv, [Next]_vars PROVE IInv'
  OBVIOUS
<1>1. ASSUME UNCHANGED vars PROVE IInv'
  <2>1. UNCHANGED <<original, assertion, settings, stage, result, fixes>>
    BY <1>1 DEF vars
  <2>2. (stage = "printf" => assertion.args # <<>> /\ assertion.f /\ IsLiteral)'
    BY <2>1 DEF IInv, IsLiteral, Message
  <2>3. Answered'
    <3>1. NormalArgs(assertion)' = NormalArgs(assertion) /\ NormalF(assertion)' = NormalF(assertion)
      BY <2>1, Zenon DEF NormalArgs, NormalF
    <3>2. KeepsRules' <=> KeepsRules
      BY <2>1, Zenon DEF KeepsRules, UnnecessarySprintf, IsSingle, Message
    <3>3. Settled(result)' <=> Settled(result)
      BY <2>1, <3>1, <3>2, Zenon DEF Settled, IsJudged
    <3>4. \A b : FixOf(assertion, b)' <=> FixOf(assertion, b)
      BY <2>1, SameNormal, Zenon DEF FixOf
    <3> QED
      BY <2>1, <3>3, <3>4 DEF IInv, Answered
  <2> QED
    BY <2>1, <2>2, <2>3, CheckKeeps DEF IInv
<1>2. ASSUME Next PROVE IInv'
  BY <1>2, NotFmtKeeps, FmtKeeps, FixKeeps DEF Next
<1> QED
  BY <1>1, <1>2

(* The assertion keeps its normal form, and every suggested fix is good.   *)
THEOREM InductiveInvariant == Spec => []IInv
BY InitIInv, NextIInv, PTL DEF Spec

(* Whichever of two suggested fixes is applied first, and however deep the *)
(* Sprintf calls are nested, the assertion ends in the same form.          *)
THEOREM FixesLeadToOne == Spec => []FixesAgree
<1>1. IInv => FixesAgree
  BY DEF IInv, Answered, Settled, FixesAgree, Ended
<1> QED
  BY <1>1, InductiveInvariant, PTL
-----------------------------------------------------------------------------
(* The printf check, with what Printf_proofs proves of it for every call.  *)
(* Its definitions are those that Formatter has as Printf!..., under       *)
(* another name.                                                           *)
PP == INSTANCE Printf_proofs WITH Calls <- {}

(* The same operators under both names: of the community modules, ...      *)
LEMMA SameOperators ==
  /\ \A s : Printf!ToSet(s) = PP!ToSet(s)
  /\ \A s : Printf!Last(s) = PP!Last(s)
  /\ \A s : Printf!Front(s) = PP!Front(s)
  /\ \A s : Printf!Max(s) = PP!Max(s)
  /\ \A s : Printf!FlattenSeq(s) = PP!FlattenSeq(s)
BY DEF PP!ToSet, Printf!ToSet, PP!Last, Printf!Last, PP!Front, Printf!Front, PP!Max, Printf!Max,
       PP!FlattenSeq, Printf!FlattenSeq

(* ... of formats, ...                                                     *)
LEMMA SameFormats ==
  /\ \A s : Printf!Render(s) = PP!Render(s)
  /\ \A s : Printf!IndexOf(s) = PP!IndexOf(s)
  /\ Printf!Brackets = PP!Brackets /\ Printf!Flags = PP!Flags
  /\ Printf!PrintVerbs = PP!PrintVerbs /\ Printf!StringVerbs = PP!StringVerbs
<1>1. \A s : Printf!Tokens(s) = PP!Tokens(s)
  BY DEF PP!Tokens, Printf!Tokens, PP!Part, Printf!Part
<1> QED
  BY <1>1, SameOperators DEF PP!Render, Printf!Render, PP!IndexTokens, Printf!IndexTokens,
                             PP!IndexOf, Printf!IndexOf, PP!Brackets, Printf!Brackets, PP!Flags,
                             Printf!Flags, PP!PrintVerbs, Printf!PrintVerbs, PP!StringVerbs,
                             Printf!StringVerbs, PP!AllFlags, Printf!AllFlags

(* ... and of what the walk sees.                                          *)
LEMMA SameToken ==
  /\ Printf!format = PP!format /\ Printf!args = PP!args /\ Printf!Token = PP!Token
  /\ \A s : Printf!Beyond(s) = PP!Beyond(s)
BY SameFormats DEF PP!format, Printf!format, PP!args, Printf!args, PP!Token, Printf!Token,
                   PP!Beyond, Printf!Beyond

(* The walk between directives and the parser: the same steps.             *)
LEMMA SameParsing ==
  /\ Printf!NoDirectives => PP!NoDirectives
  /\ Printf!Begin => PP!Begin
  /\ Printf!ScanText => PP!ScanText
  /\ Printf!StartDirective => PP!StartDirective
  /\ Printf!ParseFlags => PP!ParseFlags
  /\ Printf!ParsePrecision => PP!ParsePrecision
  /\ Printf!NoVerb => PP!NoVerb
  /\ Printf!ParseVerb => PP!ParseVerb
  /\ Printf!Finish => PP!Finish
<1> USE SameOperators, SameFormats, SameToken
<1>1. /\ Printf!NoDirectives => PP!NoDirectives
      /\ Printf!Begin => PP!Begin
      /\ Printf!ScanText => PP!ScanText
  BY Zenon DEF PP!NoDirectives, Printf!NoDirectives, PP!Begin, Printf!Begin, PP!ScanText,
     Printf!ScanText, PP!Report, Printf!Report, PP!Total, Printf!Total
<1>2. Printf!StartDirective => PP!StartDirective
  BY Zenon DEF PP!StartDirective, Printf!StartDirective, PP!NewState, Printf!NewState
<1>3. Printf!ParseFlags => PP!ParseFlags
  <2>1. Printf!format = PP!format /\ Printf!Beyond(Printf!Flags) = PP!Beyond(PP!Flags)
    BY Zenon
  <2> QED
    BY <2>1, SMT DEF PP!ParseFlags, Printf!ParseFlags
<1>6. Printf!ParsePrecision => PP!ParsePrecision
  BY Zenon DEF PP!ParsePrecision, Printf!ParsePrecision
<1>4. /\ Printf!NoVerb => PP!NoVerb
      /\ Printf!ParseVerb => PP!ParseVerb
  BY Zenon DEF PP!NoVerb, Printf!NoVerb, PP!ParseVerb, Printf!ParseVerb, PP!Report, Printf!Report
<1>5. Printf!Finish => PP!Finish
  BY Zenon DEF PP!Finish, Printf!Finish, PP!Report, Printf!Report, PP!Total, Printf!Total
<1> QED
  BY <1>1, <1>2, <1>3, <1>4, <1>5, <1>6, Zenon

(* The functions of the parser that are called more than once.             *)
LEMMA SameIndexes ==
  ASSUME NEW from
  PROVE  /\ Printf!BadIndex(from) => PP!BadIndex(from)
         /\ \A to : Printf!NoIndex(from, to) => PP!NoIndex(from, to)
         /\ \A to : Printf!Index(from, to) => PP!Index(from, to)
         /\ \A to : Printf!Star(from, to) => PP!Star(from, to)
         /\ \A to : Printf!Digits(from, to) => PP!Digits(from, to)
BY SameOperators, SameFormats, SameToken, Zenon
  DEF PP!BadIndex, Printf!BadIndex, PP!NoIndex, Printf!NoIndex, PP!Index, Printf!Index, PP!Star,
      Printf!Star, PP!Digits, Printf!Digits, PP!AtIndex, Printf!AtIndex, PP!Report,
      Printf!Report

(* The checks of a directive and its arguments.                            *)
LEMMA SameChecks ==
  /\ Printf!RejectVerb => PP!RejectVerb
  /\ Printf!RejectReads => PP!RejectReads
  /\ Printf!RejectValue => PP!RejectValue
  /\ Printf!RejectWrapping => PP!RejectWrapping
  /\ Printf!NextDirective => PP!NextDirective
BY SameOperators, SameFormats, SameToken, Zenon
  DEF PP!RejectVerb, Printf!RejectVerb, PP!RejectReads, Printf!RejectReads, PP!RejectValue,
      Printf!RejectValue, PP!RejectWrapping, Printf!RejectWrapping, PP!NextDirective,
      Printf!NextDirective, PP!Report, Printf!Report, PP!FormatsItself, Printf!FormatsItself,
      PP!BadVerb, Printf!BadVerb, PP!BadFlag, Printf!BadFlag, PP!CanBeChecked,
      Printf!CanBeChecked, PP!Judged, Printf!Judged, PP!Unseen, Printf!Unseen, PP!Seen,
      Printf!Seen, PP!FuncValue, Printf!FuncValue, PP!Recursive, Printf!Recursive, PP!GoodVerb,
      Printf!GoodVerb, PP!GoodArgs, Printf!GoodArgs, PP!GoodDirective, Printf!GoodDirective,
      PP!Total, Printf!Total

(* A step of the printf check is one that Printf_proofs is about.          *)
LEMMA SameNext == Printf!Next => PP!Next
BY SameParsing, SameIndexes, SameChecks DEF Printf!Next, PP!Next

(* The printf check can be entered with any call, in this state ...        *)
LEMMA CheckBegins == PP!Entering => PP!Checking
BY PP!EnteringChecks

(* ... and in the next.                                                    *)
LEMMA CheckBeginsNext == PP!Entering' => PP!Checking'
BY CheckBegins, PTL

(* What a directive is and asks for, here and there.                       *)
LEMMA SameParts ==
  /\ Directives = PP!Directives
  /\ \A d : Items(d) = PP!Items(d) /\ VerbOf(d) = PP!VerbOf(d) /\ (Indexed(d) <=> PP!Indexed(d))
<1>1. /\ \A s : ToSet(s) = PP!ToSet(s)
      /\ \A d : VerbOf(d) = PP!VerbOf(d) /\ Pending(d) = PP!Pending(d)
      /\ \A o, n : Latest(o, n) = PP!Latest(o, n)
  BY DEF ToSet, PP!ToSet, VerbOf, Pending, Latest, PP!VerbOf, PP!Pending, PP!Latest
<1>2. Parts = PP!Parts /\ Flags = PP!Flags /\ Brackets = PP!Brackets
  BY <1>1 DEF Parts, PP!Parts, Flags, PP!Flags, Brackets, PP!Brackets, SpecialVerbs,
              PP!SpecialVerbs, IndexTokens, PP!IndexTokens
<1> QED
  BY <1>1, <1>2 DEF Directives, PP!Directives, Items, PP!Items, Indexed, PP!Indexed

(* What a format is and asks for, here and there.                          *)
LEMMA SameItems ==
  /\ \A ds : IsFormat(ds) <=> PP!IsFormat(ds)
  /\ \A ds, k : ItemsOf(ds, k) = PP!ItemsOf(ds, k)
<1>1. \A s : FlattenSeq(s) = PP!FlattenSeq(s)
  BY DEF FlattenSeq, PP!FlattenSeq
<1> QED
  BY <1>1, SameParts DEF IsFormat, PP!IsFormat, ItemsOf, PP!ItemsOf

(* While the printf check runs it checks the assertion, as Printf says.    *)
Checked ==
  stage = "printf" =>
    /\ PP!Checking /\ settings.checkFormatString
    /\ call.format = Message.format /\ call.ellipsis = assertion.spread
    /\ Len(call.args) = Len(assertion.args) - 1

FitInv == Checked /\ (stage = "answer" /\ result = "" => FormatFits)

(* The printf check is entered with a call.                                *)
LEMMA StartChecks ==
  ASSUME IInv, StartPrintf
  PROVE  Checked'
<1> DEFINE n == Len(assertion.args) - 1
           plain == [k \in 1 .. n |-> "plain"]
<1>1. /\ IsAssertion(assertion) /\ assertion.f /\ settings.checkFormatString
      /\ UNCHANGED <<assertion, settings>>
      /\ call' = [format |-> Message.format, ellipsis |-> assertion.spread, args |-> plain]
  BY DEF StartPrintf, CheckFmt, IInv
<1>2. assertion.args # <<>> /\ IsMessage(Message) /\ Len(assertion.args) \in Nat \ {0}
  BY <1>1, ListIs DEF IsAssertion, Message
<1>3. /\ assertion.spread \in BOOLEAN
      /\ assertion.spread => Len(assertion.args) > 1
  BY <1>1 DEF IsAssertion
<1>4. n \in Nat /\ (assertion.spread => n > 0)
  BY <1>2, <1>3
<1> HIDE DEF n
<1>5. /\ plain \in Seq({"plain"}) /\ Len(plain) = n
      /\ n > 0 => plain # <<>> /\ plain[n] = "plain"
  BY <1>4
<1>6. plain \in Seq({"plain", "formatter", "func", "stringer"})
  BY <1>4
<1>7. n > 0 => PP!Last(plain) = "plain"
  BY <1>5 DEF PP!Last
<1> HIDE DEF plain
<1>8. /\ call'.format = Message.format /\ call'.ellipsis = assertion.spread
      /\ call'.args = plain
  BY <1>1
<1>9. PP!IsFormat(Message.format)
  BY <1>2, SameItems DEF IsMessage
<1>10. PP!IsCall(call')
  BY <1>3, <1>4, <1>5, <1>6, <1>7, <1>8, <1>9 DEF PP!IsCall
<1>11. /\ pc' = "start" /\ pos' = 1 /\ argNum' = 1 /\ maxArgNum' = 1 /\ anyIndex' = FALSE
       /\ state' = PP!NewState(1) /\ reports' = <<>>
  BY DEF StartPrintf, Printf!NewState, PP!NewState
<1>12. PP!Entering'
  BY <1>10, <1>11 DEF PP!Entering
<1>13. PP!Checking'
  BY <1>12, CheckBeginsNext
<1>14. Message' = Message
  BY <1>1 DEF Message
<1>15. Len(call'.args) = Len(assertion'.args) - 1
  BY <1>1, <1>5, <1>8 DEF n
<1> QED
  BY <1>1, <1>8, <1>13, <1>14, <1>15 DEF Checked

(* Its steps keep what is known of it.                                     *)
LEMMA StepsCheck ==
  ASSUME Checked, stage = "printf", UNCHANGED <<assertion, settings>>,
         Printf!Next \/ UNCHANGED printfVars
  PROVE  Checked'
<1>1. [PP!Next]_(PP!vars)
  BY SameNext DEF printfVars, PP!vars
<1>2. PP!Checking' /\ call' = call
  BY <1>1, PP!StepChecks, PP!CallKept DEF Checked
<1>3. Message' = Message
  BY DEF Message
<1> QED
  BY <1>2, <1>3 DEF Checked

(* What it accepts fits.                                                   *)
LEMMA EndFits ==
  ASSUME IInv, Checked, EndPrintf, result' = ""
  PROVE  FormatFits'
<1>1. /\ stage = "printf" /\ pc = "done" /\ UNCHANGED <<assertion, settings>>
      /\ result' = IF reports = <<>> THEN "" ELSE Last(reports)
  BY DEF EndPrintf, Answer
<1>2. /\ PP!Checking /\ call.format = Message.format /\ call.ellipsis = assertion.spread
      /\ Len(call.args) = Len(assertion.args) - 1
  BY <1>1 DEF Checked
<1>3. PP!OneArgumentEach /\ (reports # <<>> => PP!Last(reports) # "")
  BY <1>1, <1>2, PP!CheckingTells
<1>4. reports = <<>>
  BY <1>1, <1>3 DEF Last, PP!Last
<1> DEFINE ds == Message.format
<1>5. FormatFits
  <2> SUFFICES ASSUME ~ assertion.spread, \A k \in DOMAIN ds : ~ Indexed(ds[k])
               PROVE  Len(assertion.args) - 1 = Len(ItemsOf(ds, Len(ds)))
    BY DEF FormatFits
  <2>1. \A k \in DOMAIN call.format : ~ PP!Indexed(PP!Directive(k))
    BY <1>2, SameParts DEF PP!Directive
  <2>2. PP!Accepted
    BY <1>1, <1>2, <1>4, <2>1 DEF PP!Accepted
  <2>3. Len(call.args) = Len(PP!ItemsOf(call.format, Len(call.format)))
    BY <1>3, <2>2 DEF PP!OneArgumentEach
  <2> QED
    BY <1>2, <2>3, SameItems
<1>6. FormatFits' <=> FormatFits
  BY <1>1 DEF FormatFits, Message, IsLiteral
<1> QED
  BY <1>5, <1>6

(* Of other assertions no format is checked.                               *)
LEMMA OthersFit ==
  ASSUME IInv, stage' = "answer",
         NotPrintfLike \/ Fail \/ RemoveSprintf \/ EmptyMessage \/ StringMessage \/ ValueMessage
           \/ RemoveSprintfOfFmt \/ UnknownFormat \/ EmptyFormat \/ FormatNotChecked
  PROVE  FitInv'
<1>1. UNCHANGED <<assertion, settings>> /\ stage' # "printf"
  BY DEF NotPrintfLike, Fail, RemoveSprintf, EmptyMessage, StringMessage, ValueMessage,
         RemoveSprintfOfFmt, UnknownFormat, EmptyFormat, FormatNotChecked, Answer
<1>2. FormatFits' <=> FormatFits
  BY <1>1 DEF FormatFits, Message, IsLiteral
<1>3. result' = "" => FormatFits
  <2>1. CASE ~ assertion.f
    BY <2>1 DEF FormatFits
  <2>2. CASE RemoveSprintfOfFmt
    BY <2>2 DEF RemoveSprintfOfFmt, Answer
  <2>3. CASE UnknownFormat
    BY <2>3 DEF UnknownFormat, FormatFits
  <2>4. CASE EmptyFormat
    <3>1. ~ IsLiteral
      BY <2>4, Kinds DEF EmptyFormat, IsLiteral
    <3> QED
      BY <3>1 DEF FormatFits
  <2>5. CASE FormatNotChecked
    BY <2>5 DEF FormatNotChecked, FormatFits
  <2> QED
    BY <2>1, <2>2, <2>3, <2>4, <2>5 DEF NotPrintfLike, Fail, RemoveSprintf, EmptyMessage,
       StringMessage, ValueMessage, CheckMessage, CheckNotFmt
<1> QED
  BY <1>1, <1>2, <1>3 DEF FitInv, Checked

(* Every step keeps what is known of formats.                              *)
LEMMA NextFitInv == IInv /\ FitInv /\ [Next]_vars => FitInv'
<1> SUFFICES ASSUME IInv, FitInv, [Next]_vars PROVE FitInv'
  OBVIOUS
<1>1. CASE NotPrintfLike \/ Fail \/ RemoveSprintf \/ EmptyMessage \/ StringMessage \/ ValueMessage
             \/ RemoveSprintfOfFmt \/ UnknownFormat \/ EmptyFormat \/ FormatNotChecked
  <2>1. stage' = "answer"
    BY <1>1 DEF NotPrintfLike, Fail, RemoveSprintf, EmptyMessage, StringMessage, ValueMessage,
       RemoveSprintfOfFmt, UnknownFormat, EmptyFormat, FormatNotChecked, Answer
  <2> QED
    BY <1>1, <2>1, OthersFit
<1>2. CASE StartPrintf
  BY <1>2, StartChecks DEF FitInv, StartPrintf
<1>3. CASE PrintfStep
  <2>1. Checked' /\ stage' = "printf"
    BY <1>3, StepsCheck DEF FitInv, PrintfStep
  <2> QED
    BY <2>1 DEF FitInv
<1>4. CASE EndPrintf
  BY <1>4, EndFits DEF FitInv, Checked, EndPrintf, Answer
<1>5. CASE ApplyFix
  BY <1>5 DEF ApplyFix, FitInv, Checked
<1>6. CASE UNCHANGED vars
  <2>1. UNCHANGED <<assertion, settings, stage, result>> /\ UNCHANGED printfVars
    BY <1>6 DEF vars
  <2>2. FormatFits' <=> FormatFits
    BY <2>1 DEF FormatFits, Message, IsLiteral
  <2>3. stage = "printf" => Checked'
    BY <2>1, StepsCheck DEF FitInv
  <2> QED
    BY <2>1, <2>2, <2>3 DEF FitInv, Checked
<1> QED
  BY <1>1, <1>2, <1>3, <1>4, <1>5, <1>6 DEF Next

(* An assertion the formatter has nothing against keeps the rules of its   *)
(* documentation, and its format, however long, fits its arguments.        *)
THEOREM CleanIsConventional == Spec => []CleanMeansConventional
<1>1. Init => FitInv
  BY DEF Init, FitInv, Checked
<1>2. IInv /\ FitInv => CleanMeansConventional
  BY DEF IInv, Answered, Settled, FitInv, CleanMeansConventional, IsClean, Ended
<1> QED
  BY <1>1, <1>2, InitIInv, NextIInv, NextFitInv, PTL DEF Spec
-----------------------------------------------------------------------------
(* What is left to fix is a number. *)
LEMMA WeightIsNat ==
  ASSUME NEW a, IsAssertion(a)
  PROVE  Weight(a) \in Nat
<1>1. a.args # <<>> => Len(Head(a.args).sprintfs) \in Nat
  BY ListIs DEF IsMessage
<1> DEFINE m == Len(Head(a.args).sprintfs)
<1> HIDE DEF m
<1>2. Weight(a) = IF a.args = <<>> THEN 0
                  ELSE 3 * m + (IF HasStringType(Head(a.args)) THEN 1 ELSE 3)
                         + (IF a.f THEN 0 ELSE 1)
  BY Zenon DEF Weight, m
<1>3. a.args # <<>> => m \in Nat
  BY <1>1 DEF m
<1> QED
  BY <1>2, <1>3

(* A step that changes the assertion is a fix that was suggested to it.    *)
LEMMA StepIsFix ==
  ASSUME IInv, [Next]_vars, assertion' # assertion
  PROVE  FixOf(assertion, assertion')
<1>1. ApplyFix
  BY DEF Next, vars, NotPrintfLike, Fail, RemoveSprintf, EmptyMessage, StringMessage, ValueMessage,
         RemoveSprintfOfFmt, UnknownFormat, EmptyFormat, FormatNotChecked, StartPrintf, PrintfStep,
         EndPrintf, Answer
<1> QED
  BY <1>1 DEF ApplyFix, IInv, Answered

(* What a fix makes compiles, and the message the assertion fails with     *)
(* stays, unless the Sprintf that is removed was needed.                   *)
THEOREM FixesAreFaithful == Spec => FixesKeepTheMessage
<1>1. IInv /\ [Next]_vars =>
        [assertion' # assertion => /\ IsAssertion(assertion')
                                   /\ \/ Printed(assertion') = Printed(assertion)
                                      \/ NeedsSprintf(Message)]_vars
  BY StepIsFix DEF FixOf, Message
<1> QED
  BY <1>1, InductiveInvariant, PTL DEF Spec, FixesKeepTheMessage

FixesShrink ==
  [][assertion' # assertion => /\ Weight(assertion') \in Nat
                               /\ Weight(assertion') < Weight(assertion)]_vars

(* Each fix leaves less to fix, so the chain of warnings cannot go on for  *)
(* ever.                                                                   *)
THEOREM FixesAreFewer == Spec => FixesShrink
<1>1. IInv /\ [Next]_vars =>
        [assertion' # assertion => /\ Weight(assertion') \in Nat
                                   /\ Weight(assertion') < Weight(assertion)]_vars
  BY StepIsFix, WeightIsNat DEF FixOf
<1> QED
  BY <1>1, InductiveInvariant, PTL DEF Spec, FixesShrink
=============================================================================
