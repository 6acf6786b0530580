-------------------------- MODULE Analyzer_proofs --------------------------
(***************************************************************************)
(* For every registry, every set of configurations, any number of passes   *)
(* and any packages: each package gets exactly the diagnostics that the    *)
(* configuration and it determine.                                         *)
(***************************************************************************)
EXTENDS Analyzer, FiniteSetTheorems, WellFoundedInduction, TLAPS

(* The priority of a name of the table is a natural number. *)
LEMMA PriorityIsNat ==
  ASSUME NEW n \in All
  PROVE  IsKnown(n) /\ Priority(n) \in Nat
<1>1. IsKnown(n)
  BY DEF All, IsKnown
<1>2. Position(n) \in Index
  BY <1>1 DEF IsKnown, Position
<1> QED
  BY <1>1, <1>2, RegistryAssumption DEF Priority, Index

(* The table is finite. *)
LEMMA AllIsFinite == IsFiniteSet(All)
<1> DEFINE f == [i \in Index |-> Registry[i].name]
<1>1. IsFiniteSet(Index)
  BY FS_Interval, RegistryAssumption DEF Index
<1>2. f \in Surjection(Index, All)
  BY DEF Surjection, All
<1> QED
  BY <1>1, <1>2, FS_Surjection

(* Among several checkers one comes first. *)
LEMMA SomeFirst ==
  ASSUME NEW S, S \subseteq All, S # {}
  PROVE  \E n \in S : \A m \in S : Priority(n) <= Priority(m)
<1> DEFINE T == { Priority(n) : n \in S }
           Less == { ss \in Nat \X Nat : ss[1] < ss[2] }
<1>1. T \subseteq Nat /\ T # {}
  BY PriorityIsNat
<1>2. IsWellFoundedOn(Less, Nat)
  BY NatLessThanWellFounded, Zenon DEF OpToRel
<1> HIDE DEF T, Less
<1>3. PICK x \in T : \A y \in T : ~ (<<y, x>> \in Less)
  BY <1>1, <1>2, WFMin
<1> USE DEF T, Less
<1>4. \A y \in T : ~ (y < x)
  BY <1>1, <1>3
<1>5. PICK n \in S : x = Priority(n)
  OBVIOUS
<1>6. \A m \in S : Priority(n) <= Priority(m)
  BY <1>1, <1>4, <1>5
<1> QED
  BY <1>6


Regulars == { n \in Wanted(cfg) : IsRegular(n) }
Advanceds == { n \in Wanted(cfg) : ~ IsRegular(n) }
Calls(p) == package[p].calls
Trying == {"regular", "printf", "restore", "result"}
FormatterRuns == {"printf", "restore", "result"}

(* What a pass has when it is at each of its locations.                    *)
Selected(p) ==
  pc[p] \notin {"build", "failed"} =>
    /\ Acceptable(cfg)
    /\ IsListing(regular[p], Regulars, cfg)
    /\ IsListing(advanced[p], Advanceds, cfg)

Counters(p) ==
  /\ call[p] <= Len(Calls(p)) + 1
  /\ pc[p] \in {"build", "failed"} => call[p] = 1 /\ checker[p] = 1 /\ diagnostics[p] = <<>>
  /\ pc[p] \in Trying \cup {"build"} => finding[p] = 0
  /\ pc[p] \in Trying => checker[p] <= Len(regular[p]) + 1
  /\ pc[p] \in FormatterRuns =>
       /\ call[p] <= Len(Calls(p)) /\ Current(p).testify
       /\ checker[p] <= Len(regular[p])
  /\ pc[p] \in {"advanced", "done"} => call[p] = Len(Calls(p)) + 1
  /\ pc[p] = "advanced" /\ checker[p] <= Len(advanced[p]) => finding[p] <= Findings(p)
  /\ pc[p] = "advanced" /\ checker[p] > Len(advanced[p]) => finding[p] = 0
  /\ pc[p] = "done" => checker[p] > Len(advanced[p])

Lent(p) == report[p] = "formatter" <=> pc[p] \in {"printf", "restore"}

Captured(p) ==
  /\ pc[p] = "printf" => ~ result[p]
  /\ pc[p] \in {"restore", "result"} => (result[p] <=> Running(p) \in Current(p).by)

(* The checkers before the current one do not object to the current call.  *)
Passed(p) ==
  /\ pc[p] \in Trying /\ call[p] <= Len(Calls(p)) /\ Current(p).testify
  => \A k \in 1 .. checker[p] - 1 : regular[p][k] \notin Current(p).by

(* What has reached the driver so far, and in which order.                 *)
RegularsBefore(p, k) == { d \in Linter!RegularDiagnostics(cfg, package[p]) : d.at < k }
AdvancedBefore(p, c, f) ==
  { d \in Linter!AdvancedDiagnostics(cfg, package[p]) :
      \E j \in 1 .. Len(advanced[p]) :
        d.by = advanced[p][j].name /\ (j < c \/ (j = c /\ d.at <= f)) }
Reported(p) == { diagnostics[p][i] : i \in 1 .. Len(diagnostics[p]) }

Complete(p) ==
  /\ pc[p] \in Trying => Reported(p) = RegularsBefore(p, call[p])
  /\ pc[p] = "advanced" =>
       Reported(p) = Linter!RegularDiagnostics(cfg, package[p])
                       \cup AdvancedBefore(p, checker[p], finding[p])
  /\ pc[p] = "done" =>
       Reported(p) = Linter!RegularDiagnostics(cfg, package[p])
                       \cup Linter!AdvancedDiagnostics(cfg, package[p])

InOrder(p) ==
  \A i, j \in 1 .. Len(diagnostics[p]) :
    i < j => Linter!Before(diagnostics[p][i], diagnostics[p][j])

PassInv(p) ==
  Selected(p) /\ Counters(p) /\ Lent(p) /\ Captured(p) /\ Passed(p) /\ Complete(p) /\ InOrder(p)
IInv == TypeOK /\ \A p \in Passes : PassInv(p)
-----------------------------------------------------------------------------
(* The rules of the abstract specification are those of this module: its   *)
(* operators are the same formulas over the same constants.                *)
LEMMA SameRules ==
  ASSUME NEW c
  PROVE  /\ Linter!Acceptable(c) <=> Acceptable(c)
         /\ Linter!Wanted(c) = Wanted(c)
         /\ \A n : Linter!OptionFor(c, n) = OptionFor(c, n)
         /\ \A n : Linter!Priority(n) = Priority(n)
         /\ \A n : Linter!IsRegular(n) <=> IsRegular(n)
<1>1. Linter!All = All /\ Linter!EnabledByDefault = EnabledByDefault
  BY DEF Linter!All, All, Linter!EnabledByDefault, EnabledByDefault, Linter!Index, Index
<1>2. \A n : Linter!Position(n) = Position(n) /\ (Linter!IsKnown(n) <=> IsKnown(n))
  BY DEF Linter!Position, Position, Linter!IsKnown, IsKnown, Linter!Index, Index
<1>3. \A n : Linter!Priority(n) = Priority(n) /\ (Linter!IsRegular(n) <=> IsRegular(n))
  BY <1>2 DEF Linter!Priority, Priority, Linter!IsRegular, IsRegular
<1>4. \A n : Linter!OptionFor(c, n) = OptionFor(c, n)
  BY DEF Linter!OptionFor, OptionFor, Linter!SetOption, SetOption,
         Linter!FreshOption, FreshOption, Linter!DefaultSection, DefaultSection
<1>5. Linter!Wanted(c) = Wanted(c)
  BY <1>1 DEF Linter!Wanted, Wanted
<1>6. Linter!Invalid(c) <=> Invalid(c)
  BY DEF Linter!Invalid, Invalid
<1>7. Linter!Acceptable(c) <=> Acceptable(c)
  BY <1>1, <1>5, <1>6 DEF Linter!Acceptable, Acceptable
<1> QED
  BY <1>3, <1>4, <1>5, <1>7

(* Records that the proofs only compare and take apart.                    *)
Diagnostic(n, i) == [by |-> n, at |-> i]
Objecting(p, i) == Linter!Objectors(cfg, Calls(p)[i])

LEMMA DiagnosticHasParts ==
  ASSUME NEW n, NEW i
  PROVE  /\ Diagnostic(n, i).by = n /\ Diagnostic(n, i).at = i
         /\ n \in All /\ i \in Nat \ {0} => Diagnostic(n, i) \in Diagnostics
BY DEF Diagnostic, Diagnostics

LEMMA InstanceHasParts ==
  ASSUME NEW c, NEW n
  PROVE  /\ Linter!Instance(c, n) = [name |-> n, option |-> OptionFor(c, n)]
         /\ Linter!Instance(c, n).name = n
BY SameRules DEF Linter!Instance

(* Objectors are wanted, regular and object. *)
LEMMA WhoObjects ==
  ASSUME NEW c, NEW k
  PROVE  Linter!Objectors(c, k) =
           IF k.testify
           THEN { n \in Wanted(c) : IsRegular(n) /\ Linter!Instance(c, n) \in k.by }
           ELSE {}
BY SameRules DEF Linter!Objectors

(* If there are objectors, First is one of them and none comes before it.  *)
LEMMA FirstIsFirst ==
  ASSUME NEW S, S \subseteq All, S # {}
  PROVE  Linter!First(S) \in S /\ \A m \in S : Priority(Linter!First(S)) <= Priority(m)
<1>1. \E n \in S : \A m \in S : Priority(n) <= Priority(m)
  BY SomeFirst
<1>2. Linter!First(S) = CHOOSE n \in S : \A m \in S : Priority(n) <= Priority(m)
  BY SameRules DEF Linter!First
<1> QED
  BY <1>1, <1>2

(* Before, in terms of this module. *)
LEMMA WhatIsBefore ==
  ASSUME NEW d, NEW e
  PROVE  Linter!Before(d, e) <=>
           \/ IsRegular(d.by) /\ IsRegular(e.by) /\ d.at < e.at
           \/ IsRegular(d.by) /\ ~ IsRegular(e.by)
           \/ ~ IsRegular(d.by) /\ ~ IsRegular(e.by) /\ Priority(d.by) < Priority(e.by)
           \/ ~ IsRegular(d.by) /\ d.by = e.by /\ d.at < e.at
BY SameRules DEF Linter!Before

LEMMA WhatIsRegularDiagnostic ==
  ASSUME NEW p, NEW d
  PROVE  d \in Linter!RegularDiagnostics(cfg, package[p]) <=>
           \E i \in 1 .. Len(Calls(p)) :
             Objecting(p, i) # {} /\ d = Diagnostic(Linter!First(Objecting(p, i)), i)
BY DEF Linter!RegularDiagnostics, Objecting, Diagnostic, Calls

LEMMA WhatIsAdvancedDiagnostic ==
  ASSUME NEW p, NEW d
  PROVE  d \in Linter!AdvancedDiagnostics(cfg, package[p]) <=>
           \E n \in Advanceds : \E i \in 1 .. package[p].found[Linter!Instance(cfg, n)] :
             d = Diagnostic(n, i)
<1>1. { m \in Linter!Wanted(cfg) : ~ Linter!IsRegular(m) } = Advanceds
  BY SameRules DEF Advanceds
<1> QED
  BY <1>1 DEF Linter!AdvancedDiagnostics, Diagnostic
-----------------------------------------------------------------------------
(* The values a pass works on. *)
LEMMA PassIsTyped ==
  ASSUME TypeOK, NEW p \in Passes
  PROVE  /\ Calls(p) \in Seq(CallKinds) /\ Len(Calls(p)) \in Nat
         /\ package[p].found \in [Instances -> Nat]
         /\ call[p] \in Nat /\ call[p] >= 1 /\ checker[p] \in Nat /\ checker[p] >= 1
         /\ finding[p] \in Nat
         /\ regular[p] \in Seq(Instances) /\ Len(regular[p]) \in Nat
         /\ advanced[p] \in Seq(Instances) /\ Len(advanced[p]) \in Nat
         /\ diagnostics[p] \in Seq(Diagnostics) /\ Len(diagnostics[p]) \in Nat
         /\ report[p] \in {"driver", "formatter"} /\ result[p] \in BOOLEAN
         /\ IsConfig(cfg)
<1>1. cfg \in Configs /\ package \in Inputs
  BY DEF TypeOK
<1>2. IsConfig(cfg)
  BY <1>1, PassesAssumption
<1>3. package[p].calls \in Seq(CallKinds) /\ package[p].found \in [Instances -> Nat]
  BY <1>1, PassesAssumption DEF Instances
<1> QED
  BY <1>2, <1>3 DEF TypeOK, Calls

(* An instance in a listing of wanted checkers has its configured settings *)
(* and no second place; every checker of the set has one.                  *)
Lists(s, S) ==
  /\ \A i \in 1 .. Len(s) : s[i].name \in S /\ s[i] = Linter!Instance(cfg, s[i].name)
  /\ \A n \in S : \E i \in 1 .. Len(s) : s[i].name = n /\ s[i] = Linter!Instance(cfg, n)
  /\ \A i, j \in 1 .. Len(s) : i < j => Priority(s[i].name) < Priority(s[j].name)
  /\ \A i, j \in 1 .. Len(s) : s[i].name = s[j].name => i = j

LEMMA WhatIsListed ==
  ASSUME NEW s \in Seq(Instances), NEW S, S \subseteq All, IsListing(s, S, cfg)
  PROVE  Lists(s, S)
<1>1. Len(s) \in Nat /\ \A i \in 1 .. Len(s) : s[i] \in Instances
  OBVIOUS
<1>2. { s[i].name : i \in 1 .. Len(s) } = S
  BY DEF IsListing
<1>3. \A i \in 1 .. Len(s) : s[i].option = OptionFor(cfg, s[i].name)
  BY DEF IsListing
<1>4. \A i \in 1 .. Len(s) : s[i].name \in S
  BY <1>2
<1>5. ASSUME NEW i \in 1 .. Len(s) PROVE s[i] = Linter!Instance(cfg, s[i].name)
  <2>1. s[i] = [name |-> s[i].name, option |-> s[i].option]
    BY <1>1 DEF Instances
  <2> QED
    BY <1>3, <2>1, InstanceHasParts
<1>6. \A n \in S : \E i \in 1 .. Len(s) : s[i].name = n
  BY <1>2
<1>7. \A i, j \in 1 .. Len(s) : i < j => Priority(s[i].name) < Priority(s[j].name)
  BY DEF IsListing
<1>8. \A i \in 1 .. Len(s) : Priority(s[i].name) \in Nat
  BY <1>4, PriorityIsNat
<1>9. ASSUME NEW i \in 1 .. Len(s), NEW j \in 1 .. Len(s), s[i].name = s[j].name
      PROVE  i = j
  <2>1. ~ (i < j) /\ ~ (j < i)
    BY <1>7, <1>8, <1>9
  <2> QED
    BY <1>1, <2>1
<1> QED
  BY <1>4, <1>5, <1>6, <1>7, <1>9 DEF Lists

(* The two lists of a pass that has its checkers.                          *)
LEMMA PassIsListed ==
  ASSUME TypeOK, NEW p \in Passes, Selected(p), pc[p] \notin {"build", "failed"}
  PROVE  /\ Regulars \subseteq All /\ Advanceds \subseteq All
         /\ Lists(regular[p], Regulars) /\ Lists(advanced[p], Advanceds)
<1>1. Regulars \subseteq All /\ Advanceds \subseteq All
  BY DEF Selected, Acceptable, Regulars, Advanceds
<1>2. IsListing(regular[p], Regulars, cfg) /\ IsListing(advanced[p], Advanceds, cfg)
  BY DEF Selected
<1>3. regular[p] \in Seq(Instances) /\ advanced[p] \in Seq(Instances)
  BY PassIsTyped
<1> QED
  BY <1>1, <1>2, <1>3, WhatIsListed
-----------------------------------------------------------------------------
(* One more call is behind the pass: at most its own diagnostic is added.  *)
LEMMA OneMoreCall ==
  ASSUME TypeOK, NEW p \in Passes, NEW k \in 1 .. Len(Calls(p))
  PROVE  RegularsBefore(p, k + 1) =
           RegularsBefore(p, k) \cup
             (IF Objecting(p, k) = {} THEN {} ELSE {Diagnostic(Linter!First(Objecting(p, k)), k)})
<1> DEFINE x == Diagnostic(Linter!First(Objecting(p, k)), k)
           due(i, d) == Objecting(p, i) # {} /\ d = Diagnostic(Linter!First(Objecting(p, i)), i)
<1>1. Len(Calls(p)) \in Nat /\ k \in Nat
  BY PassIsTyped
<1>2. \A d : d \in Linter!RegularDiagnostics(cfg, package[p]) <=> \E i \in 1 .. Len(Calls(p)) : due(i, d)
  BY WhatIsRegularDiagnostic
<1>3. \A i, d : due(i, d) => d.at = i
  BY DiagnosticHasParts
<1>4. \A d : due(k, d) <=> Objecting(p, k) # {} /\ d = x
  OBVIOUS
<1> HIDE DEF due, x
<1>5. ASSUME NEW d, NEW i \in 1 .. Len(Calls(p)), due(i, d)
      PROVE  d.at < k + 1 <=> d.at < k \/ due(k, d)
  <2>1. d.at = i
    BY <1>3, <1>5
  <2>2. due(k, d) => i = k
    BY <1>3, <2>1
  <2> QED
    BY <1>1, <1>5, <2>1, <2>2
<1>6. \A d : d \in RegularsBefore(p, k + 1) <=> d \in RegularsBefore(p, k) \/ due(k, d)
  <2>1. \A d : due(k, d) => d \in Linter!RegularDiagnostics(cfg, package[p])
    BY <1>2
  <2> QED
    BY <1>2, <1>5, <2>1 DEF RegularsBefore
<1> QED
  BY <1>4, <1>6 DEF x

(* If the current checker objects and those before it do not, it is the    *)
(* first objector.                                                         *)
LEMMA CurrentIsFirst ==
  ASSUME TypeOK, NEW p \in Passes, Selected(p), Passed(p), pc[p] \in Trying,
         call[p] <= Len(Calls(p)), Current(p).testify, checker[p] <= Len(regular[p]),
         Running(p) \in Current(p).by
  PROVE  /\ Running(p).name \in All /\ IsRegular(Running(p).name)
         /\ Objecting(p, call[p]) # {}
         /\ Linter!First(Objecting(p, call[p])) = Running(p).name
<1> DEFINE s == regular[p]
           c == checker[p]
           n == s[c].name
           O == Objecting(p, call[p])
           by == Current(p).by
<1>1. Len(s) \in Nat /\ c \in 1 .. Len(s) /\ Running(p) = s[c]
  BY PassIsTyped DEF Running
<1>2. Regulars \subseteq All /\ Lists(s, Regulars)
  BY PassIsListed DEF Trying
<1>3. \A k \in 1 .. c - 1 : s[k] \notin by
  BY DEF Passed
<1>4. s[c] \in by
  BY <1>1
<1>5. O = { m \in Regulars : Linter!Instance(cfg, m) \in by }
  BY WhoObjects DEF Regulars, Objecting, Current, Calls
<1> HIDE DEF s, c, O, by
<1>6. n \in Regulars /\ n \in O
  BY <1>1, <1>2, <1>4, <1>5 DEF Lists
<1>7. ASSUME NEW m \in O, m # n PROVE Priority(n) < Priority(m)
  <2>1. PICK i \in 1 .. Len(s) : s[i].name = m /\ s[i] = Linter!Instance(cfg, m)
    BY <1>2, <1>5 DEF Lists
  <2>2. i \notin 1 .. c - 1
    BY <1>3, <1>5, <2>1
  <2>3. i # c
    BY <1>7, <2>1
  <2>4. c < i
    BY <1>1, <2>2, <2>3
  <2> QED
    BY <1>1, <1>2, <2>1, <2>4 DEF Lists
<1>8. Linter!First(O) = n
  <2>1. O \subseteq All
    BY <1>2, <1>5
  <2>2. Linter!First(O) \in O /\ Priority(Linter!First(O)) <= Priority(n)
    BY <1>6, <2>1, FirstIsFirst
  <2>3. Priority(n) \in Nat /\ Priority(Linter!First(O)) \in Nat
    BY <1>6, <2>1, <2>2, PriorityIsNat
  <2> HIDE DEF n
  <2> QED
    BY <1>7, <2>2, <2>3
<1> QED
  BY <1>1, <1>2, <1>6, <1>8 DEF Regulars, s, c, O

(* If a call is no assertion, or no checker is left, none objects to it.   *)
LEMMA NobodyObjects ==
  ASSUME TypeOK, NEW p \in Passes, Selected(p), Passed(p), pc[p] \in Trying,
         call[p] <= Len(Calls(p)), ~ Current(p).testify \/ checker[p] > Len(regular[p])
  PROVE  Objecting(p, call[p]) = {}
<1> DEFINE s == regular[p]
           by == Current(p).by
<1>1. CASE ~ Current(p).testify
  BY <1>1, WhoObjects DEF Objecting, Current, Calls
<1>2. CASE Current(p).testify /\ checker[p] > Len(regular[p])
  <2>1. Len(s) \in Nat /\ checker[p] \in Nat
    BY PassIsTyped
  <2>2. Lists(s, Regulars)
    BY PassIsListed DEF Trying
  <2>3. \A k \in 1 .. Len(s) : s[k] \notin by
    BY <1>2, <2>1 DEF Passed
  <2>4. Objecting(p, call[p]) = { m \in Regulars : Linter!Instance(cfg, m) \in by }
    BY <1>2, WhoObjects DEF Regulars, Objecting, Current, Calls
  <2> HIDE DEF s, by
  <2>5. \A m \in Regulars : Linter!Instance(cfg, m) \notin by
    BY <2>2, <2>3 DEF Lists
  <2> QED
    BY <2>4, <2>5
<1> QED
  BY <1>1, <1>2
-----------------------------------------------------------------------------
(* The lists newCheckers can return. *)
LEMMA ListingsAreTyped ==
  ASSUME IsConfig(cfg), Acceptable(cfg), NEW S, S \subseteq Wanted(cfg), NEW s \in Listings(S, cfg)
  PROVE  s \in Seq(Instances) /\ IsListing(s, S, cfg)
<1>1. S \subseteq All
  BY DEF Acceptable
<1>2. Cardinality(S) \in Nat
  BY <1>1, AllIsFinite, FS_Subset, FS_CardinalityType
<1>3. ASSUME NEW n \in S PROVE [name |-> n, option |-> OptionFor(cfg, n)] \in Instances
  <2>1. ASSUME n \in Sections
        PROVE  SetOption(FreshOption(n), cfg.section[n]) \in Options \cup {Nil}
    BY <2>1, SectionsAssumption DEF IsConfig, SetOption, FreshOption, DefaultSection
  <2>2. OptionFor(cfg, n) \in Options \cup {Nil}
    BY <2>1, SectionsAssumption DEF OptionFor
  <2> QED
    BY <1>1, <2>2 DEF Instances
<1>4. { [name |-> n, option |-> OptionFor(cfg, n)] : n \in S } \subseteq Instances
  BY <1>3
<1>5. /\ s \in [1 .. Cardinality(S) -> { [name |-> n, option |-> OptionFor(cfg, n)] : n \in S }]
      /\ IsListing(s, S, cfg)
  BY DEF Listings
<1> DEFINE T == { [name |-> n, option |-> OptionFor(cfg, n)] : n \in S }
<1> HIDE DEF T
<1>6. s \in [1 .. Cardinality(S) -> T] /\ T \subseteq Instances
  BY <1>4, <1>5 DEF T
<1> QED
  BY <1>2, <1>5, <1>6

(* A report appends to the diagnostics, or sets the formatter's result.    *)
LEMMA ReportIsTyped ==
  ASSUME TypeOK, NEW p \in Passes, NEW d \in Diagnostics, Report(p, d)
  PROVE  diagnostics' \in [Passes -> Seq(Diagnostics)] /\ result' \in [Passes -> BOOLEAN]
<1>1. CASE report[p] = "driver"
  <2>1. diagnostics' = [diagnostics EXCEPT ![p] = Append(@, d)] /\ result' = result
    BY <1>1 DEF Report
  <2>2. Append(diagnostics[p], d) \in Seq(Diagnostics)
    BY PassIsTyped
  <2> QED
    BY <2>1, <2>2 DEF TypeOK
<1>2. CASE report[p] # "driver"
  BY <1>2 DEF Report, TypeOK
<1> QED
  BY <1>1, <1>2

(* Going on keeps the counters positive. *)
LEMMA NextIsTyped ==
  ASSUME TypeOK, NEW p \in Passes, NextCall(p) \/ NextChecker(p)
  PROVE  call' \in [Passes -> Nat \ {0}] /\ checker' \in [Passes -> Nat \ {0}]
<1>1. call[p] \in Nat \ {0} /\ checker[p] \in Nat \ {0}
  BY PassIsTyped
<1>2. CASE NextCall(p)
  BY <1>1, <1>2 DEF TypeOK, NextCall
<1>3. CASE NextChecker(p)
  <2>1. checker' = [checker EXCEPT ![p] = @ + 1] /\ call' = call
    BY <1>3 DEF NextChecker
  <2>2. checker[p] + 1 \in Nat \ {0}
    BY <1>1
  <2> QED
    BY <2>1, <2>2 DEF TypeOK
<1> QED
  BY <1>2, <1>3

(* Every action keeps the types. *)
LEMMA TypesKept ==
  ASSUME TypeOK, NEW p \in Passes, Counters(p), Step(p)
  PROVE  TypeOK'
<1>1. /\ call[p] \in Nat \ {0} /\ checker[p] \in Nat \ {0} /\ finding[p] \in Nat
      /\ regular[p] \in Seq(Instances) /\ advanced[p] \in Seq(Instances)
  BY PassIsTyped
<1>2. ASSUME checker[p] <= Len(regular[p]) PROVE Running(p).name \in All
  <2>1. Running(p) \in Instances
    BY <1>1, <1>2 DEF Running
  <2> QED
    BY <2>1 DEF Instances
<1>3. CASE BuildCheckers(p)
  <2>1. IsConfig(cfg) /\ Acceptable(cfg)
    BY <1>3, PassIsTyped DEF BuildCheckers
  <2>2. /\ \E r \in Seq(Instances) : regular' = [regular EXCEPT ![p] = r]
        /\ \E a \in Seq(Instances) : advanced' = [advanced EXCEPT ![p] = a]
    <3>1. \A r \in Listings({ n \in Wanted(cfg) : IsRegular(n) }, cfg) : r \in Seq(Instances)
      BY <2>1, ListingsAreTyped
    <3>2. \A a \in Listings({ n \in Wanted(cfg) : ~ IsRegular(n) }, cfg) : a \in Seq(Instances)
      BY <2>1, ListingsAreTyped
    <3> QED
      BY <1>3, <3>1, <3>2 DEF BuildCheckers
  <2> QED
    BY <1>3, <2>2 DEF TypeOK, BuildCheckers, Goto, Locations
<1>4. CASE BuildFails(p)
  BY <1>4 DEF TypeOK, BuildFails, Goto, Locations
<1>5. CASE SkipCall(p)
  BY <1>1, <1>5 DEF TypeOK, SkipCall, NextCall
<1>6. CASE TryChecker(p)
  <2>1. call' \in [Passes -> Nat \ {0}] /\ checker' \in [Passes -> Nat \ {0}]
    <3>1. NextCall(p) \/ NextChecker(p)
      BY <1>6, Zenon DEF TryChecker
    <3> QED
      BY <3>1, NextIsTyped
  <2>2. [by |-> Running(p).name, at |-> call[p]] \in Diagnostics
    BY <1>1, <1>2, <1>6 DEF TryChecker, Diagnostics
  <2>3. diagnostics' \in [Passes -> Seq(Diagnostics)] /\ result' \in [Passes -> BOOLEAN]
    <3>1. CASE Running(p) \in Current(p).by
      BY <1>6, <2>2, <3>1, ReportIsTyped DEF TryChecker
    <3>2. CASE Running(p) \notin Current(p).by
      BY <1>6, <3>2 DEF TryChecker, TypeOK
    <3> QED
      BY <3>1, <3>2
  <2> QED
    BY <1>6, <2>1, <2>3 DEF TypeOK, TryChecker
<1>7. CASE SwapReport(p)
  BY <1>7 DEF TypeOK, SwapReport, Goto, Locations
<1>8. CASE CheckPrintf(p)
  <2>1. [by |-> "printf", at |-> call[p]] \in Diagnostics
    BY <1>1 DEF Diagnostics
  <2>2. diagnostics' \in [Passes -> Seq(Diagnostics)] /\ result' \in [Passes -> BOOLEAN]
    <3>1. CASE Running(p) \in Current(p).by
      BY <1>8, <2>1, <3>1, ReportIsTyped DEF CheckPrintf
    <3>2. CASE Running(p) \notin Current(p).by
      BY <1>8, <3>2 DEF CheckPrintf, TypeOK
    <3> QED
      BY <3>1, <3>2
  <2> QED
    BY <1>8, <2>2 DEF TypeOK, CheckPrintf, Goto, Locations
<1>9. CASE RestoreReport(p)
  BY <1>9 DEF TypeOK, RestoreReport, Goto, Locations
<1>10. CASE TakeResult(p)
  <2>1. call' \in [Passes -> Nat \ {0}] /\ checker' \in [Passes -> Nat \ {0}]
    <3>1. NextCall(p) \/ NextChecker(p)
      BY <1>10, Zenon DEF TakeResult
    <3> QED
      BY <3>1, NextIsTyped
  <2>2. [by |-> Running(p).name, at |-> call[p]] \in Diagnostics
    BY <1>1, <1>2, <1>10 DEF TakeResult, At, Counters, FormatterRuns, Diagnostics
  <2>3. diagnostics' \in [Passes -> Seq(Diagnostics)] /\ result' \in [Passes -> BOOLEAN]
    <3>1. CASE result[p]
      BY <1>10, <2>2, <3>1, ReportIsTyped DEF TakeResult
    <3>2. CASE ~ result[p]
      BY <1>10, <3>2 DEF TakeResult, TypeOK
    <3> QED
      BY <3>1, <3>2
  <2> QED
    BY <1>10, <2>1, <2>3 DEF TypeOK, TakeResult, Goto, Locations
<1>11. CASE EndOfCalls(p)
  BY <1>11 DEF TypeOK, EndOfCalls, Goto, Locations
<1>12. CASE ReportFinding(p)
  <2>1. advanced[p][checker[p]] \in Instances
    BY <1>1, <1>12 DEF ReportFinding, InAdvanced
  <2>2. [by |-> advanced[p][checker[p]].name, at |-> finding[p] + 1] \in Diagnostics
    BY <1>1, <2>1 DEF Instances, Diagnostics
  <2>3. diagnostics' \in [Passes -> Seq(Diagnostics)] /\ result' \in [Passes -> BOOLEAN]
    BY <1>12, <2>2, ReportIsTyped DEF ReportFinding
  <2>4. finding' = [finding EXCEPT ![p] = @ + 1]
    BY <1>12 DEF ReportFinding
  <2>5. UNCHANGED <<cfg, package, pc, regular, advanced, call, checker, report>>
    BY <1>12 DEF ReportFinding
  <2>6. finding' \in [Passes -> Nat]
    BY <1>1, <2>4 DEF TypeOK
  <2> QED
    BY <2>3, <2>5, <2>6 DEF TypeOK
<1>13. CASE NextAdvanced(p)
  BY <1>1, <1>13 DEF TypeOK, NextAdvanced, NextChecker
<1>14. CASE Finish(p)
  BY <1>14 DEF TypeOK, Finish, Goto, Locations
<1> QED
  BY <1>3, <1>4, <1>5, <1>6, <1>7, <1>8, <1>9, <1>10, <1>11, <1>12, <1>13, <1>14 DEF Step
-----------------------------------------------------------------------------
(* A step of one pass leaves what belongs to another alone.                *)
Same(q) ==
  /\ cfg' = cfg /\ package' = package /\ pc'[q] = pc[q]
  /\ regular'[q] = regular[q] /\ advanced'[q] = advanced[q]
  /\ call'[q] = call[q] /\ checker'[q] = checker[q] /\ finding'[q] = finding[q]
  /\ report'[q] = report[q] /\ result'[q] = result[q] /\ diagnostics'[q] = diagnostics[q]

LEMMA OthersAreSame ==
  ASSUME TypeOK, NEW p \in Passes, Step(p), NEW q \in Passes, q # p
  PROVE  Same(q)
<1>1. CASE BuildCheckers(p)
  BY <1>1 DEF TypeOK, BuildCheckers, Goto, Same
<1>2. CASE BuildFails(p)
  BY <1>2 DEF TypeOK, BuildFails, Goto, Same
<1>3. CASE SkipCall(p)
  BY <1>3 DEF TypeOK, SkipCall, NextCall, Same
<1> DEFINE Counting == call'[q] = call[q] /\ checker'[q] = checker[q]
           Reporting == diagnostics'[q] = diagnostics[q] /\ result'[q] = result[q]
<1>4. NextCall(p) \/ NextChecker(p) => Counting
  BY DEF TypeOK, NextCall, NextChecker
<1>5. ASSUME NEW d, Report(p, d) PROVE Reporting
  BY <1>5 DEF TypeOK, Report
<1>6. CASE TryChecker(p)
  <2>1. NextCall(p) \/ NextChecker(p)
    BY <1>6, Zenon DEF TryChecker
  <2>2. Report(p, [by |-> Running(p).name, at |-> call[p]]) \/ UNCHANGED <<result, diagnostics>>
    BY <1>6, Zenon DEF TryChecker
  <2> QED
    BY <1>4, <1>5, <1>6, <2>1, <2>2 DEF TryChecker, Same
<1>7. CASE SwapReport(p)
  BY <1>7 DEF TypeOK, SwapReport, Goto, Same
<1>8. CASE CheckPrintf(p)
  <2>1. Report(p, [by |-> "printf", at |-> call[p]]) \/ UNCHANGED <<result, diagnostics>>
    BY <1>8, Zenon DEF CheckPrintf
  <2>2. Reporting
    BY <1>5, <2>1
  <2> QED
    BY <1>8, <2>2 DEF TypeOK, CheckPrintf, Goto, Same
<1>9. CASE RestoreReport(p)
  BY <1>9 DEF TypeOK, RestoreReport, Goto, Same
<1>10. CASE TakeResult(p)
  <2>1. NextCall(p) \/ NextChecker(p)
    BY <1>10, Zenon DEF TakeResult
  <2>2. Report(p, [by |-> Running(p).name, at |-> call[p]]) \/ UNCHANGED <<result, diagnostics>>
    BY <1>10, Zenon DEF TakeResult
  <2>3. Counting /\ Reporting
    BY <1>4, <1>5, <2>1, <2>2
  <2> QED
    BY <1>10, <2>3 DEF TypeOK, TakeResult, Goto, Same
<1>11. CASE EndOfCalls(p)
  BY <1>11 DEF TypeOK, EndOfCalls, Goto, Same
<1>12. CASE ReportFinding(p)
  <2>1. Reporting
    BY <1>5, <1>12 DEF ReportFinding
  <2> QED
    BY <1>12, <2>1 DEF TypeOK, ReportFinding, Same
<1>13. CASE NextAdvanced(p)
  <2>1. Counting
    BY <1>4, <1>13 DEF NextAdvanced
  <2> QED
    BY <1>13, <2>1 DEF TypeOK, NextAdvanced, Same
<1>14. CASE Finish(p)
  BY <1>14 DEF TypeOK, Finish, Goto, Same
<1> QED
  BY <1>1, <1>2, <1>3, <1>6, <1>7, <1>8, <1>9, <1>10, <1>11, <1>12, <1>13, <1>14 DEF Step

(* What a pass keeps while the variables of a part of the invariant do.    *)
LEMMA SelectedKept ==
  ASSUME NEW p, Selected(p), cfg' = cfg, regular'[p] = regular[p], advanced'[p] = advanced[p],
         pc'[p] \in {"build", "failed"} <=> pc[p] \in {"build", "failed"}
  PROVE  Selected(p)'
BY DEF Selected, Regulars, Advanceds

LEMMA InOrderKept ==
  ASSUME NEW p, InOrder(p), diagnostics'[p] = diagnostics[p]
  PROVE  InOrder(p)'
BY DEF InOrder

LEMMA ReportedKept ==
  ASSUME NEW p, diagnostics'[p] = diagnostics[p]
  PROVE  Reported(p)' = Reported(p)
BY DEF Reported

LEMMA DueKept ==
  ASSUME NEW p, cfg' = cfg, package' = package
  PROVE  /\ \A k : RegularsBefore(p, k)' = RegularsBefore(p, k)
         /\ Linter!RegularDiagnostics(cfg, package[p])' = Linter!RegularDiagnostics(cfg, package[p])
         /\ Linter!AdvancedDiagnostics(cfg, package[p])' = Linter!AdvancedDiagnostics(cfg, package[p])
         /\ Calls(p)' = Calls(p)
BY DEF RegularsBefore, Calls

LEMMA AdvancedKept ==
  ASSUME NEW p, cfg' = cfg, package' = package, advanced'[p] = advanced[p]
  PROVE  AdvancedBefore(p, checker[p], finding[p])'
           = AdvancedBefore(p, checker'[p], finding'[p])
BY DEF AdvancedBefore

LEMMA SamePass ==
  ASSUME NEW p, Same(p), PassInv(p)
  PROVE  PassInv(p)'
<1>1. Selected(p)'
  BY SelectedKept DEF Same, PassInv
<1>2. Counters(p)'
  BY DEF Same, PassInv, Counters, Calls, Current, Findings, Trying, FormatterRuns
<1>3. Lent(p)'
  BY DEF Same, PassInv, Lent
<1>4. Captured(p)'
  BY DEF Same, PassInv, Captured, Running, Current
<1>5. Passed(p)'
  BY DEF Same, PassInv, Passed, Calls, Current, Trying
<1>6. InOrder(p)'
  BY InOrderKept DEF Same, PassInv
<1>7. Complete(p)'
  <2>1. /\ Reported(p)' = Reported(p)
        /\ AdvancedBefore(p, checker[p], finding[p])' = AdvancedBefore(p, checker[p], finding[p])
    BY ReportedKept, AdvancedKept DEF Same
  <2>2. RegularsBefore(p, call[p])' = RegularsBefore(p, call[p])
    BY DEF Same, RegularsBefore
  <2>3. /\ Linter!RegularDiagnostics(cfg, package[p])' = Linter!RegularDiagnostics(cfg, package[p])
        /\ Linter!AdvancedDiagnostics(cfg, package[p])' = Linter!AdvancedDiagnostics(cfg, package[p])
    BY DueKept DEF Same
  <2> QED
    BY <2>1, <2>2, <2>3 DEF Same, PassInv, Complete, Trying
<1> QED
  BY <1>1, <1>2, <1>3, <1>4, <1>5, <1>6, <1>7 DEF PassInv
-----------------------------------------------------------------------------
(* What the diagnostics due for assertions have in common. *)
LEMMA DueForAssertion ==
  ASSUME TypeOK, NEW p \in Passes, Acceptable(cfg),
         NEW d \in Linter!RegularDiagnostics(cfg, package[p])
  PROVE  IsRegular(d.by) /\ d.by \in Wanted(cfg) /\ d.at \in 1 .. Len(Calls(p))
         /\ d.by \in Objecting(p, d.at) /\ d.by = Linter!First(Objecting(p, d.at))
<1>1. PICK i \in 1 .. Len(Calls(p)) :
        Objecting(p, i) # {} /\ d = Diagnostic(Linter!First(Objecting(p, i)), i)
  BY WhatIsRegularDiagnostic
<1>2. \A n \in Objecting(p, i) : n \in Wanted(cfg) /\ IsRegular(n)
  BY WhoObjects DEF Objecting
<1>3. Objecting(p, i) \subseteq All
  BY <1>2 DEF Acceptable
<1>4. Linter!First(Objecting(p, i)) \in Objecting(p, i)
  BY <1>1, <1>3, FirstIsFirst
<1>5. d.at = i /\ d.by = Linter!First(Objecting(p, i))
  BY <1>1, DiagnosticHasParts
<1> QED
  BY <1>2, <1>4, <1>5

LEMMA DueForPackage ==
  ASSUME TypeOK, NEW p \in Passes,
         NEW d \in Linter!AdvancedDiagnostics(cfg, package[p])
  PROVE  d.by \in Advanceds /\ d.at \in 1 .. package[p].found[Linter!Instance(cfg, d.by)]
         /\ d = Diagnostic(d.by, d.at)
<1>1. PICK n \in Advanceds : \E i \in 1 .. package[p].found[Linter!Instance(cfg, n)] :
        d = Diagnostic(n, i)
  BY WhatIsAdvancedDiagnostic
<1>2. PICK i \in 1 .. package[p].found[Linter!Instance(cfg, n)] : d = Diagnostic(n, i)
  BY <1>1
<1> QED
  BY <1>2, DiagnosticHasParts

(* The driver's diagnostics stay in order if the new one comes after all. *)
LEMMA Appended ==
  ASSUME TypeOK, NEW p \in Passes, NEW d, InOrder(p),
         diagnostics'[p] = Append(diagnostics[p], d),
         \A e \in Reported(p) : Linter!Before(e, d)
  PROVE  InOrder(p)' /\ Reported(p)' = Reported(p) \cup {d}
<1> DEFINE s == diagnostics[p]
           t == diagnostics'[p]
<1>1. Len(s) \in Nat /\ s \in Seq(Diagnostics)
  BY PassIsTyped
<1>2. Len(t) = Len(s) + 1 /\ t[Len(s) + 1] = d /\ \A i \in 1 .. Len(s) : t[i] = s[i]
  BY <1>1
<1>3. \A i \in 1 .. Len(s) : s[i] \in Reported(p)
  BY DEF Reported
<1>4. \A i, j \in 1 .. Len(s) : i < j => Linter!Before(s[i], s[j])
  BY DEF InOrder
<1>5. Reported(p) = { s[i] : i \in 1 .. Len(s) }
  BY DEF Reported
<1>6. Reported(p)' = { t[i] : i \in 1 .. Len(t) }
  BY DEF Reported
<1> HIDE DEF s
<1>7. ASSUME NEW i \in 1 .. Len(t), NEW j \in 1 .. Len(t), i < j PROVE Linter!Before(t[i], t[j])
  <2>1. CASE j \in 1 .. Len(s)
    <3>1. i \in 1 .. Len(s)
      BY <1>1, <1>7, <2>1
    <3> HIDE DEF t
    <3> QED
      BY <1>2, <1>4, <1>7, <2>1, <3>1
  <2>2. CASE j = Len(s) + 1
    <3>1. i \in 1 .. Len(s)
      BY <1>1, <1>7, <2>2
    <3>2. t[i] = s[i] /\ t[j] = d
      BY <1>2, <2>2, <3>1
    <3> QED
      BY <1>3, <3>1, <3>2
  <2> QED
    BY <1>1, <1>2, <2>1, <2>2
<1>8. InOrder(p)'
  BY <1>7 DEF InOrder
<1>9. { t[i] : i \in 1 .. Len(t) } = { s[i] : i \in 1 .. Len(s) } \cup {d}
  <2> HIDE DEF t
  <2>1. 1 .. Len(t) = (1 .. Len(s)) \cup {Len(s) + 1}
    BY <1>1, <1>2
  <2> QED
    BY <1>2, <2>1
<1> QED
  BY <1>5, <1>6, <1>8, <1>9

(* What a step within the regular checkers leaves alone, besides the       *)
(* variables it says something about.                                      *)
Steady(p) ==
  /\ cfg' = cfg /\ package' = package
  /\ regular'[p] = regular[p] /\ advanced'[p] = advanced[p] /\ finding'[p] = finding[p]

(* The next call, with all that is due for the calls before it reported.   *)
LEMMA CallBehind ==
  ASSUME TypeOK, NEW p \in Passes, PassInv(p), pc[p] \in Trying, call[p] <= Len(Calls(p)),
         Steady(p), pc'[p] = "regular", report'[p] = "driver",
         call'[p] = call[p] + 1, checker'[p] = 1,
         Reported(p)' = RegularsBefore(p, call[p] + 1), InOrder(p)'
  PROVE  PassInv(p)'
<1>1. /\ Len(Calls(p)) \in Nat /\ Len(regular[p]) \in Nat /\ call[p] \in Nat
      /\ Calls(p)' = Calls(p) /\ cfg' = cfg
  BY PassIsTyped, DueKept DEF Steady
<1>2. Selected(p)'
  BY SelectedKept DEF PassInv, Steady, Trying
<1>3. Counters(p)'
  BY <1>1 DEF PassInv, Counters, Steady, Trying, FormatterRuns
<1>4. Lent(p)' /\ Captured(p)'
  BY DEF Lent, Captured
<1>5. Passed(p)'
  BY DEF Passed
<1>6. RegularsBefore(p, call[p])' = RegularsBefore(p, call[p] + 1)
  BY DEF Steady, RegularsBefore
<1>7. Complete(p)'
  BY <1>6 DEF Complete
<1> QED
  BY <1>2, <1>3, <1>4, <1>5, <1>7 DEF PassInv

(* The next checker, after one that does not object. *)
LEMMA CheckerBehind ==
  ASSUME TypeOK, NEW p \in Passes, PassInv(p), pc[p] \in Trying, call[p] <= Len(Calls(p)),
         checker[p] <= Len(regular[p]), Running(p) \notin Current(p).by,
         Steady(p), pc'[p] = "regular", report'[p] = "driver",
         call'[p] = call[p], checker'[p] = checker[p] + 1, diagnostics'[p] = diagnostics[p]
  PROVE  PassInv(p)'
<1>1. /\ Len(Calls(p)) \in Nat /\ Len(regular[p]) \in Nat /\ call[p] \in Nat
      /\ checker[p] \in Nat /\ Calls(p)' = Calls(p) /\ cfg' = cfg
  BY PassIsTyped, DueKept DEF Steady
<1>2. Selected(p)'
  BY SelectedKept DEF PassInv, Steady, Trying
<1>3. Counters(p)'
  BY <1>1 DEF PassInv, Counters, Steady, Trying, FormatterRuns
<1>4. Lent(p)' /\ Captured(p)'
  BY DEF Lent, Captured
<1>5. Passed(p)'
  <2>1. Current(p)' = Current(p)
    BY DEF Current, Steady
  <2>2. regular'[p] = regular[p] /\ Running(p) = regular[p][checker[p]]
    BY DEF Steady, Running
  <2>3. Current(p).testify => \A k \in 1 .. checker[p] - 1 : regular[p][k] \notin Current(p).by
    BY DEF PassInv, Passed
  <2>4. Current(p).testify => \A k \in 1 .. checker[p] : regular[p][k] \notin Current(p).by
    BY <1>1, <2>2, <2>3
  <2>5. 1 .. checker'[p] - 1 = 1 .. checker[p]
    BY <1>1
  <2> QED
    BY <2>1, <2>2, <2>4, <2>5 DEF Passed
<1>6. RegularsBefore(p, call[p])' = RegularsBefore(p, call[p])
  BY DEF Steady, RegularsBefore
<1>7. Complete(p)' /\ InOrder(p)'
  BY <1>6, ReportedKept, InOrderKept DEF PassInv, Complete, Trying
<1> QED
  BY <1>2, <1>3, <1>4, <1>5, <1>7 DEF PassInv

(* The current checker is the first that objects: its diagnostic is the    *)
(* one that is due for the call.                                           *)
LEMMA Objects ==
  ASSUME TypeOK, NEW p \in Passes, PassInv(p), pc[p] \in Trying, call[p] <= Len(Calls(p)),
         Current(p).testify, checker[p] <= Len(regular[p]), Running(p) \in Current(p).by,
         Steady(p), pc'[p] = "regular", report'[p] = "driver",
         call'[p] = call[p] + 1, checker'[p] = 1,
         diagnostics'[p] = Append(diagnostics[p], Diagnostic(Running(p).name, call[p]))
  PROVE  PassInv(p)'
<1> DEFINE d == Diagnostic(Running(p).name, call[p])
<1>1. /\ Running(p).name \in All /\ IsRegular(Running(p).name)
      /\ Objecting(p, call[p]) # {}
      /\ Linter!First(Objecting(p, call[p])) = Running(p).name
  BY CurrentIsFirst DEF PassInv
<1>2. call[p] \in 1 .. Len(Calls(p))
  BY PassIsTyped
<1>3. RegularsBefore(p, call[p] + 1) = RegularsBefore(p, call[p]) \cup {d}
  BY <1>1, <1>2, OneMoreCall
<1>4. Reported(p) = RegularsBefore(p, call[p])
  BY DEF PassInv, Complete
<1>5. Acceptable(cfg)
  BY DEF PassInv, Selected, Trying
<1>6. ASSUME NEW e \in Reported(p) PROVE Linter!Before(e, d)
  <2>1. e \in Linter!RegularDiagnostics(cfg, package[p]) /\ e.at < call[p]
    BY <1>4 DEF RegularsBefore
  <2>2. IsRegular(e.by)
    BY <1>5, <2>1, DueForAssertion
  <2>3. d.at = call[p] /\ IsRegular(d.by)
    BY <1>1, DiagnosticHasParts
  <2> QED
    BY <2>1, <2>2, <2>3, WhatIsBefore
<1>7. InOrder(p)' /\ Reported(p)' = Reported(p) \cup {d}
  BY <1>6, Appended DEF PassInv
<1>8. Reported(p)' = RegularsBefore(p, call[p] + 1)
  BY <1>3, <1>4, <1>7
<1> QED
  BY <1>7, <1>8, CallBehind

(* The value the report function leaves. *)
LEMMA ReportToDriver ==
  ASSUME TypeOK, NEW p \in Passes, NEW n, NEW i, report[p] = "driver",
         Report(p, [by |-> n, at |-> i])
  PROVE  diagnostics'[p] = Append(diagnostics[p], Diagnostic(n, i)) /\ result'[p] = result[p]
BY DEF TypeOK, Report, Diagnostic

(* Each action keeps the invariant of its pass.                            *)
LEMMA BuildCheckersKeeps ==
  ASSUME TypeOK, NEW p \in Passes, PassInv(p), BuildCheckers(p)
  PROVE  PassInv(p)'
<1>1. PICK r \in Listings(Regulars, cfg), a \in Listings(Advanceds, cfg) :
        regular' = [regular EXCEPT ![p] = r] /\ advanced' = [advanced EXCEPT ![p] = a]
  BY DEF BuildCheckers, Regulars, Advanceds
<1>2. /\ pc[p] = "build" /\ Acceptable(cfg) /\ pc'[p] = "regular"
      /\ regular'[p] = r /\ advanced'[p] = a
      /\ UNCHANGED <<cfg, package, call, checker, finding, report, result, diagnostics>>
  BY <1>1 DEF TypeOK, BuildCheckers, At, Goto
<1>3. /\ call[p] = 1 /\ checker[p] = 1 /\ finding[p] = 0 /\ report[p] = "driver"
      /\ diagnostics[p] = <<>>
  BY <1>2, PassIsTyped DEF PassInv, Counters, Lent, Trying
<1>4. r \in Seq(Instances) /\ IsListing(r, Regulars, cfg) /\ IsListing(a, Advanceds, cfg)
  BY <1>2, PassIsTyped, ListingsAreTyped DEF Regulars, Advanceds
<1>5. Selected(p)'
  BY <1>2, <1>4 DEF Selected, Regulars, Advanceds
<1>6. Len(Calls(p)) \in Nat /\ Len(r) \in Nat /\ Calls(p)' = Calls(p)
  BY <1>2, <1>4, PassIsTyped, DueKept
<1>7. Counters(p)'
  BY <1>2, <1>3, <1>6 DEF Counters, Trying, FormatterRuns
<1>8. Lent(p)' /\ Captured(p)' /\ Passed(p)'
  BY <1>2, <1>3 DEF Lent, Captured, Passed
<1>9. Complete(p)'
  <2>1. Reported(p)' = {}
    BY <1>2, <1>3 DEF Reported
  <2>2. RegularsBefore(p, 1) = {}
    <3>1. ASSUME NEW d \in Linter!RegularDiagnostics(cfg, package[p]) PROVE ~ (d.at < 1)
      BY <1>2, <1>6, DueForAssertion
    <3> QED
      BY <3>1 DEF RegularsBefore
  <2>3. RegularsBefore(p, call[p])' = RegularsBefore(p, 1)
    BY <1>2, <1>3 DEF RegularsBefore
  <2> QED
    BY <1>2, <2>1, <2>2, <2>3 DEF Complete
<1>10. InOrder(p)'
  BY <1>2, <1>3 DEF InOrder
<1> QED
  BY <1>5, <1>7, <1>8, <1>9, <1>10 DEF PassInv

LEMMA BuildFailsKeeps ==
  ASSUME TypeOK, NEW p \in Passes, PassInv(p), BuildFails(p)
  PROVE  PassInv(p)'
<1>1. /\ pc[p] = "build" /\ pc'[p] = "failed"
      /\ UNCHANGED <<cfg, package, call, checker, finding, report, result, diagnostics>>
  BY DEF TypeOK, BuildFails, At, Goto
<1>2. Selected(p)' /\ Captured(p)' /\ Passed(p)' /\ Complete(p)'
  BY <1>1 DEF Selected, Captured, Passed, Complete, Trying
<1>3. Counters(p)'
  BY <1>1, PassIsTyped DEF PassInv, Counters, Calls, Trying, FormatterRuns
<1>4. Lent(p)' /\ InOrder(p)'
  BY <1>1, InOrderKept DEF PassInv, Lent
<1> QED
  BY <1>2, <1>3, <1>4 DEF PassInv

LEMMA SkipCallKeeps ==
  ASSUME TypeOK, NEW p \in Passes, PassInv(p), SkipCall(p)
  PROVE  PassInv(p)'
<1>1. /\ pc[p] = "regular" /\ call[p] <= Len(Calls(p)) /\ pc[p] \in Trying
      /\ ~ Current(p).testify \/ checker[p] > Len(regular[p])
  BY DEF SkipCall, InCalls, At, Calls, Trying
<1>2. /\ Steady(p) /\ pc'[p] = "regular" /\ report'[p] = report[p]
      /\ call'[p] = call[p] + 1 /\ checker'[p] = 1 /\ diagnostics'[p] = diagnostics[p]
  BY <1>1 DEF TypeOK, SkipCall, NextCall, Steady
<1>3. report'[p] = "driver"
  BY <1>1, <1>2, PassIsTyped DEF PassInv, Lent
<1>4. Objecting(p, call[p]) = {}
  BY <1>1, NobodyObjects DEF PassInv
<1>5. call[p] \in 1 .. Len(Calls(p))
  BY <1>1, PassIsTyped
<1>6. RegularsBefore(p, call[p] + 1) = RegularsBefore(p, call[p])
  BY <1>4, <1>5, OneMoreCall
<1>7. Reported(p)' = RegularsBefore(p, call[p] + 1) /\ InOrder(p)'
  BY <1>1, <1>2, <1>6, ReportedKept, InOrderKept DEF PassInv, Complete
<1> QED
  BY <1>1, <1>2, <1>3, <1>7, CallBehind

LEMMA TryCheckerKeeps ==
  ASSUME TypeOK, NEW p \in Passes, PassInv(p), TryChecker(p)
  PROVE  PassInv(p)'
<1>1. /\ pc[p] = "regular" /\ call[p] <= Len(Calls(p)) /\ pc[p] \in Trying
      /\ Current(p).testify /\ checker[p] <= Len(regular[p])
  BY DEF TryChecker, InCalls, At, Calls, Trying
<1>2. Steady(p) /\ pc'[p] = "regular" /\ report'[p] = report[p]
  BY <1>1 DEF TryChecker, Steady
<1>3. report[p] = "driver"
  BY <1>1, PassIsTyped DEF PassInv, Lent
<1>4. CASE Running(p) \in Current(p).by
  <2>1. Report(p, [by |-> Running(p).name, at |-> call[p]]) /\ NextCall(p)
    BY <1>4 DEF TryChecker
  <2>2. diagnostics'[p] = Append(diagnostics[p], Diagnostic(Running(p).name, call[p]))
    BY <1>3, <2>1, ReportToDriver
  <2>3. call'[p] = call[p] + 1 /\ checker'[p] = 1
    BY <2>1 DEF TypeOK, NextCall
  <2> QED
    BY <1>1, <1>2, <1>3, <1>4, <2>2, <2>3, Objects
<1>5. CASE Running(p) \notin Current(p).by
  <2>1. NextChecker(p) /\ UNCHANGED <<result, diagnostics>>
    BY <1>5 DEF TryChecker
  <2>2. call'[p] = call[p] /\ checker'[p] = checker[p] + 1 /\ diagnostics'[p] = diagnostics[p]
    BY <2>1 DEF TypeOK, NextChecker
  <2> QED
    BY <1>1, <1>2, <1>3, <1>5, <2>2, CheckerBehind
<1> QED
  BY <1>4, <1>5

(* While the formatter runs, the pass stays at its call and checker.       *)
LEMMA FormatterStep ==
  ASSUME TypeOK, NEW p \in Passes, PassInv(p), pc[p] \in Trying, call[p] <= Len(Calls(p)),
         Current(p).testify, checker[p] <= Len(regular[p]),
         Steady(p), pc'[p] \in FormatterRuns,
         call'[p] = call[p], checker'[p] = checker[p], diagnostics'[p] = diagnostics[p],
         Lent(p)', Captured(p)'
  PROVE  PassInv(p)'
<1>1. /\ Len(Calls(p)) \in Nat /\ Len(regular[p]) \in Nat /\ call[p] \in Nat
      /\ checker[p] \in Nat /\ Calls(p)' = Calls(p) /\ cfg' = cfg
  BY PassIsTyped, DueKept DEF Steady
<1>2. Selected(p)'
  BY SelectedKept DEF PassInv, Steady, Trying, FormatterRuns
<1>3. Current(p)' = Current(p)
  BY DEF Current, Steady
<1>4. Counters(p)'
  BY <1>1, <1>3 DEF PassInv, Counters, Steady, Trying, FormatterRuns
<1>5. Passed(p)'
  BY <1>1, <1>3 DEF PassInv, Passed, Steady
<1>6. RegularsBefore(p, call[p])' = RegularsBefore(p, call[p])
  BY DEF Steady, RegularsBefore
<1>7. Complete(p)' /\ InOrder(p)'
  BY <1>6, ReportedKept, InOrderKept DEF PassInv, Complete, Trying, FormatterRuns
<1> QED
  BY <1>2, <1>4, <1>5, <1>7 DEF PassInv

LEMMA SwapReportKeeps ==
  ASSUME TypeOK, NEW p \in Passes, PassInv(p), SwapReport(p)
  PROVE  PassInv(p)'
<1>1. /\ pc[p] \in Trying /\ call[p] <= Len(Calls(p))
      /\ Current(p).testify /\ checker[p] <= Len(regular[p])
  BY DEF SwapReport, InCalls, At, Calls, Trying
<1>2. /\ Steady(p) /\ pc'[p] = "printf" /\ report'[p] = "formatter" /\ ~ result'[p]
      /\ call'[p] = call[p] /\ checker'[p] = checker[p] /\ diagnostics'[p] = diagnostics[p]
  BY DEF TypeOK, SwapReport, Goto, Steady
<1>3. Lent(p)' /\ Captured(p)'
  BY <1>2 DEF Lent, Captured
<1> QED
  BY <1>1, <1>2, <1>3, FormatterStep DEF FormatterRuns

LEMMA CheckPrintfKeeps ==
  ASSUME TypeOK, NEW p \in Passes, PassInv(p), CheckPrintf(p)
  PROVE  PassInv(p)'
<1>1. pc[p] = "printf" /\ report[p] = "formatter" /\ ~ result[p]
  BY DEF CheckPrintf, At, PassInv, Lent, Captured
<1>2. /\ pc[p] \in Trying /\ call[p] <= Len(Calls(p))
      /\ Current(p).testify /\ checker[p] <= Len(regular[p])
  BY <1>1 DEF PassInv, Counters, Trying, FormatterRuns
<1>3. /\ Steady(p) /\ pc'[p] = "restore" /\ report'[p] = "formatter"
      /\ call'[p] = call[p] /\ checker'[p] = checker[p]
  BY <1>1 DEF TypeOK, CheckPrintf, Goto, Steady
<1>4. /\ diagnostics'[p] = diagnostics[p]
      /\ result'[p] <=> Running(p) \in Current(p).by
  <2>1. CASE Running(p) \in Current(p).by
    <3>1. Report(p, [by |-> "printf", at |-> call[p]])
      BY <2>1 DEF CheckPrintf
    <3>2. result' = [result EXCEPT ![p] = TRUE] /\ UNCHANGED diagnostics
      BY <1>1, <3>1 DEF Report
    <3> QED
      BY <2>1, <3>2 DEF TypeOK
  <2>2. CASE Running(p) \notin Current(p).by
    <3>1. UNCHANGED <<result, diagnostics>>
      BY <2>2 DEF CheckPrintf
    <3> QED
      BY <1>1, <2>2, <3>1
  <2> QED
    BY <2>1, <2>2
<1>5. Lent(p)' /\ Captured(p)'
  BY <1>3, <1>4 DEF Lent, Captured, Running, Current, Steady
<1> QED
  BY <1>2, <1>3, <1>4, <1>5, FormatterStep DEF FormatterRuns

LEMMA RestoreReportKeeps ==
  ASSUME TypeOK, NEW p \in Passes, PassInv(p), RestoreReport(p)
  PROVE  PassInv(p)'
<1>1. pc[p] = "restore" /\ (result[p] <=> Running(p) \in Current(p).by)
  BY DEF RestoreReport, At, PassInv, Captured
<1>2. /\ pc[p] \in Trying /\ call[p] <= Len(Calls(p))
      /\ Current(p).testify /\ checker[p] <= Len(regular[p])
  BY <1>1 DEF PassInv, Counters, Trying, FormatterRuns
<1>3. /\ Steady(p) /\ pc'[p] = "result" /\ report'[p] = "driver" /\ result'[p] = result[p]
      /\ call'[p] = call[p] /\ checker'[p] = checker[p] /\ diagnostics'[p] = diagnostics[p]
  BY DEF TypeOK, RestoreReport, Goto, Steady
<1>4. Lent(p)' /\ Captured(p)'
  BY <1>1, <1>3 DEF Lent, Captured, Running, Current, Steady
<1> QED
  BY <1>2, <1>3, <1>4, FormatterStep DEF FormatterRuns

LEMMA TakeResultKeeps ==
  ASSUME TypeOK, NEW p \in Passes, PassInv(p), TakeResult(p)
  PROVE  PassInv(p)'
<1>1. pc[p] = "result" /\ (result[p] <=> Running(p) \in Current(p).by)
  BY DEF TakeResult, At, PassInv, Captured
<1>2. /\ pc[p] \in Trying /\ call[p] <= Len(Calls(p))
      /\ Current(p).testify /\ checker[p] <= Len(regular[p])
  BY <1>1 DEF PassInv, Counters, Trying, FormatterRuns
<1>3. Steady(p) /\ pc'[p] = "regular" /\ report'[p] = report[p]
  BY DEF TypeOK, TakeResult, Goto, Steady
<1>4. report[p] = "driver"
  BY <1>1, PassIsTyped DEF PassInv, Lent
<1>5. CASE result[p]
  <2>1. Report(p, [by |-> Running(p).name, at |-> call[p]]) /\ NextCall(p)
    BY <1>5 DEF TakeResult
  <2>2. diagnostics'[p] = Append(diagnostics[p], Diagnostic(Running(p).name, call[p]))
    BY <1>4, <2>1, ReportToDriver
  <2>3. call'[p] = call[p] + 1 /\ checker'[p] = 1
    BY <2>1 DEF TypeOK, NextCall
  <2> QED
    BY <1>1, <1>2, <1>3, <1>4, <1>5, <2>2, <2>3, Objects
<1>6. CASE ~ result[p]
  <2>1. NextChecker(p) /\ UNCHANGED <<result, diagnostics>>
    BY <1>6 DEF TakeResult
  <2>2. call'[p] = call[p] /\ checker'[p] = checker[p] + 1 /\ diagnostics'[p] = diagnostics[p]
    BY <2>1 DEF TypeOK, NextChecker
  <2> QED
    BY <1>1, <1>2, <1>3, <1>4, <1>6, <2>2, CheckerBehind
<1> QED
  BY <1>5, <1>6
-----------------------------------------------------------------------------
(* The advanced checkers: nothing but the list position moves.             *)
InAdvancedPart(p) ==
  /\ pc[p] = "advanced"
  /\ cfg' = cfg /\ package' = package /\ pc'[p] \in {"advanced", "done"}
  /\ regular'[p] = regular[p] /\ advanced'[p] = advanced[p] /\ call'[p] = call[p]
  /\ report'[p] = report[p]

LEMMA AdvancedStep ==
  ASSUME TypeOK, NEW p \in Passes, PassInv(p), InAdvancedPart(p)
  PROVE  Selected(p)' /\ Lent(p)' /\ Captured(p)' /\ Passed(p)'
<1>1. Selected(p)'
  BY SelectedKept DEF PassInv, InAdvancedPart
<1>2. Lent(p)'
  BY DEF PassInv, InAdvancedPart, Lent
<1>3. Captured(p)' /\ Passed(p)'
  BY DEF InAdvancedPart, Captured, Passed, Trying
<1> QED
  BY <1>1, <1>2, <1>3

(* How many findings the checker at a place of the list has. *)
FindingsAt(p, j) == package[p].found[advanced[p][j]]

LEMMA FindingsAreTyped ==
  ASSUME TypeOK, NEW p \in Passes, Selected(p), pc[p] \notin {"build", "failed"},
         NEW j \in 1 .. Len(advanced[p])
  PROVE  /\ FindingsAt(p, j) \in Nat
         /\ FindingsAt(p, j) = package[p].found[Linter!Instance(cfg, advanced[p][j].name)]
         /\ advanced[p][j].name \in Advanceds /\ ~ IsRegular(advanced[p][j].name)
<1>1. Lists(advanced[p], Advanceds)
  BY PassIsListed
<1>2. advanced[p] \in Seq(Instances) /\ package[p].found \in [Instances -> Nat]
  BY PassIsTyped
<1>3. advanced[p][j] \in Instances
  BY <1>2
<1> QED
  BY <1>1, <1>2, <1>3 DEF Lists, FindingsAt, Advanceds

(* What is due for the package, by places of the list.                     *)
LEMMA DueByPlace ==
  ASSUME TypeOK, NEW p \in Passes, Selected(p), pc[p] \notin {"build", "failed"}, NEW d
  PROVE  d \in Linter!AdvancedDiagnostics(cfg, package[p]) <=>
           \E j \in 1 .. Len(advanced[p]) : \E i \in 1 .. FindingsAt(p, j) :
             d = Diagnostic(advanced[p][j].name, i)
<1> DEFINE s == advanced[p]
           found(n) == package[p].found[Linter!Instance(cfg, n)]
<1>1. Lists(s, Advanceds)
  BY PassIsListed
<1>2. \A j \in 1 .. Len(s) : FindingsAt(p, j) = found(s[j].name) /\ s[j].name \in Advanceds
  BY FindingsAreTyped
<1>3. d \in Linter!AdvancedDiagnostics(cfg, package[p]) <=>
        \E n \in Advanceds : \E i \in 1 .. found(n) : d = Diagnostic(n, i)
  BY WhatIsAdvancedDiagnostic
<1>4. \A n \in Advanceds : \E j \in 1 .. Len(s) : s[j].name = n
  BY <1>1 DEF Lists
<1> HIDE DEF found, s
<1>5. ASSUME NEW n \in Advanceds, NEW i \in 1 .. found(n), d = Diagnostic(n, i)
      PROVE  \E j \in 1 .. Len(s) : \E k \in 1 .. FindingsAt(p, j) : d = Diagnostic(s[j].name, k)
  <2>1. PICK j \in 1 .. Len(s) : s[j].name = n
    BY <1>4
  <2>2. i \in 1 .. FindingsAt(p, j) /\ d = Diagnostic(s[j].name, i)
    BY <1>2, <1>5, <2>1
  <2> QED
    BY <2>2
<1>6. ASSUME NEW j \in 1 .. Len(s), NEW i \in 1 .. FindingsAt(p, j), d = Diagnostic(s[j].name, i)
      PROVE  \E n \in Advanceds : \E k \in 1 .. found(n) : d = Diagnostic(n, k)
  BY <1>2, <1>6
<1>7. (\E n \in Advanceds : \E i \in 1 .. found(n) : d = Diagnostic(n, i)) <=>
        \E j \in 1 .. Len(s) : \E i \in 1 .. FindingsAt(p, j) : d = Diagnostic(s[j].name, i)
  BY <1>5, <1>6
<1> QED
  BY <1>3, <1>7 DEF s

(* The diagnostics of the advanced checkers up to the finding f of the     *)
(* checker at place c.                                                     *)
LEMMA WhatIsBehind ==
  ASSUME TypeOK, NEW p \in Passes, Selected(p), pc[p] \notin {"build", "failed"},
         NEW c \in Nat, NEW f \in Nat, NEW d
  PROVE  d \in AdvancedBefore(p, c, f) <=>
           \E j \in 1 .. Len(advanced[p]) : \E i \in 1 .. FindingsAt(p, j) :
             d = Diagnostic(advanced[p][j].name, i) /\ (j < c \/ (j = c /\ i <= f))
<1> DEFINE s == advanced[p]
           due(j, i) == d = Diagnostic(s[j].name, i)
           N(j) == FindingsAt(p, j)
<1>1. d \in Linter!AdvancedDiagnostics(cfg, package[p]) <=>
        \E j \in 1 .. Len(s) : \E i \in 1 .. N(j) : due(j, i)
  BY DueByPlace
<1>2. \A j, i : due(j, i) => d.by = s[j].name /\ d.at = i
  BY DiagnosticHasParts
<1>3. \A j, k \in 1 .. Len(s) : s[j].name = s[k].name => j = k
  BY PassIsListed DEF Lists
<1>4. d \in AdvancedBefore(p, c, f) <=>
        /\ d \in Linter!AdvancedDiagnostics(cfg, package[p])
        /\ \E j \in 1 .. Len(s) : d.by = s[j].name /\ (j < c \/ (j = c /\ d.at <= f))
  BY DEF AdvancedBefore
<1> HIDE DEF s, due, N
<1>5. d \in AdvancedBefore(p, c, f) <=>
        \E j \in 1 .. Len(s) : \E i \in 1 .. N(j) : due(j, i) /\ (j < c \/ (j = c /\ i <= f))
  <2>1. ASSUME d \in AdvancedBefore(p, c, f)
        PROVE \E j \in 1 .. Len(s) : \E i \in 1 .. N(j) : due(j, i) /\ (j < c \/ (j = c /\ i <= f))
    <3>1. PICK k \in 1 .. Len(s) : d.by = s[k].name /\ (k < c \/ (k = c /\ d.at <= f))
      BY <1>4, <2>1
    <3>2. PICK j \in 1 .. Len(s) : \E i \in 1 .. N(j) : due(j, i)
      BY <1>1, <1>4, <2>1
    <3>3. PICK i \in 1 .. N(j) : due(j, i)
      BY <3>2
    <3>4. k = j /\ d.at = i
      BY <1>2, <1>3, <3>1, <3>3
    <3> QED
      BY <3>1, <3>3, <3>4
  <2>2. ASSUME NEW j \in 1 .. Len(s), NEW i \in 1 .. N(j), due(j, i), j < c \/ (j = c /\ i <= f)
        PROVE  d \in AdvancedBefore(p, c, f)
    BY <1>1, <1>2, <1>4, <2>2
  <2> QED
    BY <2>1, <2>2
<1> QED
  BY <1>5 DEF s, due, N

LEMMA NoFindingYet ==
  ASSUME TypeOK, NEW p \in Passes, Selected(p), pc[p] \notin {"build", "failed"}
  PROVE  AdvancedBefore(p, 1, 0) = {}
<1>1. ASSUME NEW d \in AdvancedBefore(p, 1, 0) PROVE FALSE
  <2>1. PICK j \in 1 .. Len(advanced[p]) : \E i \in 1 .. FindingsAt(p, j) : j < 1 \/ (j = 1 /\ i <= 0)
    BY WhatIsBehind
  <2> QED
    BY <2>1, FindingsAreTyped
<1> QED
  BY <1>1

LEMMA OneMoreFinding ==
  ASSUME TypeOK, NEW p \in Passes, Selected(p), pc[p] \notin {"build", "failed"},
         NEW c \in 1 .. Len(advanced[p]), NEW f \in Nat, f < FindingsAt(p, c)
  PROVE  AdvancedBefore(p, c, f + 1)
           = AdvancedBefore(p, c, f) \cup {Diagnostic(advanced[p][c].name, f + 1)}
<1> DEFINE s == advanced[p]
           N(j) == FindingsAt(p, j)
           due(j, i) == Diagnostic(s[j].name, i)
<1>1. Len(s) \in Nat /\ c \in Nat /\ c \in 1 .. Len(s) /\ N(c) \in Nat
  BY PassIsTyped, FindingsAreTyped
<1>2. \A d : d \in AdvancedBefore(p, c, f) <=>
        \E j \in 1 .. Len(s) : \E i \in 1 .. N(j) : d = due(j, i) /\ (j < c \/ (j = c /\ i <= f))
  BY <1>1, WhatIsBehind
<1>3. \A d : d \in AdvancedBefore(p, c, f + 1) <=>
        \E j \in 1 .. Len(s) : \E i \in 1 .. N(j) :
          d = due(j, i) /\ (j < c \/ (j = c /\ i <= f + 1))
  BY <1>1, WhatIsBehind
<1> HIDE DEF s, N, due
<1>4. ASSUME NEW d \in AdvancedBefore(p, c, f + 1)
      PROVE  d \in AdvancedBefore(p, c, f) \/ d = due(c, f + 1)
  <2>0. PICK j \in 1 .. Len(s) : \E i \in 1 .. N(j) :
          d = due(j, i) /\ (j < c \/ (j = c /\ i <= f + 1))
    BY <1>3
  <2>1. PICK i \in 1 .. N(j) : d = due(j, i) /\ (j < c \/ (j = c /\ i <= f + 1))
    BY <2>0
  <2>2. (j < c \/ (j = c /\ i <= f)) \/ (j = c /\ i = f + 1)
    <3>1. CASE j < c
      BY <3>1
    <3>2. CASE j = c /\ i <= f + 1
      <4>1. i \in Nat
        BY <1>1, <3>2
      <4> QED
        BY <3>2, <4>1
    <3> QED
      BY <2>1, <3>1, <3>2
  <2> QED
    BY <1>2, <2>1, <2>2
<1>5. AdvancedBefore(p, c, f) \subseteq AdvancedBefore(p, c, f + 1)
  <2>1. ASSUME NEW d \in AdvancedBefore(p, c, f) PROVE d \in AdvancedBefore(p, c, f + 1)
    <3>0. PICK j \in 1 .. Len(s) : \E i \in 1 .. N(j) :
            d = due(j, i) /\ (j < c \/ (j = c /\ i <= f))
      BY <1>2
    <3>1. PICK i \in 1 .. N(j) : d = due(j, i) /\ (j < c \/ (j = c /\ i <= f))
      BY <3>0
    <3>2. j < c \/ (j = c /\ i <= f + 1)
      <4>1. CASE j < c
        BY <4>1
      <4>2. CASE j = c /\ i <= f
        <5>1. i \in Nat
          BY <1>1, <4>2
        <5> QED
          BY <4>2, <5>1
      <4> QED
        BY <3>1, <4>1, <4>2
    <3> QED
      BY <1>3, <3>1, <3>2
  <2> QED
    BY <2>1
<1>6. due(c, f + 1) \in AdvancedBefore(p, c, f + 1)
  <2>1. f + 1 \in 1 .. N(c)
    BY <1>1 DEF N
  <2> QED
    BY <1>1, <1>3, <2>1
<1>7. AdvancedBefore(p, c, f + 1) = AdvancedBefore(p, c, f) \cup {due(c, f + 1)}
  BY <1>4, <1>5, <1>6
<1> QED
  BY <1>7 DEF due, s

LEMMA CheckerFinished ==
  ASSUME TypeOK, NEW p \in Passes, Selected(p), pc[p] \notin {"build", "failed"},
         NEW c \in 1 .. Len(advanced[p])
  PROVE  AdvancedBefore(p, c + 1, 0) = AdvancedBefore(p, c, FindingsAt(p, c))
<1> DEFINE s == advanced[p]
           N(j) == FindingsAt(p, j)
           due(j, i) == Diagnostic(s[j].name, i)
<1>1. Len(s) \in Nat /\ c \in Nat /\ \A j \in 1 .. Len(s) : N(j) \in Nat
  BY PassIsTyped, FindingsAreTyped
<1>2. \A d : d \in AdvancedBefore(p, c, N(c)) <=>
        \E j \in 1 .. Len(s) : \E i \in 1 .. N(j) : d = due(j, i) /\ (j < c \/ (j = c /\ i <= N(c)))
  BY <1>1, WhatIsBehind
<1>3. \A d : d \in AdvancedBefore(p, c + 1, 0) <=>
        \E j \in 1 .. Len(s) : \E i \in 1 .. N(j) :
          d = due(j, i) /\ (j < c + 1 \/ (j = c + 1 /\ i <= 0))
  BY <1>1, WhatIsBehind
<1> HIDE DEF s, N, due
<1>4. \A j \in 1 .. Len(s) : \A i \in 1 .. N(j) :
        (j < c + 1 \/ (j = c + 1 /\ i <= 0)) <=> (j < c \/ (j = c /\ i <= N(c)))
  BY <1>1
<1>5. \A d : d \in AdvancedBefore(p, c + 1, 0) <=> d \in AdvancedBefore(p, c, N(c))
  BY <1>2, <1>3, <1>4
<1> QED
  BY <1>5 DEF N

LEMMA AllFinished ==
  ASSUME TypeOK, NEW p \in Passes, Selected(p), pc[p] \notin {"build", "failed"},
         checker[p] > Len(advanced[p])
  PROVE  AdvancedBefore(p, checker[p], finding[p]) = Linter!AdvancedDiagnostics(cfg, package[p])
<1> DEFINE s == advanced[p]
           N(j) == FindingsAt(p, j)
           due(j, i) == Diagnostic(s[j].name, i)
           c == checker[p]
           f == finding[p]
           D == Linter!AdvancedDiagnostics(cfg, package[p])
<1>1. Len(s) \in Nat /\ c \in Nat /\ f \in Nat
  BY PassIsTyped
<1>2. \A d : d \in AdvancedBefore(p, c, f) <=>
        \E j \in 1 .. Len(s) : \E i \in 1 .. N(j) : d = due(j, i) /\ (j < c \/ (j = c /\ i <= f))
  BY <1>1, WhatIsBehind
<1>3. \A d : d \in D <=> \E j \in 1 .. Len(s) : \E i \in 1 .. N(j) : d = due(j, i)
  BY DueByPlace
<1>4. \A j \in 1 .. Len(s) : j < c
  BY <1>1
<1> HIDE DEF s, N, due, c, f, D
<1>5. \A d : d \in AdvancedBefore(p, c, f) <=> d \in D
  BY <1>2, <1>3, <1>4
<1> QED
  BY <1>5 DEF D, c, f

LEMMA EndOfCallsKeeps ==
  ASSUME TypeOK, NEW p \in Passes, PassInv(p), EndOfCalls(p)
  PROVE  PassInv(p)'
<1>1. /\ pc[p] = "regular" /\ call[p] > Len(Calls(p)) /\ call[p] <= Len(Calls(p)) + 1
      /\ finding[p] = 0
  BY DEF EndOfCalls, At, PassInv, Counters, Calls, Trying
<1>2. /\ cfg' = cfg /\ package' = package /\ pc'[p] = "advanced"
      /\ regular'[p] = regular[p] /\ advanced'[p] = advanced[p] /\ finding'[p] = finding[p]
      /\ call'[p] = call[p] /\ checker'[p] = 1 /\ report'[p] = report[p]
      /\ diagnostics'[p] = diagnostics[p]
  BY DEF TypeOK, EndOfCalls, Goto
<1>3. /\ Len(Calls(p)) \in Nat /\ Len(advanced[p]) \in Nat /\ call[p] \in Nat
      /\ Calls(p)' = Calls(p)
  BY <1>2, PassIsTyped, DueKept
<1>4. call[p] = Len(Calls(p)) + 1
  BY <1>1, <1>3
<1>5. Selected(p) /\ Acceptable(cfg)
  BY <1>1 DEF PassInv, Selected
<1>6. Selected(p)' /\ Lent(p)' /\ Captured(p)' /\ Passed(p)'
  <2>1. Selected(p)'
    BY <1>1, <1>2, <1>5, SelectedKept
  <2> QED
    BY <1>1, <1>2, <2>1 DEF PassInv, Lent, Captured, Passed, Trying
<1>7. Counters(p)'
  <2>1. 1 <= Len(advanced[p]) => FindingsAt(p, 1) \in Nat
    BY <1>1, <1>3, <1>5, FindingsAreTyped
  <2>2. Findings(p)' = FindingsAt(p, 1)
    BY <1>2 DEF Findings, FindingsAt
  <2> QED
    BY <1>1, <1>2, <1>3, <1>4, <2>1, <2>2 DEF Counters, Trying, FormatterRuns
<1>8. RegularsBefore(p, call[p]) = Linter!RegularDiagnostics(cfg, package[p])
  <2>1. ASSUME NEW d \in Linter!RegularDiagnostics(cfg, package[p]) PROVE d.at < call[p]
    BY <1>3, <1>4, <1>5, DueForAssertion
  <2> QED
    BY <2>1 DEF RegularsBefore
<1>9. AdvancedBefore(p, checker[p], finding[p])' = {}
  BY <1>1, <1>2, <1>5, AdvancedKept, NoFindingYet
<1>10. Complete(p)'
  BY <1>1, <1>2, <1>8, <1>9, ReportedKept, DueKept DEF PassInv, Complete, Trying
<1>11. InOrder(p)'
  BY <1>2, InOrderKept DEF PassInv
<1> QED
  BY <1>6, <1>7, <1>10, <1>11 DEF PassInv

LEMMA ReportFindingKeeps ==
  ASSUME TypeOK, NEW p \in Passes, PassInv(p), ReportFinding(p)
  PROVE  PassInv(p)'
<1> DEFINE c == checker[p]
           f == finding[p]
           n == advanced[p][c].name
           d == Diagnostic(n, f + 1)
<1>1. pc[p] = "advanced" /\ c <= Len(advanced[p]) /\ f < Findings(p) /\ Selected(p)
  BY DEF ReportFinding, InAdvanced, At, PassInv
<1>2. /\ Len(advanced[p]) \in Nat /\ c \in 1 .. Len(advanced[p]) /\ f \in Nat
      /\ FindingsAt(p, c) \in Nat /\ Findings(p) = FindingsAt(p, c)
  BY <1>1, PassIsTyped, FindingsAreTyped DEF Findings, FindingsAt
<1>3. report[p] = "driver"
  BY <1>1, PassIsTyped DEF PassInv, Lent
<1>4. diagnostics'[p] = Append(diagnostics[p], d)
  BY <1>3, ReportToDriver DEF ReportFinding
<1>5. /\ InAdvancedPart(p) /\ pc'[p] = "advanced" /\ checker'[p] = c /\ finding'[p] = f + 1
      /\ cfg' = cfg /\ package' = package /\ advanced'[p] = advanced[p]
  <2>1. UNCHANGED <<cfg, package, pc, regular, advanced, call, checker, report>>
    BY DEF ReportFinding
  <2>2. finding' = [finding EXCEPT ![p] = @ + 1]
    BY DEF ReportFinding
  <2> QED
    BY <1>1, <2>1, <2>2 DEF TypeOK, InAdvancedPart
<1>6. Selected(p)' /\ Lent(p)' /\ Captured(p)' /\ Passed(p)'
  BY <1>5, AdvancedStep
<1>7. Counters(p)'
  <2>1. Calls(p)' = Calls(p) /\ Findings(p)' = Findings(p)
    BY <1>5, DueKept DEF Findings
  <2> HIDE DEF c, f
  <2> QED
    BY <1>1, <1>2, <1>5, <2>1 DEF Counters, PassInv, InAdvancedPart, Trying, FormatterRuns, c, f
<1>8. AdvancedBefore(p, c, f + 1) = AdvancedBefore(p, c, f) \cup {d}
  <2>1. f < FindingsAt(p, c) /\ pc[p] \notin {"build", "failed"}
    BY <1>1, <1>2
  <2> HIDE DEF c, f
  <2> QED
    BY <1>1, <1>2, <2>1, OneMoreFinding
<1>9. Reported(p) = Linter!RegularDiagnostics(cfg, package[p]) \cup AdvancedBefore(p, c, f)
  BY <1>1 DEF PassInv, Complete
<1>10. ASSUME NEW e \in Reported(p) PROVE Linter!Before(e, d)
  <2>1. d.by = n /\ d.at = f + 1 /\ ~ IsRegular(n)
    BY <1>1, <1>2, DiagnosticHasParts, FindingsAreTyped
  <2>2. CASE e \in Linter!RegularDiagnostics(cfg, package[p])
    <3>1. IsRegular(e.by)
      BY <1>1, <2>2, DueForAssertion DEF Selected
    <3> QED
      BY <2>1, <3>1, WhatIsBefore
  <2>3. CASE e \in AdvancedBefore(p, c, f)
    <3>1. PICK j \in 1 .. Len(advanced[p]) : \E i \in 1 .. FindingsAt(p, j) :
            e = Diagnostic(advanced[p][j].name, i) /\ (j < c \/ (j = c /\ i <= f))
      BY <1>1, <1>2, <2>3, WhatIsBehind
    <3>2. PICK i \in 1 .. FindingsAt(p, j) :
            e = Diagnostic(advanced[p][j].name, i) /\ (j < c \/ (j = c /\ i <= f))
      BY <3>1
    <3>3. e.by = advanced[p][j].name /\ e.at = i
      BY <3>2, DiagnosticHasParts
    <3>4. ~ IsRegular(e.by)
      BY <1>1, <3>3, FindingsAreTyped
    <3>5. CASE j < c
      <4>1. Lists(advanced[p], Advanceds)
        BY <1>1, PassIsListed
      <4>2. Priority(advanced[p][j].name) < Priority(advanced[p][c].name)
        BY <1>2, <3>5, <4>1 DEF Lists
      <4> QED
        BY <2>1, <3>3, <3>4, <4>2, WhatIsBefore
    <3>6. CASE j = c /\ i <= f
      <4>1. e.at < d.at /\ e.by = d.by
        BY <1>2, <2>1, <3>3, <3>6
      <4> QED
        BY <2>1, <3>4, <4>1, WhatIsBefore
    <3> QED
      BY <3>2, <3>5, <3>6
  <2> QED
    BY <1>9, <2>2, <2>3
<1>11. InOrder(p)' /\ Reported(p)' = Reported(p) \cup {d}
  BY <1>4, <1>10, Appended DEF PassInv
<1>12. Complete(p)'
  <2>1. AdvancedBefore(p, checker[p], finding[p])' = AdvancedBefore(p, c, f + 1)
    BY <1>5, AdvancedKept
  <2> QED
    BY <1>5, <1>8, <1>9, <1>11, <2>1, DueKept DEF Complete, Trying
<1> QED
  BY <1>6, <1>7, <1>11, <1>12 DEF PassInv

LEMMA NextAdvancedKeeps ==
  ASSUME TypeOK, NEW p \in Passes, PassInv(p), NextAdvanced(p)
  PROVE  PassInv(p)'
<1> DEFINE c == checker[p]
           f == finding[p]
<1>1. pc[p] = "advanced" /\ c <= Len(advanced[p]) /\ f = Findings(p) /\ Selected(p)
  BY DEF NextAdvanced, InAdvanced, At, PassInv
<1>2. /\ Len(advanced[p]) \in Nat /\ c \in 1 .. Len(advanced[p]) /\ f \in Nat
      /\ f = FindingsAt(p, c)
  BY <1>1, PassIsTyped DEF Findings, FindingsAt
<1>3. /\ InAdvancedPart(p) /\ pc'[p] = "advanced" /\ checker'[p] = c + 1 /\ finding'[p] = 0
      /\ cfg' = cfg /\ package' = package /\ advanced'[p] = advanced[p]
      /\ diagnostics'[p] = diagnostics[p]
  <2>1. UNCHANGED <<cfg, package, pc, regular, advanced, report, result, diagnostics>>
    BY DEF NextAdvanced
  <2>2. finding' = [finding EXCEPT ![p] = 0] /\ NextChecker(p)
    BY DEF NextAdvanced
  <2>3. checker' = [checker EXCEPT ![p] = @ + 1] /\ call' = call
    BY <2>2 DEF NextChecker
  <2> QED
    BY <1>1, <2>1, <2>2, <2>3 DEF TypeOK, InAdvancedPart
<1>4. Selected(p)' /\ Lent(p)' /\ Captured(p)' /\ Passed(p)'
  BY <1>3, AdvancedStep
<1>5. Counters(p)'
  <2>1. c + 1 <= Len(advanced[p]) => FindingsAt(p, c + 1) \in Nat
    BY <1>1, <1>2, FindingsAreTyped
  <2>2. Calls(p)' = Calls(p) /\ Findings(p)' = FindingsAt(p, c + 1)
    BY <1>3, DueKept DEF Findings, FindingsAt
  <2> HIDE DEF c, f
  <2> QED
    BY <1>1, <1>2, <1>3, <2>1, <2>2 DEF Counters, PassInv, InAdvancedPart, Trying, FormatterRuns
<1>6. AdvancedBefore(p, checker[p], finding[p])' = AdvancedBefore(p, c, f)
  <2>1. AdvancedBefore(p, checker[p], finding[p])' = AdvancedBefore(p, c + 1, 0)
    BY <1>3, AdvancedKept
  <2> QED
    BY <1>1, <1>2, <2>1, CheckerFinished
<1>7. Complete(p)' /\ InOrder(p)'
  BY <1>1, <1>3, <1>6, ReportedKept, InOrderKept, DueKept DEF PassInv, Complete, Trying
<1> QED
  BY <1>4, <1>5, <1>7 DEF PassInv

LEMMA FinishKeeps ==
  ASSUME TypeOK, NEW p \in Passes, PassInv(p), Finish(p)
  PROVE  PassInv(p)'
<1>1. pc[p] = "advanced" /\ checker[p] > Len(advanced[p]) /\ Selected(p)
  BY DEF Finish, At, PassInv
<1>2. /\ InAdvancedPart(p) /\ pc'[p] = "done"
      /\ cfg' = cfg /\ package' = package /\ advanced'[p] = advanced[p]
      /\ checker'[p] = checker[p] /\ finding'[p] = finding[p] /\ diagnostics'[p] = diagnostics[p]
  BY <1>1 DEF TypeOK, Finish, Goto, InAdvancedPart
<1>3. Selected(p)' /\ Lent(p)' /\ Captured(p)' /\ Passed(p)'
  BY <1>2, AdvancedStep
<1>4. Counters(p)'
  <2>1. Calls(p)' = Calls(p)
    BY <1>2, DueKept
  <2> QED
    BY <1>1, <1>2, <2>1 DEF Counters, PassInv, InAdvancedPart, Trying, FormatterRuns
<1>5. Complete(p)' /\ InOrder(p)'
  BY <1>1, <1>2, AllFinished, ReportedKept, InOrderKept, DueKept DEF PassInv, Complete, Trying
<1> QED
  BY <1>3, <1>4, <1>5 DEF PassInv
-----------------------------------------------------------------------------
LEMMA InitEstablishes == Init => IInv
<1> SUFFICES ASSUME Init PROVE IInv
  OBVIOUS
<1>1. TypeOK
  BY DEF Init, TypeOK, Locations
<1>2. ASSUME NEW p \in Passes PROVE PassInv(p)
  <2>1. Selected(p) /\ Lent(p) /\ Captured(p) /\ Passed(p) /\ Complete(p) /\ InOrder(p)
    BY DEF Init, Selected, Lent, Captured, Passed, Complete, InOrder, Trying
  <2>2. Counters(p)
    BY <1>1, PassIsTyped DEF Init, Counters, Trying, FormatterRuns
  <2> QED
    BY <2>1, <2>2 DEF PassInv
<1> QED
  BY <1>1, <1>2 DEF IInv

LEMMA StepKeeps == IInv /\ [Next]_vars => IInv'
<1> SUFFICES ASSUME IInv, [Next]_vars PROVE IInv'
  OBVIOUS
<1>1. TypeOK /\ \A q \in Passes : PassInv(q)
  BY DEF IInv
<1>2. CASE UNCHANGED vars
  <2>1. TypeOK'
    BY <1>1, <1>2 DEF TypeOK, vars, passVars
  <2>2. ASSUME NEW q \in Passes PROVE PassInv(q)'
    <3>1. Same(q)
      BY <1>2 DEF Same, vars, passVars
    <3> QED
      BY <1>1, <3>1, SamePass
  <2> QED
    BY <2>1, <2>2 DEF IInv
<1>3. ASSUME NEW p \in Passes, Step(p) PROVE IInv'
  <2>1. TypeOK'
    BY <1>1, <1>3, TypesKept DEF PassInv
  <2>2. PassInv(p)'
    BY <1>1, <1>3, BuildCheckersKeeps, BuildFailsKeeps, SkipCallKeeps, TryCheckerKeeps,
       SwapReportKeeps, CheckPrintfKeeps, RestoreReportKeeps, TakeResultKeeps,
       EndOfCallsKeeps, ReportFindingKeeps, NextAdvancedKeeps, FinishKeeps DEF Step
  <2>3. ASSUME NEW q \in Passes, q # p PROVE PassInv(q)'
    <3>1. Same(q)
      BY <1>1, <1>3, <2>3, OthersAreSame
    <3> QED
      BY <1>1, <3>1, SamePass
  <2> QED
    BY <2>1, <2>2, <2>3 DEF IInv
<1> QED
  BY <1>2, <1>3 DEF Next

LEMMA AlwaysIInv == Spec => []IInv
BY InitEstablishes, StepKeeps, PTL DEF Spec

(* The types of the variables. *)
THEOREM TypeCorrect == Spec => []TypeOK
<1>1. IInv => TypeOK
  BY DEF IInv
<1> QED
  BY <1>1, AlwaysIInv, PTL

(* The formatter has pass.Report only while printf runs for it, so every   *)
(* diagnostic of every other checker reaches the driver.                   *)
THEOREM ReportComesBack == Spec => []ReportIsLent
<1>1. IInv => ReportIsLent
  BY DEF IInv, PassInv, Lent, ReportIsLent
<1> QED
  BY <1>1, AlwaysIInv, PTL

(* No call of an assertion is reported twice, by one regular checker or by *)
(* two: what reaches the driver is in order.                               *)
THEOREM OneDiagnostic == Spec => []OneDiagnosticPerAssertion
<1>1. ASSUME IInv PROVE OneDiagnosticPerAssertion
  <2> SUFFICES ASSUME NEW p \in Passes,
                      NEW i \in 1 .. Len(diagnostics[p]), NEW j \in 1 .. Len(diagnostics[p]),
                      i # j, Assertion(diagnostics[p][i]), Assertion(diagnostics[p][j])
               PROVE  diagnostics[p][i].at # diagnostics[p][j].at
    BY DEF OneDiagnosticPerAssertion
  <2> DEFINE s == diagnostics[p]
  <2>1. s \in Seq(Diagnostics) /\ Len(s) \in Nat
    BY <1>1, PassIsTyped DEF IInv
  <2>2. s[i].at \in Nat /\ s[j].at \in Nat
    <3>1. s[i] \in Diagnostics /\ s[j] \in Diagnostics
      BY <2>1
    <3>2. \A e \in Diagnostics : e.at \in Nat
      BY DEF Diagnostics
    <3> HIDE DEF s
    <3> QED
      BY <3>1, <3>2
  <2>3. \A k, l \in 1 .. Len(s) : k < l => Linter!Before(s[k], s[l])
    BY <1>1 DEF IInv, PassInv, InOrder
  <2>4. i < j \/ j < i
    BY <2>1
  <2>5. IsRegular(s[i].by) /\ IsRegular(s[j].by)
    BY DEF Assertion
  <2> HIDE DEF s
  <2>6. s[i].at < s[j].at \/ s[j].at < s[i].at
    <3>1. CASE i < j
      BY <2>3, <2>5, <3>1, WhatIsBefore DEF s
    <3>2. CASE j < i
      BY <2>3, <2>5, <3>2, WhatIsBefore DEF s
    <3> QED
      BY <2>4, <3>1, <3>2
  <2> QED
    BY <2>2, <2>6 DEF s
<1> QED
  BY <1>1, AlwaysIInv, PTL

(* Every diagnostic is from a checker the configuration asks for, and that *)
(* of an assertion from the first checker that objects to it.              *)
THEOREM FirstOfTheRegistry == Spec => []HighestPriorityWins
<1>1. ASSUME IInv PROVE HighestPriorityWins
  <2> SUFFICES ASSUME NEW p \in Passes, NEW i \in 1 .. Len(diagnostics[p]),
                      NEW d, d = diagnostics[p][i]
               PROVE  /\ d.by \in Wanted(cfg)
                      /\ Assertion(d) =>
                           /\ d.at <= Len(package[p].calls)
                           /\ d.by \in Linter!Objectors(cfg, package[p].calls[d.at])
                           /\ \A n \in Linter!Objectors(cfg, package[p].calls[d.at]) :
                                Priority(d.by) <= Priority(n)
    BY DEF HighestPriorityWins
  <2> DEFINE R == Linter!RegularDiagnostics(cfg, package[p])
             A == Linter!AdvancedDiagnostics(cfg, package[p])
  <2>1. TypeOK /\ PassInv(p) /\ pc[p] \in Locations /\ Len(diagnostics[p]) \in Nat
    BY <1>1, PassIsTyped DEF IInv, TypeOK
  <2>2. pc[p] \notin {"build", "failed"}
    BY <2>1 DEF PassInv, Counters
  <2>3. Acceptable(cfg)
    BY <2>1, <2>2 DEF PassInv, Selected
  <2>4. d \in Reported(p)
    BY DEF Reported
  <2>5. d \in R \/ d \in A
    <3>1. \A k, f : AdvancedBefore(p, k, f) \subseteq A
      BY DEF AdvancedBefore
    <3>2. \A k : RegularsBefore(p, k) \subseteq R
      BY DEF RegularsBefore
    <3> QED
      BY <2>1, <2>2, <2>4, <3>1, <3>2 DEF PassInv, Complete, Locations, Trying
  <2>6. CASE d \in A
    <3>1. d.by \in Wanted(cfg) /\ ~ IsRegular(d.by)
      BY <2>1, <2>6, DueForPackage DEF Advanceds
    <3> QED
      BY <3>1 DEF Assertion
  <2>7. CASE d \in R
    <3>1. /\ d.by \in Wanted(cfg) /\ d.at \in 1 .. Len(Calls(p))
          /\ d.by \in Objecting(p, d.at) /\ d.by = Linter!First(Objecting(p, d.at))
      BY <2>1, <2>3, <2>7, DueForAssertion
    <3>2. Objecting(p, d.at) \subseteq All
      BY <2>3, WhoObjects DEF Objecting, Acceptable
    <3>3. \A n \in Objecting(p, d.at) : Priority(d.by) <= Priority(n)
      BY <3>1, <3>2, FirstIsFirst
    <3>4. Len(Calls(p)) \in Nat
      BY <2>1, PassIsTyped
    <3> QED
      BY <3>1, <3>3, <3>4 DEF Objecting, Calls
  <2> QED
    BY <2>5, <2>6, <2>7
<1> QED
  BY <1>1, AlwaysIInv, PTL

(* The driver implements its abstract specification: a pass that ends      *)
(* gives its package, in one step, what the configuration and the package  *)
(* determine, and everything before is invisible.                          *)
Shown == [p \in Passes |-> IF pc[p] = "done" THEN diagnostics[p] ELSE <<>>]
Outcome == [p \in Passes |-> Status(p)]

LEMMA QuietStep ==
  ASSUME NEW p \in Passes, TypeOK, Step(p), pc[p] \notin {"done", "failed"},
         pc'[p] \notin {"done", "failed"}
  PROVE  UNCHANGED <<cfg, package, Shown, Outcome>>
<1>1. \A q \in Passes : q # p => pc'[q] = pc[q] /\ diagnostics'[q] = diagnostics[q]
  BY OthersAreSame DEF Same
<1>2. cfg' = cfg /\ package' = package
  BY DEF Step, BuildCheckers, BuildFails, SkipCall, TryChecker, SwapReport, CheckPrintf,
         RestoreReport, TakeResult, EndOfCalls, ReportFinding, NextAdvanced, Finish
<1>3. Shown' = Shown
  BY <1>1 DEF Shown
<1>4. Outcome' = Outcome
  BY <1>1 DEF Outcome, Status
<1> QED
  BY <1>2, <1>3, <1>4

LEMMA FinishIsAnalyze ==
  ASSUME IInv, NEW p \in Passes, Finish(p)
  PROVE  Linter!Analyze(p)
<1>1. TypeOK /\ PassInv(p) /\ pc[p] = "advanced" /\ Acceptable(cfg)
  BY DEF IInv, PassInv, Selected, Finish, At
<1>2. UNCHANGED <<cfg, package, diagnostics>> /\ pc' = [pc EXCEPT ![p] = "done"]
  BY DEF Finish, Goto
<1>3. Outcome[p] = "running" /\ Outcome' = [Outcome EXCEPT ![p] = "ok"]
  BY <1>1, <1>2 DEF Outcome, Status, TypeOK
<1>4. Shown'[p] = diagnostics[p]
  BY <1>1, <1>2 DEF Shown, TypeOK
<1>5. \A q \in Passes \ {p} : Shown'[q] = Shown[q]
  BY <1>2 DEF Shown, TypeOK
<1>6. PassInv(p)' /\ pc'[p] = "done"
  BY <1>1, <1>2, FinishKeeps DEF TypeOK
<1>7. Linter!IsExpected(diagnostics[p], cfg, package[p])
  <2>1. Complete(p)' /\ InOrder(p)'
    BY <1>6 DEF PassInv
  <2>2. Reported(p) = Linter!RegularDiagnostics(cfg, package[p])
                        \cup Linter!AdvancedDiagnostics(cfg, package[p])
    BY <1>2, <1>6, <2>1, ReportedKept, DueKept DEF Complete
  <2> QED
    BY <1>1, <2>2 DEF PassInv, InOrder, Reported, Linter!IsExpected
<1> QED
  BY <1>1, <1>2, <1>3, <1>4, <1>5, <1>7, SameRules DEF Linter!Analyze, Shown, Outcome

LEMMA BuildFailsIsFail ==
  ASSUME TypeOK, NEW p \in Passes, BuildFails(p)
  PROVE  Linter!Fail(p)
<1>1. /\ UNCHANGED <<cfg, package, diagnostics>> /\ pc' = [pc EXCEPT ![p] = "failed"]
      /\ pc[p] = "build" /\ ~ Acceptable(cfg)
  BY DEF BuildFails, Goto, At
<1>2. Outcome[p] = "running" /\ Outcome' = [Outcome EXCEPT ![p] = "error"]
  BY <1>1 DEF Outcome, Status, TypeOK
<1>3. Shown' = Shown
  BY <1>1 DEF Shown, TypeOK
<1> QED
  BY <1>1, <1>2, <1>3, SameRules DEF Linter!Fail, Shown, Outcome

THEOREM AnalyzerImplementsLinter == Spec => ImplementsLinter
<1>1. Init => Linter!Init
  BY DEF Init, Linter!Init, Status
<1>2. ASSUME IInv, [Next]_vars PROVE [Linter!Next]_(Linter!vars)
  <2>1. CASE UNCHANGED vars
    <3>1. UNCHANGED <<cfg, package, Shown, Outcome>>
      BY <2>1 DEF vars, passVars, Shown, Outcome, Status
    <3> QED
      BY <3>1 DEF Linter!vars, Shown, Outcome
  <2>2. ASSUME NEW p \in Passes, Step(p) PROVE [Linter!Next]_(Linter!vars)
    <3>1. TypeOK
      BY <1>2 DEF IInv
    <3>2. CASE Finish(p)
      BY <1>2, <3>2, FinishIsAnalyze DEF Linter!Next
    <3>3. CASE BuildFails(p)
      BY <3>1, <3>3, BuildFailsIsFail DEF Linter!Next
    <3>4. CASE ~ Finish(p) /\ ~ BuildFails(p)
      <4>1. pc[p] \notin {"done", "failed"} /\ pc'[p] \notin {"done", "failed"}
        BY <2>2, <3>1, <3>4
        DEF Step, TypeOK, BuildCheckers, SkipCall, TryChecker, SwapReport, CheckPrintf,
            RestoreReport, TakeResult, EndOfCalls, ReportFinding, NextAdvanced,
            InCalls, InAdvanced, At, Goto
      <4>2. UNCHANGED <<cfg, package, Shown, Outcome>>
        BY <2>2, <3>1, <4>1, QuietStep
      <4> QED
        BY <4>2 DEF Linter!vars, Shown, Outcome
    <3> QED
      BY <3>2, <3>3, <3>4
  <2> QED
    BY <1>2, <2>1, <2>2 DEF Next
<1> QED
  BY <1>1, <1>2, AlwaysIInv, PTL DEF Spec, ImplementsLinter, Linter!Spec
=============================================================================
