---------------------------- MODULE Printf_proofs ----------------------------
(***************************************************************************)
(* For every call, of any format and any number of arguments: what         *)
(* CheckPrintf promises its caller.                                        *)
(***************************************************************************)
EXTENDS Printf, FormatStrings_proofs

(* A report ends the check, and says something. *)
ReportEnds ==
  /\ pc # "done" => reports = <<>>
  /\ reports # <<>> => Len(reports) = 1 /\ reports[1] # ""

ArgNums == Nat \ {0}

(* What the parser keeps of the arguments of a directive. *)
StateOK ==
  /\ args \in Seq({"plain", "formatter", "func", "stringer"}) /\ call.ellipsis \in BOOLEAN
  /\ argNum \in ArgNums
  /\ state.argNum \in ArgNums /\ state.argNums \in Seq(ArgNums)
  /\ DOMAIN state = {"flags", "argNums", "argNum", "hasIndex", "indexPending", "verb"}

(* The check is only reached with the argument of the verb noted. *)
VerbNoted ==
  pc = "check" /\ state.verb # "%" =>
    state.argNums # <<>> /\ Last(state.argNums) = state.argNum

(* okPrintfArg indexes call.Args with the last number noted, and only when *)
(* argCanBeChecked let it pass: the index is never out of range.           *)
ReadsInRange ==
  pc = "check" =>
    /\ FormatsItself => state.argNum \in 1 .. Len(args)
    /\ state.verb # "%" /\ ~ FormatsItself /\ ~ Unseen => Last(state.argNums) \in 1 .. Len(args)

(* The inductive invariant. *)
IInv == ReportEnds /\ StateOK /\ VerbNoted
-----------------------------------------------------------------------------
(* What is appended to a sequence is its last element.                     *)
LEMMA LastOfAppend ==
  ASSUME NEW S, NEW s \in Seq(S), NEW x \in S
  PROVE  /\ Append(s, x) \in Seq(S) /\ Append(s, x) # <<>>
         /\ Len(Append(s, x)) = Len(s) + 1
         /\ Last(Append(s, x)) = x
BY DEF Last

(* The last element of a sequence that is not empty is one of its range.   *)
LEMMA LastIsMember ==
  ASSUME NEW S, NEW s \in Seq(S), s # <<>>
  PROVE  Last(s) \in S /\ Len(s) \in DOMAIN s
BY DEF Last

(* The state a directive starts from has the type of the states.           *)
LEMMA NewStateOK ==
  ASSUME NEW n
  PROVE  /\ NewState(n).argNum = n /\ NewState(n).argNums \in Seq(ArgNums)
         /\ DOMAIN NewState(n) = {"flags", "argNums", "argNum", "hasIndex", "indexPending", "verb"}
<1>1. NewState(n).argNums = <<>> /\ <<>> \in Seq(ArgNums)
  BY DEF NewState
<1> QED
  BY <1>1 DEF NewState

(* The state in which CheckPrintf is entered, for whatever call. *)
Entering ==
  /\ IsCall(call) /\ pc = "start" /\ pos = 1
  /\ argNum = 1 /\ maxArgNum = 1 /\ anyIndex = FALSE
  /\ state = NewState(1) /\ reports = <<>>

(* A run of the check starts where it enters a call.                       *)
LEMMA InitEnters == Init => Entering
BY PrintfAssumption DEF Init, Entering

(* Where the check enters a call the invariant of the types holds.         *)
LEMMA EnteringIInv == Entering => IInv
<1> SUFFICES ASSUME Entering PROVE IInv
  OBVIOUS
<1>1. StateOK
  BY NewStateOK DEF IsCall, Entering, StateOK, ArgNums, args
<1> QED
  BY <1>1 DEF Entering, IInv, ReportEnds, VerbNoted

(* The invariant of the types holds at the start.                          *)
LEMMA InitIInv == Init => IInv
BY InitEnters, EnteringIInv

(* The actions, by what they change.                                       *)
Parsing ==
  \/ StartDirective \/ ParseFlags \/ ParsePrecision \/ ParseVerb
  \/ \E from \in {"index", "dotIndex", "verbIndex"}, to \in {"width", "dotNum", "verb"} :
       Index(from, to)
  \/ \E from \in {"width", "dotNum"}, to \in {"precision", "verbIndex"} : Star(from, to)

Moving ==
  \/ Begin \/ ScanText
  \/ \E from \in {"index", "dotIndex", "verbIndex"}, to \in {"width", "dotNum", "verb"} :
       NoIndex(from, to)
  \/ \E from \in {"width", "dotNum"}, to \in {"precision", "verbIndex"} : Digits(from, to)

Ending ==
  \/ NoDirectives \/ NoVerb \/ RejectVerb \/ RejectReads \/ RejectValue \/ RejectWrapping
  \/ Finish
  \/ \E from \in {"index", "dotIndex", "verbIndex"} : BadIndex(from)

(* A step parses, moves, ends the run or goes to the next directive.       *)
LEMMA NextByKind == Next => Parsing \/ Moving \/ Ending \/ NextDirective
BY DEF Next, Parsing, Moving, Ending

(* A step that reports ends the check, and it was the first to report.     *)
LEMMA EndingIInv == IInv /\ Ending => IInv'
<1> SUFFICES ASSUME IInv, Ending PROVE IInv'
  OBVIOUS
<1>1. UNCHANGED <<call, argNum, state>> /\ pc # "done"
  BY DEF Ending, NoDirectives, NoVerb, RejectVerb, RejectReads, RejectValue, RejectWrapping,
         Finish, BadIndex, AtIndex, GoodVerb, GoodArgs, GoodDirective
<1>2. /\ pc' = "done"
      /\ reports' = reports \/ \E what : what # "" /\ reports' = Append(reports, what)
  BY DEF Ending, NoDirectives, NoVerb, RejectVerb, RejectReads, RejectValue, RejectWrapping,
         Finish, BadIndex, Report
<1>3. reports = <<>>
  BY <1>1 DEF IInv, ReportEnds
<1>4. ReportEnds'
  <2>1. \A what : Len(Append(<<>>, what)) = 1 /\ Append(<<>>, what)[1] = what
    OBVIOUS
  <2> QED
    BY <1>2, <1>3, <2>1 DEF ReportEnds
<1>5. StateOK' /\ VerbNoted'
  BY <1>1, <1>2 DEF IInv, StateOK, VerbNoted, args
<1> QED
  BY <1>4, <1>5 DEF IInv

(* Moving over the format keeps the invariant of the types.                *)
LEMMA MovingIInv == IInv /\ Moving => IInv'
<1> SUFFICES ASSUME IInv, Moving PROVE IInv'
  OBVIOUS
<1>1. UNCHANGED <<call, argNum, state, reports>> /\ pc # "done" /\ pc' # "check"
  BY DEF Moving, Begin, ScanText, NoIndex, Digits
<1> QED
  BY <1>1 DEF IInv, ReportEnds, StateOK, VerbNoted, args

(* Parsing a directive keeps the invariant of the types.                   *)
LEMMA ParsingIInv == IInv /\ Parsing => IInv'
<1> SUFFICES ASSUME IInv, Parsing PROVE IInv'
  OBVIOUS
<1> DEFINE keys == {"flags", "argNums", "argNum", "hasIndex", "indexPending", "verb"}
<1>1. UNCHANGED <<call, argNum, reports>> /\ pc # "done"
  BY DEF Parsing, StartDirective, ParseFlags, ParsePrecision, ParseVerb, Index, AtIndex, Star
<1>2. ReportEnds'
  BY <1>1 DEF IInv, ReportEnds
<1>3. /\ argNum \in ArgNums /\ state.argNum \in ArgNums /\ state.argNums \in Seq(ArgNums)
      /\ DOMAIN state = keys
  BY DEF IInv, StateOK
<1>4. /\ state'.argNum \in ArgNums /\ state'.argNums \in Seq(ArgNums) /\ DOMAIN state' = keys
      /\ VerbNoted'
  <2>1. CASE StartDirective
    <3>1. state' = NewState(argNum) /\ pc' # "check"
      BY <2>1 DEF StartDirective
    <3> QED
      BY <1>3, <3>1, NewStateOK DEF VerbNoted
  <2>2. CASE ParseFlags
    BY <1>3, <2>2 DEF ParseFlags, VerbNoted
  <2>3. CASE ParsePrecision
    BY <1>3, <2>3 DEF ParsePrecision, VerbNoted
  <2>4. CASE ParseVerb
    <3>1. state' = [state EXCEPT !.verb = Token,
                      !.argNums = IF Token = "%" THEN @ ELSE Append(@, state.argNum)]
      BY <2>4 DEF ParseVerb
    <3>2. /\ DOMAIN state' = keys /\ state'.verb = Token /\ state'.argNum = state.argNum
          /\ state'.argNums =
               IF Token = "%" THEN state.argNums ELSE Append(state.argNums, state.argNum)
      BY <1>3, <3>1
    <3> QED
      BY <1>3, <3>2, LastOfAppend DEF VerbNoted
  <2>5. ASSUME NEW from \in {"index", "dotIndex", "verbIndex"},
               NEW to \in {"width", "dotNum", "verb"}, Index(from, to)
        PROVE  /\ state'.argNum \in ArgNums /\ state'.argNums \in Seq(ArgNums)
               /\ DOMAIN state' = keys /\ VerbNoted'
    <3>1. IndexOf(Token) \in ArgNums
      <4>1. Len(args) \in Nat /\ IndexOf(Token) \in 1 .. Len(args)
        BY <2>5 DEF Index, IInv, StateOK
      <4> QED
        BY <4>1 DEF ArgNums
    <3>2. /\ state' = [state EXCEPT !.argNum = IndexOf(Token), !.hasIndex = TRUE,
                                    !.indexPending = TRUE]
          /\ pc' # "check"
      BY <2>5 DEF Index
    <3> QED
      BY <1>3, <3>1, <3>2 DEF VerbNoted
  <2>6. ASSUME NEW from \in {"width", "dotNum"}, NEW to \in {"precision", "verbIndex"},
               Star(from, to)
        PROVE  /\ state'.argNum \in ArgNums /\ state'.argNums \in Seq(ArgNums)
               /\ DOMAIN state' = keys /\ VerbNoted'
    <3>1. /\ state' = [state EXCEPT !.indexPending = FALSE,
                         !.argNums = Append(@, state.argNum), !.argNum = @ + 1]
          /\ pc' # "check"
      BY <2>6 DEF Star
    <3>2. /\ DOMAIN state' = keys /\ state'.argNum = state.argNum + 1
          /\ state'.argNums = Append(state.argNums, state.argNum)
      BY <1>3, <3>1
    <3>3. state.argNum + 1 \in ArgNums
      BY <1>3 DEF ArgNums
    <3> QED
      BY <1>3, <3>1, <3>2, <3>3, LastOfAppend DEF VerbNoted
  <2> QED
    BY <2>1, <2>2, <2>3, <2>4, <2>5, <2>6 DEF Parsing
<1> QED
  BY <1>1, <1>2, <1>4 DEF IInv, StateOK, args

(* Going to the next directive keeps the invariant of the types.           *)
LEMMA NextDirectiveIInv == IInv /\ NextDirective => IInv'
<1> SUFFICES ASSUME IInv, NextDirective PROVE IInv'
  OBVIOUS
<1>1. UNCHANGED <<call, state, reports>> /\ pc = "check" /\ pc' = "scan"
  BY DEF NextDirective, GoodDirective, GoodArgs, GoodVerb
<1>2. argNum' \in ArgNums
  <2>1. argNum' = IF state.argNums = <<>> THEN argNum ELSE Last(state.argNums) + 1
    BY DEF NextDirective
  <2>2. state.argNums # <<>> => Last(state.argNums) \in ArgNums
    BY LastIsMember DEF IInv, StateOK
  <2> QED
    BY <2>1, <2>2 DEF IInv, StateOK, ArgNums
<1> QED
  BY <1>1, <1>2 DEF IInv, ReportEnds, StateOK, VerbNoted, args

(* Every step keeps the invariant of the types.                            *)
LEMMA StepIInv == IInv /\ [Next]_vars => IInv'
<1>1. IInv /\ UNCHANGED vars => IInv'
  BY DEF vars, IInv, ReportEnds, StateOK, VerbNoted, args
<1> QED
  BY <1>1, NextByKind, EndingIInv, MovingIInv, ParsingIInv, NextDirectiveIInv

(* The invariant the theorems below are read off, in every state of the    *)
(* check.                                                                  *)
THEOREM InductiveInvariant == Spec => []IInv
BY InitIInv, StepIInv, PTL DEF Spec

(* "One error per format is enough": the closure that collects the         *)
(* diagnostics of CheckPrintf is never called twice for one format.        *)
THEOREM ReportsOnce == Spec => []OneReport
<1>1. ASSUME IInv PROVE OneReport
  <2>1. CASE reports = <<>>
    <3>1. Len(<<>>) = 0
      OBVIOUS
    <3> QED
      BY <2>1, <3>1 DEF OneReport
  <2>2. CASE reports # <<>>
    <3>1. Len(reports) = 1
      BY <1>1, <2>2, Zenon DEF IInv, ReportEnds
    <3> QED
      BY <3>1 DEF OneReport
  <2> QED
    BY <2>1, <2>2
<1> QED
  BY <1>1, InductiveInvariant, PTL

(* No argument number that okPrintfArg uses as an index is out of range,   *)
(* whatever indexes and `*` the format holds.                              *)
THEOREM ReadsAreInRange == Spec => []ReadsInRange
<1>1. ASSUME IInv PROVE ReadsInRange
  <2>1. Len(args) \in Nat /\ state.argNum \in ArgNums /\ state.argNums \in Seq(ArgNums)
    BY <1>1 DEF IInv, StateOK
  <2>2. FormatsItself => state.argNum \in 1 .. Len(args)
    BY <2>1 DEF FormatsItself, Total, ArgNums
  <2>3. ASSUME pc = "check", state.verb # "%", ~ FormatsItself, ~ Unseen
        PROVE  Last(state.argNums) \in 1 .. Len(args)
    <3>1. state.argNums # <<>>
      BY <1>1, <2>3 DEF IInv, VerbNoted
    <3>2. Last(state.argNums) \in ArgNums /\ Len(state.argNums) \in DOMAIN state.argNums
      BY <2>1, <3>1, LastIsMember
    <3>3. CanBeChecked(Last(state.argNums))
      BY <2>3, <3>2 DEF Unseen, Judged, Last
    <3> QED
      BY <2>1, <3>2, <3>3 DEF CanBeChecked, Total, ArgNums
  <2> QED
    BY <2>2, <2>3 DEF ReadsInRange
<1> QED
  BY <1>1, InductiveInvariant, PTL
-----------------------------------------------------------------------------
(* What is said of the call does not change while it is checked.           *)
LEMMA CallStays ==
  ASSUME call' = call
  PROVE  /\ Complains' = Complains
         /\ \A k : Faulty(k)' = Faulty(k) /\ ReadsAt(k)' = ReadsAt(k)
<1>1. /\ \A k : Directive(k)' = Directive(k) /\ ReadsAt(k)' = ReadsAt(k)
      /\ Given' = Given /\ args' = args
  BY DEF Directive, ReadsAt, Given, args
<1>2. Known' = Known /\ \A k : ValueAt(k)' = ValueAt(k)
  BY <1>1 DEF Known, ValueAt
<1>3. \A d : Unparsed(d)' = Unparsed(d)
  BY <1>1 DEF Unparsed
<1>4. \A k : PrintsItself(k)' = PrintsItself(k)
  BY <1>1, <1>2 DEF PrintsItself
<1>5. \A k : Refused(k)' = Refused(k)
  BY <1>1, <1>4 DEF Refused
<1>6. \A k : ReadsTooFar(k)' = ReadsTooFar(k)
  BY <1>1, <1>2, <1>4 DEF ReadsTooFar
<1>7. \A k : Unprintable(k)' = Unprintable(k)
  BY <1>1, <1>2, <1>4 DEF Unprintable
<1>8. \A k : Unparsed(Directive(k))' = Unparsed(Directive(k))
  BY <1>1, <1>3
<1>9. \A k : Faulty(k)' = Faulty(k)
  BY <1>5, <1>6, <1>7, <1>8 DEF Faulty
<1>10. \A k : FirstFaulty(k)' = FirstFaulty(k)
  BY <1>9 DEF FirstFaulty
<1>11. \A k : Complaint(k)' = Complaint(k)
  BY <1>5, <1>6, <1>8 DEF Complaint
<1>12. Highest' = Highest
  BY <1>1 DEF Highest
<1>13. WrongCount' = WrongCount
  BY <1>1, <1>12 DEF WrongCount
<1>14. Complains' = Complains
  BY <1>1, <1>9, <1>10, <1>11, <1>13 DEF Complains
<1> QED
  BY <1>1, <1>9, <1>14

(* Where a run of at most one of these tokens ends.                        *)
LEMMA BeyondIs ==
  ASSUME NEW tokens, NEW j, pos \in Nat, Len(format) \in Nat, pos <= Len(format) + 1,
         \/ j = pos
         \/ j = pos + 1 /\ pos <= Len(format) /\ format[pos] \in tokens,
         j <= Len(format) => format[j] \notin tokens
  PROVE  /\ Beyond(tokens) = j
         /\ j = pos => { format[m] : m \in pos .. Beyond(tokens) - 1 } = {}
         /\ j = pos + 1 => { format[m] : m \in pos .. Beyond(tokens) - 1 } = {format[pos]}
<1> DEFINE n == Len(format)
           Ends(i) == /\ \A m \in pos .. i - 1 : format[m] \in tokens
                      /\ i <= n => format[i] \notin tokens
<1>1. j \in pos .. n + 1 /\ j \in Nat
  OBVIOUS
<1>2. \A m \in pos .. j - 1 : m = pos /\ j = pos + 1
  OBVIOUS
<1>3. Ends(j)
  BY <1>2
<1>4. ASSUME NEW i \in pos .. n + 1, Ends(i) PROVE i = j
  <2>1. CASE i < j
    <3>1. i = pos /\ j = pos + 1 /\ pos <= n
      BY <1>1, <2>1
    <3> QED
      BY <1>4, <3>1
  <2>2. CASE i > j
    <3>1. j \in pos .. i - 1 /\ j <= n
      BY <1>1, <2>2
    <3>2. format[j] \in tokens
      BY <1>4, <3>1
    <3> QED
      BY <3>1, <3>2
  <2> QED
    BY <1>1, <2>1, <2>2
<1>5. Beyond(tokens) = CHOOSE i \in pos .. n + 1 : Ends(i)
  BY Zenon DEF Beyond
<1> HIDE DEF Ends
<1>6. Beyond(tokens) = j
  BY <1>1, <1>3, <1>4, <1>5
<1>7. j = pos => pos .. j - 1 = {}
  OBVIOUS
<1>8. j = pos + 1 => pos .. j - 1 = {pos}
  OBVIOUS
<1> QED
  BY <1>6, <1>7, <1>8

(* Where field i of directive k of the call is, what is there, and the     *)
(* last argument that was read before the directive.                       *)
At(c, k, i) == Where(c.format, k, i)
Sight(c, k, i) == TokenAt(c.format, At(c, k, i))
Before(c, k) == LastOf(c.format, k - 1)

(* A format with directives is their rendering.                            *)
LEMMA FormatIs ==
  ASSUME call.format # <<>>
  PROVE  /\ format = Render(call.format)
         /\ Token = TokenAt(call.format, pos)
BY DEF format, Token, TokenAt

(* What every directive of a call comes with.                              *)
LEMMA CallIs ==
  ASSUME IsCall(call), NEW k \in 1 .. Len(call.format)
  PROVE  /\ call.format \in Seq(Directives) /\ call.format # <<>>
         /\ call.format[k] \in Directives /\ Directive(k) = call.format[k]
         /\ Len(format) \in Nat /\ format = Render(call.format)
         /\ Before(call, k) \in Nat
         /\ \A i \in 1 .. 10 : At(call, k, i) \in Nat /\ At(call, k, i) <= Len(format) + 1
<1>1. call.format \in Seq(Directives)
  BY DEF IsCall, IsFormat
<1>2. call.format # <<>> /\ \A j \in 1 .. Len(call.format) : call.format[j] \in Directives
  BY <1>1
<1>3. format = Render(call.format)
  BY <1>2, FormatIs
<1>4. \A d \in Directives : Indexing(d)
  BY FieldsAre, BracketsAre DEF Indexing, ItemWords
<1>5. Before(call, k) \in Nat
  BY <1>1, <1>2, <1>4, ReadsOfIs DEF Before
<1>6. Len(format) \in Nat /\ \A i \in 1 .. 10 : FieldFits(call.format, k, i)
  BY <1>1, <1>3, Places, Zenon
<1>7. \A i \in 1 .. 10 : At(call, k, i) \in Nat /\ At(call, k, i) <= Len(format) + 1
  BY <1>3, <1>6 DEF FieldFits, At
<1> QED
  BY <1>1, <1>2, <1>3, <1>5, <1>6, <1>7 DEF Directive

(* Where each part of directive k is found.                                *)
LEMMA SightsAre ==
  ASSUME IsCall(call), NEW k \in 1 .. Len(call.format)
  PROVE  LET d == call.format[k] IN
         /\ Sight(call, k, 1) = "~" /\ At(call, k, 2) = At(call, k, 1) + 1
         /\ Sight(call, k, 2) = "%" /\ At(call, k, 3) = At(call, k, 2) + 1
         /\ Sight(call, k, 3) = IF d.flag # "" THEN d.flag ELSE Sight(call, k, 4)
         /\ At(call, k, 4) = IF d.flag # "" THEN At(call, k, 3) + 1 ELSE At(call, k, 3)
         /\ Sight(call, k, 4) = IF d.index # "" THEN d.index ELSE Sight(call, k, 5)
         /\ At(call, k, 5) = IF d.index # "" THEN At(call, k, 4) + 1 ELSE At(call, k, 4)
         /\ Sight(call, k, 5) = IF d.width # "" THEN d.width ELSE Sight(call, k, 6)
         /\ At(call, k, 6) = IF d.width # "" THEN At(call, k, 5) + 1 ELSE At(call, k, 5)
         /\ Sight(call, k, 6) = IF d.dot # "" THEN d.dot ELSE Sight(call, k, 7)
         /\ At(call, k, 7) = IF d.dot # "" THEN At(call, k, 6) + 1 ELSE At(call, k, 6)
         /\ Sight(call, k, 7) = IF d.dotIndex # "" THEN d.dotIndex ELSE Sight(call, k, 8)
         /\ At(call, k, 8) = IF d.dotIndex # "" THEN At(call, k, 7) + 1 ELSE At(call, k, 7)
         /\ Sight(call, k, 8) = IF d.dotNum # "" THEN d.dotNum ELSE Sight(call, k, 9)
         /\ At(call, k, 9) = IF d.dotNum # "" THEN At(call, k, 8) + 1 ELSE At(call, k, 8)
         /\ Sight(call, k, 9) = IF d.verbIndex # "" THEN d.verbIndex ELSE Sight(call, k, 10)
         /\ At(call, k, 10) = IF d.verbIndex # "" THEN At(call, k, 9) + 1 ELSE At(call, k, 9)
         /\ Sight(call, k, 10) = IF d.verb # "" THEN d.verb ELSE Sight(call, k, 11)
         /\ At(call, k, 11) = IF d.verb # "" THEN At(call, k, 10) + 1 ELSE At(call, k, 10)
         /\ Sight(call, k, 11) = IF k < Len(call.format) THEN "~" ELSE ""
<1>1. call.format \in Seq(Directives) 
  BY CallIs
<1>2. Reading(call.format, k)
  BY <1>1, ReadingHolds
<1> QED
  BY <1>2, Zenon DEF Reading, Sight, At

(* What can stand where each part of a directive is looked for.            *)
LEMMA SightClasses ==
  ASSUME IsCall(call), NEW k \in 1 .. Len(call.format)
  PROVE  LET d == call.format[k] IN
         /\ Sight(call, k, 4) \notin Flags
         /\ Sight(call, k, 4) \in Brackets <=> d.index # ""
         /\ Sight(call, k, 5) = "*" <=> d.width = "*"
         /\ Sight(call, k, 6) = "." <=> d.dot = "."
         /\ Sight(call, k, 6) \notin {"0", "9"}
         /\ d.dot = "." => (Sight(call, k, 7) \in Brackets <=> d.dotIndex # "")
         /\ Sight(call, k, 8) = "*" <=> d.dotNum = "*"
         /\ Sight(call, k, 9) \notin {"0", "9"}
         /\ Sight(call, k, 9) \in Brackets <=> d.verbIndex # ""
         /\ Sight(call, k, 10) \notin Flags \cup {"0", "9", "*", "."} \cup Brackets
<1>1. /\ call.format \in Seq(Directives)
      /\ call.format[k] \in Directives
  BY CallIs
<1>2. Classes(call.format, k)
  BY <1>1, TokenClasses
<1> QED
  BY <1>1, <1>2, Zenon DEF Classes, Sight, At

(* Stated apart because it is needed among strings.                        *)
LEMMA SuccIsNat == \A p \in Nat : p + 1 \in Nat
OBVIOUS

(* A token that is there lies in the format.                               *)
LEMMA TokenInFormat ==
  ASSUME NEW ds, NEW p \in Nat, Len(Render(ds)) \in Nat
  PROVE  /\ p <= Len(Render(ds)) => Render(ds)[p] = TokenAt(ds, p)
         /\ TokenAt(ds, p) # "" => p <= Len(Render(ds))
<1>1. TokenAt(ds, p) = IF p > Len(Render(ds)) THEN "" ELSE Render(ds)[p]
  BY DEF TokenAt
<1>2. p > Len(Render(ds)) <=> ~ (p <= Len(Render(ds)))
  OBVIOUS
<1> QED
  BY <1>1, <1>2, Zenon

(* A run of at most one of these tokens that begins here.                  *)
LEMMA RunIs ==
  ASSUME IsCall(call), call.format # <<>>, pos \in Nat, Len(format) \in Nat,
         pos <= Len(format) + 1, NEW tokens, NEW j,
         j = pos \/ (j = pos + 1 /\ Token \in tokens /\ Token # ""),
         TokenAt(call.format, j) \notin tokens
  PROVE  /\ Beyond(tokens) = j
         /\ { format[m] : m \in pos .. Beyond(tokens) - 1 } = IF j = pos THEN {} ELSE {Token}
<1>1. format = Render(call.format) /\ Token = TokenAt(call.format, pos)
  BY FormatIs
<1>2. j \in Nat
  BY SuccIsNat, Zenon
<1>3. \/ j = pos
      \/ j = pos + 1 /\ pos <= Len(format) /\ format[pos] \in tokens /\ Token = format[pos]
  BY <1>1, TokenInFormat
<1>4. j <= Len(format) => format[j] \notin tokens
  BY <1>1, <1>2, TokenInFormat
<1>5. /\ Beyond(tokens) = j
      /\ j = pos => { format[m] : m \in pos .. Beyond(tokens) - 1 } = {}
      /\ j = pos + 1 => { format[m] : m \in pos .. Beyond(tokens) - 1 } = {format[pos]}
  BY <1>3, <1>4, BeyondIs
<1> QED
  BY <1>3, <1>5

(* What the parser has noted of a directive. *)
Noted(s, flags, nums, n, has, pending) ==
  /\ s.flags = flags /\ s.argNums = nums /\ s.argNum = n
  /\ s.hasIndex = has /\ s.indexPending = pending

IndexOK(c, x) == x # "" => IndexOf(x) \in 1 .. Len(c.args)
IndexesOK(c, d) == \A x \in IndexesOf(d) : IndexOf(x) \in 1 .. Len(c.args)

(* A bracket that is no index any more is the verb. *)
IsBracketVerb(d) == Pending(d) # "" /\ d.verbIndex # ""

(* Directive k of call c is being parsed: the position and what has been   *)
(* noted, at each function of the parser.                                  *)
InFlags(c, k, p, s) ==
  p = At(c, k, 3) /\ Noted(s, {}, <<>>, Before(c, k) + 1, FALSE, FALSE)

InIndex(c, k, p, s) ==
  p = At(c, k, 4) /\ Noted(s, {c.format[k].flag} \ {""}, <<>>, Before(c, k) + 1, FALSE, FALSE)

InWidth(c, k, p, s) ==
  LET d == c.format[k] IN
  /\ p = At(c, k, 5) /\ IndexOK(c, d.index)
  /\ Noted(s, {d.flag} \ {""}, <<>>, WidthArg(d, Before(c, k)), d.index # "", d.index # "")

InPrecision(c, k, p, s) ==
  LET d == c.format[k] IN
  /\ p = At(c, k, 6) /\ IndexOK(c, d.index)
  /\ Noted(s, {d.flag} \ {""}, WidthReads(d, Before(c, k)), AfterWidth(d, Before(c, k)),
           d.index # "", d.index # "" /\ d.width # "*")

InDotIndex(c, k, p, s) ==
  LET d == c.format[k] IN
  /\ p = At(c, k, 7) /\ IndexOK(c, d.index) /\ d.dot = "."
  /\ Noted(s, {d.flag, d.dot} \ {""}, WidthReads(d, Before(c, k)), AfterWidth(d, Before(c, k)),
           d.index # "", d.index # "" /\ d.width # "*")

InDotNum(c, k, p, s) ==
  LET d == c.format[k] IN
  /\ p = At(c, k, 8) /\ IndexOK(c, d.index) /\ IndexOK(c, d.dotIndex)
  /\ Noted(s, {d.flag, d.dot} \ {""}, WidthReads(d, Before(c, k)), DotArg(d, Before(c, k)),
           d.index # "" \/ d.dotIndex # "", (d.index # "" /\ d.width # "*") \/ d.dotIndex # "")

InVerbIndex(c, k, p, s) ==
  LET d == c.format[k] IN
  /\ p = At(c, k, 9) /\ IndexOK(c, d.index) /\ IndexOK(c, d.dotIndex)
  /\ Noted(s, {d.flag, d.dot} \ {""}, DotReads(d, Before(c, k)), AfterDot(d, Before(c, k)),
           d.index # "" \/ d.dotIndex # "", Pending(d) # "")

InVerb(c, k, p, s) ==
  LET d == c.format[k] IN
  /\ p = At(c, k, IF IsBracketVerb(d) THEN 9 ELSE 10) /\ IndexesOK(c, d)
  /\ \E pending \in BOOLEAN :
       Noted(s, {d.flag, d.dot} \ {""}, DotReads(d, Before(c, k)), ValueArg(d, Before(c, k)),
             Indexed(d), pending)

InCheck(c, k, p, s) ==
  LET d == c.format[k] IN
  /\ p = At(c, k, IF IsBracketVerb(d) THEN 10 ELSE 11)
  /\ IndexesOK(c, d) /\ VerbOf(d) # "" /\ s.verb = VerbOf(d)
  /\ \E pending \in BOOLEAN :
       Noted(s, {d.flag, d.dot} \ {""}, AllReads(d, Before(c, k)), ValueArg(d, Before(c, k)),
             Indexed(d), pending)

StateKeys == {"flags", "argNums", "argNum", "hasIndex", "indexPending", "verb"}
Ready(k) == IsCall(call) /\ k \in 1 .. Len(call.format) /\ DOMAIN state = StateKeys

(* What every step of the parser needs.                                    *)
LEMMA ReadyIs ==
  ASSUME NEW k, Ready(k)
  PROVE  /\ IsCall(call) /\ k \in 1 .. Len(call.format) /\ DOMAIN state = StateKeys
         /\ call.format[k] \in Directives /\ call.format # <<>>
         /\ Before(call, k) \in Nat /\ Len(format) \in Nat
         /\ \A i \in 1 .. 10 : At(call, k, i) \in Nat /\ At(call, k, i) <= Len(format) + 1
         /\ \A i : pos = At(call, k, i) => Token = Sight(call, k, i)
BY CallIs, FormatIs, Zenon DEF Ready, Sight

(* parseFlags reads the flag, if there is one.                             *)
LEMMA FlagsStep ==
  ASSUME NEW k, Ready(k), InFlags(call, k, pos, state), ParseFlags
  PROVE  pc' = "index" /\ InIndex(call, k, pos', state')
<1> DEFINE f == call.format[k].flag
           j == At(call, k, 4)
           t == Sight(call, k, 4)
<1>1. /\ IsCall(call) /\ k \in 1 .. Len(call.format) /\ DOMAIN state = StateKeys
      /\ pos = At(call, k, 3) /\ Token = Sight(call, k, 3)
      /\ call.format[k] \in Directives /\ call.format # <<>>
  BY ReadyIs, Zenon DEF InFlags
<1>2. pos \in Nat /\ pos <= Len(format) + 1 /\ Len(format) \in Nat
  <2>1. 3 \in 1 .. 10
    OBVIOUS
  <2> QED
    BY <1>1, <2>1, CallIs, Zenon
<1>3. f \in Flags \cup {""}
  BY <1>1, FieldsAre DEF Flags
<1>4. /\ Token = IF f # "" THEN f ELSE t
      /\ j = IF f # "" THEN pos + 1 ELSE pos
      /\ TokenAt(call.format, j) = t
  BY <1>1, SightsAre, Zenon DEF Sight
<1>5. t \notin Flags
  BY <1>1, SightClasses
<1> HIDE DEF f, j, t
<1>6. j = pos \/ (j = pos + 1 /\ Token \in Flags /\ Token # "")
  BY <1>3, <1>4, Zenon
<1>7. /\ Beyond(Flags) = j
      /\ { format[m] : m \in pos .. Beyond(Flags) - 1 } = IF j = pos THEN {} ELSE {Token}
  BY <1>1, <1>2, <1>4, <1>5, <1>6, RunIs
<1>8. (IF j = pos THEN {} ELSE {Token}) = {f} \ {""}
  <2>1. CASE f = ""
    BY <1>4, <2>1
  <2>2. CASE f # ""
    <3>1. j = pos + 1 /\ pos \in Nat /\ Token = f
      BY <1>2, <1>4, <2>2, Zenon
    <3>2. j # pos
      BY <3>1
    <3> QED
      BY <2>2, <3>1, <3>2
  <2> QED
    BY <2>1, <2>2
<1>9. pc' = "index" /\ pos' = j /\ state' = [state EXCEPT !.flags = {f} \ {""}]
  BY <1>7, <1>8 DEF ParseFlags
<1>10. Noted(state, {}, <<>>, Before(call, k) + 1, FALSE, FALSE)
  BY DEF InFlags
<1>11. Noted(state', {f} \ {""}, <<>>, Before(call, k) + 1, FALSE, FALSE)
  BY <1>1, <1>9, <1>10 DEF Noted, StateKeys
<1> QED
  BY <1>9, <1>11, Zenon DEF InIndex, f, j

(* parseIndex before the width takes the index of the directive.           *)
LEMMA IndexIsRead ==
  ASSUME NEW k, Ready(k), InIndex(call, k, pos, state), Index("index", "width")
  PROVE  pc' = "width" /\ InWidth(call, k, pos', state')
<1> DEFINE d == call.format[k]
<1>1. /\ IsCall(call) /\ k \in 1 .. Len(call.format) /\ DOMAIN state = StateKeys
      /\ Token = Sight(call, k, 4) /\ pos = At(call, k, 4)
  BY ReadyIs, Zenon DEF InIndex
<1>2. Token \in Brackets /\ IndexOf(Token) \in 1 .. Len(call.args)
  BY DEF Index, AtIndex, args
<1>3. /\ Token \in Brackets <=> d.index # ""
      /\ Token = IF d.index # "" THEN d.index ELSE Sight(call, k, 5)
      /\ At(call, k, 5) = IF d.index # "" THEN pos + 1 ELSE pos
  BY <1>1, SightsAre, SightClasses, Zenon
<1>4. Noted(state, {d.flag} \ {""}, <<>>, Before(call, k) + 1, FALSE, FALSE)
  BY DEF InIndex
<1> HIDE DEF d
<1>5. d.index # "" /\ Token = d.index /\ At(call, k, 5) = pos + 1
  BY <1>2, <1>3, Zenon
<1>6. /\ pc' = "width" /\ pos' = pos + 1
      /\ state' = [state EXCEPT !.argNum = IndexOf(Token), !.hasIndex = TRUE, !.indexPending = TRUE]
  BY DEF Index
<1>7. WidthArg(d, Before(call, k)) = IndexOf(Token)
  BY <1>5, Zenon DEF WidthArg
<1>8. Noted(state', {d.flag} \ {""}, <<>>, IndexOf(Token), TRUE, TRUE)
  BY <1>1, <1>4, <1>6 DEF Noted, StateKeys
<1>9. IndexOK(call, d.index)
  BY <1>2, <1>5, Zenon DEF IndexOK
<1>10. Noted(state', {d.flag} \ {""}, <<>>, WidthArg(d, Before(call, k)),
             d.index # "", d.index # "")
  BY <1>5, <1>7, <1>8
<1> QED
  BY <1>5, <1>6, <1>9, <1>10, Zenon DEF InWidth, d

(* Without an index before the width nothing changes.                      *)
LEMMA IndexIsNot ==
  ASSUME NEW k, Ready(k), InIndex(call, k, pos, state), pc = "index", NoIndex("index", "width")
  PROVE  pc' = "width" /\ InWidth(call, k, pos', state')
<1> DEFINE d == call.format[k]
<1>1. /\ IsCall(call) /\ k \in 1 .. Len(call.format)
      /\ Token = Sight(call, k, 4) /\ pos = At(call, k, 4)
  BY ReadyIs, Zenon DEF InIndex
<1>2. Token \notin Brackets /\ pc' = "width" /\ pos' = pos /\ state' = state
  BY DEF NoIndex, AtIndex
<1>3. /\ Token \in Brackets <=> d.index # ""
      /\ At(call, k, 5) = IF d.index # "" THEN pos + 1 ELSE pos
  BY <1>1, SightsAre, SightClasses, Zenon
<1>4. Noted(state, {d.flag} \ {""}, <<>>, Before(call, k) + 1, FALSE, FALSE)
  BY DEF InIndex
<1> HIDE DEF d
<1>5. d.index = "" /\ At(call, k, 5) = pos
  BY <1>2, <1>3, Zenon
<1>6. WidthArg(d, Before(call, k)) = Before(call, k) + 1 /\ IndexOK(call, d.index)
  BY <1>5, Zenon DEF WidthArg, IndexOK
<1>7. Noted(state', {d.flag} \ {""}, <<>>, WidthArg(d, Before(call, k)),
             d.index # "", d.index # "")
  BY <1>2, <1>4, <1>5, <1>6
<1>8. pc' = "width" /\ pos' = At(call, k, 5)
  BY <1>2, <1>5
<1> QED
  BY <1>6, <1>7, <1>8, Zenon DEF InWidth, d

(* An index that cannot be read is what makes a directive unparsed.        *)
LEMMA IndexIsBad ==
  ASSUME NEW k, Ready(k), InIndex(call, k, pos, state), BadIndex("index")
  PROVE  Unparsed(Directive(k))
<1> DEFINE d == call.format[k]
<1>1. IsCall(call) /\ k \in 1 .. Len(call.format) /\ Token = Sight(call, k, 4)
  BY ReadyIs, Zenon DEF InIndex
<1>2. Token \in Brackets /\ IndexOf(Token) \notin 1 .. Len(args)
  BY DEF BadIndex, AtIndex
<1>3. /\ Token \in Brackets <=> d.index # ""
      /\ Token = IF d.index # "" THEN d.index ELSE Sight(call, k, 5)
  BY <1>1, SightsAre, SightClasses, Zenon
<1> HIDE DEF d
<1>4. Token \in IndexesOf(d)
  BY <1>2, <1>3 DEF IndexesOf
<1> QED
  BY <1>2, <1>4 DEF Unparsed, Given, Directive, d

(* Stated apart because it is needed among strings.                        *)
LEMMA FirstOne == \A x : Append(<<>>, x) = <<x>>
OBVIOUS

(* What a directive has read after its width, its precision and its verb.  *)
LEMMA ReadsGrow ==
  ASSUME NEW d, NEW l \in Nat
  PROVE  /\ WidthReads(d, l) = IF d.width = "*" THEN Append(<<>>, WidthArg(d, l)) ELSE <<>>
         /\ DotReads(d, l) = IF d.dotNum = "*" THEN Append(WidthReads(d, l), DotArg(d, l))
                             ELSE WidthReads(d, l)
         /\ AllReads(d, l) =
              IF VerbOf(d) \notin {"%", ""} THEN Append(DotReads(d, l), ValueArg(d, l))
              ELSE DotReads(d, l)
         /\ DotReads(d, l) \in Seq(Nat) /\ AllReads(d, l) \in Seq(Nat)
<1> DEFINE w == WidthReads(d, l)
           p == DotReads(d, l)
           x == WidthArg(d, l)
           y == DotArg(d, l)
           z == ValueArg(d, l)
<1>1. x \in Nat /\ y \in Nat /\ z \in Nat
  BY ArgsAreNumbers
<1>2. w = IF d.width = "*" THEN <<x>> ELSE <<>>
  BY DEF WidthReads
<1>3. p = w \o (IF d.dotNum = "*" THEN <<y>> ELSE <<>>)
  BY DEF DotReads
<1>4. AllReads(d, l) = p \o (IF VerbOf(d) \notin {"%", ""} THEN <<z>> ELSE <<>>)
  BY DEF AllReads
<1> HIDE DEF w, p, x, y, z
<1>5. w \in Seq(Nat) /\ w = IF d.width = "*" THEN Append(<<>>, x) ELSE <<>>
  BY <1>1, <1>2, FirstOne
<1>6. p \in Seq(Nat) /\ p = IF d.dotNum = "*" THEN Append(w, y) ELSE w
  <2>1. CASE d.dotNum = "*"
    BY <1>1, <1>3, <1>5, <2>1, AppendIsConcat, AppendProperties
  <2>2. CASE d.dotNum # "*"
    BY <1>3, <1>5, <2>2, ConcatEmptySeq
  <2> QED
    BY <2>1, <2>2
<1>7. /\ AllReads(d, l) \in Seq(Nat)
      /\ AllReads(d, l) = IF VerbOf(d) \notin {"%", ""} THEN Append(p, z) ELSE p
  <2>1. CASE VerbOf(d) \notin {"%", ""}
    <3>1. AllReads(d, l) = p \o <<z>>
      BY <1>4, <2>1, Zenon
    <3>2. Append(p, z) = p \o <<z>> /\ Append(p, z) \in Seq(Nat)
      BY <1>1, <1>6, AppendIsConcat, AppendProperties
    <3> QED
      BY <2>1, <3>1, <3>2, Zenon
  <2>2. CASE ~ (VerbOf(d) \notin {"%", ""})
    <3>1. AllReads(d, l) = p \o <<>>
      BY <1>4, <2>2, Zenon
    <3> QED
      BY <1>6, <2>2, <3>1, ConcatEmptySeq
  <2> QED
    BY <2>1, <2>2
<1> QED
  BY <1>5, <1>6, <1>7 DEF w, p, x, y, z

(* An index is pending at the verb if no later `*` took it.                *)
LEMMA PendingIs ==
  ASSUME NEW d
  PROVE  Pending(d) # "" <=>
           d.dotNum # "*" /\ ((d.index # "" /\ d.width # "*") \/ d.dotIndex # "")
BY DEF Pending, Latest

(* A width of `*` reads an argument and absorbs the index.                 *)
LEMMA WidthStar ==
  ASSUME NEW k, Ready(k), InWidth(call, k, pos, state), Star("width", "precision")
  PROVE  pc' = "precision" /\ InPrecision(call, k, pos', state')
<1> DEFINE d == call.format[k]
           l == Before(call, k)
<1>1. /\ IsCall(call) /\ k \in 1 .. Len(call.format) /\ DOMAIN state = StateKeys
      /\ Token = Sight(call, k, 5) /\ pos = At(call, k, 5) /\ l \in Nat
  BY ReadyIs, Zenon DEF InWidth
<1>2. /\ Token = "*" /\ pc' = "precision" /\ pos' = pos + 1
      /\ state' = [state EXCEPT !.indexPending = FALSE,
                                !.argNums = Append(@, state.argNum), !.argNum = @ + 1]
  BY DEF Star
<1>3. /\ Token = "*" <=> d.width = "*"
      /\ At(call, k, 6) = IF d.width # "" THEN pos + 1 ELSE pos
  BY <1>1, SightsAre, SightClasses, Zenon
<1>4. /\ Noted(state, {d.flag} \ {""}, <<>>, WidthArg(d, l), d.index # "", d.index # "")
      /\ IndexOK(call, d.index)
  BY Zenon DEF InWidth
<1>5. d.width = "*" => WidthReads(d, l) = Append(<<>>, WidthArg(d, l))
  BY <1>1, ReadsGrow
<1>6. d.width = "*" => AfterWidth(d, l) = WidthArg(d, l) + 1
  BY DEF AfterWidth
<1> HIDE DEF d, l
<1>7. d.width = "*" /\ pos' = At(call, k, 6)
  BY <1>2, <1>3
<1>8. Noted(state', {d.flag} \ {""}, Append(<<>>, WidthArg(d, l)), WidthArg(d, l) + 1,
            d.index # "", FALSE)
  BY <1>1, <1>2, <1>4 DEF Noted, StateKeys
<1>9. Noted(state', {d.flag} \ {""}, WidthReads(d, l), AfterWidth(d, l),
            d.index # "", d.index # "" /\ d.width # "*")
  BY <1>5, <1>6, <1>7, <1>8
<1> QED
  BY <1>2, <1>4, <1>7, <1>9, Zenon DEF InPrecision, d, l

(* A width of digits, or none, reads no argument.                          *)
LEMMA WidthDigits ==
  ASSUME NEW k, Ready(k), InWidth(call, k, pos, state), Digits("width", "precision")
  PROVE  pc' = "precision" /\ InPrecision(call, k, pos', state')
<1> DEFINE d == call.format[k]
           l == Before(call, k)
           j == At(call, k, 6)
           t == Sight(call, k, 6)
<1>1. /\ IsCall(call) /\ k \in 1 .. Len(call.format)
      /\ Token = Sight(call, k, 5) /\ pos = At(call, k, 5) /\ l \in Nat
      /\ d \in Directives /\ call.format # <<>>
  BY ReadyIs, Zenon DEF InWidth
<1>2. pos \in Nat /\ pos <= Len(format) + 1 /\ Len(format) \in Nat
  <2>1. 5 \in 1 .. 10
    OBVIOUS
  <2> QED
    BY <1>1, <2>1, CallIs, Zenon
<1>3. Token # "*" /\ pc' = "precision" /\ pos' = Beyond({"0", "9"}) /\ state' = state
  BY DEF Digits
<1>4. /\ Token = "*" <=> d.width = "*"
      /\ Token = IF d.width # "" THEN d.width ELSE t
      /\ j = IF d.width # "" THEN pos + 1 ELSE pos
      /\ TokenAt(call.format, j) = t /\ t \notin {"0", "9"}
  BY <1>1, SightsAre, SightClasses, Zenon DEF Sight
<1>5. /\ Noted(state, {d.flag} \ {""}, <<>>, WidthArg(d, l), d.index # "", d.index # "")
      /\ IndexOK(call, d.index)
  BY Zenon DEF InWidth
<1>6. d.width \in {"", "9", "*"}
  BY <1>1, FieldsAre
<1>7. d.width # "*" => WidthReads(d, l) = <<>> /\ AfterWidth(d, l) = WidthArg(d, l)
  BY <1>1, ReadsGrow DEF AfterWidth
<1> HIDE DEF d, l, j, t
<1>8. j = pos \/ (j = pos + 1 /\ Token \in {"0", "9"} /\ Token # "")
  BY <1>3, <1>4, <1>6
<1>9. Beyond({"0", "9"}) = j
  BY <1>1, <1>2, <1>4, <1>8, RunIs
<1>10. Noted(state', {d.flag} \ {""}, WidthReads(d, l), AfterWidth(d, l),
            d.index # "", d.index # "" /\ d.width # "*")
  BY <1>3, <1>4, <1>5, <1>7
<1>11. pc' = "precision" /\ pos' = j
  BY <1>3, <1>9
<1> QED
  BY <1>5, <1>10, <1>11, Zenon DEF InPrecision, d, l, j

(* parsePrecision goes on behind a dot, or at the index of the verb.       *)
LEMMA PrecisionStep ==
  ASSUME NEW k, Ready(k), InPrecision(call, k, pos, state), ParsePrecision
  PROVE  \/ pc' = "dotIndex" /\ InDotIndex(call, k, pos', state')
         \/ pc' = "verbIndex" /\ InVerbIndex(call, k, pos', state')
<1> DEFINE d == call.format[k]
           l == Before(call, k)
<1>1. /\ IsCall(call) /\ k \in 1 .. Len(call.format) /\ DOMAIN state = StateKeys
      /\ Token = Sight(call, k, 6) /\ pos = At(call, k, 6) /\ l \in Nat
      /\ d \in Directives
  BY ReadyIs, Zenon DEF InPrecision
<1>2. /\ Token = "." <=> d.dot = "."
      /\ At(call, k, 7) = IF d.dot # "" THEN pos + 1 ELSE pos
      /\ At(call, k, 8) = IF d.dotIndex # "" THEN At(call, k, 7) + 1 ELSE At(call, k, 7)
      /\ At(call, k, 9) = IF d.dotNum # "" THEN At(call, k, 8) + 1 ELSE At(call, k, 8)
  BY <1>1, SightsAre, SightClasses, Zenon
<1>3. /\ Noted(state, {d.flag} \ {""}, WidthReads(d, l), AfterWidth(d, l),
               d.index # "", d.index # "" /\ d.width # "*")
      /\ IndexOK(call, d.index)
  BY Zenon DEF InPrecision
<1>4. d.dot \in {"", "."} /\ (d.dot = "" => d.dotIndex = "" /\ d.dotNum = "")
  BY <1>1, FieldsAre
<1>5. /\ DotReads(d, l) = IF d.dotNum = "*" THEN Append(WidthReads(d, l), DotArg(d, l))
                          ELSE WidthReads(d, l)
      /\ Pending(d) # "" <=>
           d.dotNum # "*" /\ ((d.index # "" /\ d.width # "*") \/ d.dotIndex # "")
  BY <1>1, ReadsGrow, PendingIs
<1> HIDE DEF d, l
<1>6. CASE Token = "."
  <2>1. /\ pc' = "dotIndex" /\ pos' = pos + 1
        /\ state' = [state EXCEPT !.flags = @ \cup {"."}]
    BY <1>6 DEF ParsePrecision
  <2>2. d.dot = "." /\ pos' = At(call, k, 7)
    BY <1>2, <1>6, <2>1
  <2>3. Noted(state', ({d.flag} \ {""}) \cup {"."}, WidthReads(d, l), AfterWidth(d, l),
              d.index # "", d.index # "" /\ d.width # "*")
    BY <1>1, <1>3, <2>1 DEF Noted, StateKeys
  <2>4. ({d.flag} \ {""}) \cup {"."} = {d.flag, d.dot} \ {""}
    BY <2>2
  <2>5. Noted(state', {d.flag, d.dot} \ {""}, WidthReads(d, l), AfterWidth(d, l),
              d.index # "", d.index # "" /\ d.width # "*")
    BY <2>3, <2>4
  <2> QED
    BY <1>3, <2>1, <2>2, <2>5, Zenon DEF InDotIndex, d, l
<1>7. CASE Token # "."
  <2>1. pc' = "verbIndex" /\ pos' = pos /\ state' = state
    BY <1>7 DEF ParsePrecision
  <2>2. d.dot = "" /\ d.dotIndex = "" /\ d.dotNum = "" /\ pos' = At(call, k, 9)
    BY <1>2, <1>4, <1>7, <2>1
  <2>3. /\ DotReads(d, l) = WidthReads(d, l) /\ AfterDot(d, l) = AfterWidth(d, l)
        /\ Pending(d) # "" <=> d.index # "" /\ d.width # "*"
    BY <1>5, <2>2 DEF AfterDot, DotArg
  <2>4. {d.flag} \ {""} = {d.flag, d.dot} \ {""}
    BY <2>2
  <2>5. Noted(state', {d.flag, d.dot} \ {""}, DotReads(d, l), AfterDot(d, l),
              d.index # "" \/ d.dotIndex # "", Pending(d) # "")
    BY <1>3, <2>1, <2>2, <2>3, <2>4 DEF Noted
  <2>6. IndexOK(call, d.dotIndex)
    BY <2>2, Zenon DEF IndexOK
  <2> QED
    BY <1>3, <2>1, <2>2, <2>5, <2>6, Zenon DEF InVerbIndex, d, l
<1> QED
  BY <1>6, <1>7

(* parseIndex before the precision takes the index behind the dot.         *)
LEMMA DotIndexIsRead ==
  ASSUME NEW k, Ready(k), InDotIndex(call, k, pos, state), Index("dotIndex", "dotNum")
  PROVE  pc' = "dotNum" /\ InDotNum(call, k, pos', state')
<1> DEFINE d == call.format[k]
           l == Before(call, k)
<1>1. /\ IsCall(call) /\ k \in 1 .. Len(call.format) /\ DOMAIN state = StateKeys
      /\ Token = Sight(call, k, 7) /\ pos = At(call, k, 7)
  BY ReadyIs, Zenon DEF InDotIndex
<1>2. Token \in Brackets /\ IndexOf(Token) \in 1 .. Len(call.args)
  BY DEF Index, AtIndex, args
<1>3. /\ d.dot = "." => (Token \in Brackets <=> d.dotIndex # "")
      /\ Token = IF d.dotIndex # "" THEN d.dotIndex ELSE Sight(call, k, 8)
      /\ At(call, k, 8) = IF d.dotIndex # "" THEN pos + 1 ELSE pos
  BY <1>1, SightsAre, SightClasses, Zenon
<1>4. /\ Noted(state, {d.flag, d.dot} \ {""}, WidthReads(d, l), AfterWidth(d, l),
               d.index # "", d.index # "" /\ d.width # "*")
      /\ IndexOK(call, d.index) /\ d.dot = "."
  BY Zenon DEF InDotIndex
<1> HIDE DEF d, l
<1>5. d.dotIndex # "" /\ Token = d.dotIndex /\ At(call, k, 8) = pos + 1
  BY <1>2, <1>3, <1>4, Zenon
<1>6. /\ pc' = "dotNum" /\ pos' = pos + 1
      /\ state' = [state EXCEPT !.argNum = IndexOf(Token), !.hasIndex = TRUE, !.indexPending = TRUE]
  BY DEF Index
<1>7. DotArg(d, l) = IndexOf(Token)
  BY <1>5, Zenon DEF DotArg
<1>8. Noted(state', {d.flag, d.dot} \ {""}, WidthReads(d, l), IndexOf(Token), TRUE, TRUE)
  BY <1>1, <1>4, <1>6 DEF Noted, StateKeys
<1>9. IndexOK(call, d.dotIndex)
  BY <1>2, <1>5, Zenon DEF IndexOK
<1>10. Noted(state', {d.flag, d.dot} \ {""}, WidthReads(d, l), DotArg(d, l),
             d.index # "" \/ d.dotIndex # "", (d.index # "" /\ d.width # "*") \/ d.dotIndex # "")
  BY <1>5, <1>7, <1>8
<1> QED
  BY <1>4, <1>5, <1>6, <1>9, <1>10, Zenon DEF InDotNum, d, l

(* Without an index behind the dot nothing changes.                        *)
LEMMA DotIndexIsNot ==
  ASSUME NEW k, Ready(k), InDotIndex(call, k, pos, state), pc = "dotIndex",
         NoIndex("dotIndex", "dotNum")
  PROVE  pc' = "dotNum" /\ InDotNum(call, k, pos', state')
<1> DEFINE d == call.format[k]
           l == Before(call, k)
<1>1. /\ IsCall(call) /\ k \in 1 .. Len(call.format)
      /\ Token = Sight(call, k, 7) /\ pos = At(call, k, 7)
  BY ReadyIs, Zenon DEF InDotIndex
<1>2. Token \notin Brackets /\ pc' = "dotNum" /\ pos' = pos /\ state' = state
  BY DEF NoIndex, AtIndex
<1>3. /\ d.dot = "." => (Token \in Brackets <=> d.dotIndex # "")
      /\ At(call, k, 8) = IF d.dotIndex # "" THEN pos + 1 ELSE pos
  BY <1>1, SightsAre, SightClasses, Zenon
<1>4. /\ Noted(state, {d.flag, d.dot} \ {""}, WidthReads(d, l), AfterWidth(d, l),
               d.index # "", d.index # "" /\ d.width # "*")
      /\ IndexOK(call, d.index) /\ d.dot = "."
  BY Zenon DEF InDotIndex
<1> HIDE DEF d, l
<1>5. d.dotIndex = "" /\ At(call, k, 8) = pos
  BY <1>2, <1>3, <1>4, Zenon
<1>6. DotArg(d, l) = AfterWidth(d, l) /\ IndexOK(call, d.dotIndex)
  BY <1>5, Zenon DEF DotArg, IndexOK
<1>7. Noted(state', {d.flag, d.dot} \ {""}, WidthReads(d, l), DotArg(d, l),
            d.index # "" \/ d.dotIndex # "", (d.index # "" /\ d.width # "*") \/ d.dotIndex # "")
  BY <1>2, <1>4, <1>5, <1>6
<1>8. pc' = "dotNum" /\ pos' = At(call, k, 8)
  BY <1>2, <1>5
<1> QED
  BY <1>4, <1>6, <1>7, <1>8, Zenon DEF InDotNum, d, l

(* An index behind the dot that names no argument is a fault of the        *)
(* directive.                                                              *)
LEMMA DotIndexIsBad ==
  ASSUME NEW k, Ready(k), InDotIndex(call, k, pos, state), BadIndex("dotIndex")
  PROVE  Unparsed(Directive(k))
<1> DEFINE d == call.format[k]
<1>1. IsCall(call) /\ k \in 1 .. Len(call.format) /\ Token = Sight(call, k, 7) /\ d.dot = "."
  BY ReadyIs, Zenon DEF InDotIndex
<1>2. Token \in Brackets /\ IndexOf(Token) \notin 1 .. Len(args)
  BY DEF BadIndex, AtIndex
<1>3. /\ d.dot = "." => (Token \in Brackets <=> d.dotIndex # "")
      /\ Token = IF d.dotIndex # "" THEN d.dotIndex ELSE Sight(call, k, 8)
  BY <1>1, SightsAre, SightClasses, Zenon
<1> HIDE DEF d
<1>4. Token \in IndexesOf(d)
  BY <1>1, <1>2, <1>3 DEF IndexesOf
<1> QED
  BY <1>2, <1>4 DEF Unparsed, Given, Directive, d

(* A precision of `*` reads an argument and absorbs the index.             *)
LEMMA DotStar ==
  ASSUME NEW k, Ready(k), InDotNum(call, k, pos, state), Star("dotNum", "verbIndex")
  PROVE  pc' = "verbIndex" /\ InVerbIndex(call, k, pos', state')
<1> DEFINE d == call.format[k]
           l == Before(call, k)
<1>1. /\ IsCall(call) /\ k \in 1 .. Len(call.format) /\ DOMAIN state = StateKeys
      /\ Token = Sight(call, k, 8) /\ pos = At(call, k, 8) /\ l \in Nat
  BY ReadyIs, Zenon DEF InDotNum
<1>2. /\ Token = "*" /\ pc' = "verbIndex" /\ pos' = pos + 1
      /\ state' = [state EXCEPT !.indexPending = FALSE,
                                !.argNums = Append(@, state.argNum), !.argNum = @ + 1]
  BY DEF Star
<1>3. /\ Token = "*" <=> d.dotNum = "*"
      /\ At(call, k, 9) = IF d.dotNum # "" THEN pos + 1 ELSE pos
  BY <1>1, SightsAre, SightClasses, Zenon
<1>4. /\ Noted(state, {d.flag, d.dot} \ {""}, WidthReads(d, l), DotArg(d, l),
            d.index # "" \/ d.dotIndex # "", (d.index # "" /\ d.width # "*") \/ d.dotIndex # "")
      /\ IndexOK(call, d.index) /\ IndexOK(call, d.dotIndex)
  BY Zenon DEF InDotNum
<1>5. d.dotNum = "*" => DotReads(d, l) = Append(WidthReads(d, l), DotArg(d, l))
  BY <1>1, ReadsGrow
<1>6. d.dotNum = "*" => AfterDot(d, l) = DotArg(d, l) + 1 /\ ~ (Pending(d) # "")
  BY PendingIs DEF AfterDot
<1> HIDE DEF d, l
<1>7. d.dotNum = "*" /\ pos' = At(call, k, 9)
  BY <1>2, <1>3
<1>8. Noted(state', {d.flag, d.dot} \ {""}, Append(WidthReads(d, l), DotArg(d, l)),
            DotArg(d, l) + 1, d.index # "" \/ d.dotIndex # "", FALSE)
  BY <1>1, <1>2, <1>4 DEF Noted, StateKeys
<1>9. Noted(state', {d.flag, d.dot} \ {""}, DotReads(d, l), AfterDot(d, l),
            d.index # "" \/ d.dotIndex # "", Pending(d) # "")
  BY <1>5, <1>6, <1>7, <1>8
<1> QED
  BY <1>2, <1>4, <1>7, <1>9, Zenon DEF InVerbIndex, d, l

(* A precision of digits, or none, reads no argument.                      *)
LEMMA DotDigits ==
  ASSUME NEW k, Ready(k), InDotNum(call, k, pos, state), Digits("dotNum", "verbIndex")
  PROVE  pc' = "verbIndex" /\ InVerbIndex(call, k, pos', state')
<1> DEFINE d == call.format[k]
           l == Before(call, k)
           j == At(call, k, 9)
           t == Sight(call, k, 9)
<1>1. /\ IsCall(call) /\ k \in 1 .. Len(call.format)
      /\ Token = Sight(call, k, 8) /\ pos = At(call, k, 8) /\ l \in Nat
      /\ d \in Directives /\ call.format # <<>>
  BY ReadyIs, Zenon DEF InDotNum
<1>2. pos \in Nat /\ pos <= Len(format) + 1 /\ Len(format) \in Nat
  <2>1. 8 \in 1 .. 10
    OBVIOUS
  <2> QED
    BY <1>1, <2>1, CallIs, Zenon
<1>3. Token # "*" /\ pc' = "verbIndex" /\ pos' = Beyond({"0", "9"}) /\ state' = state
  BY DEF Digits
<1>4. /\ Token = "*" <=> d.dotNum = "*"
      /\ Token = IF d.dotNum # "" THEN d.dotNum ELSE t
      /\ j = IF d.dotNum # "" THEN pos + 1 ELSE pos
      /\ TokenAt(call.format, j) = t /\ t \notin {"0", "9"}
  BY <1>1, SightsAre, SightClasses, Zenon DEF Sight
<1>5. /\ Noted(state, {d.flag, d.dot} \ {""}, WidthReads(d, l), DotArg(d, l),
            d.index # "" \/ d.dotIndex # "", (d.index # "" /\ d.width # "*") \/ d.dotIndex # "")
      /\ IndexOK(call, d.index) /\ IndexOK(call, d.dotIndex)
  BY Zenon DEF InDotNum
<1>6. d.dotNum \in {"", "9", "*"}
  BY <1>1, FieldsAre
<1>7. d.dotNum # "*" =>
        /\ DotReads(d, l) = WidthReads(d, l) /\ AfterDot(d, l) = DotArg(d, l)
        /\ Pending(d) # "" <=> (d.index # "" /\ d.width # "*") \/ d.dotIndex # ""
  BY <1>1, ReadsGrow, PendingIs DEF AfterDot
<1> HIDE DEF d, l, j, t
<1>8. j = pos \/ (j = pos + 1 /\ Token \in {"0", "9"} /\ Token # "")
  BY <1>3, <1>4, <1>6
<1>9. Beyond({"0", "9"}) = j
  BY <1>1, <1>2, <1>4, <1>8, RunIs
<1>10. Noted(state', {d.flag, d.dot} \ {""}, DotReads(d, l), AfterDot(d, l),
             d.index # "" \/ d.dotIndex # "", Pending(d) # "")
  BY <1>3, <1>4, <1>5, <1>7 DEF Noted
<1>11. pc' = "verbIndex" /\ pos' = j
  BY <1>3, <1>9
<1> QED
  BY <1>5, <1>10, <1>11, Zenon DEF InVerbIndex, d, l, j

(* A directive is indexed if one of its three indexes is there.            *)
LEMMA IndexedIs ==
  ASSUME NEW d
  PROVE  Indexed(d) <=> d.index # "" \/ d.dotIndex # "" \/ d.verbIndex # ""
BY DEF Indexed

(* The indexes that are read: that before the verb only if none is pending.*)
LEMMA IndexesAre ==
  ASSUME NEW c, NEW d
  PROVE  IndexesOK(c, d) <=>
           /\ IndexOK(c, d.index) /\ IndexOK(c, d.dotIndex)
           /\ Pending(d) = "" => IndexOK(c, d.verbIndex)
BY DEF IndexesOK, IndexOK, IndexesOf

(* parseIndex before the verb, if none is pending, takes its index.        *)
LEMMA VerbIndexIsRead ==
  ASSUME NEW k, Ready(k), InVerbIndex(call, k, pos, state), Index("verbIndex", "verb")
  PROVE  pc' = "verb" /\ InVerb(call, k, pos', state')
<1> DEFINE d == call.format[k]
           l == Before(call, k)
<1>1. /\ IsCall(call) /\ k \in 1 .. Len(call.format) /\ DOMAIN state = StateKeys
      /\ Token = Sight(call, k, 9) /\ pos = At(call, k, 9)
  BY ReadyIs, Zenon DEF InVerbIndex
<1>2. /\ Token \in Brackets /\ IndexOf(Token) \in 1 .. Len(call.args)
      /\ ~ state.indexPending
  BY DEF Index, AtIndex, args
<1>3. /\ Token \in Brackets <=> d.verbIndex # ""
      /\ Token = IF d.verbIndex # "" THEN d.verbIndex ELSE Sight(call, k, 10)
      /\ At(call, k, 10) = IF d.verbIndex # "" THEN pos + 1 ELSE pos
  BY <1>1, SightsAre, SightClasses, Zenon
<1>4. /\ Noted(state, {d.flag, d.dot} \ {""}, DotReads(d, l), AfterDot(d, l),
               d.index # "" \/ d.dotIndex # "", Pending(d) # "")
      /\ IndexOK(call, d.index) /\ IndexOK(call, d.dotIndex)
  BY Zenon DEF InVerbIndex
<1> HIDE DEF d, l
<1>5. d.verbIndex # "" /\ Token = d.verbIndex /\ At(call, k, 10) = pos + 1
  BY <1>2, <1>3, Zenon
<1>6. Pending(d) = ""
  BY <1>2, <1>4, Zenon DEF Noted
<1>7. /\ pc' = "verb" /\ pos' = pos + 1
      /\ state' = [state EXCEPT !.argNum = IndexOf(Token), !.hasIndex = TRUE, !.indexPending = TRUE]
  BY DEF Index
<1>8. ValueArg(d, l) = IndexOf(Token) /\ Indexed(d) /\ ~ IsBracketVerb(d)
  BY <1>5, <1>6, IndexedIs, Zenon DEF ValueArg, IsBracketVerb
<1>9. Noted(state', {d.flag, d.dot} \ {""}, DotReads(d, l), IndexOf(Token), TRUE, TRUE)
  BY <1>1, <1>4, <1>7 DEF Noted, StateKeys
<1>10. IndexOK(call, d.verbIndex)
  BY <1>2, <1>5, Zenon DEF IndexOK
<1>11. IndexesOK(call, d)
  BY <1>4, <1>10, IndexesAre
<1>12. Noted(state', {d.flag, d.dot} \ {""}, DotReads(d, l), ValueArg(d, l), Indexed(d), TRUE)
  BY <1>8, <1>9 DEF Noted
<1>13. pos' = At(call, k, IF IsBracketVerb(d) THEN 9 ELSE 10)
  BY <1>5, <1>7, <1>8
<1> QED
  BY <1>7, <1>11, <1>12, <1>13, Zenon DEF InVerb, d, l

(* With no index before the verb, or one pending, nothing changes.         *)
LEMMA VerbIndexIsNot ==
  ASSUME NEW k, Ready(k), InVerbIndex(call, k, pos, state), pc = "verbIndex",
         NoIndex("verbIndex", "verb")
  PROVE  pc' = "verb" /\ InVerb(call, k, pos', state')
<1> DEFINE d == call.format[k]
           l == Before(call, k)
<1>1. /\ IsCall(call) /\ k \in 1 .. Len(call.format)
      /\ Token = Sight(call, k, 9) /\ pos = At(call, k, 9)
  BY ReadyIs, Zenon DEF InVerbIndex
<1>2. /\ Token \notin Brackets \/ state.indexPending
      /\ pc' = "verb" /\ pos' = pos /\ state' = state
  BY DEF NoIndex, AtIndex
<1>3. /\ Token \in Brackets <=> d.verbIndex # ""
      /\ At(call, k, 10) = IF d.verbIndex # "" THEN pos + 1 ELSE pos
  BY <1>1, SightsAre, SightClasses, Zenon
<1>4. /\ Noted(state, {d.flag, d.dot} \ {""}, DotReads(d, l), AfterDot(d, l),
               d.index # "" \/ d.dotIndex # "", Pending(d) # "")
      /\ IndexOK(call, d.index) /\ IndexOK(call, d.dotIndex)
  BY Zenon DEF InVerbIndex
<1>5. Pending(d) # "" => d.index # "" \/ d.dotIndex # ""
  BY PendingIs
<1> HIDE DEF d, l
<1>6. d.verbIndex = "" \/ Pending(d) # ""
  BY <1>2, <1>3, <1>4 DEF Noted
<1>7. IndexesOK(call, d)
  <2>1. d.verbIndex = "" => IndexOK(call, d.verbIndex)
    BY DEF IndexOK
  <2> QED
    BY <1>4, <1>6, <2>1, IndexesAre
<1>8. pos' = At(call, k, IF IsBracketVerb(d) THEN 9 ELSE 10)
  BY <1>1, <1>2, <1>3, <1>6 DEF IsBracketVerb
<1>9. Indexed(d) <=> d.index # "" \/ d.dotIndex # ""
  BY <1>5, <1>6, IndexedIs
<1>10. ValueArg(d, l) = AfterDot(d, l)
  BY <1>6 DEF ValueArg
<1>11. Noted(state', {d.flag, d.dot} \ {""}, DotReads(d, l), ValueArg(d, l), Indexed(d),
             Pending(d) # "")
  <2>1. Indexed(d) = (d.index # "" \/ d.dotIndex # "")
    BY <1>9, Zenon DEF Indexed
  <2>2. Noted(state', {d.flag, d.dot} \ {""}, DotReads(d, l), AfterDot(d, l),
              d.index # "" \/ d.dotIndex # "", Pending(d) # "")
    BY <1>2, <1>4, Zenon
  <2> QED
    BY <1>10, <2>1, <2>2, Zenon
<1>12. (Pending(d) # "") \in BOOLEAN
  OBVIOUS
<1> QED
  BY <1>2, <1>7, <1>8, <1>11, <1>12, Zenon DEF InVerb, d, l

(* An index before the verb that names no argument is a fault of the       *)
(* directive.                                                              *)
LEMMA VerbIndexIsBad ==
  ASSUME NEW k, Ready(k), InVerbIndex(call, k, pos, state), BadIndex("verbIndex")
  PROVE  Unparsed(Directive(k))
<1> DEFINE d == call.format[k]
<1>1. IsCall(call) /\ k \in 1 .. Len(call.format) /\ Token = Sight(call, k, 9)
  BY ReadyIs, Zenon DEF InVerbIndex
<1>2. Token \in Brackets /\ IndexOf(Token) \notin 1 .. Len(args) /\ ~ state.indexPending
  BY DEF BadIndex, AtIndex
<1>3. /\ Token \in Brackets <=> d.verbIndex # ""
      /\ Token = IF d.verbIndex # "" THEN d.verbIndex ELSE Sight(call, k, 10)
  BY <1>1, SightsAre, SightClasses, Zenon
<1>4. state.indexPending = (Pending(d) # "")
  BY Zenon DEF InVerbIndex, Noted
<1> HIDE DEF d
<1>5. Token \in IndexesOf(d)
  BY <1>2, <1>3, <1>4 DEF IndexesOf
<1> QED
  BY <1>2, <1>5 DEF Unparsed, Given, Directive, d

(* The token that parseVerb looks at is the verb of the directive.         *)
LEMMA VerbIsSeen ==
  ASSUME NEW k, Ready(k), InVerb(call, k, pos, state)
  PROVE  Token = VerbOf(call.format[k])
<1> DEFINE d == call.format[k]
           ds == call.format
<1>1. /\ IsCall(call) /\ k \in 1 .. Len(ds) /\ DOMAIN ds = 1 .. Len(ds)
      /\ \A i : pos = At(call, k, i) => Token = Sight(call, k, i)
      /\ pos = At(call, k, IF IsBracketVerb(d) THEN 9 ELSE 10)
  <2>1. /\ IsCall(call) /\ k \in 1 .. Len(ds)
        /\ \A i : pos = At(call, k, i) => Token = Sight(call, k, i)
    BY ReadyIs, Zenon
  <2>2. pos = At(call, k, IF IsBracketVerb(d) THEN 9 ELSE 10)
    BY Zenon DEF InVerb
  <2>3. ds \in Seq(Directives)
    BY <2>1, Zenon DEF IsCall, IsFormat
  <2>4. DOMAIN ds = 1 .. Len(ds)
    BY <2>3
  <2> QED
    BY <2>1, <2>2, <2>4, Zenon
<1>2. VerbOf(d) = "" => k = Len(ds)
  BY <1>1, Zenon DEF IsCall, IsFormat
<1>3. /\ Sight(call, k, 9) = IF d.verbIndex # "" THEN d.verbIndex ELSE Sight(call, k, 10)
      /\ Sight(call, k, 10) = IF d.verb # "" THEN d.verb ELSE Sight(call, k, 11)
      /\ Sight(call, k, 11) = IF k < Len(ds) THEN "~" ELSE ""
  BY <1>1, SightsAre, Zenon
<1>4. VerbOf(d) = IF IsBracketVerb(d) THEN d.verbIndex ELSE d.verb
  BY DEF VerbOf, IsBracketVerb
<1>5. k = Len(ds) => ~ (k < Len(ds))
  BY <1>1
<1> HIDE DEF d, ds
<1>6. CASE IsBracketVerb(d)
  BY <1>1, <1>3, <1>4, <1>6, Zenon DEF IsBracketVerb, d
<1>7. CASE ~ IsBracketVerb(d)
  <2>1. Token = Sight(call, k, 10) /\ VerbOf(d) = d.verb
    BY <1>1, <1>4, <1>7, Zenon DEF d
  <2>2. CASE d.verb # ""
    BY <1>3, <2>1, <2>2, Zenon DEF d
  <2>3. CASE d.verb = ""
    <3>1. ~ (k < Len(ds))
      BY <1>2, <1>5, <2>1, <2>3, Zenon
    <3> QED
      BY <1>3, <2>1, <2>3, <3>1, Zenon DEF d
  <2> QED
    BY <2>2, <2>3, Zenon DEF d
<1> QED
  BY <1>6, <1>7

(* A format that ends before its verb has a fault in its last directive.   *)
LEMMA VerbIsMissing ==
  ASSUME NEW k, Ready(k), InVerb(call, k, pos, state), NoVerb
  PROVE  Unparsed(Directive(k))
BY VerbIsSeen DEF NoVerb, Unparsed, Directive

(* parseVerb notes the verb and the argument of its value.                 *)
LEMMA VerbStep ==
  ASSUME NEW k, Ready(k), InVerb(call, k, pos, state), ParseVerb
  PROVE  pc' = "check" /\ InCheck(call, k, pos', state')
<1> DEFINE d == call.format[k]
           l == Before(call, k)
<1>1. /\ IsCall(call) /\ k \in 1 .. Len(call.format) /\ DOMAIN state = StateKeys
      /\ l \in Nat /\ Token = VerbOf(d)
  BY ReadyIs, VerbIsSeen, Zenon
<1>2. /\ Token # "" /\ pc' = "check" /\ pos' = pos + 1
      /\ state' = [state EXCEPT !.verb = Token,
                            !.argNums = IF Token = "%" THEN @ ELSE Append(@, state.argNum)]
  BY DEF ParseVerb
<1>3. PICK p \in BOOLEAN :
        Noted(state, {d.flag, d.dot} \ {""}, DotReads(d, l), ValueArg(d, l), Indexed(d), p)
  BY Zenon DEF InVerb
<1>4. IndexesOK(call, d) /\ pos = At(call, k, IF IsBracketVerb(d) THEN 9 ELSE 10)
  BY Zenon DEF InVerb
<1>5. AllReads(d, l) = IF VerbOf(d) \notin {"%", ""} THEN Append(DotReads(d, l), ValueArg(d, l))
                       ELSE DotReads(d, l)
  BY <1>1, ReadsGrow
<1>6. /\ At(call, k, 10) = IF d.verbIndex # "" THEN At(call, k, 9) + 1 ELSE At(call, k, 9)
      /\ At(call, k, 11) = IF d.verb # "" THEN At(call, k, 10) + 1 ELSE At(call, k, 10)
  BY <1>1, SightsAre, Zenon
<1>7. VerbOf(d) = IF IsBracketVerb(d) THEN d.verbIndex ELSE d.verb
  BY DEF VerbOf, IsBracketVerb
<1> HIDE DEF d, l
<1>8. pos' = At(call, k, IF IsBracketVerb(d) THEN 10 ELSE 11)
  BY <1>1, <1>2, <1>4, <1>6, <1>7, Zenon
<1>9. /\ state'.verb = Token
      /\ Noted(state', {d.flag, d.dot} \ {""},
               IF Token = "%" THEN DotReads(d, l) ELSE Append(DotReads(d, l), ValueArg(d, l)),
               ValueArg(d, l), Indexed(d), p)
  BY <1>1, <1>2, <1>3 DEF Noted, StateKeys
<1>10. AllReads(d, l) =
         IF Token = "%" THEN DotReads(d, l) ELSE Append(DotReads(d, l), ValueArg(d, l))
  BY <1>1, <1>2, <1>5
<1>11. Noted(state', {d.flag, d.dot} \ {""}, AllReads(d, l), ValueArg(d, l), Indexed(d), p)
  BY <1>9, <1>10
<1>12. state'.verb = VerbOf(d) /\ VerbOf(d) # ""
  BY <1>1, <1>2, <1>9
<1> QED
  BY <1>2, <1>4, <1>8, <1>11, <1>12, Zenon DEF InCheck, d, l

(* A directive with the value that `%%` does not read.                     *)
LEMMA ValuedIs ==
  ASSUME NEW d \in Directives, VerbOf(d) # ""
  PROVE  LET w == Valued(d) IN
         /\ Indexing(w) /\ VerbOf(w) \notin {"%", ""}
         /\ \A l : ValueArg(w, l) = ValueArg(d, l)
<1> DEFINE w == Valued(d)
<1>1. /\ w.index = d.index /\ w.width = d.width /\ w.dot = d.dot /\ w.dotIndex = d.dotIndex
      /\ w.dotNum = d.dotNum /\ w.verbIndex = d.verbIndex
      /\ w.verb = IF d.verb = "%" THEN "v" ELSE d.verb
  BY DEF Valued, Directives, Parts
<1>2. VerbOf(d) = d.verb \/ d.verb # "%"
  BY DEF Directives
<1>3. d.index \in ItemWords /\ d.dotIndex \in ItemWords /\ d.verbIndex \in ItemWords
  BY FieldsAre, BracketsAre DEF ItemWords
<1>4. "%" \notin ItemWords
  BY BracketsAre DEF ItemWords
<1> HIDE DEF w
<1>5. Pending(w) = Pending(d)
  BY <1>1, Zenon DEF Pending
<1>6. /\ VerbOf(w) = IF Pending(d) # "" /\ d.verbIndex # "" THEN d.verbIndex ELSE w.verb
      /\ VerbOf(d) = IF Pending(d) # "" /\ d.verbIndex # "" THEN d.verbIndex ELSE d.verb
  BY <1>1, <1>5, Zenon DEF VerbOf
<1>7. VerbOf(w) \notin {"%", ""}
  BY <1>1, <1>2, <1>3, <1>4, <1>6
<1>8. \A l : ValueArg(w, l) = ValueArg(d, l)
  BY <1>1, <1>5, Zenon DEF ValueArg, AfterDot, DotArg, AfterWidth, WidthArg
<1>9. Indexing(w)
  BY <1>1, <1>3, Zenon DEF Indexing
<1> QED
  BY <1>7, <1>8, <1>9, Zenon DEF w

Replaced(D, s, k, w, e) ==
  /\ e \in Seq(D \cup {w}) /\ Len(e) = Len(s) /\ e[k] = w
  /\ \A j \in 1 .. Len(s) : j # k => e[j] = s[j]
  /\ \A j \in 1 .. k - 1 : j \in 1 .. Len(s) /\ j # k

(* One element of a sequence replaced.                                     *)
LEMMA ReplaceIs ==
  ASSUME NEW D, NEW s \in Seq(D), NEW k \in 1 .. Len(s), NEW w
  PROVE  Replaced(D, s, k, w, [s EXCEPT ![k] = w])
<1> DEFINE e == [s EXCEPT ![k] = w]
           n == Len(s)
<1>1. n \in Nat /\ DOMAIN s = 1 .. n /\ \A j \in 1 .. n : s[j] \in D
  BY LenProperties
<1>2. /\ DOMAIN e = 1 .. n /\ e[k] = w /\ \A j \in 1 .. n : j # k => e[j] = s[j]
  BY <1>1
<1>3. \A j \in 1 .. n : e[j] \in D \cup {w}
  BY <1>1, <1>2
<1>4. e = [j \in 1 .. n |-> e[j]]
  BY <1>2
<1> HIDE DEF e, n
<1>5. e \in Seq(D \cup {w}) /\ Len(e) = n
  BY <1>1, <1>3, <1>4
<1>6. \A j \in 1 .. k - 1 : j \in 1 .. n /\ j # k
  BY <1>1 DEF n
<1> QED
  BY <1>2, <1>5, <1>6 DEF e, n, Replaced

(* The argument of the value depends on the parts and on what was read     *)
(* before.                                                                 *)
LEMMA ValueAtIs ==
  ASSUME IsCall(call), NEW k \in 1 .. Len(call.format), VerbOf(call.format[k]) # ""
  PROVE  ValueAt(k) = ValueArg(call.format[k], Before(call, k))
<1> DEFINE ds == call.format
           d == ds[k]
           w == Valued(d)
           es == [ds EXCEPT ![k] = w]
           l == Before(call, k)
           D == Directives \cup {w}
<1>1. ds \in Seq(Directives) /\ d \in Directives /\ l \in Nat /\ k \in 1 .. Len(ds)
  BY CallIs
<1>2. Indexing(w) /\ VerbOf(w) \notin {"%", ""} /\ ValueArg(w, l) = ValueArg(d, l)
  BY <1>1, ValuedIs
<1>3. ValueAt(k) = Last(ReadsOf(es, k))
  BY DEF ValueAt
<1>4. \A e \in Directives : Indexing(e)
  BY FieldsAre, BracketsAre DEF Indexing, ItemWords
<1> HIDE DEF w, ds
<1>5. /\ es \in Seq(D) /\ Len(es) = Len(ds) /\ es[k] = w
      /\ \A j \in 1 .. Len(ds) : j # k => es[j] = ds[j]
      /\ \A j \in 1 .. k - 1 : j \in 1 .. Len(ds) /\ j # k
  <2>1. Replaced(Directives, ds, k, w, es)
    BY <1>1, ReplaceIs, Zenon
  <2> QED
    BY <2>1, Zenon DEF Replaced
<1> HIDE DEF es, D
<1>6. \A j \in 1 .. Len(es) : Indexing(es[j])
  <2>1. \A j \in 1 .. Len(ds) : ds[j] \in Directives
    BY <1>1, ElementOfSeq
  <2> QED
    BY <1>2, <1>4, <1>5, <2>1
<1>7. LastOf(es, k - 1) = l
  <2>2. [j \in 1 .. k - 1 |-> Items(es[j])] = [j \in 1 .. k - 1 |-> Items(ds[j])]
    BY <1>5
  <2> QED
    BY <2>2, Zenon DEF LastOf, ItemsOf, Before, ds
<1>8. k \in 1 .. Len(es)
  BY <1>5 DEF ds
<1>9. ReadsOf(es, k) = AllReads(w, l)
  BY <1>5, <1>6, <1>7, <1>8, ReadsOfIs
<1>10. AllReads(w, l) = Append(DotReads(w, l), ValueArg(w, l)) /\ DotReads(w, l) \in Seq(Nat)
  BY <1>1, <1>2, ReadsGrow
<1>11. ValueArg(w, l) \in Nat
  BY <1>1, ArgsAreNumbers
<1>12. Last(Append(DotReads(w, l), ValueArg(w, l))) = ValueArg(w, l)
  BY <1>10, <1>11, LastOfAppend
<1> QED
  BY <1>2, <1>3, <1>9, <1>10, <1>12, Zenon DEF ds

(* What the walk knows when it judges directive k.                         *)
Judging(k) ==
  /\ ~ Unparsed(Directive(k))
  /\ (BadVerb \/ BadFlag) <=> Refused(k)
  /\ Unseen <=> ReadsTooFar(k)
  /\ (FuncValue \/ Recursive \/ state.verb = "w") <=> Unprintable(k)

(* At the check the formatState agrees with the directive.                 *)
LEMMA CheckIs ==
  ASSUME NEW k, Ready(k), InCheck(call, k, pos, state)
  PROVE  LET d == call.format[k] IN
         /\ state.argNums = ReadsAt(k) /\ ReadsAt(k) \in Seq(Nat)
         /\ state.verb = VerbOf(d) /\ VerbOf(d) # ""
         /\ state.argNum = ValueAt(k) /\ ValueAt(k) \in Nat
         /\ state.flags = {d.flag, d.dot} \ {""} /\ state.hasIndex = Indexed(d)
         /\ VerbOf(d) # "%" => Last(state.argNums) = ValueAt(k)
         /\ LastOf(call.format, k) =
              IF state.argNums = <<>> THEN Before(call, k) ELSE Last(state.argNums)
<1> DEFINE d == call.format[k]
           l == Before(call, k)
<1>1. /\ IsCall(call) /\ k \in 1 .. Len(call.format) /\ DOMAIN state = StateKeys
      /\ l \in Nat /\ d \in Directives
  BY ReadyIs, Zenon
<1>2. /\ VerbOf(d) # "" /\ state.verb = VerbOf(d)
      /\ state.argNums = AllReads(d, l) /\ state.argNum = ValueArg(d, l)
      /\ state.flags = {d.flag, d.dot} \ {""} /\ state.hasIndex = Indexed(d)
  BY Zenon DEF InCheck, Noted
<1>3. ReadsAt(k) = AllReads(d, l) /\ LastOf(call.format, k) = AllLast(d, l)
  <2>1. call.format \in Seq(Directives)
    BY <1>1, CallIs
  <2>2. \A e \in Directives : Indexing(e)
    BY FieldsAre, BracketsAre DEF Indexing, ItemWords
  <2>3. \A j \in 1 .. Len(call.format) : Indexing(call.format[j])
    BY <2>1, <2>2
  <2>4. /\ ReadsOf(call.format, k) = AllReads(d, l)
        /\ LastOf(call.format, k) = AllLast(d, l)
    BY <1>1, <2>1, <2>3, ReadsOfIs DEF Before
  <2> QED
    BY <2>4 DEF ReadsAt
<1>4. ValueAt(k) = ValueArg(d, l)
  BY <1>1, <1>2, ValueAtIs
<1>5. /\ WidthReads(d, l) = IF d.width = "*" THEN Append(<<>>, WidthArg(d, l)) ELSE <<>>
      /\ DotReads(d, l) = IF d.dotNum = "*" THEN Append(WidthReads(d, l), DotArg(d, l))
                          ELSE WidthReads(d, l)
      /\ AllReads(d, l) = IF VerbOf(d) \notin {"%", ""} THEN Append(DotReads(d, l), ValueArg(d, l))
                          ELSE DotReads(d, l)
      /\ DotReads(d, l) \in Seq(Nat) /\ AllReads(d, l) \in Seq(Nat)
  BY <1>1, ReadsGrow
<1>6. ValueArg(d, l) \in Nat /\ WidthArg(d, l) \in Nat /\ DotArg(d, l) \in Nat
  BY <1>1, ArgsAreNumbers
<1>7. /\ AllLast(d, l) = IF VerbOf(d) \notin {"%", ""} THEN ValueArg(d, l) ELSE DotLast(d, l)
      /\ DotLast(d, l) = IF d.dotNum = "*" THEN DotArg(d, l) ELSE WidthLast(d, l)
      /\ WidthLast(d, l) = IF d.width = "*" THEN WidthArg(d, l) ELSE l
  BY DEF AllLast, DotLast, WidthLast
<1> HIDE DEF d, l
<1> DEFINE Ends(s, m, x) == x = IF s = <<>> THEN m ELSE Last(s)
<1>8. \A s \in Seq(Nat), x \in Nat : Append(s, x) # <<>> /\ Last(Append(s, x)) = x
  BY LastOfAppend
<1>9. Ends(WidthReads(d, l), l, WidthLast(d, l)) /\ WidthReads(d, l) \in Seq(Nat)
  <2>1. <<>> \in Seq(Nat)
    OBVIOUS
  <2>2. CASE d.width = "*"
    <3>1. WidthReads(d, l) = Append(<<>>, WidthArg(d, l)) /\ WidthLast(d, l) = WidthArg(d, l)
      BY <1>5, <1>7, <2>2, Zenon
    <3>2. Append(<<>>, WidthArg(d, l)) \in Seq(Nat)
      BY <1>6
    <3> QED
      BY <1>6, <1>8, <2>1, <3>1, <3>2, Zenon
  <2>3. CASE d.width # "*"
    <3>1. WidthReads(d, l) = <<>> /\ WidthLast(d, l) = l
      BY <1>5, <1>7, <2>3, Zenon
    <3> QED
      BY <2>1, <3>1, Zenon
  <2> QED
    BY <2>2, <2>3
<1>10. Ends(DotReads(d, l), l, DotLast(d, l))
  BY <1>5, <1>6, <1>7, <1>8, <1>9
<1>11. Ends(AllReads(d, l), l, AllLast(d, l))
  <2>1. CASE VerbOf(d) \notin {"%", ""}
    BY <1>5, <1>6, <1>7, <1>8, <2>1
  <2>2. CASE ~ (VerbOf(d) \notin {"%", ""})
    BY <1>5, <1>7, <1>10, <2>2, Zenon
  <2> QED
    BY <2>1, <2>2
<1>12. VerbOf(d) # "%" => Last(AllReads(d, l)) = ValueArg(d, l)
  <2> SUFFICES ASSUME VerbOf(d) # "%" PROVE Last(AllReads(d, l)) = ValueArg(d, l)
    OBVIOUS
  <2>1. AllReads(d, l) = Append(DotReads(d, l), ValueArg(d, l))
    BY <1>2, <1>5
  <2> QED
    BY <1>5, <1>6, <1>8, <2>1
<1> QED
  BY <1>2, <1>3, <1>4, <1>5, <1>6, <1>11, <1>12, Zenon DEF d, l

(* All but the last of a sequence of numbers are numbers.                  *)
LEMMA FrontIs ==
  ASSUME NEW s \in Seq(Nat)
  PROVE  \A i \in DOMAIN Front(s) : Front(s)[i] \in Nat
<1>1. Len(s) \in Nat /\ \A i \in 1 .. Len(s) : s[i] \in Nat
  BY LenProperties, ElementOfSeq
<1>2. \A i \in 1 .. Len(s) - 1 : s[i] \in Nat
  BY <1>1
<1>3. SubSeq(s, 1, Len(s) - 1) \in Seq(Nat)
  BY <1>1, <1>2, SubSeqProperties
<1> QED
  BY <1>3 DEF Front

(* Numbers beyond what can be checked, in the words of the specification.  *)
LEMMA TooFarIs ==
  ASSUME NEW s, \A i \in DOMAIN s : s[i] \in Nat, Given \in Nat, call.ellipsis \in BOOLEAN
  PROVE  (\E i \in DOMAIN s : ~ CanBeChecked(s[i])) <=> (\E r \in ToSet(s) : r > Known)
<1>1. ASSUME NEW n \in Nat PROVE ~ CanBeChecked(n) <=> n > Known
  BY DEF CanBeChecked, Known, Total, Given
<1>2. ToSet(s) = { s[i] : i \in DOMAIN s }
  BY ToSetIs
<1> QED
  BY <1>1, <1>2

(* okPrintfArg refuses a directive for the reasons the directive gives.    *)
LEMMA JudgingHolds ==
  ASSUME NEW k, Ready(k), InCheck(call, k, pos, state)
  PROVE  Judging(k)
<1> DEFINE d == call.format[k]
           v == VerbOf(d)
           n == ValueAt(k)
           itself == v # "w" /\ n <= Given /\ args[n] = "formatter"
<1>1. /\ IsCall(call) /\ d \in Directives /\ k \in 1 .. Len(call.format)
  BY ReadyIs, Zenon
<1>2. Directive(k) = d /\ Given \in Nat /\ call.ellipsis \in BOOLEAN
  BY <1>1 DEF Directive, Given, args, IsCall
<1>3. /\ state.argNums = ReadsAt(k) /\ ReadsAt(k) \in Seq(Nat)
      /\ state.verb = v /\ v # ""
      /\ state.argNum = n /\ n \in Nat
      /\ state.flags = {d.flag, d.dot} \ {""}
      /\ v # "%" => Last(state.argNums) = n
  BY CheckIs, Zenon
<1>4. d.dot \in {"", "."}
  BY <1>1, FieldsAre
<1>5. ~ Unparsed(d)
  <2>1. IndexesOK(call, d)
    BY Zenon DEF InCheck
  <2> QED
    BY <1>3, <2>1, Zenon DEF IndexesOK, Unparsed, Given, args
<1>6. PrintsItself(k) <=> itself
  BY <1>2, Zenon DEF PrintsItself
<1>7. n < Total <=> n <= Given
  <2>1. Total = Given + 1
    BY DEF Total, Given
  <2>2. n \in Nat /\ Given \in Nat
    BY <1>2, <1>3, Zenon
  <2> HIDE DEF n
  <2> QED
    BY <2>1, <2>2
<1>8. FormatsItself <=> itself
  BY <1>3, <1>7, Zenon DEF FormatsItself
<1> HIDE DEF d, v, n, itself
<1>9. (BadVerb \/ BadFlag) <=> Refused(k)
  <2>1. BadVerb <=> ~ itself /\ v \notin DOMAIN PrintVerbs
    BY <1>3, <1>8, Zenon DEF BadVerb
  <2>2. BadFlag <=> /\ ~ itself /\ v \in DOMAIN PrintVerbs
                    /\ ~ (state.flags \ {"0"} \subseteq PrintVerbs[v])
    BY <1>3, <1>8, <2>1, Zenon DEF BadFlag
  <2>3. state.flags \ {"0"} = {d.flag, d.dot} \ {"", "0"}
    BY <1>3
  <2>4. Refused(k) <=>
          /\ ~ itself
          /\ v \in DOMAIN PrintVerbs => ~ ({d.flag, d.dot} \ {"", "0"} \subseteq PrintVerbs[v])
    BY <1>2, <1>6, Zenon DEF Refused, v
  <2> QED
    BY <2>1, <2>2, <2>3, <2>4, Zenon
<1>10. Unseen <=> ReadsTooFar(k)
  <2> DEFINE s == IF v # "%" /\ itself THEN Front(state.argNums) ELSE state.argNums
  <2>1. Judged = s
    BY <1>3, <1>8, Zenon DEF Judged
  <2>2. (IF PrintsItself(k) /\ VerbOf(Directive(k)) # "%"
         THEN Front(ReadsAt(k)) ELSE ReadsAt(k)) = s
    BY <1>2, <1>3, <1>6, Zenon DEF v
  <2>3. \A i \in DOMAIN s : s[i] \in Nat
    <3>1. state.argNums \in Seq(Nat)
      BY <1>3, Zenon
    <3>2. /\ \A i \in DOMAIN state.argNums : state.argNums[i] \in Nat
          /\ \A i \in DOMAIN Front(state.argNums) : Front(state.argNums)[i] \in Nat
      BY <3>1, FrontIs
    <3> QED
      BY <3>2, Zenon
  <2> HIDE DEF s
  <2>4. (\E i \in DOMAIN s : ~ CanBeChecked(s[i])) <=> (\E r \in ToSet(s) : r > Known)
    BY <1>2, <2>3, TooFarIs, Zenon
  <2>5. Unseen <=> \E i \in DOMAIN s : ~ CanBeChecked(s[i])
    BY <2>1, Zenon DEF Unseen
  <2>6. ReadsTooFar(k) <=> \E r \in ToSet(s) : r > Known
    BY <2>2, Zenon DEF ReadsTooFar
  <2> QED
    BY <2>4, <2>5, <2>6, Zenon
<1>11. (FuncValue \/ Recursive \/ state.verb = "w") <=> Unprintable(k)
  <2>1. \A kind : Seen(kind) <=> v # "%" /\ ~ itself /\ args[n] = kind
    BY <1>3, <1>8, Zenon DEF Seen
  <2>2. "#" \notin state.flags <=> d.flag # "#"
    BY <1>3, <1>4
  <2>3. FuncValue <=> v # "%" /\ ~ itself /\ args[n] = "func" /\ v \notin {"p", "T"}
    BY <1>3, <2>1, Zenon DEF FuncValue
  <2>4. Recursive <=>
          v # "%" /\ ~ itself /\ args[n] = "stringer" /\ v \in StringVerbs /\ d.flag # "#"
    BY <1>3, <2>1, <2>2, Zenon DEF Recursive
  <2>5. v = "w" => v # "%" /\ ~ itself
    BY DEF itself
  <2>6. Unprintable(k) <=>
          /\ v # "%" /\ ~ itself
          /\ \/ v = "w"
             \/ args[n] = "func" /\ v \notin {"p", "T"}
             \/ args[n] = "stringer" /\ v \in StringVerbs /\ d.flag # "#"
    BY <1>2, <1>6, Zenon DEF Unprintable, v, n
  <2> QED
    BY <1>3, <2>3, <2>4, <2>5, <2>6, Zenon
<1> QED
  BY <1>2, <1>5, <1>9, <1>10, <1>11, Zenon DEF Judging

IsMax(h, T) == h \in T /\ \A y \in T : h >= y

(* The numbers of a sequence and one more have a greatest.                 *)
LEMMA MaxExists ==
  ASSUME NEW s \in Seq(Nat), NEW m \in Nat
  PROVE  \E h \in Nat : IsMax(h, ToSet(s) \cup {m})
<1> DEFINE n == Len(s)
           U(a) == {m} \cup { s[i] : i \in { j \in 1 .. n : j <= a } }
           N == { a \in Nat : \E h \in Nat : IsMax(h, U(a)) }
<1>1. n \in Nat /\ DOMAIN s = 1 .. n /\ \A i \in 1 .. n : s[i] \in Nat
  BY LenProperties, ElementOfSeq
<1> HIDE DEF n
<1>2. 0 \in N
  <2>1. U(0) = {m}
    BY <1>1
  <2>2. IsMax(m, U(0))
    BY <2>1 DEF IsMax
  <2> HIDE DEF U
  <2> QED
    BY <2>2
<1>3. ASSUME NEW a \in Nat, a \in N PROVE a + 1 \in N
  <2>1. PICK h \in Nat : IsMax(h, U(a))
    BY <1>3
  <2>2. CASE a + 1 \in 1 .. n
    <3> DEFINE x == s[a + 1]
    <3>1. x \in Nat
      BY <1>1, <2>2
    <3>2. U(a + 1) = U(a) \cup {x}
      <4>1. { j \in 1 .. n : j <= a + 1 } = { j \in 1 .. n : j <= a } \cup {a + 1}
        BY <1>1, <2>2
      <4> QED
        BY <4>1
    <3>3. U(a) \subseteq Nat
      BY <1>1
    <3> HIDE DEF U, x
    <3>4. CASE h >= x
      <4>1. IsMax(h, U(a + 1))
        BY <2>1, <3>2, <3>4 DEF IsMax
      <4> QED
        BY <4>1
    <3>5. CASE ~ (h >= x)
      <4>1. IsMax(x, U(a + 1))
        BY <2>1, <3>1, <3>2, <3>3, <3>5 DEF IsMax
      <4> QED
        BY <3>1, <4>1
    <3> QED
      BY <3>4, <3>5
  <2>3. CASE a + 1 \notin 1 .. n
    <3>1. { j \in 1 .. n : j <= a + 1 } = { j \in 1 .. n : j <= a }
      BY <1>1, <2>3
    <3>2. U(a + 1) = U(a)
      BY <3>1
    <3> HIDE DEF U
    <3> QED
      BY <2>1, <3>2
  <2> QED
    BY <2>2, <2>3
<1> HIDE DEF N
<1>4. n \in N
  BY <1>1, <1>2, <1>3, Induction
<1>5. U(n) = ToSet(s) \cup {m}
  <2>1. { j \in 1 .. n : j <= n } = 1 .. n
    BY <1>1
  <2>2. ToSet(s) = { s[i] : i \in 1 .. n }
    BY <1>1, ToSetIs
  <2> QED
    BY <2>1, <2>2
<1> HIDE DEF U
<1> QED
  BY <1>4, <1>5 DEF N

(* Max is that greatest number.                                            *)
LEMMA MaxIs ==
  ASSUME NEW T, NEW h \in Nat, T \subseteq Nat, IsMax(h, T)
  PROVE  Max(T) = h
<1>1. Max(T) \in T /\ \A y \in T : Max(T) >= y
  BY DEF Max, IsMax
<1>2. Max(T) >= h /\ h >= Max(T) /\ Max(T) \in Nat
  BY <1>1 DEF IsMax
<1> QED
  BY <1>2

(* h is the highest argument that the first k directives read.             *)
IsHighest(h, k) ==
  /\ h \in Nat /\ (h = 0 \/ \E j \in 1 .. k : h \in ToSet(ReadsAt(j)))
  /\ \A j \in 1 .. k : \A r \in ToSet(ReadsAt(j)) : h >= r

(* The first k directives were passed, with these counters.                *)
Passed(k, n, m, any) ==
  /\ k \in 0 .. Len(call.format) /\ \A j \in 1 .. k : ~ Faulty(j)
  /\ n = LastOf(call.format, k) + 1
  /\ m \in Nat /\ m - 1 \in Nat /\ IsHighest(m - 1, k)
  /\ any \in BOOLEAN /\ (any <=> \E j \in 1 .. k : Indexed(call.format[j]))

(* Where the text after directive k is read.                               *)
Scanning(c, k, p) ==
  \/ p = Start(c.format, k + 1)
  \/ k < Len(c.format) /\ p = At(c, k + 1, 2)
  \/ /\ k \in 1 .. Len(c.format) /\ p = At(c, k, 10)
     /\ IsBracketVerb(c.format[k]) /\ c.format[k].verb # ""

InDirective(c, k, f, p, s) ==
  \/ f = "flags" /\ InFlags(c, k, p, s)
  \/ f = "index" /\ InIndex(c, k, p, s)
  \/ f = "width" /\ InWidth(c, k, p, s)
  \/ f = "precision" /\ InPrecision(c, k, p, s)
  \/ f = "dotIndex" /\ InDotIndex(c, k, p, s)
  \/ f = "dotNum" /\ InDotNum(c, k, p, s)
  \/ f = "verbIndex" /\ InVerbIndex(c, k, p, s)
  \/ f = "verb" /\ InVerb(c, k, p, s)
  \/ f = "check" /\ InCheck(c, k, p, s)

Walking(k) == Passed(k, argNum, maxArgNum, anyIndex) /\ reports = <<>>

(* Where the walk is, and what it has found so far.                        *)
WalkInv ==
  /\ IsCall(call)
  /\ \/ pc = "start" /\ pos = 1 /\ Walking(0)
     \/ /\ pc = "scan" /\ call.format # <<>>
        /\ \E k \in 0 .. Len(call.format) : Walking(k) /\ Scanning(call, k, pos)
     \/ \E k \in 1 .. Len(call.format) :
          Walking(k - 1) /\ InDirective(call, k, pc, pos, state)
     \/ pc = "done" /\ (reports # <<>> <=> Complains)

(* A format is a finite sequence of directives.                            *)
LEMMA FormatLength ==
  ASSUME IsCall(call)
  PROVE  call.format \in Seq(Directives) /\ Len(call.format) \in Nat
         /\ DOMAIN call.format = 1 .. Len(call.format)
<1>1. call.format \in Seq(Directives)
  BY DEF IsCall, IsFormat
<1> QED
  BY <1>1

(* A step that leaves the counters alone keeps what was passed.            *)
LEMMA WalkingStays ==
  ASSUME UNCHANGED <<call, argNum, maxArgNum, anyIndex, reports>>, NEW k, Walking(k)
  PROVE  Walking(k)'
<1>1. \A j : Faulty(j)' = Faulty(j) /\ ReadsAt(j)' = ReadsAt(j)
  BY CallStays
<1>2. \A h : IsHighest(h, k)' = IsHighest(h, k)
  BY <1>1 DEF IsHighest
<1>3. Passed(k, argNum, maxArgNum, anyIndex)' = Passed(k, argNum, maxArgNum, anyIndex)
  BY <1>1, <1>2 DEF Passed
<1> QED
  BY <1>3 DEF Walking

(* The first faulty directive decides.                                     *)
LEMMA FaultFound ==
  ASSUME IsCall(call), NEW k \in 1 .. Len(call.format), Walking(k - 1), Faulty(k)
  PROVE  Complains <=> Complaint(k)
<1>1. DOMAIN call.format = 1 .. Len(call.format) /\ Len(call.format) \in Nat
  BY FormatLength
<1>2. call.format # <<>>
  <2>1. Len(<<>>) = 0
    OBVIOUS
  <2> QED
    BY <1>1, <2>1
<1>3. \A j \in 1 .. k - 1 : ~ Faulty(j)
  BY DEF Walking, Passed
<1>4. FirstFaulty(k)
  BY <1>3 DEF FirstFaulty
<1>5. \A j \in 1 .. Len(call.format) : FirstFaulty(j) => j = k
  <2> SUFFICES ASSUME NEW j \in 1 .. Len(call.format), FirstFaulty(j) PROVE j = k
    OBVIOUS
  <2>1. j < k => j \in 1 .. k - 1
    OBVIOUS
  <2>2. k < j => k \in 1 .. j - 1
    OBVIOUS
  <2>3. Faulty(j) /\ \A i \in 1 .. j - 1 : ~ Faulty(i)
    BY DEF FirstFaulty
  <2>4. ~ (j < k) /\ ~ (k < j)
    BY <1>3, <2>1, <2>2, <2>3
  <2> QED
    BY <1>1, <2>4
<1>6. (\E j \in DOMAIN call.format : FirstFaulty(j) /\ Complaint(j)) <=> Complaint(k)
  BY <1>1, <1>4, <1>5, Zenon
<1>7. \E j \in DOMAIN call.format : Faulty(j)
  BY <1>1
<1> QED
  BY <1>2, <1>6, <1>7, Zenon DEF Complains

(* Where the first directive begins, the next one, and the end.            *)
LEMMA StartIs ==
  ASSUME IsCall(call), call.format # <<>>, NEW k \in 0 .. Len(call.format)
  PROVE  /\ Start(call.format, 1) = 1 /\ Len(format) \in Nat
         /\ k < Len(call.format) => /\ k + 1 \in 1 .. Len(call.format) /\ (k + 1) - 1 = k
                                    /\ At(call, k + 1, 1) = Start(call.format, k + 1)
         /\ k = Len(call.format) => Start(call.format, k + 1) = Len(format) + 1
         /\ k \in 1 .. Len(call.format) => At(call, k, 11) = Start(call.format, k + 1)
<1> DEFINE ds == call.format
<1>1. ds \in Seq(Directives) /\ Len(ds) \in Nat /\ format = Render(ds)
  BY FormatLength, FormatIs
<1>2. /\ Len(Render(ds)) \in Nat /\ Start(ds, 1) = 1 /\ Start(ds, Len(ds) + 1) = Len(Render(ds)) + 1
      /\ \A j \in 1 .. Len(ds) :
           Where(ds, j, 1) = Start(ds, j) /\ Where(ds, j, 11) = Start(ds, j + 1)
  BY <1>1, Places
<1>3. k < Len(ds) => k + 1 \in 1 .. Len(ds) /\ (k + 1) - 1 = k
  BY <1>1
<1> QED
  BY <1>1, <1>2, <1>3, Zenon DEF At

(* What is read between the directives.                                    *)
ScanCases(k) ==
  \/ k < Len(call.format) /\ Token = "~" /\ pos + 1 = At(call, k + 1, 2)
  \/ k < Len(call.format) /\ Token = "%" /\ pos + 1 = At(call, k + 1, 3)
  \/ Token \notin {"%", ""} /\ pos + 1 = Start(call.format, k + 1)
  \/ k = Len(call.format) /\ Token = ""

(* What is read between directives: the text before one, its `%`, a verb   *)
(* that is left over because its bracket was taken for the verb, or the    *)
(* end.                                                                    *)
LEMMA ScanIs ==
  ASSUME IsCall(call), call.format # <<>>, NEW k \in 0 .. Len(call.format),
         Scanning(call, k, pos)
  PROVE  ScanCases(k)
<1> DEFINE n == Len(call.format)
<1>1. n \in Nat /\ (k < n \/ k = n)
  BY FormatLength
<1>2. \A i : \A j : pos = At(call, j, i) => Token = Sight(call, j, i)
  BY FormatIs, Zenon DEF Sight
<1>3. k < n => /\ k + 1 \in 1 .. n
               /\ At(call, k + 1, 1) = Start(call.format, k + 1)
               /\ Sight(call, k + 1, 1) = "~" /\ At(call, k + 1, 2) = At(call, k + 1, 1) + 1
               /\ Sight(call, k + 1, 2) = "%" /\ At(call, k + 1, 3) = At(call, k + 1, 2) + 1
  <2> SUFFICES ASSUME k < n
               PROVE  /\ k + 1 \in 1 .. n
                      /\ At(call, k + 1, 1) = Start(call.format, k + 1)
                      /\ Sight(call, k + 1, 1) = "~" /\ At(call, k + 1, 2) = At(call, k + 1, 1) + 1
                      /\ Sight(call, k + 1, 2) = "%" /\ At(call, k + 1, 3) = At(call, k + 1, 2) + 1
    OBVIOUS
  <2>1. k + 1 \in 1 .. n /\ At(call, k + 1, 1) = Start(call.format, k + 1)
    BY StartIs
  <2> QED
    BY <2>1, SightsAre, Zenon
<1>4. CASE pos = Start(call.format, k + 1)
  <2>1. CASE k < n
    BY <1>2, <1>3, <1>4, <2>1, Zenon DEF ScanCases
  <2>2. CASE k = n
    <3>1. pos = Len(format) + 1 /\ Len(format) \in Nat
      BY <1>4, <2>2, StartIs
    <3>2. pos > Len(format)
      BY <3>1
    <3> QED
      BY <2>2, <3>2, Zenon DEF Token, ScanCases
  <2> QED
    BY <1>1, <2>1, <2>2
<1>5. CASE k < n /\ pos = At(call, k + 1, 2)
  BY <1>2, <1>3, <1>5, Zenon DEF ScanCases
<1>6. CASE /\ k \in 1 .. n /\ pos = At(call, k, 10)
           /\ IsBracketVerb(call.format[k]) /\ call.format[k].verb # ""
  <2> DEFINE d == call.format[k]
  <2>1. d \in Directives
    BY <1>6, CallIs
  <2>2. VerbOf(d) = d.verb \/ d.verb # "%"
    BY <2>1, FieldsAre
  <2>3. VerbOf(d) = d.verbIndex
    BY <1>6, Zenon DEF IsBracketVerb, VerbOf
  <2>4. d.verbIndex # "%"
    BY <2>1, FieldsAre
  <2>5. /\ Sight(call, k, 10) = IF d.verb # "" THEN d.verb ELSE Sight(call, k, 11)
        /\ At(call, k, 11) = IF d.verb # "" THEN At(call, k, 10) + 1 ELSE At(call, k, 10)
    BY <1>6, SightsAre, Zenon
  <2>6. At(call, k, 11) = Start(call.format, k + 1)
    BY <1>6, StartIs, Zenon
  <2>7. Token = d.verb /\ pos + 1 = Start(call.format, k + 1)
    BY <1>2, <1>6, <2>5, <2>6, Zenon
  <2>8. Token \notin {"%", ""}
    <3>1. d.verb # "%"
      BY <2>2, <2>3, <2>4, Zenon
    <3> QED
      BY <1>6, <2>7, <3>1, Zenon
  <2> QED
    BY <2>7, <2>8, Zenon DEF ScanCases
<1> QED
  BY <1>4, <1>5, <1>6, Zenon DEF Scanning

(* Passing a token of text stays between the same directives.              *)
LEMMA ScanTextStep ==
  ASSUME IsCall(call), call.format # <<>>, NEW k \in 0 .. Len(call.format),
         Scanning(call, k, pos), ScanText
  PROVE  pc' = "scan" /\ Scanning(call, k, pos')
<1>1. Token \notin {"%", ""} /\ pos' = pos + 1 /\ pc' = "scan"
  BY DEF ScanText
<1>2. ScanCases(k)
  BY ScanIs, Zenon
<1> QED
  BY <1>1, <1>2, Zenon DEF ScanCases, Scanning

(* A fresh formatState has noted nothing.                                  *)
LEMMA NewStateIs ==
  \A n : DOMAIN NewState(n) = StateKeys /\ Noted(NewState(n), {}, <<>>, n, FALSE, FALSE)
BY DEF NewState, Noted, StateKeys

(* At a `%` the next directive begins, with the next argument.             *)
LEMMA DirectiveBegins ==
  ASSUME IsCall(call), call.format # <<>>, NEW k \in 0 .. Len(call.format), Walking(k),
         Scanning(call, k, pos), StartDirective
  PROVE  /\ k + 1 \in 1 .. Len(call.format) /\ (k + 1) - 1 = k
         /\ pc' = "flags" /\ InFlags(call, k + 1, pos', state')
<1>1. Token = "%" /\ pos' = pos + 1 /\ state' = NewState(argNum) /\ pc' = "flags"
  BY DEF StartDirective
<1>2. ScanCases(k)
  BY ScanIs, Zenon
<1>3. k < Len(call.format) /\ pos + 1 = At(call, k + 1, 3)
  BY <1>1, <1>2 DEF ScanCases
<1>4. k + 1 \in 1 .. Len(call.format) /\ (k + 1) - 1 = k
  BY <1>3, StartIs
<1>5. argNum = Before(call, k + 1) + 1
  BY <1>4 DEF Walking, Passed, Before
<1>6. Noted(state', {}, <<>>, Before(call, k + 1) + 1, FALSE, FALSE)
  BY <1>1, <1>5, NewStateIs, Zenon
<1>7. pos' = At(call, k + 1, 3)
  BY <1>1, <1>3, Zenon
<1> QED
  BY <1>1, <1>4, <1>6, <1>7, Zenon DEF InFlags

(* The highest argument that all directives read.                          *)
LEMMA HighestIs ==
  ASSUME IsCall(call), NEW h, IsHighest(h, Len(call.format)),
         \A k \in 1 .. Len(call.format) : ReadsAt(k) \in Seq(Nat)
  PROVE  Highest = h
<1> DEFINE T == {0} \cup UNION { ToSet(ReadsAt(k)) : k \in DOMAIN call.format }
<1>1. DOMAIN call.format = 1 .. Len(call.format)
  BY FormatLength
<1>2. \A k \in 1 .. Len(call.format) : ToSet(ReadsAt(k)) \subseteq Nat
  <2> SUFFICES ASSUME NEW k \in 1 .. Len(call.format) PROVE ToSet(ReadsAt(k)) \subseteq Nat
    OBVIOUS
  <2>1. ReadsAt(k) \in Seq(Nat)
    OBVIOUS
  <2>2. \A i \in DOMAIN ReadsAt(k) : ReadsAt(k)[i] \in Nat
    BY <2>1
  <2> QED
    BY <2>2, ToSetIs
<1>3. T \subseteq Nat
  BY <1>1, <1>2
<1>4. IsMax(h, T)
  <2>1. h \in Nat /\ h >= 0
    BY DEF IsHighest
  <2>2. h \in T /\ \A y \in T : y = 0 \/ h >= y
    BY <1>1 DEF IsHighest
  <2> HIDE DEF T
  <2> QED
    BY <2>1, <2>2 DEF IsMax
<1>5. Highest = Max(T)
  BY DEF Highest
<1> HIDE DEF T
<1> QED
  BY <1>3, <1>4, <1>5, MaxIs DEF IsHighest

(* What a directive of a call reads is a sequence of numbers.              *)
LEMMA ReadsAreNats ==
  ASSUME IsCall(call), NEW k \in 1 .. Len(call.format)
  PROVE  ReadsAt(k) \in Seq(Nat)
<1>1. call.format \in Seq(Directives)
  BY FormatLength
<1>2. \A e \in Directives : Indexing(e)
  BY FieldsAre, BracketsAre DEF Indexing, ItemWords
<1>3. \A j \in 1 .. Len(call.format) : Indexing(call.format[j])
  BY <1>1, <1>2
<1> QED
  BY <1>1, <1>3, ReadsOfIs DEF ReadsAt

(* What a directive without an index reads after l arguments: the next     *)
(* ones, one for each item.                                                *)
ReadsInOrder(d, l) ==
  /\ AllLast(d, l) = l + Len(Items(d)) /\ Len(Items(d)) \in Nat
  /\ \A r \in ToSet(AllReads(d, l)) : r <= AllLast(d, l)
  /\ AllLast(d, l) = l \/ AllLast(d, l) \in ToSet(AllReads(d, l))

(* The numbers after l, up to m. *)
Counts(r, l, m) ==
  r \in Seq(Nat) /\ m = l + Len(r) /\ \A i \in 1 .. Len(r) : r[i] = l + i

(* One more number, or none, is counted on.                                *)
LEMMA CountsOn ==
  ASSUME NEW l \in Nat, NEW m \in Nat, NEW r, Counts(r, l, m), NEW c \in BOOLEAN
  PROVE  Counts(r \o (IF c THEN <<m + 1>> ELSE <<>>), l, IF c THEN m + 1 ELSE m)
<1>1. CASE c
  <2> DEFINE q == r \o <<m + 1>>
  <2>1. r \in Seq(Nat) /\ m = l + Len(r) /\ \A i \in 1 .. Len(r) : r[i] = l + i
    BY DEF Counts
  <2>2. q = Append(r, m + 1)
    BY <2>1, AppendProperties
  <2>3. /\ q \in Seq(Nat) /\ Len(q) = Len(r) + 1 /\ q[Len(r) + 1] = m + 1
        /\ \A i \in 1 .. Len(r) : q[i] = r[i]
    BY <2>1, <2>2, AppendProperties
  <2> HIDE DEF q
  <2>4. \A i \in 1 .. Len(q) : q[i] = l + i
    <3>1. Len(r) \in Nat
      BY <2>1
    <3> SUFFICES ASSUME NEW i \in 1 .. Len(q) PROVE q[i] = l + i
      OBVIOUS
    <3>2. CASE i \in 1 .. Len(r)
      BY <2>1, <2>3, <3>2
    <3>3. CASE i = Len(r) + 1
      BY <2>1, <2>3, <3>1, <3>3
    <3> QED
      BY <2>3, <3>1, <3>2, <3>3
  <2>5. Counts(q, l, m + 1)
    BY <2>1, <2>3, <2>4 DEF Counts
  <2> QED
    BY <1>1, <2>5 DEF q
<1>2. CASE ~ c
  <2>1. r \o <<>> = r
    BY DEF Counts
  <2> QED
    BY <1>2, <2>1
<1> QED
  BY <1>1, <1>2

(* Without an index each item reads the argument after the one before it.  *)
LEMMA InOrder ==
  ASSUME NEW d, Indexing(d), ~ Indexed(d), NEW l \in Nat
  PROVE  ReadsInOrder(d, l)
<1> DEFINE w == d.width = "*"
           p == d.dotNum = "*"
           v == VerbOf(d) \notin {"%", ""}
           a == IF w THEN l + 1 ELSE l
           b == IF p THEN a + 1 ELSE a
           c == IF v THEN b + 1 ELSE b
           reads == (IF w THEN <<l + 1>> ELSE <<>>) \o (IF p THEN <<a + 1>> ELSE <<>>)
                      \o (IF v THEN <<b + 1>> ELSE <<>>)
           items == (IF w THEN <<d.index>> ELSE <<>>) \o (IF p THEN <<DotItem(d)>> ELSE <<>>)
                      \o (IF v THEN <<ValueItem(d)>> ELSE <<>>)
<1>1. d.index = "" /\ d.dotIndex = "" /\ d.verbIndex = ""
  BY Zenon DEF Indexed
<1>2. Pending(d) = ""
  BY <1>1, PendingIs
<1>3. WidthArg(d, l) = l + 1 /\ WidthLast(d, l) = a
  BY <1>1 DEF WidthArg, WidthLast
<1>4. DotArg(d, l) = a + 1 /\ DotLast(d, l) = b
  BY <1>1, <1>3 DEF DotArg, DotLast, AfterWidth
<1>5. ValueArg(d, l) = b + 1 /\ AllLast(d, l) = c
  BY <1>1, <1>2, <1>4 DEF ValueArg, AllLast, AfterDot
<1>6. AllReads(d, l) = reads
  BY <1>3, <1>4, <1>5, Zenon DEF AllReads, DotReads, WidthReads
<1>7. Items(d) = items
  BY ItemsAre, Zenon
<1> HIDE DEF w, p, v
<1>8. Len(items) \in Nat /\ c = l + Len(items)
  OBVIOUS
<1>9. Counts(reads, l, c)
  <2>1. Counts(<<>>, l, l)
    BY DEF Counts
  <2>2. a \in Nat /\ b \in Nat /\ w \in BOOLEAN /\ p \in BOOLEAN /\ v \in BOOLEAN
    BY DEF w, p, v
  <2>3. Counts(<<>> \o (IF w THEN <<l + 1>> ELSE <<>>), l, a)
    BY <2>1, <2>2, CountsOn
  <2>4. <<>> \o (IF w THEN <<l + 1>> ELSE <<>>) = IF w THEN <<l + 1>> ELSE <<>>
    OBVIOUS
  <2>5. Counts((IF w THEN <<l + 1>> ELSE <<>>) \o (IF p THEN <<a + 1>> ELSE <<>>), l, b)
    BY <2>2, <2>3, <2>4, CountsOn
  <2> QED
    BY <2>2, <2>5, CountsOn
<1> HIDE DEF reads, items, c
<1>10. ToSet(reads) = { reads[i] : i \in DOMAIN reads } /\ DOMAIN reads = 1 .. Len(reads)
  BY <1>9, ToSetIs DEF Counts
<1>11. \A r \in ToSet(reads) : r <= c
  BY <1>9, <1>10 DEF Counts
<1>12. c = l \/ c \in ToSet(reads)
  <2> SUFFICES ASSUME c # l PROVE c \in ToSet(reads)
    OBVIOUS
  <2>1. Len(reads) \in 1 .. Len(reads) /\ reads[Len(reads)] = c
    BY <1>9 DEF Counts
  <2> QED
    BY <1>10, <2>1
<1> QED
  BY <1>5, <1>6, <1>7, <1>8, <1>11, <1>12 DEF ReadsInOrder

(* Without indexes the directives read the arguments one after the other:  *)
(* the last one read is the highest and tells their number.                *)
LEMMA ReadInOrder ==
  ASSUME IsCall(call), \A k \in 1 .. Len(call.format) : ~ Indexed(Directive(k)),
         NEW n \in 0 .. Len(call.format)
  PROVE  LastOf(call.format, n) = Len(ItemsOf(call.format, n))
         /\ IsHighest(LastOf(call.format, n), n)
<1> DEFINE ds == call.format
           L(k) == LastOf(ds, k)
           S == { k \in Nat : k <= Len(ds) => /\ L(k) = Len(ItemsOf(ds, k)) /\ L(k) \in Nat
                                              /\ IsHighest(L(k), k) }
<1>1. ds \in Seq(Directives) /\ Len(ds) \in Nat
  BY FormatLength
<1>2. \A e \in Directives : Indexing(e)
  BY FieldsAre, BracketsAre DEF Indexing, ItemWords
<1>3. \A j \in 1 .. Len(ds) : Indexing(ds[j]) /\ ~ Indexed(ds[j])
  BY <1>1, <1>2 DEF Directive
<1>4. L(0) = 0 /\ Len(ItemsOf(ds, 0)) = 0 /\ IsHighest(L(0), 0)
  <2>1. L(0) = 0
    BY LastOfNone
  <2>2. [j \in 1 .. 0 |-> Items(ds[j])] = <<>>
    OBVIOUS
  <2>3. ItemsOf(ds, 0) = <<>>
    BY <2>2, FlattenEmpty DEF ItemsOf
  <2>4. IsHighest(0, 0)
    BY DEF IsHighest
  <2> QED
    BY <2>1, <2>3, <2>4
<1>5. 0 \in S
  BY <1>4
<1>6. ASSUME NEW k \in Nat, k \in S PROVE k + 1 \in S
  <2> SUFFICES ASSUME k + 1 <= Len(ds)
               PROVE  /\ L(k + 1) = Len(ItemsOf(ds, k + 1)) /\ L(k + 1) \in Nat
                      /\ IsHighest(L(k + 1), k + 1)
    OBVIOUS
  <2> DEFINE d == ds[k + 1]
  <2>1. /\ k + 1 \in 1 .. Len(ds) /\ (k + 1) - 1 = k
        /\ L(k) = Len(ItemsOf(ds, k)) /\ L(k) \in Nat /\ IsHighest(L(k), k)
    BY <1>1, <1>6
  <2>2. /\ ItemsOf(ds, k) \in Seq(ItemWords)
        /\ ItemsOf(ds, k + 1) = ItemsOf(ds, k) \o Items(d)
    BY <1>1, <1>3, <2>1, ItemsStep
  <2>3. ReadsOf(ds, k + 1) = AllReads(d, L(k)) /\ L(k + 1) = AllLast(d, L(k))
    BY <1>1, <1>3, <2>1, ReadsOfIs
  <2>4. ReadsInOrder(d, L(k)) /\ Items(d) \in Seq(ItemWords)
    BY <1>3, <2>1, InOrder, ItemsAre
  <2>5. Len(ItemsOf(ds, k + 1)) = L(k) + Len(Items(d))
    BY <2>1, <2>2, <2>4
  <2>6. ReadsAt(k + 1) = AllReads(d, L(k))
    BY <2>3 DEF ReadsAt
  <2> HIDE DEF L, d, ds
  <2>7. L(k + 1) = Len(ItemsOf(ds, k + 1)) /\ L(k + 1) \in Nat /\ L(k) <= L(k + 1)
    BY <2>1, <2>3, <2>4, <2>5 DEF ReadsInOrder
  <2>8. \A r \in ToSet(ReadsAt(k + 1)) : L(k + 1) >= r
    <3>1. \A r \in ToSet(ReadsAt(k + 1)) : r <= L(k + 1)
      BY <2>3, <2>4, <2>6 DEF ReadsInOrder
    <3> QED
      BY <3>1
  <2>9. L(k + 1) = L(k) \/ L(k + 1) \in ToSet(ReadsAt(k + 1))
    BY <2>3, <2>4, <2>6 DEF ReadsInOrder
  <2>10. \A j \in 1 .. k + 1 : j \in 1 .. k \/ j = k + 1
    OBVIOUS
  <2>11. k + 1 \in 1 .. k + 1 /\ \A j \in 1 .. k : j \in 1 .. k + 1
    OBVIOUS
  <2>12. \A j \in 1 .. k : \A r \in ToSet(ReadsAt(j)) : L(k) >= r
    BY <2>1 DEF IsHighest
  <2>13. \A j \in 1 .. k : \A r \in ToSet(ReadsAt(j)) : r \in Nat
    <3> SUFFICES ASSUME NEW j \in 1 .. k, NEW r \in ToSet(ReadsAt(j)) PROVE r \in Nat
      OBVIOUS
    <3>1. j \in 1 .. Len(call.format)
      BY <1>1, <2>1 DEF ds
    <3>2. ReadsAt(j) \in Seq(Nat)
      BY <3>1, ReadsAreNats
    <3>3. \A i \in DOMAIN ReadsAt(j) : ReadsAt(j)[i] \in Nat
      BY <3>2
    <3> QED
      BY <3>3, ToSetIs
  <2>14. \A j \in 1 .. k : \A r \in ToSet(ReadsAt(j)) : L(k + 1) >= r
    BY <2>1, <2>7, <2>12, <2>13
  <2>15. \A j \in 1 .. k + 1 : \A r \in ToSet(ReadsAt(j)) : L(k + 1) >= r
    BY <2>8, <2>10, <2>14
  <2>16. L(k + 1) = 0 \/ \E j \in 1 .. k + 1 : L(k + 1) \in ToSet(ReadsAt(j))
    <3>1. L(k) = 0 \/ \E j \in 1 .. k : L(k) \in ToSet(ReadsAt(j))
      BY <2>1 DEF IsHighest
    <3> QED
      BY <2>9, <2>11, <3>1, Zenon
  <2> QED
    BY <2>7, <2>15, <2>16 DEF IsHighest
<1> HIDE DEF S
<1>7. n \in S
  BY <1>5, <1>6, Induction
<1> QED
  BY <1>1, <1>7 DEF S

(* The first of some directives with a fault.                              *)
LEMMA FirstFault ==
  ASSUME IsCall(call), \E k \in DOMAIN call.format : Faulty(k)
  PROVE  \E k \in DOMAIN call.format : FirstFaulty(k)
<1> DEFINE n == Len(call.format)
           S == { k \in Nat : k <= n => \A j \in 1 .. k : ~ Faulty(j) }
<1>1. DOMAIN call.format = 1 .. n /\ n \in Nat
  BY FormatLength
<1> HIDE DEF n
<1> SUFFICES ASSUME \A k \in DOMAIN call.format : ~ FirstFaulty(k) PROVE FALSE
  OBVIOUS
<1>2. 0 \in S
  OBVIOUS
<1>3. ASSUME NEW k \in Nat, k \in S PROVE k + 1 \in S
  <2> SUFFICES ASSUME k + 1 <= n PROVE \A j \in 1 .. k + 1 : ~ Faulty(j)
    OBVIOUS
  <2>1. \A j \in 1 .. k : ~ Faulty(j)
    BY <1>1, <1>3
  <2>2. k + 1 \in 1 .. n /\ (k + 1) - 1 = k /\ \A j \in 1 .. k + 1 : j \in 1 .. k \/ j = k + 1
    BY <1>1
  <2>3. ~ Faulty(k + 1)
    BY <1>1, <2>1, <2>2 DEF FirstFaulty
  <2> QED
    BY <2>1, <2>2, <2>3
<1> HIDE DEF S
<1>4. n \in S
  BY <1>1, <1>2, <1>3, Induction
<1> QED
  BY <1>1, <1>4 DEF S

(* A call whose format has no index, without `...` and without a fault,    *)
(* has one argument for each `*` and verb.                                 *)
LEMMA FaultlessCounts ==
  ASSUME IsCall(call), ~ call.ellipsis, ~ Complains,
         \A k \in DOMAIN call.format : ~ Indexed(Directive(k))
  PROVE  Given = Len(ItemsOf(call.format, Len(call.format)))
<1> DEFINE n == Len(call.format)
<1>1. DOMAIN call.format = 1 .. n /\ n \in Nat /\ n \in 0 .. n
  BY FormatLength
<1>2. LastOf(call.format, n) = Len(ItemsOf(call.format, n)) /\ IsHighest(LastOf(call.format, n), n)
  BY <1>1, ReadInOrder
<1>3. Highest = Len(ItemsOf(call.format, n))
  BY <1>1, <1>2, HighestIs, ReadsAreNats
<1>4. CASE call.format = <<>>
  <2>1. ~ (Given > 0) /\ Given \in Nat
    <3>1. args \in Seq({"plain", "formatter", "func", "stringer"})
      BY DEF IsCall, args
    <3>2. Given \in Nat
      BY <3>1 DEF Given
    <3> QED
      BY <1>4, <3>2 DEF Complains
  <2>2. n = 0
    BY <1>4
  <2>3. LastOf(call.format, 0) = 0
    BY LastOfNone
  <2> QED
    BY <1>2, <2>1, <2>2, <2>3
<1>5. CASE call.format # <<>>
  <2>1. ~ \E k \in DOMAIN call.format : Faulty(k)
    <3> SUFFICES ASSUME \E k \in DOMAIN call.format : Faulty(k) PROVE FALSE
      OBVIOUS
    <3>1. PICK k \in DOMAIN call.format : FirstFaulty(k)
      BY FirstFault
    <3>2. Complaint(k)
      BY DEF Complaint
    <3> QED
      BY <1>5, <3>1, <3>2, Zenon DEF Complains
  <2>2. ~ WrongCount
    BY <1>5, <2>1, Zenon DEF Complains
  <2>3. Highest = Given
    BY <2>2, Zenon DEF WrongCount
  <2> QED
    BY <1>3, <2>3
<1> QED
  BY <1>4, <1>5

(* A report is one more than none.                                         *)
LEMMA FirstReport == \A x : Append(<<>>, x) # <<>>
OBVIOUS

(* At the end of a format without faults the number of arguments decides.  *)
LEMMA FinishStep ==
  ASSUME IsCall(call), call.format # <<>>, NEW k \in 0 .. Len(call.format), Walking(k),
         Scanning(call, k, pos), Finish
  PROVE  pc' = "done" /\ (reports' # <<>> <=> Complains)
<1> DEFINE e == call.ellipsis
           odd == ~ (e /\ maxArgNum >= Total - 1) /\ ~ anyIndex /\ maxArgNum # Total
<1>1. /\ Token = ""
      /\ IF odd THEN reports' = Append(reports, "argument count") /\ pc' = "done"
         ELSE pc' = "done" /\ reports' = reports
  BY DEF Finish, Report
<1>2. k = Len(call.format)
  <2>1. ScanCases(k)
    BY ScanIs, Zenon
  <2> QED
    BY <1>1, <2>1, Zenon DEF ScanCases
<1>3. /\ \A j \in 1 .. k : ~ Faulty(j)
      /\ maxArgNum \in Nat /\ maxArgNum - 1 \in Nat /\ IsHighest(maxArgNum - 1, k)
      /\ anyIndex <=> \E j \in 1 .. k : Indexed(call.format[j])
      /\ reports = <<>>
  BY DEF Walking, Passed
<1>4. Highest = maxArgNum - 1
  BY <1>2, <1>3, HighestIs, ReadsAreNats
<1>5. DOMAIN call.format = 1 .. k /\ Given \in Nat /\ Total = Given + 1
  BY <1>2, FormatLength DEF IsCall, Given, Total, args
<1>6. Complains <=> WrongCount
  BY <1>3, <1>5, Zenon DEF Complains
<1>7. WrongCount <=>
        Highest # Given /\ ~ (e /\ Highest >= Given - 1) /\ ~ anyIndex
  BY <1>3, <1>5, Zenon DEF WrongCount, Directive
<1>8. /\ Highest # Given <=> maxArgNum # Total
      /\ Highest >= Given - 1 <=> maxArgNum >= Total - 1
  BY <1>3, <1>4, <1>5
<1>9. odd <=> Complains
  BY <1>6, <1>7, <1>8, Zenon
<1> HIDE DEF odd
<1> QED
  BY <1>1, <1>3, <1>9, FirstReport, Zenon

(* What every step from inside a directive starts from.                    *)
Inside(k) ==
  IsCall(call) /\ k \in 1 .. Len(call.format) /\ Walking(k - 1) /\ DOMAIN state = StateKeys

(* What Inside says, unfolded.                                             *)
LEMMA InsideIs ==
  ASSUME NEW k, Inside(k)
  PROVE  /\ Ready(k) /\ IsCall(call) /\ k \in 1 .. Len(call.format) /\ Walking(k - 1)
         /\ reports = <<>> /\ Directive(k) = call.format[k]
BY DEF Inside, Ready, Walking, Directive

Quiet == UNCHANGED <<call, argNum, maxArgNum, anyIndex, reports>>

(* A step from one function of the parser to the next keeps the invariant. *)
LEMMA StaysInside ==
  ASSUME NEW k, Inside(k), Quiet, InDirective(call, k, pc', pos', state')
  PROVE  WalkInv'
<1>1. Walking(k - 1)'
  BY InsideIs, WalkingStays DEF Quiet
<1>2. IsCall(call)' /\ k \in 1 .. Len(call'.format) /\ InDirective(call, k, pc, pos, state)'
  BY InsideIs DEF Quiet
<1> QED
  BY <1>1, <1>2 DEF WalkInv

(* A step that ends the check after a faulty directive.                    *)
LEMMA EndsRightly ==
  ASSUME NEW k, Inside(k), Faulty(k), call' = call, pc' = "done",
         reports' # <<>> <=> Complaint(k)
  PROVE  WalkInv'
<1>1. Complains <=> Complaint(k)
  BY InsideIs, FaultFound
<1>2. Complains' = Complains
  BY CallStays
<1>3. IsCall(call)' /\ (reports # <<>> <=> Complains)'
  BY <1>1, <1>2, InsideIs
<1> QED
  BY <1>3 DEF WalkInv

(* A directive that cannot be parsed is complained of.                     *)
LEMMA UnparsedEnds ==
  ASSUME NEW k, Inside(k), Unparsed(Directive(k)), NEW what, Report(what), call' = call
  PROVE  WalkInv'
<1>1. Faulty(k) /\ Complaint(k)
  BY DEF Faulty, Complaint
<1>2. pc' = "done" /\ reports' # <<>>
  BY InsideIs, FirstReport DEF Report
<1> QED
  BY <1>1, <1>2, EndsRightly

(* A bad index is reported.                                                *)
LEMMA BadIndexReports ==
  ASSUME NEW from, BadIndex(from)
  PROVE  call' = call /\ pc = from /\ \E what : Report(what)
BY DEF BadIndex, AtIndex

(* One step from parseFlags.                                               *)
LEMMA FlagsWalk ==
  ASSUME NEW k, Inside(k), pc = "flags", InFlags(call, k, pos, state), Next
  PROVE  WalkInv'
<1>1. ParseFlags
  BY DEF Next, NoDirectives, Begin, ScanText, StartDirective, NoIndex, Index, BadIndex, AtIndex,
         Star, Digits, ParsePrecision, NoVerb, ParseVerb, RejectVerb, RejectReads, RejectValue,
         RejectWrapping, NextDirective, Finish, GoodDirective, GoodArgs, GoodVerb
<1>2. pc' = "index" /\ InIndex(call, k, pos', state')
  BY <1>1, InsideIs, FlagsStep
<1>3. Quiet
  BY <1>1 DEF ParseFlags, Quiet
<1> QED
  BY <1>2, <1>3, StaysInside, Zenon DEF InDirective

(* One step from the index before the width.                               *)
LEMMA IndexWalk ==
  ASSUME NEW k, Inside(k), pc = "index", InIndex(call, k, pos, state), Next
  PROVE  WalkInv'
<1>1. NoIndex("index", "width") \/ Index("index", "width") \/ BadIndex("index")
  BY DEF Next, NoDirectives, Begin, ScanText, StartDirective, ParseFlags, NoIndex, Index,
         BadIndex, AtIndex, Star, Digits, ParsePrecision, NoVerb, ParseVerb, RejectVerb,
         RejectReads, RejectValue, RejectWrapping, NextDirective, Finish, GoodDirective,
         GoodArgs, GoodVerb
<1>2. CASE BadIndex("index")
  BY <1>2, InsideIs, IndexIsBad, BadIndexReports, UnparsedEnds
<1>3. CASE NoIndex("index", "width") \/ Index("index", "width")
  <2>1. pc' = "width" /\ InWidth(call, k, pos', state')
    BY <1>3, InsideIs, IndexIsRead, IndexIsNot
  <2>2. Quiet
    BY <1>3 DEF NoIndex, Index, Quiet
  <2> QED
    BY <2>1, <2>2, StaysInside, Zenon DEF InDirective
<1> QED
  BY <1>1, <1>2, <1>3

(* One step from the width.                                                *)
LEMMA WidthWalk ==
  ASSUME NEW k, Inside(k), pc = "width", InWidth(call, k, pos, state), Next
  PROVE  WalkInv'
<1>1. Star("width", "precision") \/ Digits("width", "precision")
  BY DEF Next, NoDirectives, Begin, ScanText, StartDirective, ParseFlags, NoIndex, Index,
         BadIndex, AtIndex, Star, Digits, ParsePrecision, NoVerb, ParseVerb, RejectVerb,
         RejectReads, RejectValue, RejectWrapping, NextDirective, Finish, GoodDirective,
         GoodArgs, GoodVerb
<1>2. pc' = "precision" /\ InPrecision(call, k, pos', state')
  BY <1>1, InsideIs, WidthStar, WidthDigits
<1>3. Quiet
  BY <1>1 DEF Star, Digits, Quiet
<1> QED
  BY <1>2, <1>3, StaysInside, Zenon DEF InDirective

(* One step from parsePrecision.                                           *)
LEMMA PrecisionWalk ==
  ASSUME NEW k, Inside(k), pc = "precision", InPrecision(call, k, pos, state), Next
  PROVE  WalkInv'
<1>1. ParsePrecision
  BY DEF Next, NoDirectives, Begin, ScanText, StartDirective, ParseFlags, NoIndex, Index,
         BadIndex, AtIndex, Star, Digits, NoVerb, ParseVerb, RejectVerb, RejectReads,
         RejectValue, RejectWrapping, NextDirective, Finish, GoodDirective, GoodArgs, GoodVerb
<1>2. \/ pc' = "dotIndex" /\ InDotIndex(call, k, pos', state')
      \/ pc' = "verbIndex" /\ InVerbIndex(call, k, pos', state')
  BY <1>1, InsideIs, PrecisionStep
<1>3. Quiet
  BY <1>1 DEF ParsePrecision, Quiet
<1> QED
  BY <1>2, <1>3, StaysInside, Zenon DEF InDirective

(* One step from the index behind the dot.                                 *)
LEMMA DotIndexWalk ==
  ASSUME NEW k, Inside(k), pc = "dotIndex", InDotIndex(call, k, pos, state), Next
  PROVE  WalkInv'
<1>1. NoIndex("dotIndex", "dotNum") \/ Index("dotIndex", "dotNum") \/ BadIndex("dotIndex")
  BY DEF Next, NoDirectives, Begin, ScanText, StartDirective, ParseFlags, NoIndex, Index,
         BadIndex, AtIndex, Star, Digits, ParsePrecision, NoVerb, ParseVerb, RejectVerb,
         RejectReads, RejectValue, RejectWrapping, NextDirective, Finish, GoodDirective,
         GoodArgs, GoodVerb
<1>2. CASE BadIndex("dotIndex")
  BY <1>2, InsideIs, DotIndexIsBad, BadIndexReports, UnparsedEnds
<1>3. CASE NoIndex("dotIndex", "dotNum") \/ Index("dotIndex", "dotNum")
  <2>1. pc' = "dotNum" /\ InDotNum(call, k, pos', state')
    BY <1>3, InsideIs, DotIndexIsRead, DotIndexIsNot
  <2>2. Quiet
    BY <1>3 DEF NoIndex, Index, Quiet
  <2> QED
    BY <2>1, <2>2, StaysInside, Zenon DEF InDirective
<1> QED
  BY <1>1, <1>2, <1>3

(* One step from the number behind the dot.                                *)
LEMMA DotNumWalk ==
  ASSUME NEW k, Inside(k), pc = "dotNum", InDotNum(call, k, pos, state), Next
  PROVE  WalkInv'
<1>1. Star("dotNum", "verbIndex") \/ Digits("dotNum", "verbIndex")
  BY DEF Next, NoDirectives, Begin, ScanText, StartDirective, ParseFlags, NoIndex, Index,
         BadIndex, AtIndex, Star, Digits, ParsePrecision, NoVerb, ParseVerb, RejectVerb,
         RejectReads, RejectValue, RejectWrapping, NextDirective, Finish, GoodDirective,
         GoodArgs, GoodVerb
<1>2. pc' = "verbIndex" /\ InVerbIndex(call, k, pos', state')
  BY <1>1, InsideIs, DotStar, DotDigits
<1>3. Quiet
  BY <1>1 DEF Star, Digits, Quiet
<1> QED
  BY <1>2, <1>3, StaysInside, Zenon DEF InDirective

(* One step from the index before the verb.                                *)
LEMMA VerbIndexWalk ==
  ASSUME NEW k, Inside(k), pc = "verbIndex", InVerbIndex(call, k, pos, state), Next
  PROVE  WalkInv'
<1>1. NoIndex("verbIndex", "verb") \/ Index("verbIndex", "verb") \/ BadIndex("verbIndex")
  BY DEF Next, NoDirectives, Begin, ScanText, StartDirective, ParseFlags, NoIndex, Index,
         BadIndex, AtIndex, Star, Digits, ParsePrecision, NoVerb, ParseVerb, RejectVerb,
         RejectReads, RejectValue, RejectWrapping, NextDirective, Finish, GoodDirective,
         GoodArgs, GoodVerb
<1>2. CASE BadIndex("verbIndex")
  BY <1>2, InsideIs, VerbIndexIsBad, BadIndexReports, UnparsedEnds
<1>3. CASE NoIndex("verbIndex", "verb") \/ Index("verbIndex", "verb")
  <2>1. pc' = "verb" /\ InVerb(call, k, pos', state')
    BY <1>3, InsideIs, VerbIndexIsRead, VerbIndexIsNot
  <2>2. Quiet
    BY <1>3 DEF NoIndex, Index, Quiet
  <2> QED
    BY <2>1, <2>2, StaysInside, Zenon DEF InDirective
<1> QED
  BY <1>1, <1>2, <1>3

(* One step from parseVerb.                                                *)
LEMMA VerbWalk ==
  ASSUME NEW k, Inside(k), pc = "verb", InVerb(call, k, pos, state), Next
  PROVE  WalkInv'
<1>1. NoVerb \/ ParseVerb
  BY DEF Next, NoDirectives, Begin, ScanText, StartDirective, ParseFlags, NoIndex, Index,
         BadIndex, AtIndex, Star, Digits, ParsePrecision, RejectVerb, RejectReads, RejectValue,
         RejectWrapping, NextDirective, Finish, GoodDirective, GoodArgs, GoodVerb
<1>2. CASE NoVerb
  <2>1. call' = call /\ Report("missing verb")
    BY <1>2 DEF NoVerb
  <2> QED
    BY <1>2, <2>1, InsideIs, VerbIsMissing, UnparsedEnds
<1>3. CASE ParseVerb
  <2>1. pc' = "check" /\ InCheck(call, k, pos', state')
    BY <1>3, InsideIs, VerbStep
  <2>2. Quiet
    BY <1>3 DEF ParseVerb, Quiet
  <2> QED
    BY <2>1, <2>2, StaysInside, Zenon DEF InDirective
<1> QED
  BY <1>1, <1>2, <1>3

(* The highest argument after one directive more.                          *)
LEMMA HighestGrows ==
  ASSUME NEW n \in Nat, NEW k \in 1 .. n, NEW m, NEW h, IsHighest(m, k - 1),
         ReadsAt(k) \in Seq(Nat), IsMax(h, ToSet(ReadsAt(k)) \cup {m}), h \in Nat
  PROVE  IsHighest(h, k)
<1>1. \A j : j \in 1 .. k <=> j \in 1 .. k - 1 \/ j = k
  OBVIOUS
<1>2. \A r \in ToSet(ReadsAt(k)) : r \in Nat
  BY ToSetIs
<1>3. m \in Nat /\ h >= m /\ \A r \in ToSet(ReadsAt(k)) : h >= r
  BY DEF IsMax, IsHighest
<1>4. \A j \in 1 .. k - 1 : \A r \in ToSet(ReadsAt(j)) : m >= r
  BY DEF IsHighest
<1>5. \A j \in 1 .. k : \A r \in ToSet(ReadsAt(j)) : r \in Nat => h >= r
  BY <1>1, <1>3, <1>4
<1> QED
  BY <1>1, <1>3, <1>4, <1>5 DEF IsMax, IsHighest

(* After its check the walk is behind the directive, or at a verb left     *)
(* over.                                                                   *)
LEMMA AfterCheck ==
  ASSUME IsCall(call), NEW k \in 1 .. Len(call.format), InCheck(call, k, pos, state)
  PROVE  Scanning(call, k, pos)
<1> DEFINE d == call.format[k]
<1>1. pos = At(call, k, IF IsBracketVerb(d) THEN 10 ELSE 11)
  BY Zenon DEF InCheck
<1>2. At(call, k, 11) = IF d.verb # "" THEN At(call, k, 10) + 1 ELSE At(call, k, 10)
  BY SightsAre, Zenon
<1>3. At(call, k, 11) = Start(call.format, k + 1)
  <2>1. call.format # <<>> /\ k \in 0 .. Len(call.format)
    BY CallIs
  <2> QED
    BY <2>1, StartIs, Zenon
<1> QED
  BY <1>1, <1>2, <1>3, Zenon DEF Scanning

(* A directive without a fault is passed, and the counters are brought up  *)
(* to it.                                                                  *)
LEMMA DirectivePassed ==
  ASSUME NEW k, Inside(k), InCheck(call, k, pos, state), ~ Faulty(k), NextDirective
  PROVE  WalkInv'
<1> DEFINE s == state.argNums
           m == maxArgNum - 1
           h == Max(ToSet(s) \cup {m})
<1>1. /\ IsCall(call) /\ k \in 1 .. Len(call.format) /\ Ready(k) /\ reports = <<>>
      /\ Passed(k - 1, argNum, maxArgNum, anyIndex)
  BY InsideIs DEF Walking
<1>2. /\ call' = call /\ pos' = pos /\ reports' = reports /\ pc' = "scan"
      /\ anyIndex' = (anyIndex \/ state.hasIndex)
      /\ argNum' = IF s = <<>> THEN argNum ELSE Last(s) + 1
      /\ maxArgNum' = h + 1
  BY DEF NextDirective
<1>3. /\ s = ReadsAt(k) /\ s \in Seq(Nat) /\ state.hasIndex = Indexed(call.format[k])
      /\ LastOf(call.format, k) = IF s = <<>> THEN Before(call, k) ELSE Last(s)
  BY <1>1, CheckIs, Zenon
<1>4. Len(call.format) \in Nat
  BY <1>1, FormatLength
<1>5. \A j : j \in 1 .. k <=> j \in 1 .. k - 1 \/ j = k
  BY <1>1, <1>4
<1>6. \A j \in 1 .. k : ~ Faulty(j)
  BY <1>1, <1>5 DEF Passed
<1>7. argNum' = LastOf(call.format, k) + 1
  BY <1>1, <1>2, <1>3, Zenon DEF Passed, Before
<1>8. h \in Nat /\ IsMax(h, ToSet(s) \cup {m}) /\ IsHighest(m, k - 1)
  <2>1. m \in Nat /\ IsHighest(m, k - 1)
    BY <1>1 DEF Passed
  <2>2. PICK x \in Nat : IsMax(x, ToSet(s) \cup {m})
    BY <1>3, <2>1, MaxExists
  <2>3. ToSet(s) \cup {m} \subseteq Nat
    BY <1>3, <2>1, ToSetIs
  <2>4. h = x
    BY <2>2, <2>3, MaxIs
  <2> QED
    BY <2>1, <2>2, <2>4
<1> HIDE DEF h
<1>9. maxArgNum' \in Nat /\ maxArgNum' - 1 \in Nat /\ maxArgNum' - 1 = h
  BY <1>2, <1>8
<1>10. IsHighest(h, k)
  BY <1>1, <1>3, <1>4, <1>8, HighestGrows
<1>11. anyIndex' \in BOOLEAN /\ (anyIndex' <=> \E j \in 1 .. k : Indexed(call.format[j]))
  <2>1. anyIndex \in BOOLEAN /\ (anyIndex <=> \E j \in 1 .. k - 1 : Indexed(call.format[j]))
    BY <1>1, Zenon DEF Passed
  <2>2. anyIndex' <=> anyIndex \/ Indexed(call.format[k])
    BY <1>2, <1>3, Zenon
  <2>3. anyIndex' \in BOOLEAN
    BY <1>2, Zenon
  <2> QED
    BY <1>5, <2>1, <2>2, <2>3, Zenon
<1>12. k \in 0 .. Len(call.format)
  BY <1>1, <1>4
<1>13. Passed(k, argNum', maxArgNum', anyIndex')
  BY <1>6, <1>7, <1>9, <1>10, <1>11, <1>12, Zenon DEF Passed
<1>14. Walking(k)'
  <2>1. \A j : Faulty(j)' = Faulty(j) /\ ReadsAt(j)' = ReadsAt(j)
    BY <1>2, CallStays
  <2>2. \A x : IsHighest(x, k)' = IsHighest(x, k)
    BY <2>1 DEF IsHighest
  <2>3. Passed(k, argNum, maxArgNum, anyIndex)' <=> Passed(k, argNum', maxArgNum', anyIndex')
    BY <1>2, <2>1, <2>2 DEF Passed
  <2> QED
    BY <1>1, <1>2, <1>13, <2>3 DEF Walking
<1>15. Scanning(call, k, pos)
  BY <1>1, AfterCheck
<1>16. /\ IsCall(call)' /\ k \in 0 .. Len(call'.format) /\ Scanning(call, k, pos)'
       /\ call'.format # <<>>
  BY <1>1, <1>2, <1>12, <1>15, CallIs
<1> QED
  BY <1>2, <1>14, <1>16 DEF WalkInv

(* One step from okPrintfArg and its caller.                               *)
LEMMA CheckWalk ==
  ASSUME NEW k, Inside(k), pc = "check", InCheck(call, k, pos, state), Next
  PROVE  WalkInv'
<1>1. RejectVerb \/ RejectReads \/ RejectValue \/ RejectWrapping \/ NextDirective
  BY DEF Next, NoDirectives, Begin, ScanText, StartDirective, ParseFlags, NoIndex, Index,
         BadIndex, AtIndex, Star, Digits, ParsePrecision, NoVerb, ParseVerb, Finish
<1>2. /\ ~ Unparsed(Directive(k))
      /\ (BadVerb \/ BadFlag) <=> Refused(k)
      /\ Unseen <=> ReadsTooFar(k)
      /\ (FuncValue \/ Recursive \/ state.verb = "w") <=> Unprintable(k)
  BY InsideIs, JudgingHolds, Zenon DEF Judging
<1>3. reports = <<>> /\ \A what : Report(what) => pc' = "done" /\ reports' # <<>>
  BY InsideIs, FirstReport DEF Report
<1>4. CASE RejectVerb
  <2>1. (BadVerb \/ BadFlag) /\ call' = call /\ \E what : Report(what)
    BY <1>4 DEF RejectVerb
  <2>2. Faulty(k) /\ Complaint(k)
    BY <1>2, <2>1, Zenon DEF Faulty, Complaint
  <2> QED
    BY <1>3, <2>1, <2>2, EndsRightly
<1>5. CASE RejectReads
  <2>1. ~ BadVerb /\ ~ BadFlag /\ Unseen /\ call' = call
    BY <1>5 DEF RejectReads, GoodVerb
  <2>2. Faulty(k) /\ (Complaint(k) <=> ~ call.ellipsis)
    BY <1>2, <2>1, Zenon DEF Faulty, Complaint
  <2>3. CASE call.ellipsis
    <3>1. pc' = "done" /\ reports' = reports
      BY <1>5, <2>3 DEF RejectReads
    <3> QED
      BY <1>3, <2>1, <2>2, <2>3, <3>1, EndsRightly
  <2>4. CASE ~ call.ellipsis
    <3>1. Report("missing argument")
      BY <1>5, <2>4 DEF RejectReads
    <3> QED
      BY <1>3, <2>1, <2>2, <2>4, <3>1, EndsRightly
  <2> QED
    BY <2>3, <2>4
<1>6. CASE RejectValue \/ RejectWrapping
  <2>1. /\ ~ Unseen /\ (FuncValue \/ Recursive \/ state.verb = "w")
        /\ call' = call /\ \E what : Report(what)
    BY <1>6 DEF RejectValue, RejectWrapping, GoodDirective, GoodArgs
  <2>2. Faulty(k) /\ Complaint(k)
    BY <1>2, <2>1, Zenon DEF Faulty, Complaint
  <2> QED
    BY <1>3, <2>1, <2>2, EndsRightly
<1>7. CASE NextDirective
  <2>1. /\ ~ BadVerb /\ ~ BadFlag /\ ~ Unseen /\ ~ FuncValue /\ ~ Recursive
        /\ state.verb # "w"
    BY <1>7 DEF NextDirective, GoodDirective, GoodArgs, GoodVerb
  <2>2. ~ Faulty(k)
    BY <1>2, <2>1, Zenon DEF Faulty
  <2> QED
    BY <1>7, <2>2, DirectivePassed
<1> QED
  BY <1>1, <1>4, <1>5, <1>6, <1>7

(* The first position holds text; the second, in a format with a           *)
(* directive, the first `%`.                                               *)
LEMMA PercentIs ==
  ASSUME IsCall(call)
  PROVE  "%" \in ToSet(format) <=> call.format # <<>>
<1>1. CASE call.format = <<>>
  <2>1. format = <<"~">> /\ DOMAIN <<"~">> = {1} /\ <<"~">>[1] = "~"
    BY <1>1 DEF format
  <2>2. ToSet(format) = {"~"}
    BY <2>1, ToSetIs
  <2> QED
    BY <1>1, <2>2
<1>2. CASE call.format # <<>>
  <2>1. call.format \in Seq(Directives) /\ Len(call.format) \in Nat
    BY FormatLength
  <2>2. 1 \in 1 .. Len(call.format)
    <3>1. Len(call.format) # 0
      BY <1>2, <2>1, EmptySeq
    <3> QED
      BY <2>1, <3>1
  <2>3. Sight(call, 1, 2) = "%"
    BY <2>2, SightsAre, Zenon
  <2>4. /\ format = Render(call.format) /\ Len(format) \in Nat
        /\ \A i \in 1 .. 10 : FieldFits(call.format, 1, i)
    BY <1>2, <2>1, <2>2, FormatIs, Places
  <2>5. At(call, 1, 2) \in Nat \ {0}
    <3>1. 2 \in 1 .. 10
      OBVIOUS
    <3> QED
      BY <2>4, <3>1, Zenon DEF FieldFits, At
  <2> DEFINE p == At(call, 1, 2)
  <2>6. TokenAt(call.format, p) = "%"
    BY <2>3, Zenon DEF Sight
  <2> HIDE DEF p
  <2>7. p <= Len(format) /\ format[p] = "%"
    <3>1. p \in Nat
      BY <2>5 DEF p
    <3>2. "%" # ""
      OBVIOUS
    <3> QED
      BY <2>4, <2>6, <3>1, <3>2, TokenInFormat, Zenon
  <2>8. DOMAIN format = 1 .. Len(format)
    BY <2>1, <2>4, RenderIsSeq, Zenon
  <2>9. p \in DOMAIN format
    BY <2>4, <2>5, <2>7, <2>8 DEF p
  <2> QED
    BY <1>2, <2>7, <2>9, ToSetIs
<1> QED
  BY <1>1, <1>2

(* Nothing is passed at the start.                                         *)
LEMMA EnteringWalk == Entering => WalkInv
<1> SUFFICES ASSUME Entering PROVE WalkInv
  OBVIOUS
<1>1. IsCall(call)
  BY DEF Entering
<1>2. /\ pc = "start" /\ pos = 1 /\ argNum = 1 /\ maxArgNum = 1 /\ anyIndex = FALSE
      /\ reports = <<>>
  BY DEF Entering
<1>3. \A j : j \notin 1 .. 0
  OBVIOUS
<1>4. LastOf(call.format, 0) = 0 /\ 0 \in 0 .. Len(call.format)
  BY <1>1, FormatLength, LastOfNone
<1>5. argNum = LastOf(call.format, 0) + 1 /\ maxArgNum \in Nat /\ maxArgNum - 1 = 0
  BY <1>2, <1>4
<1>6. IsHighest(0, 0)
  BY <1>3 DEF IsHighest
<1>7. maxArgNum - 1 \in Nat /\ IsHighest(maxArgNum - 1, 0)
  BY <1>5, <1>6
<1>8. anyIndex \in BOOLEAN /\ (anyIndex <=> \E j \in 1 .. 0 : Indexed(call.format[j]))
  BY <1>2, <1>3
<1>9. Passed(0, argNum, maxArgNum, anyIndex)
  BY <1>3, <1>4, <1>5, <1>7, <1>8, Zenon DEF Passed
<1> QED
  BY <1>1, <1>2, <1>9 DEF WalkInv, Walking

(* The invariant of the walk holds at the start.                           *)
LEMMA InitWalk == Init => WalkInv
BY InitEnters, EnteringWalk

(* The first step: the walk begins if there is a directive.                *)
LEMMA StartWalk ==
  ASSUME IsCall(call), pc = "start", pos = 1, Walking(0), Next
  PROVE  WalkInv'
<1>1. NoDirectives \/ Begin
  BY DEF Next, ScanText, StartDirective, ParseFlags, NoIndex, Index, BadIndex, AtIndex, Star,
         Digits, ParsePrecision, NoVerb, ParseVerb, RejectVerb, RejectReads, RejectValue,
         RejectWrapping, NextDirective, Finish, GoodDirective, GoodArgs, GoodVerb
<1>2. "%" \in ToSet(format) <=> call.format # <<>>
  BY PercentIs
<1>3. CASE NoDirectives
  <2>1. call.format = <<>> /\ call' = call /\ pc' = "done"
    BY <1>2, <1>3 DEF NoDirectives, Report
  <2>2. reports = <<>> /\ IF args # <<>> THEN reports' = Append(reports, "no directives")
                          ELSE reports' = reports
    BY <1>3 DEF NoDirectives, Report, Walking
  <2>3. args # <<>> <=> Given > 0
    <3>1. args \in Seq({"plain", "formatter", "func", "stringer"})
      BY DEF IsCall, args
    <3>2. Given \in Nat /\ (args = <<>> <=> Given = 0)
      BY <3>1, EmptySeq DEF Given
    <3> QED
      BY <3>2
  <2>4. Complains <=> Given > 0
    BY <2>1, Zenon DEF Complains
  <2>5. reports' # <<>> <=> Complains
    BY <2>2, <2>3, <2>4, FirstReport, Zenon
  <2>6. IsCall(call)' /\ (reports # <<>> <=> Complains)'
    BY <2>1, <2>5, CallStays
  <2> QED
    BY <2>1, <2>6 DEF WalkInv
<1>4. CASE Begin
  <2>1. /\ call.format # <<>> /\ pc' = "scan"
        /\ UNCHANGED <<call, pos, argNum, maxArgNum, anyIndex, reports>>
    BY <1>2, <1>4 DEF Begin
  <2>2. 0 \in 0 .. Len(call.format) /\ 0 + 1 = 1
    BY FormatLength
  <2>3. Scanning(call, 0, pos)
    BY <2>1, <2>2, StartIs DEF Scanning
  <2>4. Walking(0)'
    BY <2>1, WalkingStays
  <2>5. IsCall(call)' /\ 0 \in 0 .. Len(call'.format) /\ Scanning(call, 0, pos)'
    BY <2>1, <2>2, <2>3
  <2> QED
    BY <2>1, <2>4, <2>5 DEF WalkInv
<1> QED
  BY <1>1, <1>3, <1>4

(* The walk only begins when there is a directive.                         *)
LEMMA ScanWalk ==
  ASSUME IsCall(call), pc = "scan", NEW k \in 0 .. Len(call.format), Walking(k),
         Scanning(call, k, pos), call.format # <<>>, Next
  PROVE  WalkInv'
<1>1. ScanText \/ StartDirective \/ Finish
  BY DEF Next, NoDirectives, Begin, ParseFlags, NoIndex, Index, BadIndex, AtIndex, Star,
         Digits, ParsePrecision, NoVerb, ParseVerb, RejectVerb, RejectReads, RejectValue,
         RejectWrapping, NextDirective, GoodDirective, GoodArgs, GoodVerb
<1>2. CASE ScanText
  <2>1. pc' = "scan" /\ Scanning(call, k, pos')
    BY <1>2, ScanTextStep
  <2>2. UNCHANGED <<call, argNum, maxArgNum, anyIndex, reports>>
    BY <1>2 DEF ScanText
  <2>3. Walking(k)'
    BY <2>2, WalkingStays
  <2>4. /\ IsCall(call)' /\ k \in 0 .. Len(call'.format) /\ Scanning(call, k, pos)'
        /\ call'.format # <<>>
    BY <2>1, <2>2
  <2> QED
    BY <2>1, <2>3, <2>4 DEF WalkInv
<1>3. CASE StartDirective
  <2>1. /\ k + 1 \in 1 .. Len(call.format) /\ (k + 1) - 1 = k
        /\ pc' = "flags" /\ InFlags(call, k + 1, pos', state')
    BY <1>3, DirectiveBegins
  <2>2. UNCHANGED <<call, argNum, maxArgNum, anyIndex, reports>>
    BY <1>3 DEF StartDirective
  <2>3. Walking(k)'
    BY <2>2, WalkingStays
  <2>4. IsCall(call)' /\ k + 1 \in 1 .. Len(call'.format) /\ InFlags(call, k + 1, pos, state)'
    BY <2>1, <2>2
  <2>5. Walking((k + 1) - 1)' /\ InDirective(call, k + 1, pc, pos, state)'
    BY <2>1, <2>3, <2>4 DEF InDirective
  <2> QED
    BY <2>4, <2>5 DEF WalkInv
<1>4. CASE Finish
  <2>1. pc' = "done" /\ (reports' # <<>> <=> Complains)
    BY <1>4, FinishStep
  <2>2. call' = call
    BY <1>4 DEF Finish
  <2>3. IsCall(call)' /\ (reports # <<>> <=> Complains)'
    BY <2>1, <2>2, CallStays
  <2> QED
    BY <2>1, <2>3 DEF WalkInv
<1> QED
  BY <1>1, <1>2, <1>3, <1>4

(* One step inside a directive.                                            *)
LEMMA DirectiveWalk ==
  ASSUME NEW k, Inside(k), InDirective(call, k, pc, pos, state), Next
  PROVE  WalkInv'
BY FlagsWalk, IndexWalk, WidthWalk, PrecisionWalk, DotIndexWalk, DotNumWalk, VerbIndexWalk,
   VerbWalk, CheckWalk, Zenon DEF InDirective

(* Every step keeps the invariant.                                         *)
LEMMA StepWalk == IInv /\ WalkInv /\ [Next]_vars => WalkInv'
<1> SUFFICES ASSUME IInv, WalkInv, [Next]_vars PROVE WalkInv'
  OBVIOUS
<1>1. IsCall(call)
  BY DEF WalkInv
<1>2. CASE Next
  <2>1. CASE pc = "start" /\ pos = 1 /\ Walking(0)
    BY <1>1, <1>2, <2>1, StartWalk
  <2>2. CASE /\ pc = "scan" /\ call.format # <<>>
             /\ \E k \in 0 .. Len(call.format) : Walking(k) /\ Scanning(call, k, pos)
    BY <1>1, <1>2, <2>2, ScanWalk
  <2>3. CASE \E k \in 1 .. Len(call.format) :
               Walking(k - 1) /\ InDirective(call, k, pc, pos, state)
    <3>1. PICK k \in 1 .. Len(call.format) :
            Walking(k - 1) /\ InDirective(call, k, pc, pos, state)
      BY <2>3
    <3>2. Inside(k)
      BY <1>1, <3>1 DEF Inside, IInv, StateOK, StateKeys
    <3> QED
      BY <1>2, <3>1, <3>2, DirectiveWalk
  <2>4. CASE pc = "done"
    BY <1>2, <2>4 DEF Next, NoDirectives, Begin, ScanText, StartDirective, ParseFlags, NoIndex,
       Index, BadIndex, AtIndex, Star, Digits, ParsePrecision, NoVerb, ParseVerb, RejectVerb,
       RejectReads, RejectValue, RejectWrapping, NextDirective, Finish, GoodDirective, GoodArgs,
       GoodVerb
  <2> QED
    BY <2>1, <2>2, <2>3, <2>4 DEF WalkInv
<1>3. CASE UNCHANGED vars
  <2>1. UNCHANGED <<call, pc, pos, argNum, maxArgNum, anyIndex, state, reports>>
    BY <1>3 DEF vars
  <2>2. \A k : Walking(k)' <=> Walking(k)
    <3>1. \A j : Faulty(j)' = Faulty(j) /\ ReadsAt(j)' = ReadsAt(j)
      BY <2>1, CallStays
    <3>2. \A h, k : IsHighest(h, k)' = IsHighest(h, k)
      BY <3>1 DEF IsHighest
    <3> QED
      BY <2>1, <3>1, <3>2 DEF Passed, Walking
  <2>3. Complains' = Complains
    BY <2>1, CallStays
  <2> QED
    BY <2>1, <2>2, <2>3 DEF WalkInv
<1> QED
  BY <1>2, <1>3

(* The check is over and has said nothing of a call without `...` whose    *)
(* directives have no index.                                               *)
Accepted ==
  /\ pc = "done" /\ reports = <<>> /\ ~ call.ellipsis
  /\ \A k \in DOMAIN call.format : ~ Indexed(Directive(k))

OneArgumentEach ==
  Accepted => Len(call.args) = Len(ItemsOf(call.format, Len(call.format)))

(* Where the check ends and what it says of the call, as WalkInv has it.   *)
LEMMA WalkEnds == WalkInv => ComplaintsAreExact /\ OneArgumentEach
<1> SUFFICES ASSUME WalkInv, pc = "done"
             PROVE  (reports # <<>> <=> Complains) /\ OneArgumentEach
  BY DEF ComplaintsAreExact, OneArgumentEach, Accepted
<1>1. IsCall(call) /\ (reports # <<>> <=> Complains)
  BY DEF WalkInv, InDirective
<1>2. OneArgumentEach
  BY <1>1, FaultlessCounts DEF OneArgumentEach, Accepted, Given, args
<1> QED
  BY <1>1, <1>2

(* What a caller may rely on: the check can be entered with any call, each *)
(* of its steps keeps Checking, and what it says in the end follows.       *)
Checking == IInv /\ WalkInv

(* Where the check enters a call, all that is known of a run holds.        *)
LEMMA EnteringChecks == Entering => Checking
BY EnteringIInv, EnteringWalk DEF Checking

(* Every step keeps all that is known of a run.                            *)
LEMMA StepChecks == Checking /\ [Next]_vars => Checking'
BY StepIInv, StepWalk DEF Checking

(* The call that is checked stays the same.                                *)
LEMMA CallKept == [Next]_vars => call' = call
<1>1. Parsing \/ NextDirective => call' = call
  BY DEF Parsing, StartDirective, ParseFlags, ParsePrecision, ParseVerb, Index, Star, NextDirective
<1>2. Moving \/ Ending => call' = call
  BY DEF Moving, Begin, ScanText, NoIndex, Digits, Ending, NoDirectives, NoVerb, RejectVerb,
         RejectReads, RejectValue, RejectWrapping, Finish, BadIndex
<1> QED
  BY <1>1, <1>2, NextByKind DEF vars

(* When a run ends, its reports are real and its counts as accepted.       *)
LEMMA CheckingTells ==
  Checking /\ pc = "done" => OneArgumentEach /\ (reports # <<>> => Last(reports) # "")
<1>1. Checking => OneArgumentEach
  BY WalkEnds DEF Checking
<1>2. ASSUME Checking, reports # <<>> PROVE Last(reports) = reports[1] /\ reports[1] # ""
  <2>1. Len(reports) = 1 /\ reports[1] # ""
    BY <1>2, Zenon DEF Checking, IInv, ReportEnds
  <2> QED
    BY <2>1, Zenon DEF Last
<1> QED
  BY <1>1, <1>2, Zenon

(* When the check is done it has reported exactly if the directives and    *)
(* arguments of the call have a fault: for every format, however long, the *)
(* walk over its tokens, with its pending index, its `*` and its counters, *)
(* comes to the verdict that the directives give when they are read for    *)
(* themselves.                                                             *)
THEOREM ComplaintsExact == Spec => []ComplaintsAreExact
BY WalkEnds, InitWalk, StepWalk, InductiveInvariant, PTL DEF Spec

(* If the check accepts a call without `...` whose format, however long,   *)
(* has no index, the call has one argument for each width, precision and   *)
(* value that its directives read: none is missing and none is left over.  *)
THEOREM AcceptedCounts == Spec => []OneArgumentEach
BY WalkEnds, InitWalk, StepWalk, InductiveInvariant, PTL DEF Spec
=============================================================================
