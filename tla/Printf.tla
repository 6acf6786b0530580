------------------------------- MODULE Printf -------------------------------
(***************************************************************************)
(* internal/checkers/printf: CheckPrintf walks the format of one call and  *)
(* compares the arguments its directives read with those given.  It        *)
(* reports at most one fault and stops at it.  Positions are 1-based and   *)
(* arguments are numbered from 1 (firstArg) after the format.  What the    *)
(* check asks of an argument's type:                                       *)
(*   plain      nothing special                                            *)
(*   formatter  may implement fmt.Formatter                                *)
(*   func       a function value                                           *)
(*   stringer   the receiver, inside its own String or Error method        *)
(***************************************************************************)
EXTENDS FormatStrings, FiniteSetsExt

CONSTANT Calls
(* format: the directives; args: the kinds of the arguments; ellipsis: the *)
(* last argument is a slice with `...`.                                    *)
IsCall(c) ==
  /\ IsFormat(c.format)
  /\ c.args \in Seq({"plain", "formatter", "func", "stringer"})
  /\ c.ellipsis \in BOOLEAN
  /\ c.ellipsis => c.args # <<>> /\ Last(c.args) = "plain"

ASSUME PrintfAssumption == \A c \in Calls : IsCall(c)

VARIABLES
  call,        \* the call that is checked
  pc,          \* the function that reads the next token
  pos,         \* that token: i + s.nbytes
  argNum,      \* the next sequential argument
  maxArgNum,   \* one past the highest argument read
  anyIndex,    \* a directive had an index
  state,       \* the formatState of the current directive
  reports      \* pass.Report calls

vars == <<call, pc, pos, argNum, maxArgNum, anyIndex, state, reports>>

NewState(n) ==
  [flags |-> {}, argNums |-> <<>>, argNum |-> n, hasIndex |-> FALSE, indexPending |-> FALSE,
   verb |-> ""]

Init ==
  /\ call \in Calls
  /\ pc = "start" /\ pos = 1
  /\ argNum = 1 /\ maxArgNum = 1 /\ anyIndex = FALSE
  /\ state = NewState(1)
  /\ reports = <<>>
-----------------------------------------------------------------------------
format == IF call.format = <<>> THEN <<"~">> ELSE Render(call.format)
args == call.args
Token == IF pos > Len(format) THEN "" ELSE format[pos]

(* The first position from pos on that holds none of these tokens. *)
Beyond(tokens) ==
  CHOOSE j \in pos .. Len(format) + 1 :
    /\ \A k \in pos .. j - 1 : format[k] \in tokens
    /\ j <= Len(format) => format[j] \notin tokens

(* Fault: the check goes on after a report. *)
ReportAndGoOn(what) == reports' = Append(reports, what) /\ pc' = "scan"

Report(what) == reports' = Append(reports, what) /\ pc' = "done"

NoDirectives ==
  /\ pc = "start" /\ "%" \notin ToSet(format)
  /\ IF args # <<>> THEN Report("no directives") ELSE pc' = "done" /\ UNCHANGED reports
  /\ UNCHANGED <<call, pos, argNum, maxArgNum, anyIndex, state>>

Begin ==
  /\ pc = "start" /\ "%" \in ToSet(format)
  /\ pc' = "scan"
  /\ UNCHANGED <<call, pos, argNum, maxArgNum, anyIndex, state, reports>>

(* Fault: text before a directive is looked at again. *)
ScanInPlace ==
  /\ pc = "scan" /\ Token \notin {"%", ""}
  /\ UNCHANGED vars

ScanText ==
  /\ pc = "scan" /\ Token \notin {"%", ""}
  /\ pos' = pos + 1
  /\ UNCHANGED <<call, pc, argNum, maxArgNum, anyIndex, state, reports>>

(* parsePrintfVerb, up to its first call. *)
StartDirective ==
  /\ pc = "scan" /\ Token = "%"
  /\ pos' = pos + 1 /\ state' = NewState(argNum)
  /\ pc' = "flags"
  /\ UNCHANGED <<call, argNum, maxArgNum, anyIndex, reports>>

ParseFlags ==
  /\ pc = "flags"
  /\ pos' = Beyond(Flags)
  /\ state' = [state EXCEPT !.flags = { format[k] : k \in pos .. Beyond(Flags) - 1 }]
  /\ pc' = "index"
  /\ UNCHANGED <<call, argNum, maxArgNum, anyIndex, reports>>

(* parseIndex, called for the index of a width, of a precision and, unless *)
(* one is pending, of the verb.                                            *)
AtIndex(from) ==
  pc = from /\ Token \in Brackets /\ (from = "verbIndex" => ~ state.indexPending)

NoIndex(from, to) ==
  /\ pc = from /\ ~ AtIndex(from)
  /\ pc' = to
  /\ UNCHANGED <<call, pos, argNum, maxArgNum, anyIndex, state, reports>>

Index(from, to) ==
  /\ AtIndex(from) /\ IndexOf(Token) \in 1 .. Len(args)
  /\ pos' = pos + 1
  /\ state' = [state EXCEPT !.argNum = IndexOf(Token), !.hasIndex = TRUE, !.indexPending = TRUE]
  /\ pc' = to
  /\ UNCHANGED <<call, argNum, maxArgNum, anyIndex, reports>>

(* The closing bracket is looked for in the rest of the whole format. *)
BadIndex(from) ==
  /\ AtIndex(from) /\ IndexOf(Token) \notin 1 .. Len(args)
  /\ IF Token = "[" /\ \A k \in pos + 1 .. Len(format) : format[k] \notin Brackets \ {"["}
     THEN Report("missing ]") ELSE Report("invalid index")
  /\ UNCHANGED <<call, pos, argNum, maxArgNum, anyIndex, state>>

(* Fault: `*` does not absorb the index. *)
StarKeepsIndex(from, to) ==
  /\ pc = from /\ Token = "*"
  /\ pos' = pos + 1
  /\ state' = [state EXCEPT !.argNums = Append(@, state.argNum), !.argNum = @ + 1]
  /\ pc' = to
  /\ UNCHANGED <<call, argNum, maxArgNum, anyIndex, reports>>

(* parseNum, called for a width and for a precision. *)
Star(from, to) ==
  /\ pc = from /\ Token = "*"
  /\ pos' = pos + 1
  /\ state' = [state EXCEPT !.indexPending = FALSE,
                            !.argNums = Append(@, state.argNum), !.argNum = @ + 1]
  /\ pc' = to
  /\ UNCHANGED <<call, argNum, maxArgNum, anyIndex, reports>>

Digits(from, to) ==
  /\ pc = from /\ Token # "*"
  /\ pos' = Beyond({"0", "9"})
  /\ pc' = to
  /\ UNCHANGED <<call, argNum, maxArgNum, anyIndex, state, reports>>

ParsePrecision ==
  /\ pc = "precision"
  /\ IF Token = "."
     THEN pos' = pos + 1 /\ state' = [state EXCEPT !.flags = @ \cup {"."}] /\ pc' = "dotIndex"
     ELSE UNCHANGED <<pos, state>> /\ pc' = "verbIndex"
  /\ UNCHANGED <<call, argNum, maxArgNum, anyIndex, reports>>

NoVerb ==
  /\ pc = "verb" /\ Token = ""
  /\ Report("missing verb")
  /\ UNCHANGED <<call, pos, argNum, maxArgNum, anyIndex, state>>

(* Whatever comes now is the verb. *)
ParseVerb ==
  /\ pc = "verb" /\ Token # ""
  /\ pos' = pos + 1
  /\ state' = [state EXCEPT !.verb = Token,
                            !.argNums = IF Token = "%" THEN @ ELSE Append(@, state.argNum)]
  /\ pc' = "check"
  /\ UNCHANGED <<call, argNum, maxArgNum, anyIndex, reports>>
-----------------------------------------------------------------------------
(* len(call.Args) *)
Total == Len(args) + 1

(* okPrintfArg: the argument of the verb may format itself. *)
FormatsItself ==
  state.verb # "w" /\ state.argNum < Total /\ args[state.argNum] = "formatter"

BadVerb == ~ FormatsItself /\ state.verb \notin DOMAIN PrintVerbs
BadFlag ==
  /\ ~ FormatsItself /\ ~ BadVerb
  /\ ~ (state.flags \ {"0"} \subseteq PrintVerbs[state.verb])

(* argCanBeChecked *)
CanBeChecked(n) == n < Total - 1 \/ (~ call.ellipsis /\ n < Total)

(* The arguments of `*`, all of them for %%; then that of the verb. *)
Judged ==
  IF state.verb # "%" /\ FormatsItself THEN Front(state.argNums) ELSE state.argNums
Unseen == \E k \in DOMAIN Judged : ~ CanBeChecked(Judged[k])

Seen(kind) == state.verb # "%" /\ ~ FormatsItself /\ args[Last(state.argNums)] = kind
FuncValue == Seen("func") /\ state.verb \notin {"p", "T"}
Recursive == Seen("stringer") /\ state.verb \in StringVerbs /\ "#" \notin state.flags

GoodVerb == pc = "check" /\ ~ BadVerb /\ ~ BadFlag
GoodArgs == GoodVerb /\ ~ Unseen

RejectVerb ==
  /\ pc = "check" /\ (BadVerb \/ BadFlag)
  /\ Report(IF BadVerb THEN "unknown verb" ELSE "unrecognized flag")
  /\ UNCHANGED <<call, pos, argNum, maxArgNum, anyIndex, state>>

(* Behind an ellipsis there could be more arguments: the check just ends. *)
RejectReads ==
  /\ GoodVerb /\ Unseen
  /\ IF call.ellipsis THEN pc' = "done" /\ UNCHANGED reports ELSE Report("missing argument")
  /\ UNCHANGED <<call, pos, argNum, maxArgNum, anyIndex, state>>

RejectValue ==
  /\ GoodArgs /\ (FuncValue \/ Recursive)
  /\ Report(IF FuncValue THEN "func value" ELSE "recursive call")
  /\ UNCHANGED <<call, pos, argNum, maxArgNum, anyIndex, state>>

GoodDirective == GoodArgs /\ ~ FuncValue /\ ~ Recursive

(* Back in CheckPrintf. *)
RejectWrapping ==
  /\ GoodDirective /\ state.verb = "w"
  /\ Report("error wrapping")
  /\ anyIndex' = (anyIndex \/ state.hasIndex)
  /\ UNCHANGED <<call, pos, argNum, maxArgNum, state>>

NextDirective ==
  /\ GoodDirective /\ state.verb # "w"
  /\ anyIndex' = (anyIndex \/ state.hasIndex)
  /\ argNum' = IF state.argNums = <<>> THEN argNum ELSE Last(state.argNums) + 1
  /\ maxArgNum' = Max(ToSet(state.argNums) \cup {maxArgNum - 1}) + 1
  /\ pc' = "scan"
  /\ UNCHANGED <<call, pos, state, reports>>

(* Leftover arguments; extra ones are ignored if there was an index. *)
Finish ==
  /\ pc = "scan" /\ Token = ""
  /\ IF ~ (call.ellipsis /\ maxArgNum >= Total - 1) /\ ~ anyIndex /\ maxArgNum # Total
     THEN Report("argument count") ELSE pc' = "done" /\ UNCHANGED reports
  /\ UNCHANGED <<call, pos, argNum, maxArgNum, anyIndex, state>>

Next ==
  \/ NoDirectives \/ Begin \/ ScanText \/ StartDirective \/ ParseFlags
  \/ NoIndex("index", "width") \/ Index("index", "width") \/ BadIndex("index")
  \/ Star("width", "precision") \/ Digits("width", "precision")
  \/ ParsePrecision
  \/ NoIndex("dotIndex", "dotNum") \/ Index("dotIndex", "dotNum") \/ BadIndex("dotIndex")
  \/ Star("dotNum", "verbIndex") \/ Digits("dotNum", "verbIndex")
  \/ NoIndex("verbIndex", "verb") \/ Index("verbIndex", "verb") \/ BadIndex("verbIndex")
  \/ NoVerb \/ ParseVerb
  \/ RejectVerb \/ RejectReads \/ RejectValue \/ RejectWrapping \/ NextDirective
  \/ Finish

Spec == Init /\ [][Next]_vars
FairSpec == Spec /\ WF_vars(Next)
-----------------------------------------------------------------------------
(* "One error per format is enough": the formatter's closure keeps only    *)
(* the last diagnostic it is given, so there must not be a second.         *)
OneReport == Len(reports) <= 1

(* What the check has to say of directive k of the call, without reading   *)
(* the tokens of the format.                                               *)
Directive(k) == call.format[k]
Given == Len(args)
Known == IF call.ellipsis THEN Given - 1 ELSE Given

(* The indexes that are read as such. *)
IndexesOf(d) ==
  {d.index, d.dotIndex, IF Pending(d) = "" THEN d.verbIndex ELSE ""} \ {""}
Unparsed(d) == VerbOf(d) = "" \/ \E x \in IndexesOf(d) : IndexOf(x) \notin 1 .. Given

ReadsAt(k) == ReadsOf(call.format, k)
(* What the value reads, or would read if the directive were not %%. *)
Valued(d) == [d EXCEPT !.verb = IF @ = "%" THEN "v" ELSE @]
ValueAt(k) == Last(ReadsOf([call.format EXCEPT ![k] = Valued(@)], k))

PrintsItself(k) ==
  VerbOf(Directive(k)) # "w" /\ ValueAt(k) <= Given /\ args[ValueAt(k)] = "formatter"
Refused(k) ==
  LET d == Directive(k) IN
  /\ ~ PrintsItself(k)
  /\ VerbOf(d) \in DOMAIN PrintVerbs =>
       ~ ({d.flag, d.dot} \ {"", "0"} \subseteq PrintVerbs[VerbOf(d)])
ReadsTooFar(k) ==
  LET judged == IF PrintsItself(k) /\ VerbOf(Directive(k)) # "%"
                THEN Front(ReadsAt(k)) ELSE ReadsAt(k)
  IN  \E r \in ToSet(judged) : r > Known
Unprintable(k) ==
  LET v == VerbOf(Directive(k)) IN
  /\ v # "%" /\ ~ PrintsItself(k)
  /\ \/ v = "w"
     \/ args[ValueAt(k)] = "func" /\ v \notin {"p", "T"}
     \/ args[ValueAt(k)] = "stringer" /\ v \in StringVerbs /\ Directive(k).flag # "#"

Faulty(k) == Unparsed(Directive(k)) \/ Refused(k) \/ ReadsTooFar(k) \/ Unprintable(k)
FirstFaulty(k) == Faulty(k) /\ \A j \in 1 .. k - 1 : ~ Faulty(j)

(* Behind an ellipsis nothing is known to be missing. *)
Complaint(k) ==
  Unparsed(Directive(k)) \/ Refused(k) \/ ~ (ReadsTooFar(k) /\ call.ellipsis)

Highest == Max({0} \cup UNION { ToSet(ReadsAt(k)) : k \in DOMAIN call.format })
WrongCount ==
  /\ Highest # Given /\ ~ (call.ellipsis /\ Highest >= Given - 1)
  /\ \A k \in DOMAIN call.format : ~ Indexed(Directive(k))

(* The first directive with a fault decides, then the number of arguments. *)
Complains ==
  IF call.format = <<>> THEN Given > 0
  ELSE IF \E k \in DOMAIN call.format : Faulty(k)
  THEN \E k \in DOMAIN call.format : FirstFaulty(k) /\ Complaint(k)
  ELSE WrongCount

(* The walk over the tokens complains of exactly the calls that its        *)
(* directives complain of: however an index is placed, whatever `*` takes, *)
(* the parser and the argument counters agree with the reading.            *)
ComplaintsAreExact == pc = "done" => (reports # <<>> <=> Complains)

(* Every token is passed once: the check ends. *)
Terminates == <>(pc = "done")
=============================================================================
