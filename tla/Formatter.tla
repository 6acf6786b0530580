----------------------------- MODULE Formatter -----------------------------
(***************************************************************************)
(* internal/checkers/formatter.go: what the formatter says of one          *)
(* assertion, and what becomes of the assertion when the fix it suggests   *)
(* is applied and the linter run again, until it suggests none.  The       *)
(* formats of f-assertions go through CheckPrintf, step by step.           *)
(***************************************************************************)
EXTENDS FormatStrings, FiniteSetsExt

CONSTANTS
  Assertions,
  Arguments     \* what may follow a message in a call

(* A message: a string literal, empty or with directives; another string;  *)
(* a value that is no string.  sprintfs: the calls of fmt.Sprintf around   *)
(* it, the innermost first, with the arguments that follow the format.     *)
Bare(kind, ds) == [kind |-> kind, format |-> ds, sprintfs |-> <<>>]
Lit(ds) == Bare("literal", ds)
Empty == Bare("empty", <<>>)
Text == Bare("string", <<>>)
Value == Bare("value", <<>>)
Sprintf(e, rest, spread) ==
  [e EXCEPT !.sprintfs = Append(@, [rest |-> rest, spread |-> spread])]

(* What the k-th Sprintf formats, and the first argument of the last.      *)
Under(e, k) == [e EXCEPT !.sprintfs = SubSeq(@, 1, k - 1)]
Inner(e) == Under(e, Len(e.sprintfs))
IsSprintf(e) == e.sprintfs # <<>>

IsMessage(e) ==
  /\ e = [kind |-> e.kind, format |-> e.format, sprintfs |-> e.sprintfs]
  /\ e.kind \in {"literal", "empty", "string", "value"}
  /\ IsFormat(e.format) /\ (e.kind # "literal" => e.format = <<>>)
  /\ e.sprintfs \in Seq([rest : Seq(Arguments), spread : BOOLEAN])
  /\ e.kind = "value" => ~ IsSprintf(e)

(* fn: an assertion with msgAndArgs ("Equal"), Fail with a failure message *)
(* that is text, has a `%` or is no literal, or an assertion that has no   *)
(* f-analogue.  f: the f-function.  args: from the message on.  spread:    *)
(* the last one has `...`.                                                 *)
Functions == {"Equal", "Fail", "FailWithFormat", "FailWithExpr", "NoAnalogue"}

IsAssertion(a) ==
  /\ a = [fn |-> a.fn, f |-> a.f, args |-> a.args, spread |-> a.spread]
  /\ a.fn \in Functions /\ a.f \in BOOLEAN /\ a.spread \in BOOLEAN
  /\ a.args # <<>> =>
       IsMessage(Head(a.args)) /\ a.args \in Seq({Head(a.args)} \cup Arguments)
  /\ a.spread => a.args # <<>>
  /\ a.f => /\ a.fn # "NoAnalogue" /\ a.args # <<>>
            /\ Head(a.args).kind # "value" /\ (a.spread => Len(a.args) > 1)

ASSUME FormatterAssumption ==
  Value \in Arguments /\ \A a \in Assertions : IsAssertion(a)

VARIABLES
  original,      \* the assertion as the user wrote it
  assertion,     \* as the fixes have left it
  settings,      \* requireFFuncs, requireStringMsg, checkFormatString
  stage,         \* "check", "printf" or "answer"
  result,        \* what the diagnostic says, "" if there is none
  fixes,         \* the assertions that its suggested fixes lead to
  call, pc, pos, argNum, maxArgNum, anyIndex, state, reports    \* of CheckPrintf

printfVars == <<call, pc, pos, argNum, maxArgNum, anyIndex, state, reports>>
vars == <<original, assertion, settings, stage, result, fixes, printfVars>>

Printf == INSTANCE Printf WITH Calls <- {}

NoCall == [format |-> <<>>, args |-> <<>>, ellipsis |-> FALSE]

Init ==
  /\ original \in Assertions /\ assertion = original
  /\ settings \in [requireFFuncs : BOOLEAN, requireStringMsg : BOOLEAN, checkFormatString : BOOLEAN]
  /\ stage = "check" /\ result = "" /\ fixes = {}
  /\ call = NoCall /\ pc = "start" /\ pos = 1
  /\ argNum = 1 /\ maxArgNum = 1 /\ anyIndex = FALSE
  /\ state = Printf!NewState(1) /\ reports = <<>>
-----------------------------------------------------------------------------
Message == Head(assertion.args)
IsSingle == Len(assertion.args) = 1
HasStringType(e) == e.kind # "value"
IsLiteral == Message.kind = "literal" /\ ~ IsSprintf(Message)

Answer(what, assertions) ==
  /\ stage' = "answer" /\ result' = what /\ fixes' = assertions
  /\ UNCHANGED <<original, assertion, settings, printfVars>>

(* Faults: Sprintf is replaced by its format only, or by itself. *)
UnwrappedFormat == [assertion EXCEPT !.args = <<Inner(Message)>>]
StillWrapped == assertion

(* The fixes: Sprintf is replaced by its arguments, without their `...`;   *)
(* the f-function is used; an empty message is removed; "%+v" introduced.  *)
Unwrapped ==
  [assertion EXCEPT !.args = <<Inner(Message)>> \o Last(Message.sprintfs).rest]
Renamed == [assertion EXCEPT !.f = TRUE]

Removed == [assertion EXCEPT !.args = <<>>, !.f = FALSE]

PlusV == Lit(<<[flag |-> "+", index |-> "", width |-> "", dot |-> "", dotIndex |-> "",
                dotNum |-> "", verbIndex |-> "", verb |-> "v"]>>)
Introduced == [assertion EXCEPT !.args = <<PlusV>> \o @]

(* isPrintfLikeCall *)
IsPrintfLike ==
  ~ assertion.spread /\ assertion.args # <<>> /\ assertion.fn # "NoAnalogue"

(* checkNotFmtAssertion *)
CheckNotFmt == stage = "check" /\ ~ assertion.f

NotPrintfLike == CheckNotFmt /\ ~ IsPrintfLike /\ Answer("", {})

Fail ==
  /\ CheckNotFmt /\ IsPrintfLike
  /\ \/ assertion.fn = "FailWithFormat" /\ Answer("failure message is not a format", {})
     \/ assertion.fn = "FailWithExpr" /\ Answer("", {})

CheckMessage == CheckNotFmt /\ IsPrintfLike /\ assertion.fn \in {"Equal", "Fail"}
UnnecessarySprintf == IsSprintf(Message) /\ IsSingle

RemoveSprintf ==
  /\ CheckMessage /\ UnnecessarySprintf
  /\ IF settings.requireFFuncs
     THEN Answer("remove Sprintf and use f-function", {Unwrapped, Renamed})
     ELSE Answer("remove Sprintf", {Unwrapped})

(* Fault: what follows an empty message is removed with it. *)
EmptyMessageAndArgs ==
  CheckMessage /\ Message = Empty /\ Answer("empty message", {Removed})

EmptyMessage ==
  /\ CheckMessage /\ Message = Empty
  /\ Answer("empty message", IF IsSingle THEN {Removed} ELSE {})

StringMessage ==
  /\ CheckMessage /\ ~ UnnecessarySprintf
  /\ HasStringType(Message) /\ Message # Empty
  /\ IF settings.requireFFuncs THEN Answer("use f-function", {Renamed}) ELSE Answer("", {})

(* Fault: the setting is asked for several values too. *)
ValueIfRequired ==
  /\ CheckMessage /\ ~ HasStringType(Message)
  /\ IF settings.requireStringMsg
     THEN Answer("non-string message", IF IsSingle THEN {Introduced} ELSE {}) ELSE Answer("", {})

ValueMessage ==
  /\ CheckMessage /\ ~ HasStringType(Message)
  /\ CASE ~ IsSingle -> Answer("message causes panic", {})
       [] IsSingle /\ settings.requireStringMsg -> Answer("non-string message", {Introduced})
       [] OTHER -> Answer("", {})

(* checkFmtAssertion *)
CheckFmt == stage = "check" /\ assertion.f

RemoveSprintfOfFmt == CheckFmt /\ UnnecessarySprintf /\ Answer("remove Sprintf", {Unwrapped})

(* strconv.Unquote fails for what is no literal. *)
UnknownFormat ==
  CheckFmt /\ ~ UnnecessarySprintf /\ Message # Empty /\ ~ IsLiteral /\ Answer("", {})

EmptyFormat ==
  /\ CheckFmt /\ Message = Empty
  /\ Answer("empty message", IF IsSingle THEN {Removed} ELSE {})

FormatNotChecked ==
  CheckFmt /\ IsLiteral /\ ~ settings.checkFormatString /\ Answer("", {})

StartPrintf ==
  /\ CheckFmt /\ IsLiteral /\ settings.checkFormatString
  /\ stage' = "printf"
  /\ call' = [format |-> Message.format, ellipsis |-> assertion.spread,
              args |-> [k \in 1 .. Len(assertion.args) - 1 |-> "plain"]]
  /\ pc' = "start" /\ pos' = 1
  /\ argNum' = 1 /\ maxArgNum' = 1 /\ anyIndex' = FALSE
  /\ state' = Printf!NewState(1) /\ reports' = <<>>
  /\ UNCHANGED <<original, assertion, settings, result, fixes>>

PrintfStep ==
  /\ stage = "printf" /\ Printf!Next
  /\ UNCHANGED <<original, assertion, settings, stage, result, fixes>>

EndPrintf ==
  /\ stage = "printf" /\ pc = "done"
  /\ Answer(IF reports = <<>> THEN "" ELSE Last(reports), {})

(* The user applies one of the fixes and runs the linter again. *)
ApplyFix ==
  /\ stage = "answer" /\ assertion' \in fixes
  /\ stage' = "check" /\ result' = "" /\ fixes' = {}
  /\ UNCHANGED <<original, settings, printfVars>>

Next ==
  \/ NotPrintfLike \/ Fail
  \/ RemoveSprintf \/ EmptyMessage \/ StringMessage \/ ValueMessage
  \/ RemoveSprintfOfFmt \/ UnknownFormat \/ EmptyFormat \/ FormatNotChecked
  \/ StartPrintf \/ PrintfStep \/ EndPrintf
  \/ ApplyFix

Spec == Init /\ [][Next]_vars
FairSpec == Spec /\ WF_vars(Next)
-----------------------------------------------------------------------------
Ended == stage = "answer" /\ fixes = {}

(* The text under the Sprintf calls has no directive and is known, so that *)
(* formatting it without arguments leaves it as it is.                     *)
IsPlain(e) == Under(e, 1) \in {Empty, Lit(<<>>)}

(* The Sprintf calls that have something to put in.                        *)
Proper(e) == { k \in DOMAIN e.sprintfs : e.sprintfs[k].rest # <<>> }

TextOf(e) ==
  LET idle == IF Proper(e) = {} THEN Len(e.sprintfs) ELSE Min(Proper(e)) - 1
  IN  IF IsPlain(e) THEN [e EXCEPT !.sprintfs = SubSeq(@, idle + 1, Len(@))] ELSE e

(* testify prints a lone message as it is (a value with %+v), and the      *)
(* first of several through Sprintf, in an assertion and its f-analogue    *)
(* alike.                                                                  *)
Printed(a) ==
  IF a.args = <<>> THEN Empty
  ELSE LET e == Head(a.args) IN
       IF Len(a.args) = 1
       THEN TextOf(IF HasStringType(e) THEN e ELSE Sprintf(PlusV, a.args, FALSE))
       ELSE IF HasStringType(e) THEN TextOf(Sprintf(e, Tail(a.args), a.spread))
       ELSE Bare("panic", <<>>)

(* Sprintf does something to the text that testify will not: it spreads a  *)
(* slice, or it formats a text with directives and nothing to put there.   *)
NeedsSprintf(e) ==
  /\ IsSprintf(e)
  /\ \/ Last(e.sprintfs).spread
     \/ Last(e.sprintfs).rest = <<>> /\ TextOf(Inner(e)) \notin {Empty, Lit(<<>>)}

(* What a fix makes compiles.  None changes the message the assertion      *)
(* fails with or makes it panic, unless the Sprintf it removes was needed. *)
FixesKeepTheMessage ==
  [][assertion' # assertion => /\ IsAssertion(assertion')
                               /\ \/ Printed(assertion') = Printed(assertion)
                                  \/ NeedsSprintf(Message)]_vars

(* "Detecting unnecessary fmt.Sprintf in assertions": what the fix removes *)
(* was unnecessary, so the message stays.                                  *)
SprintfIsUnnecessary ==
  [][assertion' # assertion => Printed(assertion') = Printed(assertion)]_vars

(* The Sprintf calls around a lone message, taken off down to the last one *)
(* that has more to give than a message.                                   *)
Stripped(es) ==
  IF Len(es) # 1 THEN es
  ELSE LET e == Head(es) IN
       IF Proper(e) = {} THEN <<Under(e, 1)>>
       ELSE LET k == Max(Proper(e)) IN <<Under(e, k)>> \o e.sprintfs[k].rest

(* The assertions whose message is judged.                                 *)
IsJudged(a) == a.f \/ (a.fn \in {"Equal", "Fail"} /\ ~ a.spread)

(* What an assertion should become, without steps. *)
NormalArgs(a) ==
  LET es == Stripped(a.args) IN
  IF ~ IsJudged(a) THEN a.args
  ELSE IF es = <<Empty>> THEN <<>>
  ELSE IF es = <<Value>> /\ settings.requireStringMsg THEN <<PlusV, Value>>
  ELSE es

NormalF(a) ==
  LET es == NormalArgs(a) IN
  /\ es # <<>> /\ IsJudged(a)
  /\ a.f \/ (settings.requireFFuncs /\ HasStringType(Head(es)))

(* Whichever of two suggested fixes is applied first, and however deep the *)
(* Sprintf calls are nested, the assertion ends in the same form.          *)
FixesAgree ==
  Ended => /\ assertion.args = NormalArgs(original)
           /\ result = "" => assertion.f = NormalF(original)

(* An assertion the formatter has nothing against keeps the rules of its   *)
(* documentation: no lone Sprintf, no empty message, no panic, the         *)
(* f-function if required, ...                                             *)
IsClean == Ended /\ result = "" /\ assertion.args # <<>> /\ IsJudged(assertion)

KeepsRules ==
  /\ ~ UnnecessarySprintf /\ Message # Empty
  /\ Printed(assertion) # Bare("panic", <<>>)
  /\ settings.requireStringMsg => HasStringType(Message)
  /\ settings.requireFFuncs /\ HasStringType(Message) => assertion.f

(* ... and a format that fits the arguments.  With indexes, directives may *)
(* share an argument.                                                      *)
FormatFits ==
  LET ds == Message.format IN
  /\ settings.checkFormatString /\ assertion.f /\ ~ assertion.spread
  /\ IsLiteral /\ \A k \in DOMAIN ds : ~ Indexed(ds[k])
  => Len(assertion.args) - 1 = Len(ItemsOf(ds, Len(ds)))

CleanMeansConventional == IsClean => KeepsRules /\ FormatFits

(* The chain of warnings ends: after finitely many fixes none is suggested.*)
FixesEnd == <>Ended
=============================================================================
