------------------------------ MODULE Analyzer ------------------------------
(***************************************************************************)
(* analyzer/analyzer.go: the driver.  go/analysis runs the Run closure     *)
(* once per package, on goroutines of their own; the closure captured one  *)
(* cfg variable, everything else belongs to the pass.  The code under      *)
(* analysis is given by what each checker would say of it: a call has the  *)
(* checker instances (name and settings) that object to it, an advanced    *)
(* checker has a number of findings.  newCheckers is one step here:        *)
(* CheckersFactory shows that it implements its selection rules.           *)
(*                                                                         *)
(* The one regular checker with a visible step inside is the formatter,    *)
(* which replaces pass.Report while it runs the printf check.              *)
(***************************************************************************)
EXTENDS SelectionRules

CONSTANTS
  Passes,      \* one pass per package
  Configs,     \* the configurations to run with
  Inputs       \* what the packages of the passes can be, each [calls, found]

(* A call: is it an assertion of testify (NewCallMeta is not nil), does    *)
(* the formatter run printf on it, and which instances object to it.       *)
CallKinds == [testify : BOOLEAN, fmt : BOOLEAN,
              by : SUBSET [name : All, option : Options \cup {Nil}]]

ASSUME PassesAssumption ==
  /\ \A c \in Configs : IsConfig(c)
  /\ \A given \in Inputs : \A p \in Passes :
       /\ given[p].calls \in Seq(CallKinds)
       /\ given[p].found \in [[name : All, option : Options \cup {Nil}] -> Nat]

VARIABLES
  cfg,            \* captured by every Run closure
  package,        \* one of the Inputs
  pc,             \* where each pass is
  regular, advanced,    \* its own checkers
  call,           \* the call expression the inspector is at
  checker,        \* index in the list being run
  finding,        \* findings of the current advanced checker already reported
  report,         \* the value of pass.Report: the driver's, or the formatter's closure
  result,         \* the formatter's named result: is there a diagnostic
  diagnostics     \* what reached the driver

passVars == <<pc, regular, advanced, call, checker, finding, report, result, diagnostics>>
vars == <<cfg, package, passVars>>

Locations == {"build", "regular", "printf", "restore", "result", "advanced", "done", "failed"}

Init ==
  /\ cfg \in Configs /\ package \in Inputs
  /\ pc = [p \in Passes |-> "build"]
  /\ regular = [p \in Passes |-> <<>>] /\ advanced = [p \in Passes |-> <<>>]
  /\ call = [p \in Passes |-> 1] /\ checker = [p \in Passes |-> 1]
  /\ finding = [p \in Passes |-> 0]
  /\ report = [p \in Passes |-> "driver"] /\ result = [p \in Passes |-> FALSE]
  /\ diagnostics = [p \in Passes |-> <<>>]

At(p, l) == pc[p] = l
Goto(p, l) == pc' = [pc EXCEPT ![p] = l]

(* pass.Report(d): a call of whatever function the field holds now. *)
Report(p, d) ==
  IF report[p] = "driver"
  THEN diagnostics' = [diagnostics EXCEPT ![p] = Append(@, d)] /\ UNCHANGED result
  ELSE result' = [result EXCEPT ![p] = TRUE] /\ UNCHANGED diagnostics

(* The lists newCheckers can return for the wanted checkers S. *)
Listings(S, c) ==
  { s \in [1 .. Cardinality(S) -> { [name |-> n, option |-> OptionFor(c, n)] : n \in S }] :
      IsListing(s, S, c) }

BuildCheckers(p) ==
  /\ At(p, "build") /\ Acceptable(cfg)
  /\ \E r \in Listings({ n \in Wanted(cfg) : IsRegular(n) }, cfg),
        a \in Listings({ n \in Wanted(cfg) : ~ IsRegular(n) }, cfg) :
       /\ regular' = [regular EXCEPT ![p] = r]
       /\ advanced' = [advanced EXCEPT ![p] = a]
  /\ Goto(p, "regular")
  /\ UNCHANGED <<cfg, package, call, checker, finding, report, result, diagnostics>>

BuildFails(p) ==
  /\ At(p, "build") /\ ~ Acceptable(cfg)
  /\ Goto(p, "failed")
  /\ UNCHANGED <<cfg, package, regular, advanced, call, checker, finding, report, result,
                 diagnostics>>

Current(p) == package[p].calls[call[p]]
InCalls(p) == At(p, "regular") /\ call[p] <= Len(package[p].calls)
Running(p) == regular[p][checker[p]]

(* Faults: the next call starts with the checker that reported this one,   *)
(* or before the first.                                                    *)
NextCallSameChecker(p) == call' = [call EXCEPT ![p] = @ + 1] /\ UNCHANGED checker
NextCallFromZero(p) ==
  /\ call' = [call EXCEPT ![p] = @ + 1]
  /\ checker' = [checker EXCEPT ![p] = 0]

NextCall(p) ==
  /\ call' = [call EXCEPT ![p] = @ + 1]
  /\ checker' = [checker EXCEPT ![p] = 1]

NextChecker(p) == checker' = [checker EXCEPT ![p] = @ + 1] /\ UNCHANGED call

(* Not an assertion, or no checker left that could object. *)
SkipCall(p) ==
  /\ InCalls(p)
  /\ ~ Current(p).testify \/ checker[p] > Len(regular[p])
  /\ NextCall(p)
  /\ UNCHANGED <<cfg, package, pc, regular, advanced, finding, report, result, diagnostics>>

(* checkFmtAssertion reaches CheckPrintf only with check-format-string on, *)
(* which is the section's default.                                         *)
RunsPrintf(p) ==
  Running(p).name = "formatter" /\ Running(p).option = DefaultOption /\ Current(p).fmt

(* Fault: the loop goes on after a diagnostic. *)
TryEveryChecker(p) ==
  /\ InCalls(p) /\ Current(p).testify /\ checker[p] <= Len(regular[p])
  /\ ~ RunsPrintf(p)
  /\ IF Running(p) \in Current(p).by
     THEN Report(p, [by |-> Running(p).name, at |-> call[p]])
     ELSE UNCHANGED <<result, diagnostics>>
  /\ NextChecker(p)
  /\ UNCHANGED <<cfg, package, pc, regular, advanced, finding, report>>

(* One iteration of the loop of regularCheck with a checker that does not  *)
(* touch pass.Report: the first diagnostic ends the loop.                  *)
TryChecker(p) ==
  /\ InCalls(p) /\ Current(p).testify /\ checker[p] <= Len(regular[p])
  /\ ~ RunsPrintf(p)
  /\ IF Running(p) \in Current(p).by
     THEN Report(p, [by |-> Running(p).name, at |-> call[p]]) /\ NextCall(p)
     ELSE NextChecker(p) /\ UNCHANGED <<result, diagnostics>>
  /\ UNCHANGED <<cfg, package, pc, regular, advanced, finding, report>>

(* The formatter saves pass.Report and puts its closure there. *)
SwapReport(p) ==
  /\ InCalls(p) /\ Current(p).testify /\ checker[p] <= Len(regular[p])
  /\ RunsPrintf(p)
  /\ report' = [report EXCEPT ![p] = "formatter"]
  /\ result' = [result EXCEPT ![p] = FALSE]
  /\ Goto(p, "printf")
  /\ UNCHANGED <<cfg, package, regular, advanced, call, checker, finding, diagnostics>>

(* CheckPrintf reports through pass.Report. *)
CheckPrintf(p) ==
  /\ At(p, "printf")
  /\ IF Running(p) \in Current(p).by
     THEN Report(p, [by |-> "printf", at |-> call[p]])
     ELSE UNCHANGED <<result, diagnostics>>
  /\ Goto(p, "restore")
  /\ UNCHANGED <<cfg, package, regular, advanced, call, checker, finding, report>>

(* Fault: pass.Report is not put back. *)
KeepReport(p) ==
  /\ At(p, "restore")
  /\ Goto(p, "result")
  /\ UNCHANGED <<cfg, package, regular, advanced, call, checker, finding, report, result,
                 diagnostics>>

(* The deferred function puts pass.Report back. *)
RestoreReport(p) ==
  /\ At(p, "restore")
  /\ report' = [report EXCEPT ![p] = "driver"]
  /\ Goto(p, "result")
  /\ UNCHANGED <<cfg, package, regular, advanced, call, checker, finding, result, diagnostics>>

(* regularCheck gets the named result. *)
TakeResult(p) ==
  /\ At(p, "result")
  /\ IF result[p]
     THEN Report(p, [by |-> Running(p).name, at |-> call[p]]) /\ NextCall(p)
     ELSE NextChecker(p) /\ UNCHANGED <<result, diagnostics>>
  /\ Goto(p, "regular")
  /\ UNCHANGED <<cfg, package, regular, advanced, finding, report>>

(* Preorder is over: the advanced checkers start. *)
EndOfCalls(p) ==
  /\ At(p, "regular") /\ call[p] > Len(package[p].calls)
  /\ checker' = [checker EXCEPT ![p] = 1]
  /\ Goto(p, "advanced")
  /\ UNCHANGED <<cfg, package, regular, advanced, call, finding, report, result, diagnostics>>

InAdvanced(p) == At(p, "advanced") /\ checker[p] <= Len(advanced[p])
Findings(p) == package[p].found[advanced[p][checker[p]]]

(* One element of the list that the current advanced checker returned. *)
ReportFinding(p) ==
  /\ InAdvanced(p) /\ finding[p] < Findings(p)
  /\ finding' = [finding EXCEPT ![p] = @ + 1]
  /\ Report(p, [by |-> advanced[p][checker[p]].name, at |-> finding[p] + 1])
  /\ UNCHANGED <<cfg, package, pc, regular, advanced, call, checker, report>>

NextAdvanced(p) ==
  /\ InAdvanced(p) /\ finding[p] = Findings(p)
  /\ finding' = [finding EXCEPT ![p] = 0]
  /\ NextChecker(p)
  /\ UNCHANGED <<cfg, package, pc, regular, advanced, report, result, diagnostics>>

Finish(p) ==
  /\ At(p, "advanced") /\ checker[p] > Len(advanced[p])
  /\ Goto(p, "done")
  /\ UNCHANGED <<cfg, package, regular, advanced, call, checker, finding, report, result,
                 diagnostics>>

Step(p) ==
  \/ BuildCheckers(p) \/ BuildFails(p)
  \/ SkipCall(p) \/ TryChecker(p)
  \/ SwapReport(p) \/ CheckPrintf(p) \/ RestoreReport(p) \/ TakeResult(p)
  \/ EndOfCalls(p) \/ ReportFinding(p) \/ NextAdvanced(p) \/ Finish(p)

Next == \E p \in Passes : Step(p)

Spec == Init /\ [][Next]_vars

-----------------------------------------------------------------------------
Instances == [name : All, option : Options \cup {Nil}]
Diagnostics == [by : All \cup {"printf"}, at : Nat \ {0}]

(* Every variable has its type. *)
TypeOK ==
  /\ cfg \in Configs /\ package \in Inputs
  /\ pc \in [Passes -> Locations]
  /\ regular \in [Passes -> Seq(Instances)] /\ advanced \in [Passes -> Seq(Instances)]
  /\ call \in [Passes -> Nat \ {0}] /\ checker \in [Passes -> Nat \ {0}]
  /\ finding \in [Passes -> Nat]
  /\ report \in [Passes -> {"driver", "formatter"}] /\ result \in [Passes -> BOOLEAN]
  /\ diagnostics \in [Passes -> Seq(Diagnostics)]

Status(p) ==
  IF pc[p] = "done" THEN "ok" ELSE IF pc[p] = "failed" THEN "error" ELSE "running"

(* singlechecker prints the diagnostics of a package when its pass is over. *)
Linter == INSTANCE AbstractLinter WITH
  diagnostics <- [p \in Passes |-> IF pc[p] = "done" THEN diagnostics[p] ELSE <<>>],
  status      <- [p \in Passes |-> Status(p)]

Assertion(d) == d.by # "printf" /\ IsRegular(d.by)

(* "I'm not interested in multiple diagnostics per assertion": no call is  *)
(* reported by two regular checkers, nor twice by one.                     *)
OneDiagnosticPerAssertion ==
  \A p \in Passes : \A i, j \in 1 .. Len(diagnostics[p]) :
    /\ i # j
    /\ Assertion(diagnostics[p][i]) /\ Assertion(diagnostics[p][j])
    => diagnostics[p][i].at # diagnostics[p][j].at

(* The checker an assertion is reported by is the highest in the registry  *)
(* of those that are enabled and, with the settings configured for them,   *)
(* object to it; what printf captures never reaches the driver itself.     *)
HighestPriorityWins ==
  \A p \in Passes : \A i \in 1 .. Len(diagnostics[p]) :
    LET d == diagnostics[p][i] IN
      /\ d.by \in Wanted(cfg)
      /\ Assertion(d) =>
           /\ d.at <= Len(package[p].calls)
           /\ d.by \in Linter!Objectors(cfg, package[p].calls[d.at])
           /\ \A n \in Linter!Objectors(cfg, package[p].calls[d.at]) :
                Priority(d.by) <= Priority(n)

(* The formatter holds pass.Report only while printf runs: no other        *)
(* checker's diagnostic, and not its own, can end up in its closure.       *)
ReportIsLent ==
  \A p \in Passes : report[p] = "formatter" => pc[p] \in {"printf", "restore"}

(* No diagnostic is lost, repeated, moved or added by the way passes       *)
(* interleave: each package gets what the configuration and it determine.  *)
ImplementsLinter == Linter!Spec
=============================================================================
