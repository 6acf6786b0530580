--------------------------- MODULE AbstractLinter ---------------------------
(***************************************************************************)
(* What the analyzer promises of one run over several packages: each       *)
(* package gets, in one step, the diagnostics that the configuration and   *)
(* the package determine, or none and an error.                            *)
(***************************************************************************)
EXTENDS SelectionRules

CONSTANT Passes        \* one analysis.Pass per package

VARIABLES cfg, package, diagnostics, status

Instance(c, n) == [name |-> n, option |-> OptionFor(c, n)]

(* The regular checkers that object to a call of an assertion, and among   *)
(* them the one that comes first in the registry.                          *)
Objectors(c, call) ==
  IF call.testify
  THEN { n \in Wanted(c) : IsRegular(n) /\ Instance(c, n) \in call.by }
  ELSE {}
First(S) == CHOOSE n \in S : \A m \in S : Priority(n) <= Priority(m)

RegularDiagnostics(c, pkg) ==
  { [by |-> First(Objectors(c, pkg.calls[i])), at |-> i] :
      i \in { k \in 1 .. Len(pkg.calls) : Objectors(c, pkg.calls[k]) # {} } }

AdvancedDiagnostics(c, pkg) ==
  UNION { { [by |-> n, at |-> k] : k \in 1 .. pkg.found[Instance(c, n)] } :
            n \in { m \in Wanted(c) : ~ IsRegular(m) } }

(* d is reported before e: assertions in source order, then the advanced   *)
(* checkers in priority order, each in the order of its own list.          *)
Before(d, e) ==
  \/ IsRegular(d.by) /\ IsRegular(e.by) /\ d.at < e.at
  \/ IsRegular(d.by) /\ ~ IsRegular(e.by)
  \/ ~ IsRegular(d.by) /\ ~ IsRegular(e.by) /\ Priority(d.by) < Priority(e.by)
  \/ ~ IsRegular(d.by) /\ d.by = e.by /\ d.at < e.at

IsExpected(ds, c, pkg) ==
  /\ { ds[i] : i \in 1 .. Len(ds) } = RegularDiagnostics(c, pkg) \cup AdvancedDiagnostics(c, pkg)
  /\ \A i, j \in 1 .. Len(ds) : i < j => Before(ds[i], ds[j])

Init == diagnostics = [p \in Passes |-> <<>>] /\ status = [p \in Passes |-> "running"]

Analyze(p) ==
  /\ status[p] = "running" /\ Acceptable(cfg)
  /\ status' = [status EXCEPT ![p] = "ok"]
  /\ IsExpected(diagnostics'[p], cfg, package[p])
  /\ \A q \in Passes \ {p} : diagnostics'[q] = diagnostics[q]
  /\ UNCHANGED <<cfg, package>>

Fail(p) ==
  /\ status[p] = "running" /\ ~ Acceptable(cfg)
  /\ status' = [status EXCEPT ![p] = "error"]
  /\ UNCHANGED <<cfg, package, diagnostics>>

Next == \E p \in Passes : Analyze(p) \/ Fail(p)
vars == <<cfg, package, diagnostics, status>>
Spec == Init /\ [][Next]_vars
=============================================================================
