--------------------------- MODULE AssertionCalls ---------------------------
(***************************************************************************)
(* internal/checkers/call_meta.go and helpers_diagnostic.go: an assertion  *)
(* as the source has it, what NewCallMeta makes of it, and the reports of  *)
(* a regular checker with the edits they suggest.                          *)
(***************************************************************************)
EXTENDS GoExprs, FiniteSets

(* A call x.fn(raw...), x.fnf(raw...) if f; spread: it ends in `...`.      *)
AssertionCall(x, fn, f, raw, spread) ==
  [x |-> x, fn |-> fn, f |-> f, raw |-> raw, spread |-> spread]

Package(n) == Expr("package", n, "", <<>>)

AssertObjects == {"*assert.Assertions", "*Suite", "*CollectT"}
RequireObjects == {"*require.Assertions"}

IsPkg(c) == c.x.op = "package"
IsAssert(c) == IF IsPkg(c) THEN c.x.name = "assert" ELSE c.x.type \in AssertObjects
IsRequire(c) == IF IsPkg(c) THEN c.x.name = "require" ELSE c.x.type \in RequireObjects

(* NewCallMeta returns nil for what is no call of testify. *)
IsTestify(c) == IsAssert(c) \/ IsRequire(c)

(* trimTArg: the first argument goes if it implements TestingT, be it the  *)
(* t of a package function or an operand of a method.                      *)
Trimmed(c) == IF c.raw # <<>> /\ Head(c.raw).type \in TestingTs THEN 1 ELSE 0

Args(c) == SubSeq(c.raw, Trimmed(c) + 1, Len(c.raw))
Has(c, n) == Len(Args(c)) >= n
Arg(c, n) == Args(c)[n]
-----------------------------------------------------------------------------
(* A checker says nothing, or reports with the calls its fixes lead to, or *)
(* panics.                                                                 *)
Silent == [says |-> "nothing", fixes |-> {}]
Panic == [says |-> "panic", fixes |-> {}]
Report(calls) == [says |-> "report", fixes |-> calls]
WithoutFix == Report({})
ReportIf(b) == IF b THEN WithoutFix ELSE Silent

(* `if d := ...; d != nil { return d }`, for a sequence of checks. *)
RECURSIVE FirstSaying(_)
FirstSaying(results) ==
  IF results = <<>> THEN Silent
  ELSE IF Head(results) # Silent THEN Head(results) ELSE FirstSaying(Tail(results))

(* The text edit that puts es for the first n arguments: whatever message  *)
(* follows them stays.                                                     *)
Edit(c, n, es) ==
  LET k == Trimmed(c) IN
  [c EXCEPT !.raw = SubSeq(c.raw, 1, k) \o es \o SubSeq(c.raw, k + n + 1, Len(c.raw))]

(* Fault: the suffix is forgotten. *)
RenamedWithoutF(c, fn) == [c EXCEPT !.fn = fn, !.f = FALSE]

(* newSuggestedFuncReplacement, with the `f` of the call. *)
Renamed(c, fn) == [c EXCEPT !.fn = fn]

(* newUseFunctionDiagnostic with an additional edit; newRemoveFnDiagnostic *)
UseFunction(c, fn, n, es) == Report({Renamed(Edit(c, n, es), fn)})
RemoveFn(c, e) == Report({Edit(c, 1, <<e>>)})

(* The same for a surviving argument, if there is one. *)
UseFunctionOn(c, fn, n, found) ==
  IF found = {} THEN Silent ELSE UseFunction(c, fn, n, <<CHOOSE e \in found : TRUE>>)
=============================================================================
