----------------------------- MODULE SuiteFiles -----------------------------
(***************************************************************************)
(* The checkers of methods: suite-broken-parallel, suite-thelper,          *)
(* suite-method-signature and suite-subtest-run.  The first two edit lines *)
(* of text that they know as positions of nodes only, so a method is its   *)
(* text: lines of tokens, from which its statements follow.  The user      *)
(* applies one suggested fix and runs the linter again.                    *)
(***************************************************************************)
EXTENDS Naturals, SequencesExt

CONSTANTS Methods

VARIABLES
  original,      \* the method as the user wrote it
  method,        \* as the fixes have left it
  stage,         \* "lint", "done" or "panic"
  reports        \* the checkers that object, when the linter is done

vars == <<original, method, stage, reports>>

(* rcv and its type, the name of the method, what is between the           *)
(* parentheses and behind them, its lines, and whether the file ends there.*)
Method(rcv, type, name, sig, lines, last) ==
  [rcv |-> rcv, type |-> type, name |-> name, sig |-> sig, lines |-> lines, last |-> last]

Openers == {"{", "s.Run(func() {", "s.T().Run(func(t) {"}
Closers == {"}", "})"}
Assertions == {"s.True(ok)", "assert.True(t, ok)"}
ParallelCalls == {"s.T().Parallel()", "t.Parallel()", "s.T()."}
TestNames == {"TestA", "Test"}                \* names that begin with Test
ServiceNames ==
  { "T", "SetT", "SetS", "SetupSuite", "SetupTest", "TearDownSuite", "TearDownTest",
    "BeforeTest", "AfterTest", "HandleStats", "SetupSubTest", "TearDownSubTest" }

Tokens(lines) == FlattenSeq(lines)

(* The statements are what is left of the text without its layout.         *)
Statements(m) ==
  LET IsStatement(x) == x \notin {";", "//"} IN SelectSeq(Tokens(m.lines), IsStatement)

CountOf(S, s) == Cardinality({ k \in DOMAIN s : s[k] \in S })
DepthAt(s, k) == CountOf(Openers, SubSeq(s, 1, k)) - CountOf(Closers, SubSeq(s, 1, k))

(* A value has no methods of an embedded suite.Suite: they are of *Suite.  *)
IsSuiteMethod(m) == m.type = "*S"

FirstStatement(m) == Statements(m)[2]
HelperCall(m) == m.rcv \o ".T().Helper()"

(* fnContainsAssertions: among the statements of the body itself.          *)
ContainsAssertions(m) ==
  LET s == Statements(m) IN \E k \in DOMAIN s : s[k] \in Assertions /\ DepthAt(s, k) = 1

(* A token by its line and its place there. *)
Places(m) == UNION { {l} \X DOMAIN m.lines[l] : l \in DOMAIN m.lines }
At(m, p) == m.lines[p[1]][p[2]]
-----------------------------------------------------------------------------
(* Fault: the edit ends one line too late. *)
RemoveBeyond(m, l, k) ==
  LET next == IF l + 1 < Len(m.lines) THEN m.lines[l + 2] ELSE <<>> IN
  [m EXCEPT !.lines = SubSeq(m.lines, 1, l - 1) \o <<SubSeq(m.lines[l], 1, k - 1) \o next>>
                        \o SubSeq(m.lines, l + 3, Len(m.lines))]

(* From the call to the start of the next line.                            *)
RemoveFrom(m, l, k) ==
  LET next == IF l < Len(m.lines) THEN m.lines[l + 1] ELSE <<>> IN
  [m EXCEPT !.lines = SubSeq(m.lines, 1, l - 1) \o <<SubSeq(m.lines[l], 1, k - 1) \o next>>
                        \o SubSeq(m.lines, l + 2, Len(m.lines))]

(* Fault: the edit is empty. *)
RemoveNothing(m, l, k) == m

RemoveParallel(m, l, k) == RemoveFrom(m, l, k)

(* Fault: the calls on a t are left alone. *)
OwnParallels(m) == { p \in Places(m) : IsSuiteMethod(m) /\ At(m, p) = "s.T().Parallel()" }

BrokenParallels(m) == { p \in Places(m) : IsSuiteMethod(m) /\ At(m, p) \in ParallelCalls }

(* LineStart of a line behind the last one. *)
Panics(m) == \E p \in BrokenParallels(m) : m.last /\ p[1] = Len(m.lines)
-----------------------------------------------------------------------------
IsHelper(m) ==
  /\ IsSuiteMethod(m) /\ m.name \notin TestNames \cup ServiceNames
  /\ ContainsAssertions(m) /\ m.rcv # ""

NeedsHelper(m) == IsHelper(m) /\ FirstStatement(m) # HelperCall(m)

(* The call and a blank line at a place of the text. *)
InsertedAt(m, p) ==
  LET line == m.lines[p[1]] IN
  [m EXCEPT !.lines = SubSeq(m.lines, 1, p[1] - 1)
                        \o << SubSeq(line, 1, p[2] - 1) \o <<HelperCall(m)>>, <<>>,
                              SubSeq(line, p[2], Len(line)) >>
                        \o SubSeq(m.lines, p[1] + 1, Len(m.lines))]

(* The place of the first statement may be on the line of the brace, or    *)
(* behind lines of comments.                                               *)
InsertHelper(m) ==
  LET IsFirst(p) == At(m, p) = FirstStatement(m) /\ p # <<1, 1>>
      first == CHOOSE p \in Places(m) :
                 IsFirst(p) /\ \A q \in Places(m) : IsFirst(q) => q[1] > p[1] \/ (q[1] = p[1] /\ q[2] >= p[2])
  IN  InsertedAt(m, first)
-----------------------------------------------------------------------------
Interface ==
  "SetupSuite" :> "SetupAllSuite" @@ "SetupTest" :> "SetupTestSuite"
    @@ "TearDownSuite" :> "TearDownAllSuite" @@ "TearDownTest" :> "TearDownTestSuite"
    @@ "BeforeTest" :> "BeforeTest" @@ "AfterTest" :> "AfterTest" @@ "HandleStats" :> "WithStats"
    @@ "SetupSubTest" :> "SetupSubTest" @@ "TearDownSubTest" :> "TearDownSubTest"

(* Of the methods of suite/interfaces.go. *)
Signature(iface) ==
  CASE iface \in {"BeforeTest", "AfterTest"} -> "(string, string)"
    [] iface = "WithStats" -> "(string, *SuiteInformation)"
    [] OTHER -> "()"

(* Fault: what is no test has the signature it likes. *)
WrongTestSignature(m) == IsSuiteMethod(m) /\ m.name \in TestNames /\ m.sig # "()"

WrongSignature(m) ==
  /\ IsSuiteMethod(m)
  /\ \/ m.name \in TestNames /\ m.sig # "()"
     \/ m.name \in DOMAIN Interface /\ m.sig # Signature(Interface[m.name])

SubtestRuns(m) == \E k \in DOMAIN Statements(m) : Statements(m)[k] = "s.T().Run(func(t) {"

Reports(m) ==
  { n \in {"suite-broken-parallel", "suite-thelper", "suite-method-signature", "suite-subtest-run"} :
      CASE n = "suite-broken-parallel" -> BrokenParallels(m) # {}
        [] n = "suite-thelper" -> NeedsHelper(m)
        [] n = "suite-method-signature" -> WrongSignature(m)
        [] n = "suite-subtest-run" -> SubtestRuns(m) }
-----------------------------------------------------------------------------
Init ==
  /\ original \in Methods /\ method = original
  /\ stage = "lint" /\ reports = {}

FixBrokenParallel ==
  /\ stage = "lint" /\ ~ Panics(method)
  /\ \E p \in BrokenParallels(method) : method' = RemoveParallel(method, p[1], p[2])
  /\ UNCHANGED <<original, stage, reports>>

FixHelper ==
  /\ stage = "lint" /\ ~ Panics(method) /\ NeedsHelper(method)
  /\ method' = InsertHelper(method)
  /\ UNCHANGED <<original, stage, reports>>

Done ==
  /\ stage = "lint" /\ BrokenParallels(method) = {} /\ ~ NeedsHelper(method)
  /\ stage' = "done" /\ reports' = Reports(method)
  /\ UNCHANGED <<original, method>>

Crash ==
  /\ stage = "lint" /\ Panics(method)
  /\ stage' = "panic"
  /\ UNCHANGED <<original, method, reports>>

Next == FixBrokenParallel \/ FixHelper \/ Done \/ Crash

Spec == Init /\ [][Next]_vars
FairSpec == Spec /\ WF_vars(Next)
-----------------------------------------------------------------------------
Opens(s, j, k) ==
  j < k /\ s[j] \in Openers /\ \A i \in j .. k : DepthAt(s, i) >= DepthAt(s, j)

UsesOwnT(s, j, k) ==
  /\ j < k /\ s[k] \in {"t.Parallel()", "assert.True(t, ok)"}
  /\ ~ \E i \in j .. k : Opens(s, i, k) /\ s[i] = "s.T().Run(func(t) {"

(* The text is that of one function: its brackets are closed at its end, a *)
(* variable that is declared is used, and there is a value to call.        *)
Compiles(m) ==
  LET s == Statements(m) IN
  /\ \A k \in DOMAIN s : DepthAt(s, k) = 0 <=> k = Len(s)
  /\ \A k \in DOMAIN s : s[k] = "Parallel()" <=> k > 1 /\ s[k - 1] = "s.T()."
  /\ \A j \in DOMAIN s : s[j] = "t := s.T()" => \E k \in DOMAIN s : UsesOwnT(s, j, k)
  /\ \A k \in DOMAIN s : s[k] # "_.T().Helper()"

(* Texts that the positions of nodes are too little for: something follows *)
(* the call on its line, the call is on two lines, it is the only use of   *)
(* its t, or the receiver has no value.                                    *)
SharesItsLine(m) ==
  \E p \in BrokenParallels(m) : \E q \in Places(m) : q[1] = p[1] /\ q[2] > p[2] /\ At(m, q) # "//"
IsOnTwoLines(m) == \E p \in Places(m) : At(m, p) = "s.T()."
HasOneUse(m) ==
  LET s == Statements(m) IN
  \E j \in DOMAIN s : s[j] = "t := s.T()" /\ ~ \E k \in DOMAIN s : UsesOwnT(s, j, k) /\ s[k] \in Assertions
HasNoValue(m) == m.rcv = "_"

IsFragile(m) == SharesItsLine(m) \/ IsOnTwoLines(m) \/ HasOneUse(m) \/ HasNoValue(m)

(* A method that compiled compiles after every fix.                        *)
FixesCompile == [][Compiles(method) /\ ~ IsFragile(method) => Compiles(method')]_method

(* What the method is to become: no Parallel, and Helper first in a helper.*)
Wanted(m) ==
  LET IsSerial(x) == x \notin ParallelCalls
      s == SelectSeq(Statements(m), IsSerial)
  IN  IF IsHelper(m) /\ s[2] # HelperCall(m) THEN InsertAt(s, 2, HelperCall(m)) ELSE s

(* suite-thelper does not see that Helper would be first without Parallel. *)
HelperIsSecond(m) == FirstStatement(m) \in ParallelCalls /\ HelperCall(m) \in Range(Statements(m))

(* The fixes of the two checkers lead to one method in whatever order they *)
(* are applied.                                                            *)
OneOutcome ==
  stage = "done" /\ IsSuiteMethod(method) /\ ~ IsFragile(original) /\ ~ HelperIsSecond(original) =>
    Statements(method) = Wanted(original)

(* What suite.Run and T().Run of testify v1 do with the method: a test is  *)
(* called without arguments, a hook only if it has the signature of its    *)
(* interface, and a subtest needs the suite to have its t.                 *)
RunsAsNamed(m) ==
  /\ m.name \in TestNames => m.sig \notin {"(int)", "(string, string)", "(string, *SuiteInformation)"}
  /\ m.name \in ServiceNames \ {"T", "SetT", "SetS"} =>
       m.sig = CASE m.name \in {"BeforeTest", "AfterTest"} -> "(string, string)"
                 [] m.name = "HandleStats" -> "(string, *SuiteInformation)"
                 [] OTHER -> "()"
  /\ \A k \in DOMAIN Statements(m) :
       Statements(m)[k] \notin ParallelCalls \cup {"s.T().Run(func(t) {"}

(* A method of a suite that the linter is done with, and has nothing left  *)
(* against, runs as its name says.                                         *)
QuietMethodsRun ==
  stage = "done" /\ reports = {} /\ IsSuiteMethod(method) => RunsAsNamed(method)

(* The fixes come to an end: no call is put in again.  The linter dies of  *)
(* a call on the last line of its file.                                    *)
FixesEnd == <>(stage = "done" \/ Panics(method))
=============================================================================
