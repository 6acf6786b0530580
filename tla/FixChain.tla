------------------------------ MODULE FixChain ------------------------------
(***************************************************************************)
(* The chain of warnings an assertion goes through: the linter reports the *)
(* first enabled regular checker that objects to the call, the user applies*)
(* its fix and runs the linter again, until there is no fix to apply.      *)
(* Each run has a configuration of its own, so that any checker with an    *)
(* objection may be the first: some configuration disables the ones above  *)
(* it in the table.  The formatter has a module of its own.                *)
(***************************************************************************)
EXTENDS ValueCheckers, MeaningCheckers, TestifyVerdicts

CONSTANTS Calls, Settings

ASSUME FixChainAssumption ==
  Settings \subseteq [ignoreCustomTypes : BOOLEAN, mode : {"remove", "require"}]

VARIABLES
  original,      \* the call as the user wrote it
  call,          \* as the fixes have left it
  settings,      \* of bool-compare and suite-extra-assert-call
  stage,         \* "lint", "report", "clean" or "panic"
  checker,       \* the checker whose report the user reads
  fixes          \* the calls that its fixes lead to

vars == <<original, call, settings, stage, checker, fixes>>

R == INSTANCE CheckersRegistry WITH Registry <- <<>>, Stranger <- ""

(* The regular checkers of the table, in its order, but for the formatter. *)
Checkers ==
  LET IsIn(row) == row.regular /\ row.name # "formatter"
      rows == SelectSeq(R!TestifylintRegistry, IsIn)
  IN  [k \in DOMAIN rows |-> rows[k].name]

Says(n, c, s) ==
  CASE ~ IsTestify(c) -> Silent
    [] n = "float-compare" -> FloatCompare(c)
    [] n = "bool-compare" -> BoolCompare(c, s.ignoreCustomTypes)
    [] n = "empty" -> Empty(c)
    [] n = "negative-positive" -> NegativePositive(c)
    [] n = "compares" -> Compares(c)
    [] n = "contains" -> Contains(c)
    [] n = "error-nil" -> ErrorNil(c)
    [] n = "nil-compare" -> NilCompare(c)
    [] n = "error-is-as" -> ErrorIsAs(c)
    [] n = "encoded-compare" -> EncodedCompare(c)
    [] n = "expected-actual" -> ExpectedActual(c)
    [] n = "len" -> LenCheck(c)
    [] n = "equal-values" -> EqualValues(c)
    [] n = "regexp" -> Regexp(c)
    [] n = "suite-extra-assert-call" -> SuiteExtraAssertCall(c, s.mode)
    [] n = "suite-dont-use-pkg" -> SuiteDontUsePkg(c)
    [] n = "useless-assert" -> UselessAssert(c)

Objectors(c, s) == { k \in DOMAIN Checkers : Says(Checkers[k], c, s) # Silent }

Init ==
  /\ original \in Calls /\ call = original /\ settings \in Settings
  /\ stage = "lint" /\ checker = "" /\ fixes = {}

Lint(n) ==
  LET said == Says(n, call, settings) IN
  /\ stage = "lint" /\ said # Silent
  /\ stage' = said.says /\ checker' = n /\ fixes' = said.fixes
  /\ UNCHANGED <<original, call, settings>>

LintClean ==
  /\ stage = "lint" /\ Objectors(call, settings) = {}
  /\ stage' = "clean" /\ checker' = "" /\ fixes' = {}
  /\ UNCHANGED <<original, call, settings>>

ApplyFix ==
  /\ stage = "report" /\ call' \in fixes
  /\ stage' = "lint" /\ fixes' = {}
  /\ UNCHANGED <<original, settings, checker>>

Next == (\E k \in DOMAIN Checkers : Lint(Checkers[k])) \/ LintClean \/ ApplyFix

Spec == Init /\ [][Next]_vars
FairSpec == Spec /\ WF_vars(Next)
-----------------------------------------------------------------------------
Ended == stage \in {"clean", "panic"} \/ (stage = "report" /\ fixes = {})

(* The values of a type that tell the assertions apart: NaN, typed nil     *)
(* pointers, pointers to equal values, an error without content, wrapped   *)
(* errors, documents in two layouts.                                       *)
Ints == { <<-1>>, <<0>>, <<1>>, <<2>> }
Texts == { <<>>, <<1>>, <<1, 2>>, <<100, 0>>, <<100, 1>>, <<101, 0>> }
Pointers == { <<>>, <<1, 0>>, <<2, 5>>, <<3, 5>> }
ErrorValues ==
  { NilValue, Value("*MyErr", <<>>), Value("*MyErr", <<4, 0>>), Value("*MyErr", <<5, 7>>),
    Value("*errorString", <<6, 7>>), Value("*wrapError", <<7, 6>>) }

Typed(t, cs) == { Value(t, c) : c \in cs }

ValuesOf(t) ==
  CASE t \in BoolTypes -> Typed(t, {<<0>>, <<1>>})
    [] t \in {"int", "int64"} -> Typed(t, Ints)
    [] t \in UnsignedTypes -> Typed(t, Ints \ {<<-1>>})
    [] t \in FloatTypes -> Typed(t, Ints) \cup {NaN}
    [] t \in StringKinds \cup ByteKinds -> Typed(t, Texts)
    [] t = "[]int" -> Typed(t, {<<>>, <<0>>, <<1, 2>>})
    [] t = "[2]int" -> Typed(t, {<<0, 0>>, <<0, 1>>})
    [] t = "error" -> ErrorValues
    [] t = "*MyErr" -> { v \in ErrorValues : v.t = "*MyErr" }
    [] t = "func" -> Typed(t, {<<>>, <<1>>})
    [] t = "any" -> {NilValue, Value("bool", <<1>>), Value("int", <<0>>), Value("int", <<1>>),
                     Value("string", <<>>), Value("*int", <<>>), Value("*int", <<2, 5>>)}
    [] t \in {"*Buffer", "Buffer"} -> Typed(t, Texts)
    [] OTHER -> Typed(t, Pointers)

RECURSIVE Environments(_)
Environments(es) ==
  IF es = {} THEN {<<>>}
  ELSE LET e == CHOOSE x \in es : TRUE
       IN  { (e :> v) @@ rest : v \in ValuesOf(e.type), rest \in Environments(es \ {e}) }

UnknownsOf(c) == UNION { Unknowns(Operands(c)[k]) : k \in DOMAIN Operands(c) }

(* The call compiles: the operands fit the parameters of its function.     *)
Compiles(c) ==
  LET es == Operands(c)
      AreIn(ks, types) == \A k \in ks : es[k].type \in types
  IN  /\ Len(es) = Arity(c.fn)
      /\ CASE c.fn \in {"True", "False"} -> AreIn({1}, {"bool"})
           [] c.fn = "Len" -> AreIn({2}, {"int"})
           [] c.fn \in {"Error", "NoError", "ErrorAs", "NotErrorAs"} ->
                AreIn({1}, ErrorTypes \cup {"untyped nil"})
           [] c.fn \in {"ErrorIs", "NotErrorIs"} -> AreIn({1, 2}, ErrorTypes \cup {"untyped nil"})
           [] c.fn \in {"JSONEq", "YAMLEq"} -> AreIn({1, 2}, {"string"})
           [] OTHER -> TRUE

ASSUME CallsAssumption == \A c \in Calls : IsTestify(c)

(* What a comparison, or an assertion of two operands, is made on. *)
Compared(c) ==
  LET e == Operands(c)[1] IN
  IF c.fn \in {"True", "False"} /\ e.op \in Comparisons THEN e.args ELSE Operands(c)

Among(Test(_), es) == \E k \in DOMAIN es : Test(es[k])

(* Operands whose fix does not compile: text of a type of its own and the  *)
(* nil of json.RawMessage(nil), neither a string; a length that is no int; *)
(* and a bool of a package that has a type of that name.                   *)
IsNoString(e) == IsNil(Unwrapped(e)) \/ Unwrapped(e).type = "MyString"
IsLength(e) == LenArg(e) # {}
IsNoInt(e) == e.type # "int"

Misfits(c) ==
  LET es == Compared(c) IN
  \/ Among(IsNoString, es) /\ Among(IsJSONStyle, [k \in DOMAIN es |-> Unwrapped(es[k])])
  \/ Among(IsRawMessage, es) /\ Among(IsNoString, es)
  \/ Among(IsLength, es) /\ Among(IsNoInt, es)
  \/ Among(IsBoolOverride, es)

(* What the fix of a checker leaves compiles if what it found did.         *)
FixesCompile == [][call' # call /\ Compiles(call) /\ ~ Misfits(call) => Compiles(call')]_vars

(* The values that the old assertion and the new one see alike; what is    *)
(* left out differs by design (README: nil-compare, error-nil,             *)
(* encoded-compare), or is what the functions of testify do differently.   *)
TextTypes == StringKinds \cup ByteKinds \cup {"*Buffer", "Buffer"}

Ordinary(n, vs) ==
  CASE n = "nil-compare" -> \A v \in vs : v.t # "func" /\ (IsNilObject(v) => v = NilValue)
    [] n = "error-nil" -> \A v \in vs : IsEmptyObject(v) => v = NilValue
    [] n = "encoded-compare" -> \A v \in vs : v.t \in TextTypes => v.c \in {<<100, 0>>, <<101, 0>>}
    [] n = "compares" ->
         /\ NaN \notin vs
         /\ \A v, w \in vs : v.t # "func" /\ (IsNilObject(v) => v = NilValue) /\ (DeepEqual(v, w) => v = w)
    [] n = "empty" -> \A v \in vs : v.t = "[2]int" => ~ IsEmptyObject(v)
    [] OTHER -> TRUE

(* The operands of c are of one type.  A literal has the type of the other *)
(* operand in a comparison of the language, and its own as an argument.    *)
OfOneType(c) ==
  \A k, l \in DOMAIN Compared(c) :
    Compared(c)[k].type = Compared(c)[l].type \/ "untyped nil" \in {Compared(c)[k].type, Compared(c)[l].type}

(* Fixes that are meant to check something else: Error(err, sentinel), and *)
(* a length below zero; InEpsilon is relative to its first operand.        *)
ChecksSomethingElse(c) ==
  \/ c.fn \in {"Error", "NoError", "InEpsilon"}
  \/ c.fn \in {"Less", "Greater"} /\ IsMeaningless(c)

(* trimTArg takes an operand that implements TestingT for the t. *)
LosesAnOperand(c) == Args(c) # OwnArgs(c)

Agree(n, c, d) ==
  \A env \in Environments(UnknownsOf(c) \cup UnknownsOf(d)) :
    Ordinary(n, { env[e] : e \in DOMAIN env }) => Verdict(c, env) = Verdict(d, env)

(* The new assertion passes exactly when the old one does, for all the     *)
(* ordinary values of what it is made on.                                  *)
FixesKeepTheVerdict ==
  [][call' # call /\ OfOneType(call) /\ ~ Misfits(call) /\ ~ LosesAnOperand(call)
       /\ ~ ChecksSomethingElse(call)
       => Agree(checker, call, call')]_vars

(* A fix keeps what the assertion does when it fails: whether the test     *)
(* stops, and the message with its format, since the edits end where the   *)
(* message begins.  Error(err, sentinel) is meant to have none.            *)
MessagesSurvive ==
  [][call' # call => /\ IsRequire(call') = IsRequire(call) /\ call'.f = call.f
                     /\ \/ Message(call') = Message(call)
                        \/ checker = "error-is-as" /\ call.fn \in {"Error", "NoError"}
                        \/ LosesAnOperand(call)]_vars

IsPointerToNil(c) ==
  /\ c.fn \in {"True", "False"} /\ Arg(c, 1).op \in {"==", "!="}
  /\ \E e \in XorNil(Arg(c, 1).args[1], Arg(c, 1).args[2]) : e.type \notin InterfaceTypes \cup {"func"}

(* compares makes Equal(p, nil) of True(p == nil), which fails on every    *)
(* nil pointer; nil-compare then makes Nil(p) of it.  When the chain ends  *)
(* the assertion is again what it was, on all values.                      *)
NilChecksSurvive ==
  stage = "clean" /\ IsPointerToNil(original) =>
    \A env \in Environments(UnknownsOf(original) \cup UnknownsOf(call)) :
      Verdict(original, env) = Verdict(call, env)

(* Where the fixes lead when every checker is enabled, in n runs at most.  *)
RECURSIVE TableOutcome(_, _, _)
TableOutcome(c, s, n) ==
  LET first == CHOOSE k \in Objectors(c, s) : \A l \in Objectors(c, s) : k <= l
      said == Says(Checkers[first], c, s).fixes
  IN  IF n = 0 \/ Objectors(c, s) = {} \/ said = {} THEN c
      ELSE TableOutcome(CHOOSE d \in said : TRUE, s, n - 1)

(* Two checkers read these differently: "" with a text that looks encoded  *)
(* (empty, encoded-compare), a length with a variable or another length    *)
(* (compares, expected-actual, len), a bool of a package (compares).       *)
IsAmbiguous(c) ==
  LET es == Compared(c) IN
  \/ Among(IsEmptyStringLit, es) \/ Misfits(c)
  \/ Among(IsLength, es) /\ ~ Among(IsIntBasicLit, es)

MaxRounds == 8

(* Whatever checkers were enabled in between, an assertion the linter has  *)
(* nothing against is the one its table leads to.                          *)
OneOutcome ==
  stage = "clean" /\ ~ IsAmbiguous(original) => call = TableOutcome(original, settings, MaxRounds)

(* The user is done at some point: no two checkers undo each other's fixes *)
(* in turn, and none its own.                                              *)
ChainsEnd == <>Ended
=============================================================================
