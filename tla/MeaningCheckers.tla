-------------------------- MODULE MeaningCheckers --------------------------
(***************************************************************************)
(* The regular checkers of internal/checkers about what an assertion       *)
(* means: error-nil, nil-compare, error-is-as, encoded-compare,            *)
(* expected-actual, regexp, useless-assert, and the two about the suite a  *)
(* call is made on.                                                        *)
(***************************************************************************)
EXTENDS AssertionCalls

NilIn(c) ==
  LET a == Arg(c, 1)
      b == Arg(c, 2)
  IN  CASE ~ Has(c, 2) -> {}
        [] IsError(a) /\ IsNil(b) -> {a}
        [] IsNil(a) /\ IsError(b) -> {b}
        [] OTHER -> {}

ErrorNil(c) ==
  LET lone == IF Has(c, 1) /\ IsError(Arg(c, 1)) THEN {Arg(c, 1)} ELSE {} IN
  CASE c.fn \in {"Nil", "Empty", "Zero"} -> UseFunctionOn(c, "NoError", 1, lone)
    [] c.fn \in {"NotNil", "NotEmpty", "NotZero"} -> UseFunctionOn(c, "Error", 1, lone)
    [] c.fn \in {"Equal", "EqualValues", "Exactly", "ErrorIs", "IsType"} ->
         UseFunctionOn(c, "NoError", 2, NilIn(c))
    [] c.fn \in {"NotEqual", "NotEqualValues", "NotErrorIs", "IsNotType"} ->
         UseFunctionOn(c, "Error", 2, NilIn(c))
    [] OTHER -> Silent

(* Fault: the negative assertions are forgotten. *)
NilCompareOfEqual(c) ==
  IF Has(c, 2) /\ c.fn \in {"Equal", "EqualValues", "Exactly"}
  THEN UseFunctionOn(c, "Nil", 2, XorNil(Arg(c, 1), Arg(c, 2))) ELSE Silent

NilCompare(c) ==
  CASE ~ Has(c, 2) -> Silent
    [] c.fn \in {"Equal", "EqualValues", "Exactly"} ->
         UseFunctionOn(c, "Nil", 2, XorNil(Arg(c, 1), Arg(c, 2)))
    [] c.fn \in {"NotEqual", "NotEqualValues"} ->
         UseFunctionOn(c, "NotNil", 2, XorNil(Arg(c, 1), Arg(c, 2)))
    [] OTHER -> Silent
-----------------------------------------------------------------------------
IsAssertCollectT(x) == x.type = "*CollectT"

(* The call becomes fn as it is. *)
SentinelFor(c, fn) ==
  IF Has(c, 2) /\ IsError(Arg(c, 2)) THEN UseFunction(c, fn, 0, <<>>) ELSE Silent

(* `len(Args) >= 2 && isError(Args[0]) || isError(Args[1])` *)
TypeOfError(c) ==
  IF Has(c, 2) THEN ReportIf(IsError(Arg(c, 1)) \/ IsError(Arg(c, 2))) ELSE Panic

(* Fault: errors.Is and errors.As inside False are told to be true. *)
PositivePackageCall(c, onIs, onAs) ==
  CASE ~ Has(c, 1) -> Silent
    [] IsPkgFnCall(Arg(c, 1), "errors.Is") -> UseFunction(c, "ErrorIs", 1, Arg(c, 1).args)
    [] IsPkgFnCall(Arg(c, 1), "errors.As") -> UseFunction(c, "ErrorAs", 1, Arg(c, 1).args)
    [] OTHER -> Silent

ErrorsPackageCall(c, onIs, onAs) ==
  CASE ~ Has(c, 1) -> Silent
    [] IsPkgFnCall(Arg(c, 1), "errors.Is") -> UseFunction(c, onIs, 1, Arg(c, 1).args)
    [] IsPkgFnCall(Arg(c, 1), "errors.As") -> UseFunction(c, onAs, 1, Arg(c, 1).args)
    [] OTHER -> Silent

(* The target of errors.As: a pointer to an interface or to an error.      *)
BadTarget(e) ==
  /\ ~ IsEmptyInterface(e)
  /\ \/ ~ IsPointer(e) \/ Elem[e.type] = "error"
     \/ Elem[e.type] \notin InterfaceTypes \cup ErrorTypes

ErrorIsAs(c) ==
  CASE c.fn = "Error" -> IF IsAssertCollectT(c.x) THEN Silent ELSE SentinelFor(c, "ErrorIs")
    [] c.fn = "NoError" -> SentinelFor(c, "NotErrorIs")
    [] c.fn \in {"IsType", "IsNotType"} -> TypeOfError(c)
    [] c.fn = "True" -> ErrorsPackageCall(c, "ErrorIs", "ErrorAs")
    [] c.fn = "False" -> ErrorsPackageCall(c, "NotErrorIs", "NotErrorAs")
    [] c.fn \in {"ErrorAs", "NotErrorAs"} -> ReportIf(Has(c, 2) /\ BadTarget(Arg(c, 2)))
    [] OTHER -> Silent
-----------------------------------------------------------------------------
(* unwrap: whether json.RawMessage was in the chain, and what it ends in.  *)
Wrappers == {"strings.Replace", "strings.ReplaceAll", "strings.Trim", "strings.TrimSpace"}

IsRawMessage(e) == IsPkgFnCall(e, "json.RawMessage")
IsWrapped(e) ==
  \/ IsRawMessage(e)
  \/ e.op = "call" /\ e.name \in Wrappers
  \/ e.op = "conv" /\ e.name \in {"string", "[]byte"}

RECURSIVE Unwrapped(_), IsExplicitJSON(_)
Unwrapped(e) == IF IsWrapped(e) THEN Unwrapped(e.args[1]) ELSE e
IsExplicitJSON(e) ==
  IF IsRawMessage(e) THEN ~ IsNil(e.args[1]) ELSE IsWrapped(e) /\ IsExplicitJSON(e.args[1])

EncodedCompare(c) ==
  IF c.fn \notin {"Equal", "EqualValues", "Exactly"} \/ ~ Has(c, 2) THEN Silent
  ELSE LET operands == <<Unwrapped(Arg(c, 1)), Unwrapped(Arg(c, 2))>>
           Use(fn) == UseFunction(c, fn, 2, [k \in 1 .. 2 |-> StringCastForBytes(operands[k])])
       IN  CASE \E k \in 1 .. 2 : IsExplicitJSON(Arg(c, k)) \/ IsJSONStyle(operands[k]) -> Use("JSONEq")
             [] \E k \in 1 .. 2 : IsYAMLStyle(operands[k]) -> Use("YAMLEq")
             [] OTHER -> Silent
-----------------------------------------------------------------------------
ConvertedTypes == {"uint", "uint8", "int", "int64", "float64", "string"}

(* isParenExpr, isCastedBasicLitOrExpectedValue, isExpectedValueFactory:   *)
(* the name of a method or of a function of a package counts, too.         *)
IsExpectedCall(e) ==
  \/ e.op = "conv" /\ e.name = "(*MyErr)"
  \/ /\ e.op = "conv" /\ e.name \in ConvertedTypes
     /\ IsBasicLit(e.args[1]) \/ IsIdentNamed(ExpectedNames, e.args[1])
  \/ e.op \in {"call", "method"} /\ e.name \in ExpectedNames \cup {"time.Date"}

RECURSIVE IsExpectedValueCandidate(_)
IsExpectedValueCandidate(e) ==
  CASE e.op \in {"()", "*", "&", "-"} -> IsExpectedValueCandidate(e.args[1])
    [] e.op = "composite" -> TRUE
    [] LenArg(e) # {} -> \A x \in LenArg(e) : IsIdentNamed(ExpectedNames, x)
    [] IsCall(e) -> IsExpectedCall(e)
    [] OTHER -> \/ IsBasicLit(e) \/ IsUntypedConst(e) \/ IsTypedConst(e)
                \/ IsIdentNamed(ExpectedNames, e)
                \/ /\ e.op = "field"
                   /\ IsIdentNamed(ExpectedNames, e.args[1]) \/ e.name \in ExpectedNames

(* The functions with an expected and an actual value. *)
ExpectedFirstFns ==
  { "Equal", "EqualExportedValues", "EqualValues", "Exactly", "InDelta", "InDeltaMapValues",
    "InDeltaSlice", "InEpsilon", "InEpsilonSlice", "IsNotType", "IsType", "JSONEq", "NotEqual",
    "NotEqualValues", "NotSame", "Same", "WithinDuration", "YAMLEq" }

(* Fault: that the first is one, too, is not asked. *)
SecondIsExpected(x, y) == IsExpectedValueCandidate(y)

IsWrongOrder(x, y) == IsExpectedValueCandidate(y) /\ ~ IsExpectedValueCandidate(x)

ExpectedActual(c) ==
  IF c.fn \in ExpectedFirstFns /\ Has(c, 2) /\ IsWrongOrder(Arg(c, 1), Arg(c, 2))
  THEN UseFunction(c, c.fn, 2, <<Arg(c, 2), Arg(c, 1)>>)
  ELSE Silent

Regexp(c) ==
  IF c.fn \in {"Regexp", "NotRegexp"} /\ Has(c, 1) /\ IsPkgFnCall(Arg(c, 1), "regexp.MustCompile")
  THEN RemoveFn(c, Arg(c, 1).args[1])
  ELSE Silent
-----------------------------------------------------------------------------
(* Those with two operands that should not be the same expression.         *)
TwoOperandFns ==
  ExpectedFirstFns \cup
  { "Contains", "ElementsMatch", "ErrorAs", "ErrorIs", "Greater", "GreaterOrEqual", "Implements", "Less", "LessOrEqual", "NotElementsMatch", "NotErrorAs", "NotErrorIs", "NotRegexp",
    "NotSubset", "Regexp", "Subset" }

SameVars(c) ==
  \/ c.fn \in TwoOperandFns /\ Has(c, 2) /\ Arg(c, 1) = Arg(c, 2)
  \/ /\ c.fn \in {"True", "False"} /\ Has(c, 1)
     /\ IsBinary(Arg(c, 1)) /\ Arg(c, 1).args[1] = Arg(c, 1).args[2]

(* Fault: only a length counts as never negative. *)
CanNotBeNegativeByLen(e) == LenArg(e) # {}

CanNotBeNegative(e) == LenArg(e) # {} \/ IsUnsigned(e)

IsMeaningless(c) ==
  LET a == Arg(c, 1)
      b == Arg(c, 2)
  IN  CASE c.fn \in {"True", "False"} -> Has(c, 1) /\ IsUntypedBool(a)
        [] c.fn \in {"GreaterOrEqual", "Less"} -> Has(c, 2) /\ IsAnyZero(b) /\ CanNotBeNegative(a)
        [] c.fn \in {"LessOrEqual", "Greater"} -> Has(c, 2) /\ IsAnyZero(a) /\ CanNotBeNegative(b)
        [] c.fn \in {"Implements", "NotImplements"} -> Has(c, 2) /\ a.type = "*any"
        [] c.fn = "Positive" -> Has(c, 1) /\ IsIntBasicLit(a)
        [] c.fn = "Negative" -> Has(c, 1) /\ (IsIntBasicLit(a) \/ CanNotBeNegative(a))
        [] c.fn \in {"Error", "Nil", "NoError", "NotNil"} -> Has(c, 1) /\ IsNil(a)
        [] c.fn \in {"Empty", "NotEmpty"} -> Has(c, 1) /\ IsStringLit(a)
        [] c.fn \in {"Zero", "NotZero"} ->
             Has(c, 1) /\ (IsIntBasicLit(a) \/ IsStringLit(a) \/ IsNil(a) \/ IsUntypedBool(a))
        [] OTHER -> FALSE

UselessAssert(c) == ReportIf(SameVars(c) \/ IsMeaningless(c))
-----------------------------------------------------------------------------
(* In mode "require" s.Fn becomes s.Assert().Fn, in mode "remove" back.    *)
SuiteExtraAssertCall(c, mode) ==
  CASE IsPkg(c) -> Silent
    [] mode = "require" /\ c.x.op = "ident" /\ ImplementsTestifySuite(c.x) ->
         Report({[c EXCEPT !.x = Method(c.x, "Assert", "*assert.Assertions")]})
    [] /\ mode = "remove" /\ c.x.op = "method" /\ c.x.name = "Assert"
       /\ ImplementsTestifySuite(c.x.args[1]) -> Report({[c EXCEPT !.x = c.x.args[1]]})
    [] OTHER -> Silent

ReceiverFor(c, s) == IF IsAssert(c) THEN s ELSE Method(s, "Require", "*require.Assertions")

SuiteDontUsePkg(c) ==
  LET t == Head(c.raw) IN
  IF /\ IsPkg(c) /\ Len(c.raw) >= 2
     /\ t.op = "method" /\ t.name = "T" /\ t.args[1].op = "ident" /\ ImplementsTestifySuite(t.args[1])
  THEN Report({[c EXCEPT !.x = ReceiverFor(c, t.args[1]), !.raw = Tail(c.raw)]})
  ELSE Silent
=============================================================================
