--------------------------- MODULE ValueCheckers ---------------------------
(***************************************************************************)
(* The regular checkers of internal/checkers about the value an assertion  *)
(* is made on: float-compare, bool-compare, empty, negative-positive,      *)
(* compares, contains, len and equal-values, each as what its Check says   *)
(* of the call c.  fn is the function without its `f`.                     *)
(***************************************************************************)
EXTENDS AssertionCalls

EqualFns == {"Equal", "EqualValues", "Exactly"}
NotEqualFns == {"NotEqual", "NotEqualValues"}

FloatCompare(c) ==
  ReportIf(\/ c.fn \in EqualFns /\ Has(c, 2) /\ (IsFloat(Arg(c, 1)) \/ IsFloat(Arg(c, 2)))
           \/ c.fn = "True" /\ Has(c, 1) /\ IsComparisonWithFloat(Arg(c, 1), "==")
           \/ c.fn = "False" /\ Has(c, 1) /\ IsComparisonWithFloat(Arg(c, 1), "!="))
-----------------------------------------------------------------------------
(* newUseFnDiagnostic, and newNeedSimplifyDiagnostic which keeps fn.  The  *)
(* text is bool(e): the name is that of the type in scope.                 *)
BoolInScope(e) == IF IsBoolOverride(e) THEN e.type ELSE "bool"

(* Fault: an operand of a type of its own stays as it is. *)
UseOnBoolAsIs(c, ignoreCustomTypes, fn, n, found) ==
  IF found = {} THEN Silent ELSE UseFunction(c, fn, n, <<CHOOSE x \in found : TRUE>>)

UseOnBool(c, ignoreCustomTypes, fn, n, found) ==
  LET e == CHOOSE x \in found : TRUE IN
  CASE found = {} -> Silent
    [] HasBoolType(e) -> UseFunction(c, fn, n, <<e>>)
    [] ignoreCustomTypes -> Silent
    [] OTHER -> UseFunction(c, fn, n, <<Conv(BoolInScope(e), e)>>)

(* The other operand of a comparison with one bool literal b. *)
ComparedTo(c, b) ==
  LET x == Arg(c, 1)
      y == Arg(c, 2)
  IN  IF Xor(x = b, y = b) THEN {IF x = b THEN y ELSE x} ELSE {}

NotExactly(c, found) ==
  IF c.fn = "Exactly" THEN { e \in found : HasBoolType(e) } ELSE found

BoolOperands(c, ignoreCustomTypes, onTrue, onFalse) ==
  IF \/ ~ Has(c, 2)
     \/ \E k \in 1 .. 2 : IsEmptyInterface(Arg(c, k)) \/ IsBoolOverride(Arg(c, k))
  THEN Silent
  ELSE LET t == ComparedTo(c, True)
           f == ComparedTo(c, False)
       IN  IF t # {} THEN UseOnBool(c, ignoreCustomTypes, onTrue, 2, NotExactly(c, t))
           ELSE UseOnBool(c, ignoreCustomTypes, onFalse, 2, NotExactly(c, f))

(* Comparisons inside True and False: the first block keeps the function,  *)
(* the second uses the opposite one.                                       *)
BoolComparison(c, ignoreCustomTypes, opposite) ==
  IF ~ Has(c, 1) THEN Silent
  ELSE LET e == Arg(c, 1)
           ButAny(found) == { x \in found : ~ IsEmptyInterface(x) }
           kept == ButAny(FirstOf(<<ComparedWith(True, e, "=="), ComparedWith(False, e, "!=")>>))
           turned == ButAny(FirstOf(<<ComparedWith(True, e, "!="), ComparedWith(False, e, "=="),
                                      Negated(e)>>))
       IN  IF kept # {} THEN UseOnBool(c, ignoreCustomTypes, c.fn, 1, kept)
           ELSE UseOnBool(c, ignoreCustomTypes, opposite, 1, turned)

BoolCompare(c, ignoreCustomTypes) ==
  CASE c.fn \in EqualFns -> BoolOperands(c, ignoreCustomTypes, "True", "False")
    [] c.fn \in NotEqualFns -> BoolOperands(c, ignoreCustomTypes, "False", "True")
    [] c.fn = "True" -> BoolComparison(c, ignoreCustomTypes, "False")
    [] c.fn = "False" -> BoolComparison(c, ignoreCustomTypes, "True")
    [] OTHER -> Silent
-----------------------------------------------------------------------------
CheckEmpty(c) ==
  LET a == Arg(c, 1)
      b == Arg(c, 2)
      Use(n, found) == UseFunctionOn(c, "Empty", n, found)
  IN  CASE ~ Has(c, 1) -> Silent
        [] c.fn = "Zero" /\ HasStringType(a) -> Use(1, {a})
        [] c.fn \in {"Zero", "Empty"} /\ LenArg(a) # {} -> Use(1, LenArg(a))
        [] ~ Has(c, 2) -> Silent
        [] c.fn = "Len" /\ IsZero(b) -> Use(2, {a})
        [] c.fn \in EqualFns ->
             Use(2, IF IsEmptyStringLit(a) THEN {b} ELSE FirstOf(<<LenAndZero(a, b), LenAndZero(b, a)>>))
        [] c.fn = "LessOrEqual" -> Use(2, LenAndZero(a, b))
        [] c.fn = "GreaterOrEqual" -> Use(2, LenAndZero(b, a))
        [] c.fn = "Less" /\ (IsOne(b) \/ IsZero(b)) -> Use(2, LenArg(a))
        [] c.fn = "Greater" /\ (IsOne(a) \/ IsZero(a)) -> Use(2, LenArg(b))
        [] OTHER -> Silent

(* Fault: Positive is not among them. *)
ZeroOnlyFns == {"NotZero", "NotEmpty"}
NotZeroFns == {"Positive", "NotZero", "NotEmpty"}

CheckNotEmpty(c) ==
  LET a == Arg(c, 1)
      b == Arg(c, 2)
      Use(n, found) == UseFunctionOn(c, "NotEmpty", n, found)
  IN  CASE ~ Has(c, 1) -> Silent
        [] c.fn = "NotZero" /\ HasStringType(a) -> Use(1, {a})
        [] c.fn \in NotZeroFns /\ LenArg(a) # {} -> Use(1, LenArg(a))
        [] ~ Has(c, 2) -> Silent
        [] c.fn \in NotEqualFns ->
             Use(2, IF IsEmptyStringLit(a) THEN {b} ELSE FirstOf(<<LenAndZero(a, b), LenAndZero(b, a)>>))
        [] c.fn = "Less" -> Use(2, LenAndZero(b, a))
        [] c.fn = "Greater" -> Use(2, LenAndZero(a, b))
        [] OTHER -> Silent

Empty(c) == FirstSaying(<<CheckEmpty(c), CheckNotEmpty(c)>>)
-----------------------------------------------------------------------------
CanBeNegative(e) == IsSignedNotZero(e) /\ LenArg(e) = {}
IsNotAnyZero(e) == ~ IsAnyZero(e)

(* What is compared with what for fn, Negative or Positive: an operand of  *)
(* which the sign may be asserted, and a zero.                             *)
BesideZero(fn, e, zero) ==
  IF fn = "Negative" THEN CanBeNegative(e) /\ IsZeroOrSignedZero(zero)
  ELSE IsNotAnyZero(e) /\ IsAnyZero(zero)

(* The operand of the comparison e: x op 0, or 0 op' x for the mirrored op'. *)
ComparedWithZero(fn, e, op, mirrored) ==
  CASE e.op = op /\ BesideZero(fn, e.args[1], e.args[2]) -> {e.args[1]}
    [] e.op = mirrored /\ BesideZero(fn, e.args[2], e.args[1]) -> {e.args[2]}
    [] OTHER -> {}

SignOperand(c, fn, less, greater, inTrue, inFalse) ==
  CASE c.fn = less /\ Has(c, 2) /\ BesideZero(fn, Arg(c, 1), Arg(c, 2)) -> {Arg(c, 1)}
    [] c.fn = greater /\ Has(c, 2) /\ BesideZero(fn, Arg(c, 2), Arg(c, 1)) -> {Arg(c, 2)}
    [] c.fn = "True" /\ Has(c, 1) -> ComparedWithZero(fn, Arg(c, 1), inTrue[1], inTrue[2])
    [] c.fn = "False" /\ Has(c, 1) -> ComparedWithZero(fn, Arg(c, 1), inFalse[1], inFalse[2])
    [] OTHER -> {}

Replaced(c) == IF c.fn \in {"True", "False"} THEN 1 ELSE 2

CheckNegative(c) ==
  UseFunctionOn(c, "Negative", Replaced(c),
    SignOperand(c, "Negative", "Less", "Greater", <<"<", ">">>, <<">=", "<=">>))

CheckPositive(c) ==
  UseFunctionOn(c, "Positive", Replaced(c),
    SignOperand(c, "Positive", "Greater", "Less", <<">", "<">>, <<"<=", ">=">>))

NegativePositive(c) == FirstSaying(<<CheckNegative(c), CheckPositive(c)>>)
-----------------------------------------------------------------------------
InsteadOfTrue ==
  "==" :> "Equal" @@ "!=" :> "NotEqual" @@ ">" :> "Greater" @@ ">=" :> "GreaterOrEqual"
    @@ "<" :> "Less" @@ "<=" :> "LessOrEqual"

InsteadOfFalse ==
  "==" :> "NotEqual" @@ "!=" :> "Equal" @@ ">" :> "LessOrEqual" @@ ">=" :> "Less"
    @@ "<" :> "GreaterOrEqual" @@ "<=" :> "Greater"

ForPointers(fn, e) ==
  CASE ~ (IsPointer(e.args[1]) /\ IsPointer(e.args[2])) -> fn
    [] fn = "Equal" -> "Same"
    [] fn = "NotEqual" -> "NotSame"
    [] OTHER -> fn

Compares(c) ==
  IF ~ (c.fn \in {"True", "False"} /\ Has(c, 1) /\ Arg(c, 1).op \in Comparisons) THEN Silent
  ELSE LET e == Arg(c, 1)
           fn == IF c.fn = "True" THEN InsteadOfTrue[e.op] ELSE InsteadOfFalse[e.op]
       IN  UseFunction(c, ForPointers(fn, e), 1, e.args)

(* checkStringContains, checkSubset *)
StringContains(c) ==
  LET e == CHOOSE x \in FirstOf(<<Negated(Arg(c, 1)), {Arg(c, 1)}>>) : TRUE IN
  IF ~ (c.fn \in {"True", "False"} /\ Has(c, 1) /\ IsPkgFnCall(e, "strings.Contains")) THEN Silent
  ELSE UseFunction(c, IF (c.fn = "True") = (Negated(Arg(c, 1)) = {}) THEN "Contains" ELSE "NotContains",
                   1, e.args)

Contains(c) ==
  FirstSaying(<<StringContains(c),
                ReportIf(/\ ~ c.spread /\ Has(c, 3) /\ ~ HasStringType(Arg(c, 3))
                         /\ c.fn \in {"Contains", "NotContains"})>>)
-----------------------------------------------------------------------------
(* checkArgs; a is where the expected value is looked for. *)
LenOperands(a, b) ==
  CASE LenArg(b) # {} -> LenArg(b) \X {a}
    [] LenArg(a) # {} /\ IsIntBasicLit(b) -> LenArg(a) \X {b}
    [] OTHER -> {}

UseLen(c, n, operands) ==
  IF operands = {} THEN Silent ELSE UseFunction(c, "Len", n, CHOOSE o \in operands : TRUE)

LenCheck(c) ==
  CASE c.fn \in EqualFns /\ Has(c, 2) -> UseLen(c, 2, LenOperands(Arg(c, 1), Arg(c, 2)))
    [] c.fn = "True" /\ Has(c, 1) /\ Arg(c, 1).op = "==" ->
         UseLen(c, 1, LenOperands(Arg(c, 1).args[2], Arg(c, 1).args[1]))
    [] OTHER -> Silent

EqualValues(c) ==
  IF /\ c.fn \in {"EqualValues", "NotEqualValues"} /\ Has(c, 2)
     /\ ~ IsFunc(Arg(c, 1)) /\ ~ IsFunc(Arg(c, 2))
     /\ Arg(c, 1).type = Arg(c, 2).type /\ ~ IsEmptyInterface(Arg(c, 1))
  THEN UseFunction(c, IF c.fn = "EqualValues" THEN "Equal" ELSE "NotEqual", 0, <<>>)
  ELSE Silent
=============================================================================
