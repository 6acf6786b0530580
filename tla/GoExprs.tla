------------------------------ MODULE GoExprs ------------------------------
(***************************************************************************)
(* internal/checkers/helpers_*.go and internal/analysisutil: the           *)
(* expressions the checkers look at, and the questions they ask of them.   *)
(* An expression is its syntax (op, name, args) with the type that         *)
(* go/types recorded.  Two expressions print alike when they are equal.    *)
(***************************************************************************)
EXTENDS Integers, Sequences, TLC

CONSTANTS
  ExpectedNames,  \* the identifiers that ExpVarPattern matches
  JSONNames,      \* the identifiers that jsonIdentRe matches
  YAMLNames,      \* the identifiers with a word that yamlWordRe matches
  JSONTexts       \* the texts, and the constants, that analysisutil.IsJSONLike accepts

Expr(op, name, type, args) == [op |-> op, name |-> name, type |-> type, args |-> args]

Ident(n, t) == Expr("ident", n, t, <<>>)
Const(n, t) == Expr("const", n, t, <<>>)          \* an identifier of a constant
True == Ident("true", "bool")
False == Ident("false", "bool")
Nil == Ident("nil", "untyped nil")
IntLit(n) == Expr("lit", n, "int", <<>>)          \* the types literals get as arguments
FloatLit(n) == Expr("lit", n, "float64", <<>>)
StringLit(n) == Expr("lit", n, "string", <<>>)
Unary(op, e, t) == Expr(op, "", t, <<e>>)         \* "!", "-", "&", "*" and "()"
Not(e) == Unary("!", e, e.type)
Paren(e) == Unary("()", e, e.type)
Binary(op, x, y) == Expr(op, "", "bool", <<x, y>>)
Composite(t) == Expr("composite", "", t, <<>>)
Field(x, n, t) == Expr("field", n, t, <<x>>)      \* x.n
Call(fn, t, es) == Expr("call", fn, t, es)        \* a function, by its name
Conv(t, e) == Expr("conv", t, t, <<e>>)           \* T(e)
Method(x, n, t) == Expr("method", n, t, <<x>>)    \* x.n()
LenOf(e) == Call("len", "int", <<e>>)

(* go/types. *)
Elem == "*int" :> "int" @@ "*T" :> "T" @@ "*any" :> "any" @@ "*error" :> "error"
          @@ "*MyErr" :> "MyErr" @@ "**MyErr" :> "*MyErr" @@ "*CollectT" :> "CollectT"
BoolTypes == {"bool", "MyBool", "main.bool"}
UnsignedTypes == {"uint", "uint8"}
FloatTypes == {"float64"}
InterfaceTypes == {"any", "error"}
TestingTs == {"*T", "*CollectT"}                  \* what implements a TestingT
ErrorTypes == {"error", "*MyErr"}                 \* what implements error
SuiteTypes == {"*Suite"}                          \* what implements TestingSuite
-----------------------------------------------------------------------------
(* helpers.go.  An operand that may be found is a set of at most one:      *)
(* `anyVal` is the first of several that is.                               *)
RECURSIVE FirstOf(_)
FirstOf(s) == IF s = <<>> THEN {} ELSE IF Head(s) # {} THEN Head(s) ELSE FirstOf(Tail(s))

Xor(a, b) == a # b

IsCall(e) == e.op \in {"call", "conv", "method"}
CallArgs(e) == IF e.op = "method" THEN Tail(e.args) ELSE e.args
IsPkgFnCall(e, fn) == e.op = "call" /\ e.name = fn
IsIdentNamed(names, e) == e.op \in {"ident", "const"} /\ e.name \in names

Comparisons == {"==", "!=", ">", ">=", "<", "<="}
Operators == Comparisons \cup {"&&", "||", "+"}
IsBinary(e) == e.op \in Operators

IsNil(e) == IsIdentNamed({"nil"}, e)
XorNil(a, b) == IF Xor(IsNil(a), IsNil(b)) THEN IF IsNil(a) THEN {b} ELSE {a} ELSE {}

(* isBuiltinLenCall, isLenCallAndZero, isNegation, isPointer *)
LenArg(e) == IF IsPkgFnCall(e, "len") THEN {CallArgs(e)[1]} ELSE {}
Negated(e) == IF e.op = "!" THEN {e.args[1]} ELSE {}
IsPointer(e) == e.type \in DOMAIN Elem

(* isBasicLit, isIntBasicLit: minus signs are looked through, parentheses  *)
(* and conversions are not; -0 is 0.                                       *)
RECURSIVE Unsigned(_)
Unsigned(e) == IF e.op = "-" THEN Unsigned(e.args[1]) ELSE e

IsBasicLit(e) == Unsigned(e).op = "lit"
IsIntBasicLit(e) == IsBasicLit(e) /\ Unsigned(e).type = "int"
IsIntNumber(e, n) == IsIntBasicLit(e) /\ Unsigned(e).name = n /\ (e.op = "-" => n = "0")
IsStringLit(e) == e.op = "lit" /\ e.type = "string"
IsEmptyStringLit(e) == IsStringLit(e) /\ e.name = ""

IsTypedInt(e, types, n) == e.op = "conv" /\ e.name \in types /\ IsIntNumber(e.args[1], n)
IsZero(e) == IsIntNumber(e, "0")
IsOne(e) == IsIntNumber(e, "1")
IsZeroOrSignedZero(e) == IsZero(e) \/ IsTypedInt(e, {"int", "int64"}, "0")
IsAnyZero(e) == IsZeroOrSignedZero(e) \/ IsTypedInt(e, UnsignedTypes, "0")
LenAndZero(a, b) == IF IsZero(b) THEN LenArg(a) ELSE {}

IsUnsigned(e) == e.type \in UnsignedTypes
IsSignedNotZero(e) == ~ IsUnsigned(e) /\ ~ IsZeroOrSignedZero(e)
IsFloat(e) == e.type \in FloatTypes
IsError(e) == e.type = "error"
IsFunc(e) == e.type = "func"
IsEmptyInterface(e) == e.type = "any"
HasStringType(e) == e.type = "string"
HasBytesType(e) == e.type = "[]byte"
HasBoolType(e) == e.type = "bool"
IsBoolOverride(e) == e.type = "main.bool"
ImplementsTestifySuite(e) == e.type \in SuiteTypes

IsUntypedTrue(e) == e = True
IsUntypedFalse(e) == e = False
IsUntypedBool(e) == IsUntypedTrue(e) \/ IsUntypedFalse(e)
IsUntypedConst(e) == e.type = "untyped nil"

(* isTypedConst: go/types knows the value.  len of an array is a constant. *)
RECURSIVE IsTypedConst(_)
IsTypedConst(e) ==
  \/ e.op \in {"lit", "const"} \/ IsUntypedBool(e)
  \/ /\ e.op \in {"!", "-", "()", "conv"} \cup Operators /\ e.name # "[]byte"
     /\ \A k \in DOMAIN e.args : IsTypedConst(e.args[k])
  \/ \E x \in LenArg(e) : x.type = "[2]int" \/ (x.type = "string" /\ IsTypedConst(x))

(* isComparisonWith(True|False), isComparisonWithFloat and                 *)
(* isStrictComparisonWith, whose predicates are given for both operands.   *)
ComparedWith(b, e, op) ==
  IF e.op = op /\ Xor(e.args[1] = b, e.args[2] = b)
  THEN IF e.args[1] = b THEN {e.args[2]} ELSE {e.args[1]}
  ELSE {}

IsComparisonWithFloat(e, op) == e.op = op /\ (IsFloat(e.args[1]) \/ IsFloat(e.args[2]))

(* helpers_encoded.go *)
RECURSIVE IsJSONStyle(_)
IsJSONStyle(e) ==
  CASE IsIdentNamed(JSONNames, e) -> HasBytesType(e) \/ HasStringType(e)
    [] e.op \in {"lit", "const"} -> e.name \in JSONTexts
    [] IsPkgFnCall(e, "fmt.Sprintf") -> IsJSONStyle(e.args[1])
    [] OTHER -> FALSE

IsYAMLStyle(e) == IsIdentNamed(YAMLNames, e) /\ (HasBytesType(e) \/ HasStringType(e))

(* formatWithStringCastForBytes: what the text of e becomes. *)
StringCastForBytes(e) ==
  IF ~ HasBytesType(e) THEN e
  ELSE IF e.op = "method" /\ e.name = "Bytes" /\ e.args[1].type \in {"*Buffer", "Buffer"}
  THEN Method(e.args[1], "String", "string")
  ELSE Conv("string", e)
=============================================================================
