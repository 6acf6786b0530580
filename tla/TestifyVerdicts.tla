-------------------------- MODULE TestifyVerdicts --------------------------
(***************************************************************************)
(* Whether an assertion passes, as testify decides it: the assertions      *)
(* package the linter is tested with (analyzer/testdata/src/vendor).  A    *)
(* value is its dynamic type with its content, a sequence of integers:     *)
(*   a number or a boolean        <<n>>                                    *)
(*   a string, a slice, an array  its elements                             *)
(*   a pointer                    <<address, what it points to>> or <<>>   *)
(*   a function                   <<address>> or <<>>                      *)
(* The interface value nil has the type "nil".  Slices are not nil.        *)
(***************************************************************************)
EXTENDS AssertionCalls

Value(t, c) == [t |-> t, c |-> c]
NilValue == Value("nil", <<>>)
Bool(b) == Value("bool", IF b THEN <<1>> ELSE <<0>>)
IsTrue(v) == v.c = <<1>>

NaN == Value("float64", <<99>>)

PointerKinds == DOMAIN Elem \cup {"*errorString", "*wrapError"}
NumericKinds == {"int", "int64", "MyInt"} \cup UnsignedTypes \cup FloatTypes
StringKinds == {"string", "MyString"}
ByteKinds == {"[]byte", "json.RawMessage"}
ListKinds == {"[]int", "[2]int"}

IsPtr(v) == v.t \in PointerKinds
Pointee(v) == Tail(v.c)

(* A document, JSON or YAML, is a text <<number, layout>>. *)
IsDocument(v) == Len(v.c) = 2 /\ Head(v.c) >= 100
Document(v) == IF IsDocument(v) THEN <<Head(v.c)>> ELSE v.c

(* reflect.DeepEqual *)
DeepEqual(v, w) ==
  /\ v.t = w.t
  /\ CASE v = NaN -> FALSE
       [] v.t = "func" -> v.c = <<>> /\ w.c = <<>>
       [] IsPtr(v) -> v.c = w.c \/ (v.c # <<>> /\ w.c # <<>> /\ Pointee(v) = Pointee(w))
       [] OTHER -> v.c = w.c

ObjectsAreEqual(v, w) == IF NilValue \in {v, w} THEN v = w ELSE DeepEqual(v, w)

IsConvertible(t, u) ==
  t = u \/ \E group \in {BoolTypes, NumericKinds, StringKinds \cup ByteKinds} : {t, u} \subseteq group

ObjectsAreEqualValues(v, w) ==
  \/ ObjectsAreEqual(v, w)
  \/ /\ NilValue \notin {v, w} /\ IsConvertible(v.t, w.t)
     /\ DeepEqual(Value(w.t, v.c), w)

Equal(v, w) == v.t # "func" /\ w.t # "func" /\ ObjectsAreEqual(v, w)
NotEqual(v, w) == v.t # "func" /\ w.t # "func" /\ ~ ObjectsAreEqual(v, w)

(* isNil, isEmpty, Zero, getLen *)
IsNilObject(v) == v = NilValue \/ ((IsPtr(v) \/ v.t = "func") /\ v.c = <<>>)

IsZeroContent(c) == \A k \in DOMAIN c : c[k] = 0

IsEmptyObject(v) ==
  CASE v = NilValue -> TRUE
    [] IsPtr(v) -> v.c = <<>> \/ IsZeroContent(Pointee(v))
    [] v.t \in StringKinds \cup ByteKinds \cup {"[]int", "func"} -> v.c = <<>>
    [] OTHER -> IsZeroContent(v.c)

IsZeroObject(v) ==
  CASE v = NilValue -> TRUE
    [] IsPtr(v) \/ v.t \in StringKinds \cup {"func"} -> v.c = <<>>
    [] v.t \in ByteKinds \cup {"[]int"} -> FALSE
    [] OTHER -> IsZeroContent(v.c)

HasLen(v, n) == v.t \in StringKinds \cup ByteKinds \cup ListKinds /\ n.c = <<Len(v.c)>>

(* samePointers *)
SameAddress(v, w) == v.t = w.t /\ v.c = w.c

(* compareTwoValues for numbers of one kind; NaN compares with nothing. *)
Ordered(v, w) == v.t \in NumericKinds /\ v.t = w.t /\ NaN \notin {v, w}
Below(v, w) == Ordered(v, w) /\ v.c[1] < w.c[1]
AtMost(v, w) == Ordered(v, w) /\ v.c[1] <= w.c[1]

ZeroOf(v) == Value(v.t, <<0>>)

(* containsElement *)
ContainsText(v, w) ==
  \E k \in 0 .. Len(v.c) - Len(w.c) : SubSeq(v.c, k + 1, k + Len(w.c)) = w.c

ContainsElement(v, w) ==
  CASE v.t \in StringKinds -> w.t \in StringKinds /\ ContainsText(v, w)
    [] v.t \in ListKinds -> w.t = "int" /\ \E k \in DOMAIN v.c : <<v.c[k]>> = w.c
    [] OTHER -> FALSE

IsList(v) == v.t \in StringKinds \cup ListKinds

(* errors.Is, errors.As: a wrapped error points to the one it wraps. *)
ErrorsIs(v, w) ==
  v = w \/ (v.t = "*wrapError" /\ w.c # <<>> /\ Pointee(v) = <<Head(w.c)>>)

ErrorsAs(v, target) == v.t # "nil" /\ target.t \in DOMAIN Elem /\ v.t = Elem[target.t]

JSONEqual(v, w) == IsDocument(v) /\ IsDocument(w) /\ Document(v) = Document(w)
YAMLEqual(v, w) == Document(v) = Document(w)

Distance(v, w) == IF v.c[1] < w.c[1] THEN w.c[1] - v.c[1] ELSE v.c[1] - w.c[1]
-----------------------------------------------------------------------------
(* What an expression evaluates to: env gives a value to what is not built *)
(* in.  The operators of the language compare an operand with the type of  *)
(* the other one when it is a literal.                                     *)
Contents ==
  "0" :> <<0>> @@ "1" :> <<1>> @@ "2" :> <<2>> @@ "3" :> <<3>> @@ "1.0" :> <<1>> @@ "" :> <<>>
    @@ "abc" :> <<1, 2>> @@ "{}" :> <<100, 0>>

IsLiteral(e) == Unsigned(e).op = "lit" \/ IsUntypedBool(e)

EqualOperands(x, y, v, w) ==
  CASE IsNil(x) \/ IsNil(y) ->
         IF {x.type, y.type} \cap InterfaceTypes # {} THEN v = w ELSE IsNilObject(v) /\ IsNilObject(w)
    [] NaN \in {v, w} -> FALSE
    [] IsLiteral(x) \/ IsLiteral(y) ->
         v.c = w.c /\ (v.t = w.t \/ {x.type, y.type} \cap InterfaceTypes = {})
    [] OTHER -> v = w

IsBelow(v, w) == NaN \notin {v, w} /\ v.c[1] < w.c[1]

(* Functions that have their operand for a result, but for its layout; the *)
(* ones that Eval knows; what the others return is arbitrary.              *)
Copying ==
  { "strings.Replace", "strings.ReplaceAll", "strings.Trim", "strings.TrimSpace", "json.RawMessage",
    "fmt.Sprintf", "regexp.MustCompile" }
KnownCalls == Copying \cup {"len", "strings.Contains", "errors.Is", "errors.As"}

RECURSIVE Eval(_, _)
Eval(e, env) ==
  LET x == e.args[1]
      v == Eval(x, env)
      w == Eval(e.args[2], env)
  IN  CASE IsNil(e) -> NilValue
        [] IsUntypedBool(e) -> Bool(e = True)
        [] e.op = "lit" -> Value(e.type, Contents[e.name])
        [] e.op = "()" -> v
        [] e.op = "!" -> Value(v.t, <<1 - v.c[1]>>)
        [] e.op = "-" -> Value(v.t, <<- v.c[1]>>)
        [] e.op = "==" -> Bool(EqualOperands(x, e.args[2], v, w))
        [] e.op = "!=" -> Bool(~ EqualOperands(x, e.args[2], v, w))
        [] e.op = "<" -> Bool(IsBelow(v, w))
        [] e.op = ">" -> Bool(IsBelow(w, v))
        [] e.op = "<=" -> Bool(IsBelow(v, w) \/ (v.c = w.c /\ NaN \notin {v, w}))
        [] e.op = ">=" -> Bool(IsBelow(w, v) \/ (v.c = w.c /\ NaN \notin {v, w}))
        [] e.op = "conv" -> Value(e.type, v.c)
        [] LenArg(e) # {} -> Value("int", <<Len(v.c)>>)
        [] IsPkgFnCall(e, "strings.Contains") -> Bool(ContainsText(v, w))
        [] IsPkgFnCall(e, "errors.Is") -> Bool(ErrorsIs(v, w))
        [] IsPkgFnCall(e, "errors.As") -> Bool(ErrorsAs(v, w))
        [] IsPkgFnCall(e, "strings.TrimSpace") /\ IsDocument(v) -> Value(e.type, <<Head(v.c), 0>>)
        [] e.op = "call" /\ e.name \in Copying -> Value(e.type, v.c)
        [] e.op = "method" /\ e.name \in {"Bytes", "String"} -> Value(e.type, env[x].c)
        [] OTHER -> env[e]

(* What env has to give a value to. *)
RECURSIVE Unknowns(_)
Unknowns(e) ==
  CASE e.op = "lit" \/ IsNil(e) \/ IsUntypedBool(e) -> {}
    [] \/ e.op \in {"ident", "const", "field", "composite", "&", "*", "+", "&&", "||"} \/ e.args = <<>>
       \/ e.op = "call" /\ e.name \notin KnownCalls -> {e}
    [] e.op = "method" /\ e.name \notin {"Bytes", "String"} -> {e}
    [] OTHER -> UNION { Unknowns(e.args[k]) : k \in DOMAIN e.args }

(* The operands of a function; what follows them is the message. *)
OneOperand ==
  { "True", "False", "Nil", "NotNil", "Empty", "NotEmpty", "Zero", "NotZero", "Positive", "Negative",
    "Error", "NoError" }
ThreeOperands ==
  { "InDelta", "InDeltaMapValues", "InDeltaSlice", "InEpsilon", "InEpsilonSlice", "WithinDuration" }
Arity(fn) == IF fn \in OneOperand THEN 1 ELSE IF fn \in ThreeOperands THEN 3 ELSE 2

(* The t of a package function is no operand, an object has its own. *)
OwnArgs(c) == IF IsPkg(c) THEN Tail(c.raw) ELSE c.raw
Operands(c) == SubSeq(OwnArgs(c), 1, Arity(c.fn))
Message(c) == SubSeq(OwnArgs(c), Arity(c.fn) + 1, Len(OwnArgs(c)))
-----------------------------------------------------------------------------
(* Whether fn passes on the values of its operands. *)
Passes(fn, v, w) ==
  CASE fn = "True" -> IsTrue(v)
    [] fn = "False" -> ~ IsTrue(v)
    [] fn = "Nil" -> IsNilObject(v)
    [] fn = "NotNil" -> ~ IsNilObject(v)
    [] fn = "Empty" -> IsEmptyObject(v)
    [] fn = "NotEmpty" -> ~ IsEmptyObject(v)
    [] fn = "Zero" -> IsZeroObject(v)
    [] fn = "NotZero" -> ~ IsZeroObject(v)
    [] fn = "Positive" -> Below(ZeroOf(v), v)
    [] fn = "Negative" -> Below(v, ZeroOf(v))
    [] fn = "Error" -> v # NilValue
    [] fn = "NoError" -> v = NilValue
    [] fn \in {"Equal", "EqualExportedValues"} -> Equal(v, w)
    [] fn = "NotEqual" -> NotEqual(v, w)
    [] fn = "EqualValues" -> ObjectsAreEqualValues(v, w)
    [] fn = "NotEqualValues" -> ~ ObjectsAreEqualValues(v, w)
    [] fn = "Exactly" -> v.t = w.t /\ Equal(v, w)
    [] fn = "Same" -> IsPtr(v) /\ IsPtr(w) /\ SameAddress(v, w)
    [] fn = "NotSame" -> ~ (IsPtr(v) /\ IsPtr(w)) \/ ~ SameAddress(v, w)
    [] fn = "IsType" -> v.t = w.t
    [] fn = "IsNotType" -> v.t # w.t
    [] fn = "Len" -> HasLen(v, w)
    [] fn = "Less" -> Below(v, w)
    [] fn = "Greater" -> Below(w, v)
    [] fn = "LessOrEqual" -> AtMost(v, w)
    [] fn = "GreaterOrEqual" -> AtMost(w, v)
    [] fn = "Contains" -> IsList(v) /\ ContainsElement(v, w)
    [] fn = "NotContains" -> IsList(v) /\ ~ ContainsElement(v, w)
    [] fn = "ErrorIs" -> ErrorsIs(v, w)
    [] fn = "NotErrorIs" -> ~ ErrorsIs(v, w)
    [] fn = "ErrorAs" -> ErrorsAs(v, w)
    [] fn = "NotErrorAs" -> ~ ErrorsAs(v, w)
    [] fn = "JSONEq" -> JSONEqual(v, w)
    [] fn = "YAMLEq" -> YAMLEqual(v, w)
    [] fn = "Regexp" -> ContainsText(w, v)
    [] fn = "NotRegexp" -> ~ ContainsText(w, v)
    [] fn \in {"InDelta", "InEpsilon"} ->
         /\ v.t \in NumericKinds /\ w.t \in NumericKinds
         /\ \/ v = NaN /\ w = NaN
            \/ /\ NaN \notin {v, w}
               /\ IF fn = "InDelta" THEN Distance(v, w) <= 1
                  ELSE v.c # <<0>> /\ Distance(v, w) <= Distance(v, ZeroOf(v))

Verdict(c, env) ==
  LET es == Operands(c) IN
  Passes(c.fn, Eval(es[1], env), IF Len(es) = 1 THEN NilValue ELSE Eval(es[2], env))
=============================================================================
