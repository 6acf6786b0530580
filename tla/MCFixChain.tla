----------------------------- MODULE MCFixChain -----------------------------
(* Assertions for model checking FixChain: every function the checkers     *)
(* know, on operands of the types they tell apart.                         *)
EXTENDS TestTables

MCExpectedNames ==
  { "expected", "expJSON", "wantLen", "exp", "expPtr", "expArr", "expBody", "expectedObj", "expectedVal",
    "expectedPtr", "expectedFields", "expectedJSON", "expectedTime" }
MCJSONNames == {"resJSON", "expJSON", "expectedJSON", "jsonb", "resultJSONBytes"}
MCYAMLNames == {"confYAML"}
MCJSONTexts == {"{}", "expBody"}

MCSettings ==
  { [ignoreCustomTypes |-> FALSE, mode |-> "remove"], [ignoreCustomTypes |-> TRUE, mode |-> "remove"],
    [ignoreCustomTypes |-> FALSE, mode |-> "require"] }

-----------------------------------------------------------------------------
Numbers ==
  { i, i64, u, expected, Zero, One, Neg1, LenOf(sl), LenOf(Ident("expected", "[]int")), LenOf(arr),
    Conv("int64", Zero), Conv("uint", Zero), Conv("int64", expected), Const("wantLen", "int"),
    Field(Ident("tt", "struct"), "expected", "int"), Field(Ident("tt", "struct"), "n", "int") }

Texts2 ==
  { str, ms, bytes, StringLit(""), StringLit("abc"), StringLit("{}"), Ident("resJSON", "string"),
    Ident("expJSON", "string"), Ident("confYAML", "string"), jsonb, Conv("string", bytes),
    Conv("string", jsonb), Conv("[]byte", str), Call("strings.TrimSpace", "string", <<str>>),
    Call("json.RawMessage", "json.RawMessage", <<bytes>>),
    Call("json.RawMessage", "json.RawMessage", <<Nil>>),
    Conv("string", Method(buf, "Bytes", "[]byte")), Method(buf, "String", "string"),
    Call("fmt.Sprintf", "string", <<StringLit("{}"), str>>) }

Bools == { b, Ident("b2", "bool"), mb, ob, any, True, False, Not(b), Paren(b) }
Floats == { fl, Ident("g", "float64"), FloatLit("1.0"), Conv("float64", One) }
Things ==
  { Nil, ptr, ptr2, err, sentinel, myErr, any, func, sl, Composite("[]int"), arr,
    Unary("&", Ident("expected", "int"), "*int"), Conv("(*MyErr)", Nil) }

SamePairs(S) == S \X S

IsUntyped(e) == Unsigned(e).op = "lit" \/ IsUntypedBool(e)
Pairs ==
  { o \in SamePairs(Numbers) : o[1].type = o[2].type \/ IsUntyped(o[1]) \/ IsUntyped(o[2]) }
    \cup { o \in SamePairs(Texts2) : o[1].type = o[2].type \/ IsUntyped(o[1]) \/ IsUntyped(o[2]) }
    \cup SamePairs(Bools) \cup SamePairs(Floats)
    \cup { o \in SamePairs(Things) :
             \/ o[1].type = o[2].type \/ Nil \in {o[1], o[2]} \/ any \in {o[1], o[2]}
             \/ {o[1].type, o[2].type} = {"error", "*MyErr"} }
    \cup { <<i, i64>>, <<u, i>>, <<u, LenOf(sl)>>, <<any, LenOf(sl)>> }

(* Comparisons that compile. *)
Comparable(o) ==
  /\ ~ (IsUntyped(o[1]) /\ IsUntyped(o[2])) /\ o # <<Nil, Nil>>
  /\ ~ (Neg1 \in {o[1], o[2]} /\ (IsUnsigned(o[1]) \/ IsUnsigned(o[2])))
  /\ \A k \in 1 .. 2 : o[k].type \notin {"[]int", "[]byte", "func", "json.RawMessage"} \/ o[3 - k] = Nil
  /\ \A k \in 1 .. 2 : IsNil(o[k]) =>
       o[3 - k].type \in {"[]int", "[]byte", "func", "json.RawMessage", "any"} \cup PointerKinds \cup ErrorTypes
  /\ \/ o[1].type = o[2].type \/ Nil \in {o[1], o[2]}
     \/ \E k \in 1 .. 2 :
          \/ IsUntyped(o[k]) /\ (o[3 - k].type \in NumericKinds <=> o[k].type \in NumericKinds)
          \/ o[k].type = "any"
     \/ {o[1].type, o[2].type} = {"error", "*MyErr"}

Conditions ==
  { Binary(op, o[1], o[2]) : op \in {"==", "!="}, o \in { p \in Pairs : Comparable(p) } }
    \cup { Binary(op, o[1], o[2]) : op \in {"<", ">", "<=", ">="},
             o \in { p \in SamePairs(Numbers \ {Const("wantLen", "int")}) \cup SamePairs(Floats) : Comparable(p) } }

Calls2(e) == { e, Not(e) }
Facts ==
  {b, True, Not(b), Not(Not(b)), Paren(b), Not(Paren(Binary("==", i, One)))}
    \cup Calls2(Call("strings.Contains", "bool", <<str, StringLit("abc")>>))
    \cup Calls2(Call("errors.Is", "bool", <<err, sentinel>>))
    \cup Calls2(Call("errors.As", "bool", <<err, Unary("&", myErr, "**MyErr")>>))

Operand1 ==
  [fn : {"True", "False"}, es : { <<e>> : e \in Conditions \cup Facts }]
    \cup [fn : {"Nil", "NotNil", "Empty", "NotEmpty", "Zero", "NotZero"},
          es : { <<e>> : e \in Things \cup {str, i, b, True, Zero, One, StringLit("abc"), LenOf(sl), LenOf(str)} }]
    \cup [fn : {"Positive", "Negative"}, es : { <<e>> : e \in {i, u, fl, LenOf(sl), One, Neg1} }]
    \cup [fn : {"Error", "NoError"}, es : { <<e>> : e \in {err, myErr, Nil} }]

Operand2 ==
  [fn : {"Equal", "NotEqual", "EqualValues", "NotEqualValues", "Exactly"}, es : Pairs]
    \cup [fn : {"Less", "LessOrEqual", "Greater", "GreaterOrEqual"},
          es : { o \in SamePairs(Numbers) : o[1].type = o[2].type } \cup SamePairs(Floats)]
    \cup [fn : {"Len"}, es : {sl, str, arr} \X {Zero, One, i, LenOf(sl), expected}]
    \cup [fn : {"Same", "NotSame"}, es : SamePairs({ptr, ptr2, Unary("&", expected, "*int")})]
    \cup [fn : {"IsType", "IsNotType"},
          es : SamePairs({Nil, err, sentinel, Conv("(*MyErr)", Nil), any, ptr}) \ {<<Nil, Nil>>}]
    \cup [fn : {"ErrorIs", "NotErrorIs"}, es : SamePairs({err, sentinel, Nil})]
    \cup [fn : {"ErrorAs", "NotErrorAs"},
          es : {err} \X {any, Unary("&", myErr, "**MyErr"), Unary("&", err, "*error"), myErr, str,
                         Unary("&", any, "*any"), ptr}]
    \cup [fn : {"Contains", "NotContains"}, es : {<<sl, One>>, <<str, StringLit("abc")>>, <<str, str>>}]
    \cup [fn : {"JSONEq", "YAMLEq"},
          es : SamePairs({Ident("resJSON", "string"), Ident("expJSON", "string"), StringLit("{}")})]
    \cup [fn : {"Regexp", "NotRegexp"},
          es : {Call("regexp.MustCompile", "*Regexp", <<StringLit("abc")>>), StringLit("abc")} \X {str}]
    \cup [fn : {"InDelta", "InEpsilon"}, es : { o \o <<FloatLit("1.0")>> : o \in SamePairs(Floats) }]
    \cup [fn : {"Implements"}, es : {<<Conv("*any", Nil), any>>, <<Conv("*error", Nil), err>>}]

Messages == { [f |-> FALSE, es |-> <<>>, spread |-> FALSE], [f |-> TRUE, es |-> <<StringLit("abc"), i>>, spread |-> FALSE] }

OnPackage(x) == { AssertionCall(x, o.fn, m.f, <<t>> \o o.es \o m.es, m.spread) : o \in Operand1 \cup Operand2, m \in Messages }

(* Other receivers; operands that are a T; an error for a message. *)
Few ==
  { [fn |-> "Equal", es |-> <<LenOf(sl), Zero>>], [fn |-> "True", es |-> <<Binary("==", b, True)>>],
    [fn |-> "NotNil", es |-> <<t>>], [fn |-> "IsType", es |-> <<t, ptr>>], [fn |-> "Same", es |-> <<suiteT, t>>],
    [fn |-> "Error", es |-> <<err, sentinel>>], [fn |-> "NoError", es |-> <<err, sentinel>>],
    [fn |-> "Contains", es |-> <<sl, One, Three>>], [fn |-> "NotContains", es |-> <<sl, One, StringLit("abc"), Three>>] }

Elsewhere ==
  { AssertionCall(x, o.fn, FALSE, o.es \o m, FALSE) : x \in Receivers, o \in Few, m \in {<<>>, <<StringLit("abc")>>} }
    \cup { AssertionCall(Package(n), o.fn, FALSE, <<r>> \o o.es \o m, FALSE) :
             n \in {"assert", "require"}, r \in {t, suiteT}, o \in Few, m \in {<<>>, <<StringLit("abc")>>} }
    \cup { AssertionCall(Package("assert"), "Contains", FALSE, <<t, sl, One, any>>, TRUE),
           AssertionCall(Ident("c", "*CollectT"), "Error", TRUE, <<StringLit("abc"), err>>, FALSE) }

MCCalls == OnPackage(Package("assert")) \cup Elsewhere \cup TestCalls
=============================================================================
