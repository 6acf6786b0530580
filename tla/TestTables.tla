----------------------------- MODULE TestTables -----------------------------
(***************************************************************************)
(* internal/testgen: the tables from which the tests of the regular        *)
(* checkers and their golden files are generated, as expectations of what  *)
(* a checker says of a call when it runs alone with the default settings.  *)
(* A row has the function, its operands and the outcome; types that no     *)
(* checker tells apart are one type (int8 .. int64; maps, channels and     *)
(* slices), and values are those of SampleExprs.                           *)
(***************************************************************************)
EXTENDS FixChain, SampleExprs

(* A row expects silence, a warning without a fix, or one that proposes.   *)
Outcome(says, fn, es) == [says |-> says, fn |-> fn, es |-> es]

Valid(fns, ess) == [fn : fns, es : ess, want : {Outcome("nothing", "", <<>>)}]
Reported(fns, ess) == [fn : fns, es : ess, want : {Outcome("report", "", <<>>)}]
Proposed(fns, ess, fn, es) == [fn : fns, es : ess, want : {Outcome("fix", fn, es)}]

(* Both orders of what is written expected value first. *)
Backwards(es) == <<es[2], es[1]>> \o SubSeq(es, 3, Len(es))
Reversed(rows) ==
  UNION { Valid({row.fn}, {row.es}) \cup Proposed({row.fn}, {Backwards(row.es)}, row.fn, row.es) : row \in rows }

(* The pairs of x and y in both orders. *)
BothWays(x, y) == {<<x, y>>, <<y, x>>}
Either(x, op, y) == {<<Binary(op, x, y)>>, <<Binary(op, y, x)>>}
Twice(x) == <<x, x>>

AsEqual == {"Equal", "EqualValues", "Exactly"}
AsNotEqual == {"NotEqual", "NotEqualValues"}
Truths == {"True", "False"}
Orders == {"Greater", "GreaterOrEqual", "Less", "LessOrEqual"}
-----------------------------------------------------------------------------
flag == Field(Ident("result", "map"), "flag", "any")
asserted == Field(Ident("result", "map"), "flag", "bool")

BoolRows(k, other, fn, opposite) ==
  Proposed(AsEqual, BothWays(b, k), fn, <<b>>)
    \cup Proposed(AsNotEqual, BothWays(b, other), fn, <<b>>)
    \cup Proposed({opposite}, Either(b, "==", False) \cup Either(b, "!=", True) \cup {<<Not(b)>>}, fn, <<b>>)
    \cup Proposed({fn}, Either(b, "==", True) \cup Either(b, "!=", False), fn, <<b>>)
    \cup Proposed({opposite}, {<<Not(asserted)>>}, fn, <<asserted>>)
    \cup Valid({fn}, {<<b>>})

BoolIgnored ==
  Valid({"Equal", "NotEqual"},
        { Twice(x) : x \in {True, False, b, any} } \cup BothWays(True, flag) \cup BothWays(False, flag))
    \cup Valid(Truths,
           UNION { { <<Binary(op, x, x)>> : x \in {True, False, b, any} }
                     \cup Either(True, op, flag) \cup Either(False, op, flag) : op \in {"==", "!="} })

BoolCompareTable == BoolRows(True, False, "True", "False") \cup BoolRows(False, True, "False", "True") \cup BoolIgnored
-----------------------------------------------------------------------------
elements == Composite("[]int")
EmptyVars == {sl, str, Conv("string", str), bytes, Conv("string", bytes), elements}
LenVars == EmptyVars \cup {arr, Conv("[]byte", str)}

EmptyCases(e) ==
  LET n == LenOf(e) IN
  Proposed({"Len"}, {<<e, Zero>>}, "Empty", <<e>>)
    \cup Proposed({"Zero", "Empty"}, {<<n>>}, "Empty", <<e>>)
    \cup Proposed(AsEqual, BothWays(n, Zero) \cup {<<StringLit(""), e>>}, "Empty", <<e>>)
    \cup Proposed({"LessOrEqual"}, {<<n, Zero>>}, "Empty", <<e>>)
    \cup Proposed({"GreaterOrEqual"}, {<<Zero, n>>}, "Empty", <<e>>)
    \cup Proposed({"Less"}, {<<n, One>>}, "Empty", <<e>>)
    \cup Proposed({"Greater"}, {<<One, n>>}, "Empty", <<e>>)

NotEmptyCases(e) ==
  LET n == LenOf(e) IN
  Proposed({"Positive", "NotEmpty"}, {<<n>>}, "NotEmpty", <<e>>)
    \cup Proposed(AsNotEqual, BothWays(n, Zero) \cup {<<StringLit(""), e>>}, "NotEmpty", <<e>>)
    \cup Proposed({"Greater"}, {<<n, Zero>>}, "NotEmpty", <<e>>)
    \cup Proposed({"Less"}, {<<Zero, n>>}, "NotEmpty", <<e>>)

ZeroStrings ==
  UNION { Proposed({"Zero"}, {<<e>>}, "Empty", <<e>>) \cup Proposed({"NotZero"}, {<<e>>}, "NotEmpty", <<e>>) :
          e \in {str, Conv("string", str), Conv("string", bytes)} }

EmptyIgnored ==
  LET n == LenOf(sl) IN
  Valid({"Len"}, {<<sl, n>>, <<sl, One>>})
    \cup Valid({"Equal", "NotEqual"},
           {Twice(n), <<Nil, sl>>, <<Nil, bytes>>, <<Conv("[]byte", Nil), bytes>>, <<Zero, i>>} \cup BothWays(n, One))
    \cup Valid({"Nil", "NotNil"}, {<<sl>>, <<bytes>>})
    \cup Valid(Orders, {Twice(n)} \cup BothWays(n, Three))
    \cup Valid({"GreaterOrEqual"}, {<<n, Zero>>, <<n, One>>})
    \cup Valid({"LessOrEqual"}, {<<Zero, n>>, <<One, n>>})
    \cup Valid({"Greater"}, {<<n, One>>}) \cup Valid({"Less"}, {<<One, n>>})
    \cup Valid({"Empty", "NotEmpty"}, {<<err>>})
    \cup Valid({"Zero", "NotZero"}, { <<e>> : e \in {sl, arr, bytes, i, elements} })

EmptyTable ==
  UNION { Proposed({"Equal"}, {<<Zero, LenOf(e)>>}, "Empty", <<e>>) : e \in LenVars }
    \cup UNION { EmptyCases(e) \cup NotEmptyCases(e) : e \in EmptyVars } \cup ZeroStrings
    \cup Valid({"Empty", "NotEmpty"}, { <<e>> : e \in EmptyVars }) \cup EmptyIgnored
-----------------------------------------------------------------------------
SignedValues == { <<i, Zero>>, <<Conv("int", i), Conv("int", Zero)>>, <<Conv("int64", i), Conv("int64", Zero)>> }
UnsignedValues == { <<Conv(type, i), Conv(type, Zero)>> : type \in UnsignedTypes }
CustomValues == { <<Conv("MyInt", i), Conv("MyInt", Zero)>> }

(* The six ways to say that x is on one side of z. *)
Sides(x, z, less, op, mirrored, notOp, notMirrored, fn) ==
  LET greater == IF less = "Less" THEN "Greater" ELSE "Less" IN
  Proposed({less}, {<<x, z>>}, fn, <<x>>) \cup Proposed({greater}, {<<z, x>>}, fn, <<x>>)
    \cup Proposed({"True"}, {<<Binary(op, x, z)>>, <<Binary(mirrored, z, x)>>}, fn, <<x>>)
    \cup Proposed({"False"}, {<<Binary(notOp, x, z)>>, <<Binary(notMirrored, z, x)>>}, fn, <<x>>)

Silenced(rows) == UNION { Valid({row.fn}, {row.es}) : row \in rows }

NegativeRows(o) == Sides(o[1], o[2], "Less", "<", ">", ">=", "<=", "Negative")
PositiveRows(o) == Sides(o[1], o[2], "Greater", ">", "<", "<=", ">=", "Positive")

call1 == Call("f", "int", <<i>>)

SignInvalid ==
  UNION { NegativeRows(o) : o \in SignedValues } \cup UNION { PositiveRows(o) : o \in SignedValues \cup UnsignedValues }
    \cup Proposed({"True"}, {<<Binary(">", LenOf(sl), Zero)>>}, "Positive", <<LenOf(sl)>>)
    \cup Proposed({"Greater"}, {<<LenOf(sl), Zero>>}, "Positive", <<LenOf(sl)>>)
    \cup Proposed({"Less"}, {<<call1, Zero>>}, "Negative", <<call1>>)
    \cup Proposed({"False"}, {<<Binary(">=", Zero, call1)>>}, "Positive", <<call1>>)

SignIgnored ==
  LET values == SignedValues \cup UnsignedValues \cup CustomValues IN
  Valid({"Equal", "NotEqual", "GreaterOrEqual", "LessOrEqual"},
        UNION { BothWays(k, i) : k \in {Neg1, Zero, One} } \cup UNION { BothWays(o[1], o[2]) : o \in values })
    \cup Valid({"Greater", "Less"}, UNION { BothWays(k, i) : k \in {Neg1, Conv("MyInt", Zero), One} })
    \cup Valid(Truths, UNION { Either(i, op, k) : op \in Comparisons, k \in {Neg1, One} })
    \cup Valid({"True"}, UNION { Either(o[1], op, o[2]) : op \in {">=", "<=", "==", "!="}, o \in values })
    \cup Valid({"False"}, UNION { Either(o[1], op, o[2]) : op \in {">", "<", "==", "!="}, o \in values })
    \cup UNION { Silenced(NegativeRows(o)) : o \in UnsignedValues \cup {<<LenOf(sl), Zero>>, <<Conv("uint", i), Zero>>} }
    \cup UNION { Silenced(NegativeRows(o)) : o \in CustomValues }
    \cup Valid({"Equal", "NotEqual"} \cup Orders, {Twice(Zero), Twice(i)})
    \cup Valid({"True"}, { <<Binary(op, i, i)>> : op \in Comparisons })
    \cup Valid({"False"}, { <<Binary(op, Neg1, Neg1)>> : op \in Comparisons })
    \cup Valid({"GreaterOrEqual"}, {<<LenOf(sl), Zero>>}) \cup Valid({"LessOrEqual"}, {<<Zero, LenOf(sl)>>})
    \cup Valid({"Negative"}, {<<Conv("uint", i)>>, <<LenOf(sl)>>})

minutes == Field(Ident("e", "struct"), "VideoMinutes", "uint")
epoch == Conv("uint", Field(Ident("state", "struct"), "LastUpdatedEpoch", "int64"))

RealLifeUintExamples ==
  Proposed({"Less"}, {<<Conv("uint", Zero), minutes>>}, "Positive", <<minutes>>)
    \cup Proposed({"Less"}, {<<Conv("uint", Zero), u>>}, "Positive", <<u>>)
    \cup Proposed({"Greater"}, {<<epoch, Conv("uint", Zero)>>}, "Positive", <<epoch>>)
    \cup Proposed({"True"}, {<<Binary("<", Conv("uint", Zero), minutes)>>}, "Positive", <<minutes>>)
    \cup Valid({"Greater"}, {<<Conv("uint", i), u>>})

NegativePositiveTable ==
  SignInvalid \cup SignIgnored \cup RealLifeUintExamples
    \cup Valid({"Negative"}, {<<i>>, <<call1>>}) \cup Valid({"Positive"}, {<<i>>, <<call1>>, <<LenOf(sl)>>})
-----------------------------------------------------------------------------
Compared2(fn, op, x, y, fn2) == Proposed({fn}, {<<Binary(op, x, y)>>}, fn2, <<x, y>>)

ComparesTable ==
  LET j == Ident("j", "int") IN
  Compared2("True", "==", i, j, "Equal") \cup Compared2("False", "==", i, j, "NotEqual")
    \cup Compared2("True", "!=", i, j, "NotEqual") \cup Compared2("False", "!=", i, j, "Equal")
    \cup Compared2("True", ">", i, j, "Greater") \cup Compared2("False", ">", i, j, "LessOrEqual")
    \cup Compared2("True", ">=", i, j, "GreaterOrEqual") \cup Compared2("False", ">=", i, j, "Less")
    \cup Compared2("True", "<", i, j, "Less") \cup Compared2("False", "<", i, j, "GreaterOrEqual")
    \cup Compared2("True", "<=", i, j, "LessOrEqual") \cup Compared2("False", "<=", i, j, "Greater")
    \cup Compared2("True", "==", ptr, ptr2, "Same") \cup Compared2("False", "==", ptr, ptr2, "NotSame")
    \cup Compared2("True", "!=", ptr, ptr2, "NotSame") \cup Compared2("False", "!=", ptr, ptr2, "Same")
    \cup Valid({"Equal", "NotEqual"} \cup Orders, {<<i, j>>}) \cup Valid({"Same", "NotSame"}, {<<ptr, ptr2>>})
    \cup Valid(Truths, { <<Binary(op, b, Ident("d", "bool"))>> : op \in {"&&", "||"} })

ContainsTable ==
  LET Within(e) == Call("strings.Contains", "bool", <<e, StringLit("abc")>>)
      bytesIn == Call("bytes.Contains", "bool", <<bytes, Conv("[]byte", StringLit("abc"))>>)
      Cases(e) ==
        Proposed({"True"}, {<<Within(e)>>}, "Contains", Within(e).args)
          \cup Proposed({"False"}, {<<Not(Within(e))>>}, "Contains", Within(e).args)
          \cup Proposed({"False"}, {<<Within(e)>>}, "NotContains", Within(e).args)
          \cup Proposed({"True"}, {<<Not(Within(e))>>}, "NotContains", Within(e).args)
  IN  Cases(str) \cup Cases(Conv("string", bytes))
        \cup Valid({"Contains", "NotContains"},
               {<<str, StringLit("abc")>>, <<Conv("string", bytes), StringLit("abc")>>, Twice(sl),
                <<Method(sentinel, "Error", "string"), StringLit("abc")>>,
                <<sl, One, Call("fmt.Sprintf", "string", <<StringLit("abc"), One>>)>>})
        \cup Valid({"Subset", "NotSubset"}, {<<sl, elements>>})
        \cup Valid(Truths, {<<bytesIn>>, <<Not(bytesIn)>>})

(* Several elements where one is expected; an f would make them a message. *)
SubsetTable ==
  Reported({"Contains", "NotContains"}, {<<sl, One, Three>>, <<sl, StringLit("abc"), Composite("map")>>})

LenTable ==
  LET n == LenOf(arr)
      expArr == Ident("expArr", "[2]int")
      Measured(e, k) == Proposed(AsEqual, {<<k, LenOf(e)>>}, "Len", <<e, k>>)
      MeasuredIn(e, k) == Proposed({"True"}, {<<Binary("==", LenOf(e), k)>>}, "Len", <<e, k>>)
      raw == Call("json.RawMessage", "json.RawMessage", <<str>>)
      value == Ident("value", "int")
      NotEqualTo(op) == Either(n, op, Three)
  IN  UNION { Measured(arr, k) : k \in {Three, value, Const("constNum", "int")} }
        \cup Proposed(AsEqual, {<<n, Three>>}, "Len", <<arr, Three>>)
        \cup Proposed(AsEqual, {<<LenOf(expArr), n>>}, "Len", <<arr, LenOf(expArr)>>)
        \cup UNION { MeasuredIn(arr, k) : k \in {Three, value, LenOf(expArr), Const("constNum", "int")} }
        \cup Proposed({"True"}, {<<Binary("==", Three, n)>>}, "Len", <<arr, Three>>)
        \cup UNION { Proposed({"Equal"}, {<<Three, LenOf(e)>>}, "Len", <<e, Three>>) :
                     e \in {Conv("string", str), Conv("[]byte", str), raw, Conv("string", Conv("[]byte", raw))} }
        \cup MeasuredIn(Conv("string", str), Three)
        \cup Valid({"Len"}, { <<arr, k>> : k \in {Three, value, n} })
        \cup Valid(AsEqual, {<<n, value>>}) \cup Valid({"True"}, {<<Binary("==", value, n)>>})
        \cup Valid(AsNotEqual \cup Orders, BothWays(n, Three))
        \cup Valid({"True"}, UNION { NotEqualTo(op) : op \in Comparisons \ {"=="} } \ {<<Binary("<=", n, Three)>>})
        \cup Valid({"False"}, UNION { NotEqualTo(op) : op \in Comparisons })
-----------------------------------------------------------------------------
Falsities ==
  { fl, Field(Ident("cc", "struct"), "value", "float64"), Unary("*", Ident("g", "*float64"), "float64"),
    Method(Ident("h", "struct"), "Calculate", "float64"), Call("floatOp", "float64", <<>>),
    Expr("+", "", "float64", <<Conv("float64", fl), fl>>),
    Call("math.Round", "float64", <<Conv("float64", fl)>>) }

FloatCompareTable ==
  LET k == FloatLit("1.0")
      asPairs == BothWays(any, k) \cup BothWays(fl, k) \cup BothWays(any, fl)
      noFloats == BothWays(any, Three) \cup BothWays(i, Three) \cup BothWays(any, i) \cup {Twice(any), Twice(i), Twice(Three)}
      In(op, pairs) == { <<Binary(op, o[1], o[2])>> : o \in pairs }
  IN  Reported({"Equal"}, { <<k, e>> : e \in Falsities })
        \cup Reported(AsEqual, asPairs) \cup Reported({"True"}, In("==", asPairs)) \cup Reported({"False"}, In("!=", asPairs))
        \cup Valid({"InDelta", "InEpsilon"}, { o \o <<k>> : o \in asPairs })
        \cup Valid({"NotEqual"} \cup Orders, {<<k, fl>>, <<k, any>>})
        \cup Valid({"True"}, UNION { In(op, {<<k, fl>>}) : op \in Comparisons \ {"=="} } \cup In("!=", {<<k, any>>}))
        \cup Valid({"False"}, UNION { In(op, {<<k, fl>>}) : op \in Comparisons \ {"!=", ">="} } \cup In("==", {<<k, any>>}))
        \cup Valid(AsEqual, noFloats) \cup Valid({"True"}, In("==", noFloats)) \cup Valid({"False"}, In("!=", noFloats))

RegexpTable ==
  LET pattern == StringLit("abc") IN
  UNION { Proposed({fn}, {<<Call("regexp.MustCompile", "*Regexp", <<pattern>>), str>>}, fn, <<pattern, str>>)
            \cup Valid({fn}, {<<pattern, str>>}) : fn \in {"Regexp", "NotRegexp"} }

SameTypes ==
  { <<Three, i>>, <<Conv("int64", Three), i64>>, <<Conv("uint", Three), u>>, <<StringLit("abc"), str>>,
    Twice(Ident("req", "Request")), <<Composite("struct"), Ident("ss", "struct")>>,
    <<Composite("map"), Ident("mm", "map")>>, <<Conv("[]byte", Nil), bytes>> }

EqualValuesTable ==
  UNION { Proposed({"EqualValues"}, {o}, "Equal", o) : o \in SameTypes }
    \cup Proposed({"NotEqualValues"}, {<<Three, i>>}, "NotEqual", <<Three, i>>)
    \cup Valid({"Equal"}, SameTypes) \cup Valid({"NotEqual"}, {<<Three, i>>})
    \cup Valid({"EqualValues", "NotEqualValues"}, {<<Three, Field(Ident("mm", "map"), "Etype", "any")>>})
    \cup Valid({"EqualValues"},
           { <<Three, any>>, <<any, flag>>, <<Composite("[]MyString"), Composite("[]string")>> }
             \cup { <<Ident("req", "Request"), Ident("dto", type)>> : type \in {"Arg", "RequestWithTags"} }
             \cup BothWays(func, Conv("func", Nil)))
-----------------------------------------------------------------------------
ErrorNilTable ==
  LET lone == {"Nil", "Empty", "Zero"}
      notLone == {"NotNil", "NotEmpty", "NotZero"}
      nilCast == Conv("(*MyErr)", Nil)
  IN  UNION { Proposed({"Nil"}, {<<e>>}, "NoError", <<e>>) :
              e \in {err, Method(Ident("b", "struct"), "Get1", "error"), Call("errOp", "error", <<>>)} }
        \cup Valid({"Nil", "NotNil"}, { <<e>> : e \in {ptr, any, sl, func, Nil} })
        \cup Proposed(lone, {<<err>>}, "NoError", <<err>>) \cup Proposed(notLone, {<<err>>}, "Error", <<err>>)
        \cup Proposed(AsEqual \cup {"ErrorIs", "IsType"}, BothWays(err, Nil), "NoError", <<err>>)
        \cup Proposed(AsNotEqual \cup {"NotErrorIs", "IsNotType"}, BothWays(err, Nil), "Error", <<err>>)
        \cup Valid({"NoError", "Error"}, {<<err>>}) \cup Valid({"Equal", "NotEqual"}, {Twice(err), Twice(Nil)})
        \cup Valid((lone \cup notLone) \ {"Nil", "NotNil"}, {<<Method(err, "Error", "string")>>})
        \cup Valid(lone \cup notLone, {<<Ident("errs", "[]error")>>})
        \cup Valid({"IsType", "IsNotType"}, BothWays(err, nilCast))

NilCompareTable ==
  LET column == Field(Ident("Row", "map"), "col", "any")
      ForNil(e, pairs) == Proposed(AsEqual, pairs, "Nil", <<e>>) \cup Proposed(AsNotEqual, pairs, "NotNil", <<e>>)
  IN  UNION { ForNil(e, BothWays(Nil, e)) : e \in {func, ptr, sl} }
        \cup ForNil(any, {<<Nil, any>>}) \cup ForNil(column, {<<Nil, column>>})
        \cup Valid(AsEqual \cup AsNotEqual,
               { <<Conv("func", Nil), func>>, <<Conv("any", Nil), any>>, <<Conv("[]int", Nil), sl>>, <<Conv("*int", Nil), ptr>> }
                 \cup {Twice(any), Twice(Nil), Twice(column)} \cup BothWays(column, StringLit("abc")))
        \cup Valid({"Nil", "NotNil"}, {<<any>>})

(* Error and NoError with a sentinel for a message have no f.              *)
SentinelTable ==
  LET two == <<err, sentinel>> IN
  Proposed({"Error"}, {two}, "ErrorIs", two) \cup Proposed({"NoError"}, {two}, "NotErrorIs", two)

ErrorIsAsTable ==
  LET target == Unary("&", myErr, "**MyErr")
      typed == { <<Unary("&", Composite("MyErr"), "*MyErr"), err>>, <<Conv("(*MyErr)", Nil), err>>, <<err, sentinel>> }
      two == <<err, sentinel>>
      In(fn, pair) == {<<Call(fn, "bool", pair)>>}
  IN  Proposed({"True"}, In("errors.Is", two), "ErrorIs", two)
        \cup Proposed({"False"}, In("errors.Is", two), "NotErrorIs", two)
        \cup Proposed({"True"}, In("errors.As", <<err, target>>), "ErrorAs", <<err, target>>)
        \cup Proposed({"False"}, In("errors.As", <<err, target>>), "NotErrorAs", <<err, target>>)
        \cup Reported({"IsType", "IsNotType"}, typed)

ErrorsRight ==
  Valid({"Error", "NoError"}, {<<err>>}) \cup Valid({"ErrorIs", "NotErrorIs"}, {<<err, sentinel>>})
    \cup Valid({"ErrorAs", "NotErrorAs"}, {<<err, Unary("&", myErr, "**MyErr")>>, <<err, Call("new", "**MyErr", <<>>)>>})

ErrorAsTargetTable ==
  LET As(es) == { <<err, e>> : e \in es } IN
  Reported({"ErrorAs", "NotErrorAs"},
           As({Nil, Ident("pathErrNotPtr", "MyErr"), myErr, err, Ident("iface", "Stringer"), Unary("&", i, "*int"),
               Unary("&", err, "*error")}))
    \cup Valid({"ErrorAs", "NotErrorAs"}, As({Unary("&", myErr, "**MyErr"), any, Unary("&", any, "*any")}))
-----------------------------------------------------------------------------
encoded == StringLit("{}")
raw == Ident("raw", "string")
respBody == Ident("respBody", "string")
respBytes == Ident("respBytes", "[]byte")
resultBytes == Ident("resultJSONBytes", "[]byte")
resJSON == Ident("resJSON", "string")
expJSON == Ident("expJSON", "string")
yaml == Ident("confYAML", "string")
conf == Ident("conf", "string")
bufString == Method(buf, "String", "string")
bufBytes == Conv("string", Method(buf, "Bytes", "[]byte"))
AsText(e) == Conv("string", e)
RawMessage(e) == Call("json.RawMessage", "json.RawMessage", <<e>>)
Trimming(fn, e) == Call(fn, "string", <<e, StringLit("abc")>>)

UseEncoded(fn, x, y, x2, y2) == Proposed({"Equal"}, {<<x, y>>}, fn, <<x2, y2>>)
UseJSON(x, y, x2, y2) == UseEncoded("JSONEq", x, y, x2, y2)

JSONCases ==
  UNION { UseJSON(o[1], o[2], o[1], o[2]) :
          o \in { <<encoded, respBody>>, <<Const("expBody", "string"), respBody>>, <<encoded, AsText(respBytes)>>,
                  <<encoded, bufString>>, <<Call("fmt.Sprintf", "string", <<encoded, str>>), AsText(respBytes)>>,
                  <<encoded, resJSON>>, <<expJSON, resJSON>>, <<encoded, AsText(resultBytes)>> }
                \cup BothWays(resJSON, respBody) }
    \cup UseJSON(encoded, bufBytes, encoded, bufString)
    \cup UseJSON(encoded, AsText(resJSON), encoded, resJSON)

JSONConversions ==
  LET summary == Method(Ident("batch", "any"), "ParentSummary", "[]byte")
      data == Field(Ident("res", "struct"), "Data", "[]byte")
      plain == StringLit("abc")
  IN  UseJSON(RawMessage(encoded), summary, encoded, AsText(summary))
        \cup UseJSON(data, RawMessage(Conv("[]byte", encoded)), AsText(data), encoded)
        \cup UseJSON(RawMessage(raw), RawMessage(resultBytes), raw, AsText(resultBytes))
        \cup UseJSON(RawMessage(raw), raw, raw, raw)
        \cup UseJSON(RawMessage(encoded), respBody, encoded, respBody)
        \cup UseJSON(respBody, RawMessage(plain), respBody, plain)
        \cup UseJSON(RawMessage(encoded), resultBytes, encoded, AsText(resultBytes))
        \cup UseJSON(Conv("[]byte", expJSON), resultBytes, expJSON, AsText(resultBytes))
        \cup UseJSON(expJSON, Trimming("strings.Trim", AsText(resultBytes)), expJSON, AsText(resultBytes))
        \cup UseJSON(raw, Trimming("strings.Replace", resJSON), raw, resJSON)
        \cup UseJSON(encoded, Trimming("strings.ReplaceAll", AsText(respBytes)), encoded, AsText(respBytes))
        \cup UseJSON(encoded, Trimming("strings.TrimSpace", bufString), encoded, bufString)
        \cup UseJSON(encoded, Trimming("strings.TrimSpace", bufBytes), encoded, bufString)

YAMLCases ==
  UNION { UseEncoded("YAMLEq", o[1], o[2], o[1], o[2]) : o \in BothWays(yaml, conf) }
    \cup UseEncoded("YAMLEq", yaml, bufBytes, yaml, bufString)
    \cup UseEncoded("YAMLEq", Conv("[]byte", yaml), respBytes, yaml, AsText(respBytes))
    \cup UseEncoded("YAMLEq", Trimming("strings.TrimSpace", Trimming("strings.ReplaceAll", yaml)),
                    Trimming("strings.TrimSpace", AsText(respBytes)), yaml, AsText(respBytes))

EncodedCompareTable ==
  JSONCases \cup JSONConversions \cup YAMLCases
    \cup Proposed({"EqualValues", "Exactly"}, {<<expJSON, resJSON>>}, "JSONEq", <<expJSON, resJSON>>)
    \cup Proposed({"EqualValues", "Exactly"}, {<<yaml, conf>>}, "YAMLEq", <<yaml, conf>>)
    \cup Valid({"JSONEq"}, {<<encoded, respBody>>, <<expJSON, resJSON>>, Twice(encoded), <<encoded, bufString>>})
    \cup Valid({"YAMLEq"}, {<<yaml, conf>>, <<raw, conf>>, <<raw, AsText(respBytes)>>})
    \cup Valid({"Equal"}, {<<StringLit("abc"), StringLit("")>>, <<Composite("json.RawMessage"), respBody>>,
                           <<RawMessage(Nil), respBody>>})
    \cup Valid(AsEqual \cup {"JSONEq"}, {Twice(raw)} \cup BothWays(AsText(respBytes), raw))
    \cup Valid(AsNotEqual, {<<raw, resJSON>>, Twice(resJSON)})
-----------------------------------------------------------------------------
typedConsts == { Const("tc", type) : type \in {"bool", "uint", "int", "int64", "float64", "string", "MyString"} }
literals == {Three, FloatLit("1.0"), StringLit("abc"), True}
wanted == Ident("expected", "string")
wantedObject == Ident("expectedObj", "struct")
wantedPointer == Ident("expectedPtr", "*int")
cell == Ident("tt", "struct")

ExpectedVars ==
  { wanted, Field(wantedObject, "Val", "int"), Field(cell, "expected", "string"), Method(cell, "exp", "string"),
    Method(cell, "expPtr", "*int"), Call("expectedVal", "any", <<>>), elements, Composite("[2]int"),
    Composite("struct"), Nil, Unary("&", wanted, "*string"), Unary("&", Paren(Field(cell, "expected", "int")), "*int"),
    Unary("&", Composite("struct"), "*struct"), Unary("*", wantedPointer, "int"),
    Unary("*", Paren(Method(cell, "expPtr", "*int")), "int"), LenOf(Ident("expectedFields", "[]int")) }

(* Functions with an expected value besides Equal and NotEqual, with the   *)
(* operands in the order of the table's valid assertions.                  *)
OtherExpected ==
  LET k == FloatLit("1.0")
      day == Ident("expectedTime", "time.Time")
      date == Call("time.Date", "time.Time", <<>>)
      anyWanted == Ident("expected", "any")
      resultTime == Ident("resultTime", "time.Time")
      Rows(fns, ess) == [fn : fns, es : ess]
  IN  Rows({"Equal"}, {<<LenOf(Ident("expectedFields", "[]int")), LenOf(sl)>>})
        \cup Rows({"EqualExportedValues"}, { <<e, cell>> : e \in {wantedObject, Composite("struct")} })
        \cup Rows(AsEqual \cup AsNotEqual, { <<e, any>> : e \in {anyWanted, Conv("uint", Three), Conv("int64", One)} })
        \cup Rows({"InDelta", "InEpsilon"}, {<<anyWanted, any, k>>, <<k, any, k>>})
        \cup Rows({"InDeltaMapValues", "InDeltaSlice", "InEpsilonSlice"}, {<<anyWanted, any, k>>, <<elements, any, k>>})
        \cup Rows({"IsNotType", "IsType"}, { <<e, any>> : e \in {anyWanted, Composite("struct"), Conv("(*MyErr)", Nil)} })
        \cup Rows({"Same", "NotSame"}, {<<wantedPointer, ptr>>, <<wantedPointer, Unary("&", i, "*int")>>,
                                        <<Unary("&", anyWanted, "*any"), i>>})
        \cup Rows({"WithinDuration"}, {<<day, resultTime, Three>>, <<date, resultTime, Three>>})
        \cup Rows({"JSONEq", "YAMLEq"}, {<<Const("data", "string"), str>>})
        \cup Rows({"JSONEq"}, {<<AsText(Ident("expectedJSON", "[]byte")), AsText(bytes)>>})

BothExpected ==
  LET k == FloatLit("1.0")
      address == Unary("&", i, "*int")
      date == Call("time.Date", "time.Time", <<>>)
  IN  Valid({"Equal"}, {Twice(Nil), Twice(StringLit("abc")), Twice(wanted), Twice(LenOf(wanted)),
                        <<LenOf(sl), LenOf(Ident("directions", "[]int"))>>, <<elements, Composite("map")>>})
        \cup Valid({"Equal", "NotEqual"}, {<<i, Unary("&", ptr, "**int")>>, Twice(any)})
        \cup Valid({"EqualExportedValues"}, {<<Composite("user"), Composite("struct")>>})
        \cup Valid({"EqualValues", "Exactly", "NotEqualValues"}, BothWays(Conv("uint", Three), Conv("int64", Three)))
        \cup Valid({"InDelta", "InEpsilon"}, {<<k, Ident("expected", "any"), k>>, <<k, k, k>>})
        \cup Valid({"InDeltaMapValues", "InDeltaSlice"}, {<<elements, Nil, k>>, <<elements, elements, k>>})
        \cup Valid({"IsType"}, {<<Conv("(*MyErr)", Nil), Composite("user")>>})
        \cup Valid({"Same", "NotSame"},
               { <<p, address>> : p \in {address, ptr, wantedPointer} } \cup {<<Unary("&", wanted, "*string"), i>>})
        \cup Valid({"WithinDuration"},
               { <<Ident("expectedTime", "time.Time"), Call("time.Now", "time.Time", <<>>), Three>>, Twice(date) \o <<Three>> })

ExpectedActualTable ==
  LET both == {"Equal", "NotEqual"}
      known == ExpectedVars \cup literals \cup typedConsts
      vars2 == { Ident("tc", e.type) : e \in typedConsts }
  IN  Reversed([fn : both, es : { <<e, any>> : e \in known }]) \cup Reversed(OtherExpected) \cup BothExpected
        \cup Valid(both, UNION { BothWays(any, e) : e \in vars2 })
-----------------------------------------------------------------------------
SameVarFns ==
  { "Contains", "ElementsMatch", "Equal", "EqualExportedValues", "EqualValues", "Exactly", "Implements",
    "IsNotType", "IsType", "NotElementsMatch", "NotEqual", "NotEqualValues", "NotRegexp", "NotSame",
    "NotSubset", "Regexp", "Same", "Subset" } \cup Orders
SameDeltaFns == {"InDelta", "InDeltaMapValues", "InDeltaSlice", "InEpsilon", "InEpsilonSlice"}

SameVarRows ==
  Reported(SameVarFns, {Twice(any)})
    \cup Reported(SameDeltaFns, {Twice(any) \o <<FloatLit("1.0")>>})
    \cup Reported({"WithinDuration"}, {Twice(Ident("elapsed", "time.Time")) \o <<Three>>})
    \cup Reported({"ErrorAs", "ErrorIs", "NotErrorAs", "NotErrorIs"}, {Twice(err)})
    \cup Reported({"JSONEq", "YAMLEq"}, {Twice(str)})
    \cup Reported(Truths, { <<Binary(op, i, i)>> : op \in Comparisons })

SameValueRows ==
  LET chain == Method(Method(Composite("struct"), "A", "struct"), "B", "struct") IN
  Reported({"Equal"}, { Twice(e) : e \in {Three, StringLit("abc"), any, Method(cell, "A", "struct"), chain} })
    \cup Reported({"IsNotType", "IsType"}, {Twice(Conv("(*MyErr)", Nil))})

MeaninglessRows ==
  LET numbers == {Three, Zero, Neg1}
      texts == {StringLit(""), StringLit("abc")}
      One1(es) == { <<e>> : e \in es }
      unsigned == {LenOf(sl), Conv("uint", Three)}
  IN  Reported({"Empty", "NotEmpty"}, One1(texts))
        \cup Reported({"Error", "NoError", "Nil", "NotNil"}, One1({Nil}))
        \cup Reported(Truths, One1({True, False}))
        \cup Reported({"Implements", "NotImplements"}, {<<Conv("*any", Nil), Call("new", "*T", <<>>)>>})
        \cup Reported({"Zero", "NotZero"}, One1(numbers \cup texts \cup {Nil, True, False}))
        \cup Reported({"Positive", "Negative"}, One1(numbers))
        \cup Reported({"Negative"}, One1(unsigned))
        \cup Reported({"Less", "GreaterOrEqual"}, { <<e, Zero>> : e \in unsigned })
        \cup Reported({"Greater", "LessOrEqual"}, { <<Zero, e>> : e \in unsigned })

UsefulRows ==
  LET newObject == Call("new", "*MyErr", <<>>)
      One1(es) == { <<e>> : e \in es }
  IN  Valid({"Equal"}, { <<any, Three>>, <<any, StringLit("abc")>>, <<Method(cell, "A", "struct"), StringLit("abc")>>,
                         <<Method(Composite("struct"), "A", "struct"), Method(cell, "A", "struct")>> })
        \cup Valid({"IsNotType", "IsType"}, {<<cell, Composite("struct")>>})
        \cup Valid({"Empty", "NotEmpty"}, One1({str})) \cup Valid({"Error", "NoError"}, One1({err}))
        \cup Valid(Truths, One1({b})) \cup Valid({"Negative", "Positive"}, One1({i}))
        \cup Valid({"Implements", "NotImplements"}, {<<Conv("*TB", Nil), Call("new", "*T", <<>>)>>})
        \cup Valid({"Nil", "NotNil"}, One1({newObject})) \cup Valid({"Zero", "NotZero"}, One1({i, str, newObject, b}))
        \cup Valid({"Positive"}, One1({LenOf(sl), Conv("uint", Three)}))
        \cup Valid({"Greater"}, {<<LenOf(sl), Zero>>, <<Conv("uint", Three), Zero>>})

UselessTable == SameValueRows \cup MeaninglessRows \cup UsefulRows
-----------------------------------------------------------------------------
(* AssertionExpander: a row becomes calls with x for a selector and ts for *)
(* the t, without and with a message.                                      *)
message == <<StringLit("abc"), Three, StringLit("abc")>>
NoMessage == [f |-> FALSE, es |-> <<>>]
ExtremeMode == {NoMessage, [f |-> TRUE, es |-> message]}
FullMode == {NoMessage} \cup { [f |-> f, es |-> SubSeq(message, 1, n)] : f \in BOOLEAN, n \in 1 .. 3 }
NotFmtSetMode == { m \in FullMode : ~ m.f }

Expanded(x, ts, fn, es, m) == AssertionCall(x, fn, m.f, ts \o es \o m.es, FALSE)

Golden(x, ts, row, m) ==
  CASE row.want.says = "nothing" -> Silent
    [] row.want.says = "report" -> WithoutFix
    [] row.want.says = "fix" -> Report({Expanded(x, ts, row.want.fn, row.want.es, m)})

Expand(xs, ts, rows, mode) ==
  { [call |-> Expanded(x, ts, row.fn, row.es, m), said |-> Golden(x, ts, row, m)] : x \in xs, row \in rows, m \in mode }

(* The same call on a receiver of its own. *)
Moved(x, ts, y, us, fn, es, mode) ==
  { [call |-> Expanded(x, ts, fn, es, m), said |-> Report({Expanded(y, us, fn, es, m)})] : m \in mode }

Packages == {Package("assert"), Package("require")}
OnT == <<t>>
AssertOf(s) == Method(s, "Assert", "*assert.Assertions")
RequireOf(s) == Method(s, "Require", "*require.Assertions")
Receivers == {suite, AssertOf(suite), RequireOf(suite), assertObject, requireObject}

BaseTests ==
  LET rows == Proposed({"Equal"}, {<<True, b>>}, "True", <<b>>) \cup Valid({"True"}, {<<b>>}) IN
  Expand(Packages, OnT, rows, FullMode) \cup Expand(Packages, <<suiteT>>, rows, FullMode)
    \cup Expand(Receivers, <<>>, rows, FullMode)

DontUsePkgTests ==
  LET es == <<Three, any>>
      silent == Valid({"Equal"}, {es})
  IN  Moved(Package("assert"), <<suiteT>>, suite, <<>>, "Equal", es, ExtremeMode)
        \cup Moved(Package("require"), <<suiteT>>, RequireOf(suite), <<>>, "Equal", es, ExtremeMode)
        \cup Expand(Receivers, <<>>, silent, ExtremeMode) \cup Expand(Packages, OnT, silent, ExtremeMode)

(* suite-extra-assert-call in the mode "remove", and in the mode "require". *)
ExtraCallTests(from, to) ==
  LET silent == Valid({"True"}, {<<b>>}) IN
  Moved(from, <<>>, to, <<>>, "True", <<b>>, FullMode)
    \cup Expand(Receivers \ {from}, <<>>, silent, ExtremeMode) \cup Expand(Packages, OnT, silent, ExtremeMode)

ExpandOnAssert(rows, mode) == Expand({Package("assert")}, OnT, rows, mode)
OnAssert(rows) == ExpandOnAssert(rows, ExtremeMode)

RegularTests ==
  "bool-compare" :> (OnAssert(BoolCompareTable) \cup BaseTests)
    @@ "empty" :> OnAssert(EmptyTable)
    @@ "negative-positive" :> OnAssert(NegativePositiveTable)
    @@ "compares" :> OnAssert(ComparesTable)
    @@ "contains" :> (OnAssert(ContainsTable) \cup ExpandOnAssert(SubsetTable, NotFmtSetMode))
    @@ "len" :> OnAssert(LenTable)
    @@ "float-compare" :> OnAssert(FloatCompareTable)
    @@ "regexp" :> OnAssert(RegexpTable)
    @@ "equal-values" :> OnAssert(EqualValuesTable)
    @@ "error-nil" :> OnAssert(ErrorNilTable)
    @@ "nil-compare" :> OnAssert(NilCompareTable)
    @@ "error-is-as" :> (OnAssert(ErrorIsAsTable) \cup ExpandOnAssert(SentinelTable, NotFmtSetMode)
                           \cup ExpandOnAssert(ErrorsRight, FullMode)
                           \cup Expand(Packages, OnT, ErrorAsTargetTable, ExtremeMode))
    @@ "encoded-compare" :> OnAssert(EncodedCompareTable)
    @@ "expected-actual" :> OnAssert(ExpectedActualTable)
    @@ "useless-assert" :> (OnAssert(SameVarRows) \cup ExpandOnAssert(UselessTable, FullMode))
    @@ "suite-dont-use-pkg" :> DontUsePkgTests
    @@ "suite-extra-assert-call" :> ExtraCallTests(AssertOf(suite), suite)

ModeTests == "suite-extra-assert-call" :> ExtraCallTests(suite, AssertOf(suite))

Tests(s) ==
  CASE s = [ignoreCustomTypes |-> FALSE, mode |-> "remove"] -> RegularTests
    [] s = [ignoreCustomTypes |-> FALSE, mode |-> "require"] -> ModeTests
    [] OTHER -> <<>>

TestCalls == UNION { { test.call : test \in RegularTests[n] } : n \in DOMAIN RegularTests }
               \cup { test.call : test \in ModeTests["suite-extra-assert-call"] }

(* Every checker says of the calls of its generated test file what the     *)
(* comments and the golden file of that test expect: the report, the fixed *)
(* call with its message, or nothing.                                      *)
TestsHold ==
  stage = "lint" /\ call = original =>
    \A n \in DOMAIN Tests(settings) : \A test \in Tests(settings)[n] :
      test.call = call => Says(n, call, settings) = test.said
=============================================================================
