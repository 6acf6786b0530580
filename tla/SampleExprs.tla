---------------------------- MODULE SampleExprs ----------------------------
(***************************************************************************)
(* The variables and the literals that the assertions under analysis are   *)
(* made of: one or two of each type that a checker tells apart, under the  *)
(* names of the generated tests where a name means something.              *)
(***************************************************************************)
EXTENDS GoExprs

b == Ident("b", "bool")
mb == Ident("mb", "MyBool")
ob == Ident("ob", "main.bool")
i == Ident("i", "int")
i64 == Ident("i64", "int64")
u == Ident("u", "uint")
fl == Ident("f", "float64")
str == Ident("s", "string")
ms == Ident("ms", "MyString")
sl == Ident("sl", "[]int")
arr == Ident("arr", "[2]int")
err == Ident("err", "error")
sentinel == Ident("errSentinel", "error")
myErr == Ident("myErr", "*MyErr")
ptr == Ident("p", "*int")
ptr2 == Ident("q", "*int")
any == Ident("x", "any")
func == Ident("fn", "func")
t == Ident("t", "*T")
bytes == Ident("raw", "[]byte")
expected == Ident("expected", "int")
suite == Ident("s", "*Suite")
suiteT == Method(suite, "T", "*T")
jsonb == Ident("jsonb", "[]byte")
buf == Ident("buf", "*Buffer")

Zero == IntLit("0")
One == IntLit("1")
Three == IntLit("3")
Neg1 == Unary("-", One, "int")
assertObject == Ident("obj", "*assert.Assertions")
requireObject == Ident("obj", "*require.Assertions")
=============================================================================
