--------------------------- MODULE GoRequireTree ---------------------------
(***************************************************************************)
(* The syntax trees that internal/checkers/go_require.go walks; `callee`   *)
(* is the declaration that a static call of the package's own functions    *)
(* resolves to.  Kinds of node:                                            *)
(*   test     FuncDecl with a testing.T parameter, or a suite's method     *)
(*   plain    any other FuncDecl                                           *)
(*   handler  FuncDecl with the signature of an HTTP handler               *)
(*   thandler method of a suite with that signature                        *)
(*   var      package-level variable, whose value may hold function bodies *)
(*   go       go statement            run   call of t.Run or s.Run         *)
(*   lit      function literal        hlit  literal of an HTTP handler     *)
(*   sig      FuncType with a testing.T parameter (the type of a literal)  *)
(*   require  call of package require                                      *)
(*   failnow  assert.FailNow          assert  any other call of assert     *)
(*   call     call of a function of the package                            *)
(*   other    any other call                                               *)
(***************************************************************************)
EXTENDS SyntaxTree

FuncDecls == {"test", "plain", "handler", "thandler"}
Decls == FuncDecls \cup {"var"}
Testify == {"require", "failnow", "assert"}
CallExprs == Testify \cup {"call", "other", "run"}
Kinds == Decls \cup CallExprs \cup {"go", "lit", "hlit", "sig"}

(* A tree in preorder; declarations are on top and signatures are leaves. *)
IsTree(f) ==
  /\ f.kind \in Seq(Kinds) /\ Len(f.up) = Len(f.kind) /\ Len(f.callee) = Len(f.kind)
  /\ \A n \in Nodes(f) :
       /\ InPreorder(f, n)
       /\ (f.up[n] = 0) <=> (f.kind[n] \in Decls)
       /\ f.up[n] # 0 => f.kind[f.up[n]] # "sig"
       /\ IF f.kind[n] = "call"
          THEN f.callee[n] \in Nodes(f) /\ f.kind[f.callee[n]] \in FuncDecls
          ELSE f.callee[n] = 0
=============================================================================
