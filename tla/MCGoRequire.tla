---------------------------- MODULE MCGoRequire ----------------------------
(* Packages for model checking GoRequire: all the trees of n nodes over    *)
(* given kinds of declaration and of inner node, built one node at a time. *)
EXTENDS GoRequire, TLC

Empty == [kind |-> <<>>, up |-> <<>>, callee |-> <<>>]
DeclsOf(f) == { n \in Nodes(f) : f.up[n] = 0 }

(* A node to add: its kind, its parent and, for a call, whether it is of   *)
(* the first or of the last declaration.                                   *)
Choices(k, decls, inner) ==
  (decls \X {0} \X {0}) \cup
  ((inner \ {"call"}) \X (1 .. k - 1) \X {0}) \cup
  ((inner \cap {"call"}) \X (1 .. k - 1) \X {1, 2})

CanAdd(f, x, most) ==
  IF x[2] = 0 THEN Cardinality(DeclsOf(f)) < most
  ELSE /\ f.kind[x[2]] \notin {"sig", "require", "failnow"}
       /\ x[2] = Len(f.kind) \/ Encloses(f, x[2], Len(f.kind))

Add(f, x) ==
  [kind |-> Append(f.kind, x[1]), up |-> Append(f.up, x[2]), callee |-> Append(f.callee, x[3])]

LastDecl(f) == CHOOSE n \in DeclsOf(f) : \A m \in DeclsOf(f) : m <= n
Settle(f) ==
  [f EXCEPT !.callee = [n \in Nodes(f) |-> IF f.callee[n] = 2 THEN LastDecl(f) ELSE f.callee[n]]]

(* The packages of size nodes with at most `most` declarations. *)
Packages(size, most, decls, inner) ==
  LET trees[k \in 0 .. size] ==
        IF k = 0 THEN {Empty}
        ELSE { Add(y[1], y[2]) :
                 y \in { z \in trees[k - 1] \X Choices(k, decls, inner) : CanAdd(z[1], z[2], most) } }
  IN  { g \in { Settle(f) : f \in trees[size] } : IsTree(g) }

(* Every status around every call; test functions that call each other;    *)
(* functions that are handlers or hold them.                               *)
MCFiles ==
  Packages(5, 2, {"test", "plain", "var"}, {"go", "run", "require", "assert", "call"})
    \cup Packages(6, 3, {"test"}, {"go", "require", "call"})
    \cup Packages(4, 1, {"plain", "handler", "thandler"},
                  {"go", "lit", "hlit", "sig", "other", "failnow", "assert"})

Recursions == Packages(6, 2, {"test"}, {"go", "call"})
=============================================================================
