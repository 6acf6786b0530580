----------------------------- MODULE SyntaxTree -----------------------------
(***************************************************************************)
(* The syntax trees the walking checkers are given, as go/ast's inspector  *)
(* presents them: the nodes of a package are numbered in preorder from 1,  *)
(* `kind` says what a node is and `up` is its parent, 0 for a top-level    *)
(* declaration.                                                            *)
(***************************************************************************)
EXTENDS Naturals, Sequences

Nodes(f) == 1 .. Len(f.kind)

(* m is a descendant of n: the numbering is a preorder. *)
Encloses(f, n, m) == n < m /\ \A k \in n + 1 .. m : f.up[k] >= n

(* The node after the subtree of n. *)
After(f, n) ==
  CHOOSE m \in n + 1 .. Len(f.kind) + 1 :
    /\ m = Len(f.kind) + 1 \/ ~ Encloses(f, n, m)
    /\ \A k \in n + 1 .. m - 1 : Encloses(f, n, k)

(* The innermost node of one of the kinds around n, 0 if there is none. *)
Nearest(f, kinds, n) ==
  LET around == { m \in 1 .. n - 1 : f.kind[m] \in kinds /\ Encloses(f, m, n) }
  IN  IF around = {} THEN 0 ELSE CHOOSE m \in around : \A k \in around : k <= m

(* Node n hangs from an earlier node that is still open. *)
InPreorder(f, n) ==
  /\ f.up[n] \in 0 .. n - 1
  /\ f.up[n] = 0 \/ f.up[n] = n - 1 \/ Encloses(f, f.up[n], n - 1)
=============================================================================
