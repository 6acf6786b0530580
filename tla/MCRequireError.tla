--------------------------- MODULE MCRequireError ---------------------------
(* Packages for model checking RequireError: all those of n nodes over     *)
(* given kinds of node, built one node at a time from a given beginning.   *)
EXTENDS RequireError, TLC

AnyDecl == [kind |-> <<>>, up |-> <<>>]
OneFunc == [kind |-> <<"func", "block">>, up |-> <<0, 1>>]
OneIf == [kind |-> <<"func", "block", "if">>, up |-> <<0, 1, 2>>]
ElseIf == [kind |-> <<"func", "block", "if", "assert", "block", "if">>,
           up |-> <<0, 1, 2, 3, 3, 3>>]

Add(f, k, p) == [kind |-> Append(f.kind, k), up |-> Append(f.up, p)]

Extensions(f, kinds) ==
  { g \in { Add(f, k, p) : k \in kinds, p \in 0 .. Len(f.kind) } : Fits(g, Len(g.kind)) }

Packages(size, beginning, kinds) ==
  LET trees[k \in Len(beginning.kind) .. size] ==
        IF k = Len(beginning.kind) THEN {beginning}
        ELSE UNION { Extensions(f, kinds) : f \in trees[k - 1] }
  IN  { f \in trees[size] : IsFile(f) }

(* Declarations, literals and variables; sequences of NoError in two       *)
(* functions and their blocks; returns and else branches; the else-if      *)
(* chains that begin with an assertion.                                    *)
MCFiles ==
  Packages(6, AnyDecl, {"func", "exempt", "block", "Error", "call"})
    \cup Packages(4, AnyDecl, {"func", "var", "block", "NoError", "call"})
    \cup Packages(7, AnyDecl, {"func", "block", "NoError", "call"})
    \cup Packages(7, OneFunc, {"block", "if", "return", "Error", "call"})
    \cup Packages(9, ElseIf, {"block", "if", "unary", "bool", "NoError", "Error", "require", "call"})

Negations == Packages(7, OneIf, {"block", "unary", "Error", "call"})
ElseBranches == Packages(8, OneIf, {"block", "Error", "call"})

MCPatterns == {ErrorAssertions, {"NoError"}}
=============================================================================
