----------------------------- MODULE MCFormatter -----------------------------
(* Assertions for model checking Formatter. *)
EXTENDS Formatter

D(verb) == [flag |-> "", index |-> "", width |-> "", dot |-> "", dotIndex |-> "", dotNum |-> "",
            verbIndex |-> "", verb |-> verb]

Leaves == {Lit(<<>>), Lit(<<D("d")>>), Lit(<<D("%")>>), Empty, Text}

(* Sprintf of every message, with and without an argument, and of another  *)
(* Sprintf, and with a slice.                                              *)
Sprintfs(es) ==
  { Sprintf(e, rest, FALSE) : e \in es, rest \in {<<>>, <<Value>>} }
    \cup { Sprintf(e, <<Value>>, TRUE) : e \in es }

Once == Sprintfs(Leaves)
Messages == Leaves \cup Once \cup Sprintfs(Once) \cup {Value}

MCArguments == {Value, Text}

Lists ==
  {<<>>} \cup { <<e>> \o rest : e \in Messages, rest \in {<<>>, <<Value>>, <<Value, Text>>} }

MCAssertions ==
  { a \in [fn : Functions, f : BOOLEAN, args : Lists, spread : BOOLEAN] : IsAssertion(a) }
=============================================================================
