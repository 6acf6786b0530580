------------------------------ MODULE MCPrintf ------------------------------
(* Calls for model checking Printf. *)
EXTENDS Printf

(* The directives over these parts. *)
From(flags, indexes, numbers, dotIndexes, verbIndexes, verbs) ==
  { d \in [flag : flags, index : indexes, width : numbers, dot : {"", "."},
           dotIndex : dotIndexes, dotNum : numbers, verbIndex : verbIndexes, verb : verbs] :
      d \in Directives }

CallsOf(formats, argLists, ellipses) ==
  { c \in [format : formats, args : argLists, ellipsis : ellipses] :
      c.ellipsis => c.args # <<>> /\ Last(c.args) = "plain" }

Kinds == {"plain", "formatter", "func", "stringer"}
Plain == {<<>>, <<"plain">>, <<"plain", "plain">>}

(* Every way to write one directive; every type of argument; two and three *)
(* directives that share the arguments; what ends in the middle.           *)
MCCalls ==
  CallsOf({<<>>}, Plain, BOOLEAN)
    \cup CallsOf({ <<d>> : d \in From({""}, {"", "[1]", "[2]", "[3]", "[?]", "["}, {"", "9", "*"},
                                      {"", "[1]", "[2]", "["}, {"", "[1]", "[3]"}, {"d", "%"}) },
                 Plain \cup {<<"formatter", "formatter">>, <<"plain", "plain", "plain">>}, {FALSE})
    \cup CallsOf({ <<d>> : d \in From({"", "#", "0", "-"}, {"", "[2]"}, {"", "*"}, {""}, {"", "[2]"},
                                      {"s", "v", "T", "p", "w", "z", "%"}) },
                 SeqOf(Kinds, 2), BOOLEAN)
    \cup CallsOf({ <<d, e>> : d \in From({""}, {"", "[2]"}, {"", "*"}, {""}, {""}, {"d", "%", "w"}),
                              e \in From({""}, {"", "[1]", "["}, {"", "*"}, {""}, {""}, {"d", ""}) },
                 Plain \cup {<<"plain", "func">>, <<"plain", "plain", "plain">>}, BOOLEAN)
=============================================================================
