---------------------------- MODULE MCSuiteFiles ----------------------------
(* Methods for model checking SuiteFiles: bodies of up to three statements *)
(* or on one line, under names, receivers and signatures of every kind.    *)
EXTENDS SuiteFiles

(* Statements, each as the lines it is on. *)
Inside == { "s.T().Parallel()", "t.Parallel()", "s.True(ok)" }
Simple ==
  { <<<<"s.T().Parallel()">>>>, <<<<"s.T().Parallel()", "//">>>>, <<<<"s.T().">>, <<"Parallel()">>>>,
    <<<<"s.T().Helper()">>>>, <<<<"s.True(ok)">>>>, <<<<"s.n++">>>>, <<<<"//">>>>,
    <<<<"t := s.T()">>, <<"t.Parallel()">>>>, <<<<"t := s.T()">>, <<"t.Parallel()">>, <<"assert.True(t, ok)">>>> }

Literals == { "s.Run(func() {", "s.T().Run(func(t) {" }
IsIn(open, x) == x = "t.Parallel()" => open = "s.T().Run(func(t) {"
Nested ==
  { <<<<o>>, <<x>>, <<y>>, <<"})">>>> : o \in Literals, x, y \in Inside }
    \cup { <<<<o, x, ";", y, "})">>>> : o \in Literals, x, y \in Inside }
    \cup { <<<<o, x, "})">>>> : o \in Literals, x \in Inside }

Blocks == Simple \cup { b \in Nested : \A x \in Inside : x \in Range(FlattenSeq(b)) => IsIn(b[1][1], x) }

Bodies ==
  { <<<<"{">>>> \o FlattenSeq(bs) \o <<<<"}">>>> : bs \in UNION { [1 .. n -> Blocks] : n \in 1 .. 2 } \cup [1 .. 3 -> Simple] }
OneLiners ==
  { <<<<"{", x, "}">>>> : x \in Inside \ {"t.Parallel()"} }
    \cup { <<<<"{", x, ";", y, "}">>>> : x, y \in Inside \ {"t.Parallel()"} }

OnlyComments(ls) == \A k \in DOMAIN FlattenSeq(ls) : FlattenSeq(ls)[k] \in {"{", "//", "}"}
UsesReceiver(ls) == \E k \in DOMAIN FlattenSeq(ls) : FlattenSeq(ls)[k] \in {"s.T().Parallel()", "s.T().", "s.T().Helper()", "t := s.T()"}

Named ==
  { Method("s", type, name, "()", ls, FALSE) : type \in {"*S", "S"}, name \in {"TestA", "assertA", "SetupTest"}, ls \in Bodies }
    \cup { Method("s", "*S", name, "()", ls, last) : name \in {"TestA", "assertA"}, ls \in OneLiners, last \in BOOLEAN }
    \cup { Method(rcv, "*S", "assertA", "()", ls, FALSE) :
             rcv \in {"", "_"}, ls \in { <<<<"{">>, <<"assert.True(t, ok)">>, <<"}">>>>, <<<<"{">>, <<"t.Parallel()">>, <<"}">>>> } }
    \cup { Method("s", type, name, sig, <<<<"{">>, <<"s.n++">>, <<"}">>>>, FALSE) :
             type \in {"*S", "S"}, name \in TestNames \cup (ServiceNames \ {"T", "SetT", "SetS"}) \cup {"assertA"},
             sig \in {"()", "(int)", "() error", "(string, string)", "(string, *SuiteInformation)"} }

MCMethods == { m \in Named : Compiles(m) /\ ~ OnlyComments(m.lines) }
=============================================================================
