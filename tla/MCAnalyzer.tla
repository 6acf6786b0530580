----------------------------- MODULE MCAnalyzer -----------------------------
(* Constants for model checking Analyzer: three regular and two advanced   *)
(* checkers, the formatter among them.                                     *)
EXTENDS Analyzer, SequencesExt

MCRegistry ==
  << Row("float-compare", TRUE, TRUE), Row("expected-actual", TRUE, TRUE),
     Row("formatter", TRUE, TRUE),
     Row("go-require", FALSE, TRUE), Row("suite-thelper", FALSE, FALSE) >>
MCSections == {"expected-actual", "formatter"}
MCPatternSections == {"expected-actual"}

I(n, o) == [name |-> n, option |-> o]
C(testify, fmt, by) == [testify |-> testify, fmt |-> fmt, by |-> by]

(* Assertions that one checker, several checkers or none object to, in     *)
(* both settings, and a call of something else.                            *)
FewKinds ==
  { C(FALSE, FALSE, {}),
    C(TRUE, FALSE, {I("expected-actual", "default"), I("float-compare", "default")}),
    C(TRUE, TRUE, {I("formatter", "default")}),
    C(TRUE, TRUE, {I("expected-actual", "custom"), I("formatter", "default")}),
    C(TRUE, TRUE, {}) }
ManyKinds ==
  FewKinds \cup
  { C(TRUE, TRUE, S) :
      S \in SUBSET { I("float-compare", "default"), I("expected-actual", "custom"),
                     I("formatter", "default") } }
    \cup { C(TRUE, FALSE, {I("formatter", "custom")}) }

FoundBy(n, m) ==
  [ i \in Instances |-> CASE i = I("go-require", "default") -> n
                          [] i = I("suite-thelper", "default") -> m
                          [] OTHER -> 0 ]

Pkg(kinds, k, founds) ==
  { [calls |-> s, found |-> FoundBy(f[1], f[2])] :
      s \in BoundedSeq(kinds, k), f \in founds }

OnePackage == Pkg(ManyKinds, 2, {<<2, 1>>, <<0, 1>>})
Nothing == [calls |-> <<>>, found |-> FoundBy(1, 0)]
TwoPackages == { k \in Pkg(FewKinds, 2, {<<2, 1>>}) : Len(k.calls) = 2 /\ k.calls[1].by # {} }

(* Every package next to an empty one, and two with a few calls each. *)
MCInputs ==
  LET first == CHOOSE p \in Passes : TRUE IN
  { [p \in Passes |-> IF p = first THEN k ELSE Nothing] : k \in OnePackage }
    \cup [Passes -> TwoPackages]

With(e, d, opt, o) ==
  [NewDefault EXCEPT !.enabled = e, !.disabled = d, !.section[opt] = o]
MCConfigs ==
  { NewDefault,
    With({"suite-thelper"}, {}, "expected-actual", "custom"),
    With({"suite-thelper"}, {"float-compare", "go-require"}, "formatter", "custom"),
    With({"formatter"}, {"formatter"}, "formatter", "default") }
=============================================================================
