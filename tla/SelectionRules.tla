--------------------------- MODULE SelectionRules ---------------------------
(***************************************************************************)
(* Which checkers a configuration asks for, said without the steps of      *)
(* newCheckers: the vocabulary of CheckerSelection and of Analyzer.        *)
(***************************************************************************)
EXTENDS Config

(* The checkers a configuration asks for. *)
Wanted(c) ==
  ((IF c.enableAll THEN All
    ELSE IF c.disableAll THEN {} ELSE EnabledByDefault) \cup c.enabled)
  \ c.disabled

OptionFor(c, n) ==
  IF n \in Sections THEN SetOption(FreshOption(n), c.section[n]) ELSE DefaultOption

(* Fault: the lowest priority first. *)
IsReversedListing(s, S, c) ==
  /\ { s[i].name : i \in 1 .. Len(s) } = S
  /\ \A i, j \in 1 .. Len(s) : i < j => Priority(s[i].name) > Priority(s[j].name)
  /\ \A i \in 1 .. Len(s) : s[i].option = OptionFor(c, s[i].name)

(* s lists the instances of the checkers of S in strict priority order,    *)
(* each with the settings c has for it.                                    *)
IsListing(s, S, c) ==
  /\ { s[i].name : i \in 1 .. Len(s) } = S
  /\ \A i, j \in 1 .. Len(s) : i < j => Priority(s[i].name) < Priority(s[j].name)
  /\ \A i \in 1 .. Len(s) : s[i].option = OptionFor(c, s[i].name)

Acceptable(c) == ~ Invalid(c) /\ Wanted(c) \subseteq All
=============================================================================
