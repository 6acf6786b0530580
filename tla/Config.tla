------------------------------- MODULE Config -------------------------------
(***************************************************************************)
(* internal/config: the configuration record, its validation and its       *)
(* default.  A list of checkers is the set of its names (the code only     *)
(* asks for membership and emptiness).  All the settings of one checker    *)
(* are one opaque option; Nil is the nil *regexp.Regexp a pattern section  *)
(* may hold.                                                               *)
(***************************************************************************)
EXTENDS CheckersRegistry

CONSTANTS
  Sections,         \* names of the checkers that have a configuration section
  PatternSections,  \* those whose section is a RegexpValue
  Options,          \* values a section can hold
  DefaultOption,    \* the value the checker's constructor also uses
  Nil               \* a RegexpValue without a regexp

ASSUME SectionsAssumption ==
  /\ PatternSections \subseteq Sections
  /\ "require-error" \in Sections => "require-error" \in PatternSections
  /\ Sections \subseteq All
  /\ DefaultOption \in Options
  /\ Nil \notin Options

SectionValues(n) == IF n \in PatternSections THEN Options \cup {Nil} ELSE Options

(* A Config value built by hand, as Go code outside the flags can. *)
IsConfig(c) ==
  /\ c \in [enableAll : BOOLEAN, disableAll : BOOLEAN,
            enabled : SUBSET (All \cup {Stranger}),
            disabled : SUBSET (All \cup {Stranger}),
            section : [Sections -> Options \cup {Nil}]]
  /\ \A n \in Sections : c.section[n] \in SectionValues(n)

(* require-error.fn-pattern is nil by default, expected-actual.pattern is  *)
(* the pattern the constructor sets.                                       *)
DefaultSection(n) == IF n = "require-error" THEN Nil ELSE DefaultOption

NewDefault ==
  [ enableAll  |-> FALSE, disableAll |-> FALSE,
    enabled    |-> {},    disabled   |-> {},
    section    |-> [n \in Sections |-> DefaultSection(n)] ]

(* Validate reports an error. *)
Invalid(c) ==
  \/ c.enableAll /\ c.disableAll
  \/ c.enableAll /\ c.enabled # {}
  \/ c.disableAll /\ c.disabled # {}
  \/ c.disableAll /\ c.enabled = {}
  \/ \E n \in c.disabled : n \in c.enabled

(* What the constructor of a checker puts in the field that its setter     *)
(* changes.                                                                *)
FreshOption(n) == DefaultSection(n)

(* Fault: a setter without its nil check. *)
SetEvenNil(old, v) == v

(* What the setter makes of a section: SetExpVarPattern and SetFnPattern   *)
(* ignore nil.                                                             *)
SetOption(old, v) == IF v = Nil THEN old ELSE v
=============================================================================
