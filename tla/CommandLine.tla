---------------------------- MODULE CommandLine ----------------------------
(***************************************************************************)
(* analyzer.New and config.BindToFlags: the flags of one command line are  *)
(* set one after the other over the default configuration, then a pass     *)
(* calls newCheckers with what they left.                                  *)
(***************************************************************************)
EXTENDS CheckersFactory

CONSTANT MaxFlags     \* bound on the flags of a command line

ASSUME MaxFlagsAssumption == MaxFlags \in Nat

VARIABLES
  parse,              \* "parsing", "failed" or "parsed"
  flags               \* flags seen

clVars == <<vars, parse, flags>>

factoryLocals == <<pc, enabledCheckersSet, unvisited, enabledCheckers, next,
                   regularCheckers, advancedCheckers>>

CLInit == cfg = NewDefault /\ Locals /\ parse = "parsing" /\ flags = 0

(* flag.FlagSet hands the next flag's value to Set; an error ends parsing. *)
ParseFlag ==
  /\ parse = "parsing" /\ flags < MaxFlags
  /\ flags' = flags + 1
  /\ UNCHANGED factoryLocals

Accepted(c) == cfg' = c /\ UNCHANGED parse
Rejected == parse' = "failed" /\ UNCHANGED cfg

SetEnableAll(b) == ParseFlag /\ Accepted([cfg EXCEPT !.enableAll = b])
SetDisableAll(b) == ParseFlag /\ Accepted([cfg EXCEPT !.disableAll = b])

(* Fault: one known name makes the list acceptable. *)
SomeNameKnown(ns) == \E n \in ns : IsKnown(n)

(* KnownCheckersValue.Set replaces the list, or keeps it when a name of    *)
(* the new one is unknown.  A list is never empty: "" is the list of the   *)
(* unknown name "".                                                        *)
KnownNames(ns) == \A n \in ns : IsKnown(n)

SetEnable(ns) ==
  ParseFlag /\ IF KnownNames(ns) THEN Accepted([cfg EXCEPT !.enabled = ns]) ELSE Rejected
SetDisable(ns) ==
  ParseFlag /\ IF KnownNames(ns) THEN Accepted([cfg EXCEPT !.disabled = ns]) ELSE Rejected

(* RegexpValue.Set, EnumValue.Set and the boolean flags of a section: Nil  *)
(* stands for a text that they cannot parse.                               *)
SetSection(n, v) ==
  ParseFlag /\ IF v # Nil THEN Accepted([cfg EXCEPT !.section[n] = v]) ELSE Rejected

EndOfFlags ==
  /\ parse = "parsing"
  /\ parse' = "parsed"
  /\ UNCHANGED <<vars, flags>>

(* The Run closure. *)
RunFactory == parse = "parsed" /\ Next /\ UNCHANGED <<parse, flags>>

CLNext ==
  \/ \E b \in BOOLEAN : SetEnableAll(b) \/ SetDisableAll(b)
  \/ \E ns \in SUBSET Names \ {{}} : SetEnable(ns) \/ SetDisable(ns)
  \/ \E n \in Sections, v \in Options \cup {Nil} : SetSection(n, v)
  \/ EndOfFlags
  \/ RunFactory

CLSpec == CLInit /\ [][CLNext]_clVars
-----------------------------------------------------------------------------
(* The "unknown checker" error of newCheckers is out of reach of the       *)
(* flags: whatever the command line, every name it builds is registered,   *)
(* so only a contradiction between flags can make it fail.                 *)
OnlyContradictionsFail ==
  /\ \A i \in 1 .. Len(enabledCheckers) : IsKnown(enabledCheckers[i])
  /\ pc = "error" => Invalid(cfg)
=============================================================================
