-------------------------- MODULE CheckersFactory --------------------------
(***************************************************************************)
(* analyzer/checkers_factory.go: one call of newCheckers(cfg).  The range  *)
(* over the map of enabled names visits them in an order Go leaves open,   *)
(* one action per visited key; the loop that builds checkers is one action *)
(* per name.                                                               *)
(***************************************************************************)
EXTENDS SelectionRules

VARIABLES
  cfg,                  \* the argument
  pc,                   \* where newCheckers is
  enabledCheckersSet,   \* the map, as the set of its keys
  unvisited,            \* keys the range loop has not produced yet
  enabledCheckers,      \* the slice of names
  next,                 \* index of the next name to build
  regularCheckers, advancedCheckers   \* the slices under construction

vars == <<cfg, pc, enabledCheckersSet, unvisited, enabledCheckers, next,
          regularCheckers, advancedCheckers>>

Locations == {"validate", "select", "range", "build", "done", "error"}

(* Fault: the loop index starts at 0. *)
LocalsFromZero ==
  /\ pc = "validate"
  /\ enabledCheckersSet = {} /\ unvisited = {}
  /\ enabledCheckers = <<>> /\ next = 0
  /\ regularCheckers = <<>> /\ advancedCheckers = <<>>

(* The zero values of the locals. *)
Locals ==
  /\ pc = "validate"
  /\ enabledCheckersSet = {} /\ unvisited = {}
  /\ enabledCheckers = <<>> /\ next = 1
  /\ regularCheckers = <<>> /\ advancedCheckers = <<>>

Init == IsConfig(cfg) /\ Locals

(* Fault: the result of Validate is ignored. *)
ValidateIgnored ==
  /\ pc = "validate" /\ pc' = "select"
  /\ UNCHANGED <<cfg, enabledCheckersSet, unvisited, enabledCheckers, next,
                 regularCheckers, advancedCheckers>>

Validate ==
  /\ pc = "validate"
  /\ pc' = IF Invalid(cfg) THEN "error" ELSE "select"
  /\ UNCHANGED <<cfg, enabledCheckersSet, unvisited, enabledCheckers, next,
                 regularCheckers, advancedCheckers>>

(* Fault: disable-all does not remove the defaults. *)
InitialSetWithDefaults(c) == IF c.enableAll THEN All ELSE EnabledByDefault

(* enable-all, else the defaults unless disable-all; then the names to     *)
(* enable are added and the names to disable deleted.                      *)
InitialSet(c) ==
  IF c.enableAll THEN All
  ELSE IF ~ c.disableAll THEN EnabledByDefault ELSE {}

SelectEnabled ==
  /\ pc = "select"
  /\ enabledCheckersSet' = (InitialSet(cfg) \cup cfg.enabled) \ cfg.disabled
  /\ unvisited' = enabledCheckersSet'
  /\ pc' = "range"
  /\ UNCHANGED <<cfg, enabledCheckers, next, regularCheckers, advancedCheckers>>

(* One iteration of `for v := range enabledCheckersSet`. *)
Visit(v) ==
  /\ pc = "range" /\ v \in unvisited
  /\ unvisited' = unvisited \ {v}
  /\ enabledCheckers' = Append(enabledCheckers, v)
  /\ UNCHANGED <<cfg, pc, enabledCheckersSet, next, regularCheckers, advancedCheckers>>

Sort ==
  /\ pc = "range" /\ unvisited = {}
  /\ enabledCheckers' \in Sortings(enabledCheckers)
  /\ pc' = "build"
  /\ UNCHANGED <<cfg, enabledCheckersSet, unvisited, next, regularCheckers, advancedCheckers>>

(* checkers.Get makes a new instance; the first type switch passes it the  *)
(* settings of its section.                                                *)
NewInstance(n) ==
  [ name   |-> n,
    option |-> IF n \in Sections
               THEN SetOption(FreshOption(n), cfg.section[n])
               ELSE DefaultOption ]

(* One iteration of the building loop; the second type switch decides      *)
(* which slice gets the instance.                                          *)
Build ==
  /\ pc = "build" /\ next <= Len(enabledCheckers)
  /\ LET n == enabledCheckers[next] IN
       /\ IsKnown(n)
       /\ \/ /\ IsRegular(n)
             /\ regularCheckers' = Append(regularCheckers, NewInstance(n))
             /\ UNCHANGED advancedCheckers
          \/ /\ ~ IsRegular(n)
             /\ advancedCheckers' = Append(advancedCheckers, NewInstance(n))
             /\ UNCHANGED regularCheckers
  /\ next' = next + 1
  /\ UNCHANGED <<cfg, pc, enabledCheckersSet, unvisited, enabledCheckers>>

(* An unknown name: nil, nil and an error, whatever was built before. *)
BuildUnknown ==
  /\ pc = "build" /\ next <= Len(enabledCheckers)
  /\ ~ IsKnown(enabledCheckers[next])
  /\ pc' = "error"
  /\ regularCheckers' = <<>> /\ advancedCheckers' = <<>>
  /\ UNCHANGED <<cfg, enabledCheckersSet, unvisited, enabledCheckers, next>>

Return ==
  /\ pc = "build" /\ next > Len(enabledCheckers)
  /\ pc' = "done"
  /\ UNCHANGED <<cfg, enabledCheckersSet, unvisited, enabledCheckers, next,
                 regularCheckers, advancedCheckers>>

Next ==
  \/ Validate \/ SelectEnabled \/ Sort \/ Build \/ BuildUnknown \/ Return
  \/ \E v \in unvisited : Visit(v)

Spec == Init /\ [][Next]_vars
-----------------------------------------------------------------------------
Names == All \cup {Stranger}
Instances == [name : All, option : Options \cup {Nil}]

(* Every variable has its type. *)
TypeOK ==
  /\ IsConfig(cfg)
  /\ pc \in Locations
  /\ enabledCheckersSet \subseteq Names
  /\ unvisited \subseteq enabledCheckersSet
  /\ enabledCheckers \in Seq(Names)
  /\ next \in Nat \ {0}
  /\ regularCheckers \in Seq(Instances)
  /\ advancedCheckers \in Seq(Instances)

(* The answer newCheckers returns, none while it runs. *)
Outcome ==
  CASE pc = "done" -> "ok"
    [] pc = "error" -> "error"
    [] OTHER -> "pending"

Selection == INSTANCE CheckerSelection WITH
  outcome  <- Outcome,
  regular  <- IF pc = "done" THEN regularCheckers ELSE <<>>,
  advanced <- IF pc = "done" THEN advancedCheckers ELSE <<>>

(* Whatever order the map is ranged over in, the two lists newCheckers     *)
(* returns hold exactly the checkers the configuration asks for, without   *)
(* duplicates, in registry priority, with the settings of their sections.  *)
ResultListsWanted ==
  pc = "done" =>
    /\ IsListing(regularCheckers, { n \in Wanted(cfg) : IsRegular(n) }, cfg)
    /\ IsListing(advancedCheckers, { n \in Wanted(cfg) : ~ IsRegular(n) }, cfg)

(* newCheckers fails exactly for a contradictory configuration and for a   *)
(* wanted name the registry does not have, and then returns no checkers.   *)
ErrorsAreJustified ==
  /\ pc = "done"  => Acceptable(cfg)
  /\ pc = "error" => /\ ~ Acceptable(cfg)
                     /\ regularCheckers = <<>> /\ advancedCheckers = <<>>

(* ExpectedActual.Check matches its pattern without a nil check: no        *)
(* configuration, not even a hand-built one with a nil RegexpValue, makes  *)
(* newCheckers return it without a pattern.                                *)
ExpectedActualHasPattern ==
  \A i \in 1 .. Len(regularCheckers) :
    regularCheckers[i].name = "expected-actual" => regularCheckers[i].option # Nil

(* The call implements the one-step selection. *)
ImplementsSelection == Selection!Spec
-----------------------------------------------------------------------------
(* The invariant that carries ResultListsWanted and ErrorsAreJustified     *)
(* through the loops.                                                      *)
NoRepeat(s) == \A i, j \in 1 .. Len(s) : s[i] = s[j] => i = j
Elements(s) == { s[i] : i \in 1 .. Len(s) }

(* Names already built, of either kind. *)
BuiltRegular == { enabledCheckers[k] : k \in { j \in 1 .. next - 1 : IsRegular(enabledCheckers[j]) } }
BuiltAdvanced == { enabledCheckers[k] : k \in { j \in 1 .. next - 1 : ~ IsRegular(enabledCheckers[j]) } }

NothingBuilt == next = 1 /\ regularCheckers = <<>> /\ advancedCheckers = <<>>

BeforeRange == pc \in {"validate", "select"} => NothingBuilt /\ enabledCheckers = <<>>
IsValid == pc \in {"select", "range", "build", "done"} => ~ Invalid(cfg)
Ranging ==
  pc = "range" =>
    /\ NothingBuilt
    /\ enabledCheckersSet = Wanted(cfg)
    /\ NoRepeat(enabledCheckers)
    /\ Elements(enabledCheckers) = enabledCheckersSet \ unvisited
Building ==
  pc \in {"build", "done"} =>
    /\ NoRepeat(enabledCheckers)
    /\ Elements(enabledCheckers) = Wanted(cfg)
    /\ Ordered(enabledCheckers)
    /\ next <= Len(enabledCheckers) + 1
    /\ \A k \in 1 .. next - 1 : IsKnown(enabledCheckers[k])
    /\ IsListing(regularCheckers, BuiltRegular, cfg)
    /\ IsListing(advancedCheckers, BuiltAdvanced, cfg)
Finished ==
  /\ pc = "done" => next = Len(enabledCheckers) + 1
  /\ pc = "error" => /\ ~ Acceptable(cfg)
                     /\ regularCheckers = <<>> /\ advancedCheckers = <<>>

IInv == TypeOK /\ BeforeRange /\ IsValid /\ Ranging /\ Building /\ Finished
=============================================================================
