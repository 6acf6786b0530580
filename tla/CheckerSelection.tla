-------------------------- MODULE CheckerSelection --------------------------
(***************************************************************************)
(* What newCheckers promises, in one step: the two lists are a function of *)
(* the configuration alone, in the priority order of the registry.         *)
(***************************************************************************)
EXTENDS SelectionRules

VARIABLES cfg, outcome, regular, advanced

Init == outcome = "pending" /\ regular = <<>> /\ advanced = <<>> /\ IsConfig(cfg)

Accept ==
  /\ outcome = "pending" /\ Acceptable(cfg)
  /\ outcome' = "ok"
  /\ IsListing(regular', { n \in Wanted(cfg) : IsRegular(n) }, cfg)
  /\ IsListing(advanced', { n \in Wanted(cfg) : ~ IsRegular(n) }, cfg)
  /\ UNCHANGED cfg

Refuse ==
  /\ outcome = "pending" /\ ~ Acceptable(cfg)
  /\ outcome' = "error"
  /\ UNCHANGED <<cfg, regular, advanced>>

Next == Accept \/ Refuse
vars == <<cfg, outcome, regular, advanced>>
Spec == Init /\ [][Next]_vars
=============================================================================
