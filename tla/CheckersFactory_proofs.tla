----------------------- MODULE CheckersFactory_proofs -----------------------
(***************************************************************************)
(* For every registry and every configuration, newCheckers returns what    *)
(* the selection rules say, in whatever order the map is ranged over.  For *)
(* every command line, of any length, what the flags leave in the          *)
(* configuration can only fail by contradicting itself.                    *)
(***************************************************************************)
EXTENDS CommandLine, TLAPS

(* The registry has no two rows with one priority, so names with the same  *)
(* priority are the same name.                                             *)
LEMMA PriorityDistinguishes ==
  ASSUME NEW m, NEW n, IsKnown(m), IsKnown(n), m # n
  PROVE  Priority(m) # Priority(n) /\ Priority(m) \in Nat /\ Priority(n) \in Nat
<1>1. Position(m) \in Index /\ Registry[Position(m)].name = m
  BY DEF IsKnown, Position
<1>2. Position(n) \in Index /\ Registry[Position(n)].name = n
  BY DEF IsKnown, Position
<1>3. Position(m) # Position(n)
  BY <1>1, <1>2
<1>4. Len(Registry) \in Nat
  BY RegistryAssumption
<1> QED
  BY <1>1, <1>2, <1>3, <1>4 DEF Priority, Index


(* Sorting keeps the elements and puts them in order. *)
LEMMA SortingKeepsElements ==
  ASSUME NEW S, NEW s \in Seq(S), NoRepeat(s), NEW t \in Sortings(s)
  PROVE  t \in Seq(S) /\ Len(t) = Len(s) /\ Elements(t) = Elements(s) /\ NoRepeat(t) /\ Ordered(t)
<1>1. PICK p \in Bijection(1 .. Len(s), 1 .. Len(s)) : t = Rearranged(s, p)
  BY DEF Sortings
<1>2. Ordered(t)
  BY DEF Sortings
<1>3. /\ p \in [1 .. Len(s) -> 1 .. Len(s)]
      /\ \A i, j \in 1 .. Len(s) : p[i] = p[j] => i = j
      /\ \A j \in 1 .. Len(s) : \E i \in 1 .. Len(s) : p[i] = j
  BY <1>1 DEF Bijection, Injection, Surjection, IsInjective
<1>4. Len(s) \in Nat /\ \A i \in 1 .. Len(s) : s[i] \in S
  OBVIOUS
<1>5. t \in [1 .. Len(s) -> S]
  BY <1>1, <1>3, <1>4 DEF Rearranged
<1>6. t \in Seq(S) /\ Len(t) = Len(s)
  BY <1>4, <1>5
<1>7. \A i \in 1 .. Len(s) : t[i] = s[p[i]]
  BY <1>1 DEF Rearranged
<1>8. NoRepeat(t)
  <2> SUFFICES ASSUME NEW i \in 1 .. Len(s), NEW j \in 1 .. Len(s), t[i] = t[j]
               PROVE  i = j
    BY <1>6 DEF NoRepeat
  <2>1. p[i] \in 1 .. Len(s) /\ p[j] \in 1 .. Len(s)
    BY <1>3
  <2>2. s[p[i]] = s[p[j]]
    BY <1>7
  <2>3. p[i] = p[j]
    BY <2>1, <2>2 DEF NoRepeat
  <2> QED
    BY <1>3, <2>3
<1>9. Elements(t) = Elements(s)
  <2>1. \A i \in 1 .. Len(s) : t[i] \in Elements(s)
    BY <1>3, <1>7 DEF Elements
  <2>2. ASSUME NEW j \in 1 .. Len(s) PROVE s[j] \in Elements(t)
    <3>1. PICK i \in 1 .. Len(s) : p[i] = j
      BY <1>3
    <3>2. t[i] = s[j]
      BY <1>7, <3>1
    <3> QED
      BY <1>6, <3>2 DEF Elements
  <2> QED
    BY <1>6, <2>1, <2>2 DEF Elements
<1> QED
  BY <1>2, <1>6, <1>8, <1>9
-----------------------------------------------------------------------------
(* An instance has the settings the selection rules give it. *)
LEMMA InstanceIsConfigured ==
  ASSUME NEW n, IsKnown(n), IsConfig(cfg)
  PROVE  /\ NewInstance(n) \in Instances
         /\ NewInstance(n).name = n
         /\ NewInstance(n).option = OptionFor(cfg, n)
<1>1. n \in All
  BY DEF IsKnown, All
<1>2. ASSUME n \in Sections
      PROVE  SetOption(FreshOption(n), cfg.section[n]) \in Options \cup {Nil}
  BY <1>2, SectionsAssumption DEF IsConfig, SetOption, FreshOption, DefaultSection
<1>3. DefaultOption \in Options
  BY SectionsAssumption
<1>4. OptionFor(cfg, n) \in Options \cup {Nil}
  BY <1>2, <1>3 DEF OptionFor
<1>5. NewInstance(n) = [name |-> n, option |-> OptionFor(cfg, n)]
  BY DEF NewInstance, OptionFor
<1> QED
  BY <1>1, <1>4, <1>5 DEF Instances

(* Adding an instance of lower priority than all of a listing keeps it a   *)
(* listing, of one more name.                                              *)
LEMMA ListingGrows ==
  ASSUME NEW s \in Seq(Instances), NEW S, NEW n, IsKnown(n), IsConfig(cfg),
         IsListing(s, S, cfg),
         \A m \in S : Priority(m) < Priority(n)
  PROVE  /\ Append(s, NewInstance(n)) \in Seq(Instances)
         /\ IsListing(Append(s, NewInstance(n)), S \cup {n}, cfg)
<1> DEFINE x == NewInstance(n)
           t == Append(s, x)
<1>1. x \in Instances /\ x.name = n /\ x.option = OptionFor(cfg, n)
  BY InstanceIsConfigured
<1> HIDE DEF x
<1>2. /\ t \in Seq(Instances) /\ Len(t) = Len(s) + 1 /\ Len(s) \in Nat
      /\ \A i \in 1 .. Len(s) : t[i] = s[i]
      /\ t[Len(s) + 1] = x
  BY <1>1
<1> HIDE DEF t
<1>3. { t[i].name : i \in 1 .. Len(t) } = S \cup {n}
  <2>1. \A i \in 1 .. Len(t) : i \in 1 .. Len(s) \/ i = Len(s) + 1
    BY <1>2
  <2>2. 1 .. Len(s) \subseteq 1 .. Len(t) /\ Len(s) + 1 \in 1 .. Len(t)
    BY <1>2
  <2>3. S = { s[i].name : i \in 1 .. Len(s) }
    BY DEF IsListing
  <2> QED
    BY <1>1, <1>2, <2>1, <2>2, <2>3
<1>4. ASSUME NEW i \in 1 .. Len(t), NEW j \in 1 .. Len(t), i < j
      PROVE  Priority(t[i].name) < Priority(t[j].name)
  <2>1. i \in 1 .. Len(s)
    BY <1>2, <1>4
  <2>2. CASE j \in 1 .. Len(s)
    BY <1>2, <1>4, <2>1, <2>2 DEF IsListing
  <2>3. CASE j = Len(s) + 1
    <3>1. s[i].name \in S
      BY <2>1 DEF IsListing
    <3> QED
      BY <1>1, <1>2, <2>1, <2>3, <3>1
  <2>4. j \in 1 .. Len(s) \/ j = Len(s) + 1
    BY <1>2
  <2> QED
    BY <2>2, <2>3, <2>4
<1>5. \A i \in 1 .. Len(t) : t[i].option = OptionFor(cfg, t[i].name)
  BY <1>1, <1>2 DEF IsListing
<1>6. IsListing(t, S \cup {n}, cfg)
  BY <1>3, <1>4, <1>5 DEF IsListing
<1> QED
  BY <1>2, <1>6 DEF t, x
-----------------------------------------------------------------------------
(* What the select step computes is what the configuration wants. *)
LEMMA SelectedIsWanted ==
  ASSUME NEW c
  PROVE  (InitialSet(c) \cup c.enabled) \ c.disabled = Wanted(c)
BY DEF InitialSet, Wanted

LEMMA WantedAreNames ==
  ASSUME IsConfig(cfg)
  PROVE  Wanted(cfg) \subseteq Names
BY DEF IsConfig, Wanted, Names, All, EnabledByDefault

LEMMA InitIInv == Init => IInv
BY DEF Init, Locals, IInv, TypeOK, Locations, BeforeRange, NothingBuilt, IsValid, Ranging,
       Building, Finished

LEMMA ValidateIInv == IInv /\ Validate => IInv'
<1> SUFFICES ASSUME IInv, Validate PROVE IInv'
  OBVIOUS
<1> USE DEF IInv, Validate
<1>1. TypeOK'
  BY DEF TypeOK, Locations
<1>2. BeforeRange'
  BY DEF BeforeRange, NothingBuilt
<1>3. IsValid' /\ Ranging' /\ Building'
  BY DEF IsValid, Ranging, Building
<1>4. Finished'
  BY DEF Finished, Acceptable, BeforeRange, NothingBuilt
<1> QED
  BY <1>1, <1>2, <1>3, <1>4

LEMMA SelectIInv == IInv /\ SelectEnabled => IInv'
<1> SUFFICES ASSUME IInv, SelectEnabled PROVE IInv'
  OBVIOUS
<1> USE DEF IInv, SelectEnabled
<1>1. enabledCheckersSet' = Wanted(cfg) /\ unvisited' = Wanted(cfg)
  BY SelectedIsWanted
<1>2. TypeOK'
  BY <1>1, WantedAreNames DEF TypeOK, Locations
<1>3. Ranging'
  BY <1>1 DEF Ranging, BeforeRange, NothingBuilt, NoRepeat, Elements
<1>4. BeforeRange' /\ IsValid' /\ Building' /\ Finished'
  BY DEF BeforeRange, IsValid, Building, Finished
<1> QED
  BY <1>2, <1>3, <1>4

LEMMA VisitIInv == ASSUME NEW v \in unvisited, IInv, Visit(v) PROVE IInv'
<1> USE DEF IInv, Visit
<1>1. v \in Names /\ v \in enabledCheckersSet
  BY DEF TypeOK
<1>2. TypeOK'
  BY <1>1 DEF TypeOK, Locations
<1>3. /\ enabledCheckers' \in Seq(Names) /\ Len(enabledCheckers) \in Nat
      /\ Len(enabledCheckers') = Len(enabledCheckers) + 1
      /\ \A i \in 1 .. Len(enabledCheckers) : enabledCheckers'[i] = enabledCheckers[i]
      /\ enabledCheckers'[Len(enabledCheckers) + 1] = v
  BY <1>1 DEF TypeOK
<1>4. \A i \in 1 .. Len(enabledCheckers') :
        i \in 1 .. Len(enabledCheckers) \/ i = Len(enabledCheckers) + 1
  BY <1>3
<1>5. Elements(enabledCheckers) = enabledCheckersSet \ unvisited /\ NoRepeat(enabledCheckers)
  BY DEF Ranging
<1>6. NoRepeat(enabledCheckers')
  <2>1. \A i \in 1 .. Len(enabledCheckers) : enabledCheckers[i] # v
    BY <1>5 DEF Elements
  <2> QED
    BY <1>3, <1>4, <1>5, <2>1 DEF NoRepeat
<1>7. Elements(enabledCheckers') = Elements(enabledCheckers) \cup {v}
  <2>1. 1 .. Len(enabledCheckers) \subseteq 1 .. Len(enabledCheckers')
        /\ Len(enabledCheckers) + 1 \in 1 .. Len(enabledCheckers')
    BY <1>3
  <2> QED
    BY <1>3, <1>4, <2>1 DEF Elements
<1>8. Ranging'
  <2>1. Elements(enabledCheckers)' = enabledCheckersSet' \ unvisited'
    BY <1>1, <1>5, <1>7 DEF Elements
  <2>2. NoRepeat(enabledCheckers)'
    BY <1>6 DEF NoRepeat
  <2> QED
    BY <2>1, <2>2 DEF Ranging, NothingBuilt
<1>9. BeforeRange' /\ IsValid' /\ Building' /\ Finished'
  BY DEF BeforeRange, IsValid, Building, Finished
<1> QED
  BY <1>2, <1>8, <1>9

LEMMA SortIInv == IInv /\ Sort => IInv'
<1> SUFFICES ASSUME IInv, Sort PROVE IInv'
  OBVIOUS
<1> USE DEF IInv, Sort
<1>1. /\ enabledCheckers \in Seq(Names) /\ NoRepeat(enabledCheckers)
      /\ Elements(enabledCheckers) = Wanted(cfg) /\ NothingBuilt
  BY DEF TypeOK, Ranging
<1>2. /\ enabledCheckers' \in Seq(Names) /\ NoRepeat(enabledCheckers')
      /\ Elements(enabledCheckers') = Wanted(cfg) /\ Ordered(enabledCheckers')
  BY <1>1, SortingKeepsElements
<1>3. TypeOK'
  BY <1>2 DEF TypeOK, Locations
<1>4. Building'
  <2>1. next' = 1 /\ regularCheckers' = <<>> /\ advancedCheckers' = <<>> /\ cfg' = cfg
    BY <1>1 DEF NothingBuilt
  <2>2. BuiltRegular' = {} /\ BuiltAdvanced' = {}
    BY <2>1 DEF BuiltRegular, BuiltAdvanced
  <2>3. IsListing(<<>>, {}, cfg)
    BY DEF IsListing
  <2>4. IsListing(regularCheckers, BuiltRegular, cfg)' /\ IsListing(advancedCheckers, BuiltAdvanced, cfg)'
    BY <2>1, <2>2, <2>3 DEF IsListing
  <2>5. NoRepeat(enabledCheckers)' /\ (Elements(enabledCheckers) = Wanted(cfg))' /\ Ordered(enabledCheckers)'
    BY <1>2, <2>1 DEF NoRepeat, Elements, Ordered
  <2>6. Len(enabledCheckers') \in Nat
    BY <1>2
  <2> QED
    BY <2>1, <2>4, <2>5, <2>6 DEF Building
<1>5. BeforeRange' /\ IsValid' /\ Ranging' /\ Finished'
  BY DEF BeforeRange, IsValid, Ranging, Finished
<1> QED
  BY <1>3, <1>4, <1>5

(* The name to build comes after every name already built. *)
LEMMA NextComesAfter ==
  ASSUME IInv, pc = "build", next <= Len(enabledCheckers), IsKnown(enabledCheckers[next]),
         NEW k \in 1 .. next - 1
  PROVE  Priority(enabledCheckers[k]) < Priority(enabledCheckers[next])
<1>1. next \in Nat \ {0} /\ enabledCheckers \in Seq(Names) /\ Len(enabledCheckers) \in Nat
  BY DEF IInv, TypeOK
<1>2. k \in 1 .. Len(enabledCheckers) /\ next \in 1 .. Len(enabledCheckers) /\ k < next
  BY <1>1
<1>3. IsKnown(enabledCheckers[k]) /\ NoRepeat(enabledCheckers) /\ Ordered(enabledCheckers)
  BY DEF IInv, Building
<1>4. enabledCheckers[k] # enabledCheckers[next]
  BY <1>2, <1>3 DEF NoRepeat
<1>5. Priority(enabledCheckers[k]) <= Priority(enabledCheckers[next])
  BY <1>2, <1>3 DEF Ordered
<1> QED
  BY <1>3, <1>4, <1>5, PriorityDistinguishes

LEMMA BuildIInv == IInv /\ Build => IInv'
<1> SUFFICES ASSUME IInv, Build PROVE IInv'
  OBVIOUS
<1> DEFINE n == enabledCheckers[next]
<1>1. /\ next \in Nat \ {0} /\ enabledCheckers \in Seq(Names) /\ Len(enabledCheckers) \in Nat
      /\ regularCheckers \in Seq(Instances) /\ advancedCheckers \in Seq(Instances)
      /\ IsConfig(cfg)
  BY DEF IInv, TypeOK
<1>2. /\ pc = "build" /\ next <= Len(enabledCheckers) /\ IsKnown(n)
      /\ next' = next + 1
      /\ UNCHANGED <<cfg, pc, enabledCheckersSet, unvisited, enabledCheckers>>
  BY DEF Build
<1>3. /\ IsListing(regularCheckers, BuiltRegular, cfg)
      /\ IsListing(advancedCheckers, BuiltAdvanced, cfg)
      /\ \A k \in 1 .. next - 1 : IsKnown(enabledCheckers[k])
      /\ NoRepeat(enabledCheckers) /\ Elements(enabledCheckers) = Wanted(cfg)
      /\ Ordered(enabledCheckers)
  BY <1>2 DEF IInv, Building
<1>4. \A k \in 1 .. next - 1 : Priority(enabledCheckers[k]) < Priority(n)
  BY <1>2, NextComesAfter
<1>5. \A k : k \in 1 .. next' - 1 <=> k \in 1 .. next - 1 \/ k = next
  BY <1>1, <1>2
<1>6. /\ IsListing(regularCheckers, BuiltRegular, cfg)'
      /\ IsListing(advancedCheckers, BuiltAdvanced, cfg)'
      /\ regularCheckers' \in Seq(Instances) /\ advancedCheckers' \in Seq(Instances)
  <2>1. CASE IsRegular(n)
    <3>1. BuiltRegular' = BuiltRegular \cup {n} /\ BuiltAdvanced' = BuiltAdvanced
      BY <1>2, <1>5, <2>1 DEF BuiltRegular, BuiltAdvanced
    <3>2. regularCheckers' = Append(regularCheckers, NewInstance(n))
          /\ advancedCheckers' = advancedCheckers
      BY <2>1 DEF Build
    <3>3. \A m \in BuiltRegular : Priority(m) < Priority(n)
      BY <1>4 DEF BuiltRegular
    <3>4. /\ Append(regularCheckers, NewInstance(n)) \in Seq(Instances)
          /\ IsListing(Append(regularCheckers, NewInstance(n)), BuiltRegular \cup {n}, cfg)
      BY <1>1, <1>2, <1>3, <3>3, ListingGrows
    <3> QED
      BY <1>1, <1>2, <1>3, <3>1, <3>2, <3>4 DEF IsListing
  <2>2. CASE ~ IsRegular(n)
    <3>1. BuiltAdvanced' = BuiltAdvanced \cup {n} /\ BuiltRegular' = BuiltRegular
      BY <1>2, <1>5, <2>2 DEF BuiltRegular, BuiltAdvanced
    <3>2. advancedCheckers' = Append(advancedCheckers, NewInstance(n))
          /\ regularCheckers' = regularCheckers
      BY <2>2 DEF Build
    <3>3. \A m \in BuiltAdvanced : Priority(m) < Priority(n)
      BY <1>4 DEF BuiltAdvanced
    <3>4. /\ Append(advancedCheckers, NewInstance(n)) \in Seq(Instances)
          /\ IsListing(Append(advancedCheckers, NewInstance(n)), BuiltAdvanced \cup {n}, cfg)
      BY <1>1, <1>2, <1>3, <3>3, ListingGrows
    <3> QED
      BY <1>1, <1>2, <1>3, <3>1, <3>2, <3>4 DEF IsListing
  <2> QED
    BY <2>1, <2>2
<1>7. TypeOK'
  BY <1>1, <1>2, <1>6 DEF IInv, TypeOK
<1>8. Building'
  <2>1. NoRepeat(enabledCheckers)' /\ (Elements(enabledCheckers) = Wanted(cfg))' /\ Ordered(enabledCheckers)'
    BY <1>2, <1>3 DEF NoRepeat, Elements, Ordered
  <2>2. \A k \in 1 .. next' - 1 : IsKnown(enabledCheckers'[k])
    BY <1>2, <1>3, <1>5
  <2>3. next' <= Len(enabledCheckers') + 1
    BY <1>1, <1>2
  <2> QED
    BY <1>6, <2>1, <2>2, <2>3 DEF Building
<1>9. BeforeRange' /\ IsValid' /\ Ranging' /\ Finished'
  BY <1>2 DEF IInv, BeforeRange, IsValid, Ranging, Finished
<1> QED
  BY <1>7, <1>8, <1>9 DEF IInv

LEMMA BuildUnknownIInv == IInv /\ BuildUnknown => IInv'
<1> SUFFICES ASSUME IInv, BuildUnknown PROVE IInv'
  OBVIOUS
<1> USE DEF IInv, BuildUnknown
<1>1. TypeOK'
  BY DEF TypeOK, Locations
<1>2. ~ Acceptable(cfg)
  <2>1. enabledCheckers[next] \in Wanted(cfg)
    BY DEF TypeOK, Building, Elements
  <2>2. enabledCheckers[next] \notin All
    BY DEF IsKnown, All
  <2> QED
    BY <2>1, <2>2 DEF Acceptable
<1>3. Finished'
  BY <1>2 DEF Finished, Acceptable
<1>4. BeforeRange' /\ IsValid' /\ Ranging' /\ Building'
  BY DEF BeforeRange, IsValid, Ranging, Building
<1> QED
  BY <1>1, <1>3, <1>4

(* What Building says does not depend on the other variables. *)
LEMMA BuildingStable ==
  ASSUME UNCHANGED <<cfg, enabledCheckers, next, regularCheckers, advancedCheckers>>
  PROVE  /\ NoRepeat(enabledCheckers)' <=> NoRepeat(enabledCheckers)
         /\ (Elements(enabledCheckers) = Wanted(cfg))' <=> Elements(enabledCheckers) = Wanted(cfg)
         /\ Ordered(enabledCheckers)' <=> Ordered(enabledCheckers)
         /\ IsListing(regularCheckers, BuiltRegular, cfg)' <=>
              IsListing(regularCheckers, BuiltRegular, cfg)
         /\ IsListing(advancedCheckers, BuiltAdvanced, cfg)' <=>
              IsListing(advancedCheckers, BuiltAdvanced, cfg)
<1>1. NoRepeat(enabledCheckers)' <=> NoRepeat(enabledCheckers)
  BY DEF NoRepeat
<1>2. (Elements(enabledCheckers) = Wanted(cfg))' <=> Elements(enabledCheckers) = Wanted(cfg)
  BY DEF Elements
<1>3. Ordered(enabledCheckers)' <=> Ordered(enabledCheckers)
  BY DEF Ordered
<1>4. BuiltRegular' = BuiltRegular /\ BuiltAdvanced' = BuiltAdvanced
  BY DEF BuiltRegular, BuiltAdvanced
<1>5. IsListing(regularCheckers, BuiltRegular, cfg)' <=> IsListing(regularCheckers, BuiltRegular, cfg)
  BY <1>4 DEF IsListing
<1>6. IsListing(advancedCheckers, BuiltAdvanced, cfg)' <=> IsListing(advancedCheckers, BuiltAdvanced, cfg)
  BY <1>4 DEF IsListing
<1> QED
  BY <1>1, <1>2, <1>3, <1>5, <1>6

LEMMA ReturnIInv == IInv /\ Return => IInv'
<1> SUFFICES ASSUME IInv, Return PROVE IInv'
  OBVIOUS
<1> USE DEF IInv, Return
<1>1. TypeOK'
  BY DEF TypeOK, Locations
<1>2. next = Len(enabledCheckers) + 1
  BY DEF TypeOK, Building
<1>3. Finished'
  BY <1>2 DEF Finished
<1>4. Building'
  <2>1. UNCHANGED <<cfg, enabledCheckers, next, regularCheckers, advancedCheckers>>
    OBVIOUS
  <2> QED
    BY <2>1, BuildingStable DEF Building
<1>5. BeforeRange' /\ IsValid' /\ Ranging'
  BY DEF BeforeRange, IsValid, Ranging
<1> QED
  BY <1>1, <1>3, <1>4, <1>5

LEMMA StutterIInv == IInv /\ UNCHANGED vars => IInv'
<1> SUFFICES ASSUME IInv, UNCHANGED vars PROVE IInv'
  OBVIOUS
<1> USE DEF IInv, vars
<1>1. TypeOK' /\ BeforeRange' /\ IsValid'
  BY DEF TypeOK, BeforeRange, NothingBuilt, IsValid
<1>2. Ranging' /\ Finished'
  BY DEF Ranging, NothingBuilt, NoRepeat, Elements, Finished
<1>3. Building'
  BY BuildingStable DEF Building
<1> QED
  BY <1>1, <1>2, <1>3

LEMMA StepIInv == IInv /\ [Next]_vars => IInv'
BY ValidateIInv, SelectIInv, VisitIInv, SortIInv, BuildIInv, BuildUnknownIInv, ReturnIInv,
   StutterIInv DEF Next

(* IInv holds in every state of newCheckers: the property that the         *)
(* theorems below are read off.                                            *)
THEOREM InductiveInvariant == Spec => []IInv
BY InitIInv, StepIInv, PTL DEF Spec

(* Every variable of newCheckers keeps its type (analyzer/checkers_        *)
(* factory.go, the locals of newCheckers).                                 *)
THEOREM TypeCorrect == Spec => []TypeOK
<1>1. IInv => TypeOK
  BY DEF IInv
<1> QED
  BY <1>1, InductiveInvariant, PTL

(* When the loop over the names is over, what was built is what the        *)
(* configuration wants, and it is all known.                               *)
LEMMA ResultOfIInv == IInv => ResultListsWanted /\ ErrorsAreJustified
<1> SUFFICES ASSUME IInv PROVE ResultListsWanted /\ ErrorsAreJustified
  OBVIOUS
<1>1. ASSUME pc = "done"
      PROVE  /\ BuiltRegular = { n \in Wanted(cfg) : IsRegular(n) }
             /\ BuiltAdvanced = { n \in Wanted(cfg) : ~ IsRegular(n) }
             /\ Wanted(cfg) \subseteq All
  <2>1. next = Len(enabledCheckers) + 1 /\ Len(enabledCheckers) \in Nat
    BY <1>1 DEF IInv, Finished, TypeOK
  <2>2. 1 .. next - 1 = 1 .. Len(enabledCheckers)
    BY <2>1
  <2>3. Wanted(cfg) = { enabledCheckers[k] : k \in 1 .. next - 1 }
    BY <1>1, <2>2 DEF IInv, Building, Elements
  <2>4. \A k \in 1 .. next - 1 : enabledCheckers[k] \in All
    BY <1>1 DEF IInv, Building, IsKnown, All
  <2> QED
    BY <2>3, <2>4 DEF BuiltRegular, BuiltAdvanced
<1>2. ResultListsWanted
  BY <1>1 DEF IInv, Building, ResultListsWanted
<1>3. ErrorsAreJustified
  BY <1>1 DEF IInv, IsValid, Finished, ErrorsAreJustified, Acceptable
<1> QED
  BY <1>2, <1>3

(* In whatever order Go ranges over the map and sort.Slice breaks ties,    *)
(* newCheckers returns exactly the wanted checkers, once each, in registry *)
(* priority and with their settings.                                       *)
THEOREM ResultCorrect == Spec => []ResultListsWanted
BY ResultOfIInv, InductiveInvariant, PTL

(* newCheckers fails exactly for contradictory configurations and unknown  *)
(* names, and then returns no checkers.                                    *)
THEOREM ErrorsCorrect == Spec => []ErrorsAreJustified
BY ResultOfIInv, InductiveInvariant, PTL

(* A pattern that a section leaves nil is not set over the default one.    *)
LEMMA DefaultPatternStays ==
  ASSUME NEW c
  PROVE  OptionFor(c, "expected-actual") # Nil
<1>1. DefaultOption # Nil
  BY SectionsAssumption
<1>2. FreshOption("expected-actual") = DefaultOption
  BY DEF FreshOption, DefaultSection
<1> QED
  BY <1>1, <1>2 DEF OptionFor, SetOption

LEMMA PatternOfIInv == IInv => ExpectedActualHasPattern
<1> SUFFICES ASSUME IInv, NEW i \in 1 .. Len(regularCheckers),
                    regularCheckers[i].name = "expected-actual"
             PROVE  regularCheckers[i].option # Nil
  BY DEF ExpectedActualHasPattern
<1>1. regularCheckers # <<>>
  OBVIOUS
<1>2. pc \in {"build", "done"}
  BY <1>1 DEF IInv, TypeOK, Locations, BeforeRange, NothingBuilt, Ranging, Finished
<1>3. regularCheckers[i].option = OptionFor(cfg, "expected-actual")
  BY <1>2 DEF IInv, Building, IsListing
<1> QED
  BY <1>3, DefaultPatternStays

(* Whatever configuration newCheckers is given, a nil pattern included, it *)
(* never builds the expected-actual checker without the pattern that its   *)
(* Check dereferences.                                                     *)
THEOREM PatternCorrect == Spec => []ExpectedActualHasPattern
BY PatternOfIInv, InductiveInvariant, PTL
-----------------------------------------------------------------------------
(* The rules of the abstract specification are those of this module: its   *)
(* operators are the same formulas over the same constants.                *)
LEMMA SameRules ==
  ASSUME NEW s, NEW S, NEW c
  PROVE  /\ Selection!IsConfig(c) <=> IsConfig(c)
         /\ Selection!Acceptable(c) <=> Acceptable(c)
         /\ Selection!Wanted(c) = Wanted(c)
         /\ Selection!IsListing(s, S, c) <=> IsListing(s, S, c)
         /\ \A n : Selection!IsRegular(n) <=> IsRegular(n)
<1>1. Selection!All = All /\ Selection!EnabledByDefault = EnabledByDefault
  BY DEF Selection!All, All, Selection!EnabledByDefault, EnabledByDefault, Selection!Index, Index
<1>2. \A n : Selection!Position(n) = Position(n) /\ (Selection!IsKnown(n) <=> IsKnown(n))
  BY DEF Selection!Position, Position, Selection!IsKnown, IsKnown, Selection!Index, Index
<1>3. \A n : Selection!Priority(n) = Priority(n) /\ (Selection!IsRegular(n) <=> IsRegular(n))
  BY <1>2 DEF Selection!Priority, Priority, Selection!IsRegular, IsRegular
<1>4. \A n : Selection!OptionFor(c, n) = OptionFor(c, n)
  BY DEF Selection!OptionFor, OptionFor, Selection!SetOption, SetOption,
         Selection!FreshOption, FreshOption, Selection!DefaultSection, DefaultSection
<1>5. Selection!Wanted(c) = Wanted(c)
  BY <1>1 DEF Selection!Wanted, Wanted
<1>6. Selection!Invalid(c) <=> Invalid(c)
  BY DEF Selection!Invalid, Invalid
<1>7. Selection!Acceptable(c) <=> Acceptable(c)
  BY <1>1, <1>5, <1>6 DEF Selection!Acceptable, Acceptable
<1>8. Selection!IsConfig(c) <=> IsConfig(c)
  BY <1>1 DEF Selection!IsConfig, IsConfig, Selection!SectionValues, SectionValues
<1>9. Selection!IsListing(s, S, c) <=> IsListing(s, S, c)
  BY <1>3, <1>4 DEF Selection!IsListing, IsListing
<1> QED
  BY <1>3, <1>5, <1>7, <1>8, <1>9

(* Until it returns, a step of newCheckers is a stutter of the selection;  *)
(* the step that returns is its one step.                                  *)
LEMMA StepImplements ==
  IInv /\ IInv' /\ [Next]_vars => [Selection!Next]_(Selection!vars)
<1> SUFFICES ASSUME IInv, IInv', [Next]_vars
             PROVE  Selection!Next \/ UNCHANGED Selection!vars
  OBVIOUS
<1>1. cfg' = cfg
  BY DEF vars, Next, Validate, SelectEnabled, Visit, Sort, Build, BuildUnknown, Return
<1>2. CASE pc' = pc /\ pc # "done"
  BY <1>1, <1>2 DEF Selection!vars, Outcome
<1>3. CASE UNCHANGED vars
  BY <1>3 DEF Selection!vars, Outcome, vars
<1>4. CASE pc' = "error" /\ pc \notin {"done", "error"}
  <2>1. ~ Selection!Acceptable(cfg)
    BY <1>1, <1>4, SameRules DEF IInv, Finished, Acceptable
  <2> QED
    BY <1>1, <1>4, <2>1 DEF Selection!Next, Selection!Refuse, Outcome
<1>5. CASE pc' \in {"select", "range", "build"} /\ pc \notin {"done", "error"}
  BY <1>1, <1>5 DEF Selection!vars, Outcome
<1>6. CASE Return
  <2>1. /\ pc = "build" /\ pc' = "done"
        /\ regularCheckers' = regularCheckers /\ advancedCheckers' = advancedCheckers
    BY <1>6 DEF Return
  <2>2. ResultListsWanted' /\ ErrorsAreJustified'
    BY ResultOfIInv, PTL
  <2>3. /\ Acceptable(cfg)
        /\ IsListing(regularCheckers, { n \in Wanted(cfg) : IsRegular(n) }, cfg)
        /\ IsListing(advancedCheckers, { n \in Wanted(cfg) : ~ IsRegular(n) }, cfg)
    BY <1>1, <2>1, <2>2 DEF ResultListsWanted, ErrorsAreJustified, Acceptable, IsListing
  <2>4. /\ Selection!Acceptable(cfg)
        /\ Selection!IsListing(regularCheckers, { n \in Selection!Wanted(cfg) : Selection!IsRegular(n) }, cfg)
        /\ Selection!IsListing(advancedCheckers, { n \in Selection!Wanted(cfg) : ~ Selection!IsRegular(n) }, cfg)
    <3>1. /\ { n \in Selection!Wanted(cfg) : Selection!IsRegular(n) } = { n \in Wanted(cfg) : IsRegular(n) }
          /\ { n \in Selection!Wanted(cfg) : ~ Selection!IsRegular(n) } = { n \in Wanted(cfg) : ~ IsRegular(n) }
      BY SameRules
    <3> QED
      BY <2>3, <3>1, SameRules
  <2> QED
    BY <1>1, <2>1, <2>4 DEF Selection!Next, Selection!Accept, Outcome
<1> QED
  BY <1>2, <1>3, <1>4, <1>5, <1>6
     DEF Next, Validate, SelectEnabled, Visit, Sort, Build, BuildUnknown, Return

(* newCheckers implements its one-step selection, for every registry,      *)
(* configuration and map order.                                            *)
THEOREM FactoryImplementsSelection == Spec => ImplementsSelection
<1>1. Init => Selection!Init
  BY SameRules DEF Init, Locals, Selection!Init, Outcome
<1> QED
  BY <1>1, StepImplements, InductiveInvariant, PTL DEF Spec, ImplementsSelection, Selection!Spec
-----------------------------------------------------------------------------
(* What the flags leave in the lists is registered. *)
NamesKnown == \A n \in cfg.enabled \cup cfg.disabled : IsKnown(n)

(* newCheckers has not begun while flags are parsed. *)
FlagsFirst == parse # "parsed" => Locals

CLInv == IInv /\ FlagsFirst /\ NamesKnown /\ OnlyContradictionsFail

LEMMA DefaultIsConfig == IsConfig(NewDefault)
<1>1. \A n \in Sections : DefaultSection(n) \in SectionValues(n)
  BY SectionsAssumption DEF DefaultSection, SectionValues
<1>2. \A n \in Sections : SectionValues(n) \subseteq Options \cup {Nil}
  BY DEF SectionValues
<1> QED
  BY <1>1, <1>2 DEF IsConfig, NewDefault

LEMMA InitCLInv == CLInit => CLInv
<1> SUFFICES ASSUME CLInit PROVE CLInv
  OBVIOUS
<1>1. Init
  BY DefaultIsConfig DEF CLInit, Init
<1>2. NamesKnown
  BY DEF CLInit, NamesKnown, NewDefault
<1>3. OnlyContradictionsFail
  BY DEF CLInit, Locals, OnlyContradictionsFail
<1> QED
  BY <1>1, <1>2, <1>3, InitIInv DEF CLInit, CLInv, FlagsFirst

(* A flag that is parsed leaves a configuration for newCheckers to start   *)
(* from.                                                                   *)
LEMMA FlagCLInv ==
  ASSUME FlagsFirst, parse = "parsing", UNCHANGED factoryLocals, IsConfig(cfg'), NamesKnown'
  PROVE  CLInv'
<1>1. Locals'
  BY DEF FlagsFirst, Locals, factoryLocals
<1>2. Init'
  BY <1>1 DEF Init
<1>3. IInv'
  <2>1. Init' => IInv'
    BY InitIInv, PTL
  <2> QED
    BY <1>2, <2>1
<1>4. OnlyContradictionsFail'
  BY <1>1 DEF Locals, OnlyContradictionsFail
<1> QED
  BY <1>1, <1>3, <1>4 DEF CLInv, FlagsFirst

LEMMA SettersCLInv ==
  ASSUME CLInv,
         \/ \E b \in BOOLEAN : SetEnableAll(b) \/ SetDisableAll(b)
         \/ \E ns \in SUBSET Names \ {{}} : SetEnable(ns) \/ SetDisable(ns)
         \/ \E n \in Sections, v \in Options \cup {Nil} : SetSection(n, v)
  PROVE  CLInv'
<1>1. IsConfig(cfg) /\ NamesKnown /\ FlagsFirst
  BY DEF CLInv, IInv, TypeOK
<1>2. UNCHANGED factoryLocals /\ parse = "parsing"
  BY DEF SetEnableAll, SetDisableAll, SetEnable, SetDisable, SetSection, ParseFlag
<1>3. IsConfig(cfg') /\ NamesKnown'
  <2>1. CASE cfg' = cfg
    BY <1>1, <2>1 DEF NamesKnown
  <2>2. ASSUME NEW b \in BOOLEAN, SetEnableAll(b) \/ SetDisableAll(b)
        PROVE  IsConfig(cfg') /\ NamesKnown'
    BY <1>1, <2>2 DEF SetEnableAll, SetDisableAll, Accepted, IsConfig, NamesKnown
  <2>3. ASSUME NEW ns \in SUBSET Names \ {{}}, SetEnable(ns) \/ SetDisable(ns), cfg' # cfg
        PROVE  IsConfig(cfg') /\ NamesKnown'
    <3>1. \A n \in ns : IsKnown(n)
      BY <2>3 DEF SetEnable, SetDisable, KnownNames, Rejected
    <3>2. \/ cfg' = [cfg EXCEPT !.enabled = ns]
          \/ cfg' = [cfg EXCEPT !.disabled = ns]
      BY <2>3 DEF SetEnable, SetDisable, Accepted, Rejected
    <3>3. ns \in SUBSET (All \cup {Stranger})
      BY DEF Names
    <3> QED
      BY <1>1, <3>1, <3>2, <3>3 DEF IsConfig, NamesKnown
  <2>4. ASSUME NEW n \in Sections, NEW v \in Options \cup {Nil}, SetSection(n, v), cfg' # cfg
        PROVE  IsConfig(cfg') /\ NamesKnown'
    <3>1. v \in Options /\ cfg' = [cfg EXCEPT !.section[n] = v]
      BY <2>4 DEF SetSection, Accepted, Rejected
    <3>2. v \in SectionValues(n)
      BY <3>1 DEF SectionValues
    <3> QED
      BY <1>1, <3>1, <3>2 DEF IsConfig, NamesKnown
  <2> QED
    BY <2>1, <2>2, <2>3, <2>4
<1> QED
  BY <1>1, <1>2, <1>3, FlagCLInv

LEMMA EndOfFlagsCLInv == CLInv /\ EndOfFlags => CLInv'
<1> SUFFICES ASSUME CLInv, EndOfFlags PROVE CLInv'
  OBVIOUS
<1>1. UNCHANGED vars
  BY DEF EndOfFlags
<1>2. IInv'
  BY <1>1, StutterIInv DEF CLInv
<1> QED
  BY <1>1, <1>2 DEF CLInv, EndOfFlags, FlagsFirst, NamesKnown, OnlyContradictionsFail, vars

(* Wanted names come from the registry or from the flags. *)
LEMMA WantedAreKnown == NamesKnown => \A n \in Wanted(cfg) : IsKnown(n)
BY DEF NamesKnown, Wanted, IsKnown, All, EnabledByDefault

(* Every step of newCheckers keeps the names known, so that no step of it  *)
(* meets an unknown one.                                                   *)
LEMMA FactoryCLInv == CLInv /\ RunFactory => CLInv'
<1> SUFFICES ASSUME CLInv, RunFactory PROVE CLInv'
  OBVIOUS
<1>1. IInv' /\ Next /\ parse = "parsed" /\ parse' = parse
  BY StepIInv DEF CLInv, RunFactory
<1>2. cfg' = cfg
  BY <1>1 DEF Next, Validate, SelectEnabled, Visit, Sort, Build, BuildUnknown, Return
<1>3. NamesKnown' /\ \A n \in Wanted(cfg) : IsKnown(n)
  BY <1>2, WantedAreKnown DEF CLInv, NamesKnown
<1>4. ~ BuildUnknown
  BY DEF BuildUnknown, CLInv, IInv, TypeOK, OnlyContradictionsFail
<1>5. \A i \in 1 .. Len(enabledCheckers') : IsKnown(enabledCheckers'[i])
  <2>1. CASE enabledCheckers' = enabledCheckers
    BY <2>1 DEF CLInv, OnlyContradictionsFail
  <2>2. CASE pc' \in {"range", "build", "done"}
    <3>1. Elements(enabledCheckers)' \subseteq Wanted(cfg)'
      BY <1>1, <2>2 DEF IInv, Ranging, Building
    <3>2. Elements(enabledCheckers)' \subseteq Wanted(cfg)
      BY <1>2, <3>1 DEF Wanted
    <3> QED
      BY <1>3, <3>2 DEF Elements
  <2> QED
    BY <1>1, <2>1, <2>2
       DEF Next, Validate, SelectEnabled, Visit, Sort, Build, BuildUnknown, Return
<1>6. pc' = "error" => Invalid(cfg)
  BY <1>1, <1>4 DEF CLInv, OnlyContradictionsFail,
     Next, Validate, SelectEnabled, Visit, Sort, Build, Return
<1>7. OnlyContradictionsFail'
  BY <1>2, <1>5, <1>6 DEF OnlyContradictionsFail
<1> QED
  BY <1>1, <1>3, <1>7 DEF CLInv, FlagsFirst

LEMMA StutterCLInv == CLInv /\ UNCHANGED clVars => CLInv'
<1> SUFFICES ASSUME CLInv, UNCHANGED clVars PROVE CLInv'
  OBVIOUS
<1>1. UNCHANGED vars /\ parse' = parse
  BY DEF clVars
<1>2. IInv'
  BY <1>1, StutterIInv DEF CLInv
<1> QED
  BY <1>1, <1>2 DEF CLInv, FlagsFirst, Locals, NamesKnown, OnlyContradictionsFail, vars

(* Whatever flags a command line holds, every name that newCheckers builds *)
(* is registered, and only contradictory flags make it fail.               *)
THEOREM FlagsCorrect == CLSpec => []OnlyContradictionsFail
<1>1. CLInv /\ [CLNext]_clVars => CLInv'
  BY SettersCLInv, EndOfFlagsCLInv, FactoryCLInv, StutterCLInv DEF CLNext
<1>2. CLInv => OnlyContradictionsFail
  BY DEF CLInv
<1> QED
  BY <1>1, <1>2, InitCLInv, PTL DEF CLSpec
=============================================================================
