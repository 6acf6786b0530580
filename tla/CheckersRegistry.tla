-------------------------- MODULE CheckersRegistry --------------------------
(***************************************************************************)
(* internal/checkers/checkers_registry.go: the table of checkers in        *)
(* priority order, and the functions that read it.  The table itself is a  *)
(* parameter, so that the selection code can be checked on short tables    *)
(* and proved correct for every one; TestifylintRegistry is the table of   *)
(* the program.                                                            *)
(***************************************************************************)
EXTENDS Naturals, Sequences, FiniteSets, Functions

CONSTANTS
  Registry,      \* the table: a sequence of rows [name, regular, default]
  Stranger       \* a checker name the table does not have

Row(n, r, d) == [name |-> n, regular |-> r, default |-> d]

(* A row says what `factory` makes (its name and whether it implements     *)
(* RegularChecker or AdvancedChecker) and `enabledByDefault`.              *)
TestifylintRegistry ==
  << Row("float-compare", TRUE, TRUE),
     Row("bool-compare", TRUE, TRUE),
     Row("empty", TRUE, TRUE),
     Row("negative-positive", TRUE, TRUE),
     Row("compares", TRUE, TRUE),
     Row("contains", TRUE, TRUE),
     Row("error-nil", TRUE, TRUE),
     Row("nil-compare", TRUE, TRUE),
     Row("error-is-as", TRUE, TRUE),
     Row("encoded-compare", TRUE, TRUE),
     Row("expected-actual", TRUE, TRUE),
     Row("len", TRUE, TRUE),
     Row("equal-values", TRUE, TRUE),
     Row("regexp", TRUE, TRUE),
     Row("suite-extra-assert-call", TRUE, TRUE),
     Row("suite-dont-use-pkg", TRUE, TRUE),
     Row("useless-assert", TRUE, TRUE),
     Row("formatter", TRUE, TRUE),
     Row("blank-import", FALSE, TRUE),
     Row("go-require", FALSE, TRUE),
     Row("require-error", FALSE, TRUE),
     Row("suite-broken-parallel", FALSE, TRUE),
     Row("suite-method-signature", FALSE, TRUE),
     Row("suite-subtest-run", FALSE, TRUE),
     Row("suite-thelper", FALSE, FALSE) >>

Index == 1 .. Len(Registry)

(* `All`, `EnabledByDefault`: the callers only use them as sets. *)
All == { Registry[i].name : i \in Index }
EnabledByDefault == { Registry[i].name : i \in { j \in Index : Registry[j].default } }

(* `registry.get` finds the first row with the name. *)
IsKnown(n) == \E i \in Index : Registry[i].name = n
Position(n) == CHOOSE i \in Index : Registry[i].name = n
IsRegular(n) == Registry[Position(n)].regular

(* The `priority` that `get` returns: the row's index from 0, and also 0   *)
(* for a name that is not in the table.                                    *)
Priority(n) == IF IsKnown(n) THEN Position(n) - 1 ELSE 0

Ordered(t) == \A i, j \in 1 .. Len(t) : i < j => Priority(t[i]) <= Priority(t[j])
Rearranged(s, p) == [i \in 1 .. Len(s) |-> s[p[i]]]

(* Fault: the slice keeps the order of the map. *)
UnsortedSlices(s) == {s}

(* What SortByPriority may leave in the slice: sort.Slice is not stable    *)
(* and promises only a permutation in non-descending order.                *)
Sortings(s) ==
  { t \in { Rearranged(s, p) : p \in Bijection(1 .. Len(s), 1 .. Len(s)) } : Ordered(t) }

ASSUME RegistryAssumption ==
  /\ Registry \in Seq([name : STRING, regular : BOOLEAN, default : BOOLEAN])
  /\ \A i, j \in Index : Registry[i].name = Registry[j].name => i = j
  /\ Stranger \notin All
=============================================================================
