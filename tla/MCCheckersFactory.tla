------------------------- MODULE MCCheckersFactory -------------------------
(* Constants for model checking CheckersFactory: four rows of the table    *)
(* with all the kinds of row (regular or advanced, default or not, without *)
(* a section, with one, with one whose pattern may be nil), and one name   *)
(* the table does not have.                                                *)
EXTENDS CheckersFactory

MCRegistry ==
  << Row("float-compare", TRUE, TRUE), Row("expected-actual", TRUE, TRUE),
     Row("require-error", FALSE, TRUE), Row("suite-thelper", FALSE, FALSE) >>
MCSections == {"expected-actual", "suite-thelper"}
MCPatternSections == {"expected-actual"}
=============================================================================
