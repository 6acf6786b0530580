--------------------------- MODULE MCCommandLine ---------------------------
(* Constants for model checking CommandLine: a table of three rows. *)
EXTENDS CommandLine

MCRegistry ==
  << Row("expected-actual", TRUE, TRUE),
     Row("require-error", FALSE, TRUE), Row("suite-thelper", FALSE, FALSE) >>
MCSections == {"expected-actual", "require-error"}
=============================================================================
