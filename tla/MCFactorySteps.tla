--------------------------- MODULE MCFactorySteps ---------------------------
(* The step machine on its own, for the run that refutes CyclesWithinLimit.     *)
EXTENDS FactorySteps
=============================================================================
