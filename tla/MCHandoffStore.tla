--------------------------- MODULE MCHandoffStore ---------------------------
(* Agents of one project.  They are interchangeable, which all runs use: no  *)
(* liveness is checked here.                                                 *)
EXTENDS HandoffStore, TLC

Symmetry == Permutations(Agent)
=============================================================================
