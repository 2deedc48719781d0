--------------------------- MODULE MCFactoryRunner ---------------------------
(* Host processes sharing one pipeline and one config database.  They are    *)
(* interchangeable, which the safety runs use; the liveness run does not.    *)
EXTENDS FactoryRunner, TLC

Symmetry == Permutations(Proc)
=============================================================================
