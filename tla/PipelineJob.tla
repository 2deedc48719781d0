----------------------------- MODULE PipelineJob -----------------------------
(***************************************************************************)
(* What whoever submits a pipeline may rely on, however many windows work  *)
(* on it, stall and die: it is promoted once, its positions are reached    *)
(* one after the other, a failure records no position that was not         *)
(* reached, except the last, and what is finished stays as it is.          *)
(***************************************************************************)
EXTENDS Naturals, PipelineStatus

CONSTANT LastPos     \* position of the final step

VARIABLES
  status,
  pos       \* how many positions the pipeline has been advanced

Init == status = "PENDING" /\ pos = 0

Promote  == status = "PENDING" /\ status' = "RUNNING" /\ pos' = pos

Advance  == status = "RUNNING" /\ status' = status /\ pos < LastPos /\ pos' = pos + 1

Complete == status = "RUNNING" /\ status' = "COMPLETED" /\ pos' = LastPos

Fail     == status = "RUNNING" /\ status' = "FAILED" /\ pos' \in 0 .. pos \cup {LastPos}

Abort    == status \notin Finished /\ status' = "ABORTED" /\ pos' = pos

Next == Promote \/ Advance \/ Complete \/ Fail \/ Abort

Spec == Init /\ [][Next]_<<status, pos>>
=============================================================================
