------------------------------ MODULE MCFactory ------------------------------
(* Three parts of the factory that share no state as they are modelled: a     *)
(* behaviour follows the one that `subject` names, the others stand still.    *)
EXTENDS PipelineStore, FactorySteps, FactoryPoll

VARIABLE subject

MCClock == {0, 2}

vars == <<subject, storeVars, stepsVars, pollVars>>

\* What is fixed from the start varies only in behaviours of the part it belongs to.
Init ==
  /\ subject \in {"store", "steps", "poll"}
  /\ StoreInit /\ StepsInit /\ PollInit
  /\ subject # "store" => backend = "sqlite"
  /\ subject # "steps" => testCommand

Next ==
  /\ UNCHANGED subject
  /\ \/ subject = "store" /\ StoreNext /\ UNCHANGED <<stepsVars, pollVars>>
     \/ subject = "steps" /\ StepsNext /\ UNCHANGED <<storeVars, pollVars>>
     \/ subject = "poll"  /\ PollNext  /\ UNCHANGED <<storeVars, stepsVars>>

Of(name, A) == subject = name /\ A

\* Fairness.  A pipeline that runs gets its next tick; that one is picked up, fails
\* or is aborted is never owed.  The clock and the timers of the host windows keep
\* running and every call of a tick returns; nobody owes a submission its wake.
\* Nothing is owed by a save.
Spec ==
  /\ Init /\ [][Next]_vars
  /\ WF_stepsVars(Of("steps", RunAgentStep)) /\ WF_stepsVars(Of("steps", RunVerifyStep))
  /\ WF_pollVars(Of("poll", Time))
  /\ \A p \in Proc : WF_pollVars(Of("poll", PollStep(p)))
=============================================================================
