---------------------------- MODULE FactorySteps ----------------------------
(***************************************************************************)
(* The step machine of one pipeline: SafetyController.getNextStep and the  *)
(* part of runnerTick that turns a step result into the next position or   *)
(* into a final status (src/src/darkfactory/safetyController.ts,           *)
(* src/src/darkfactory/runner.ts).                                         *)
(*                                                                         *)
(* One action is one tick that keeps its lease to the end; ticks that lose *)
(* it, and the races around the row, are the subject of FactoryRunner.     *)
(* The model's answers (did the agent succeed, is the plan viable, did the *)
(* tests pass, what did the harness decide) are free inputs.               *)
(***************************************************************************)
EXTENDS Naturals, PipelineStatus

CONSTANTS
  MaxIterations,   \* spec.maxIterations
  MaxRevisions     \* spec.maxRevisions ?? DEFAULT_MAX_REVISIONS

ASSUME LimitsAssumption == MaxIterations \in Nat /\ MaxRevisions \in Nat \ {0}

VARIABLES
  status,      \* PipelineStatus of the row
  at,          \* where the pipeline is: current_step, iteration, eval_revisions
  testCommand, \* whether the spec names a test command
  workspace,   \* history: what is known of the files since the last EXECUTE
  plans        \* history: how many times the PLAN step was run

stepsVars == <<status, at, testCommand, workspace, plans>>

Step == {"INIT", "PLAN", "PLAN_CONTRACT", "EXECUTE", "EVALUATE", "VERIFY", "FINALIZE"}

Position == [step           : Step,
             iteration      : 0 .. MaxIterations,
             eval_revisions : 0 .. MaxRevisions - 1]

\* Where a next step is looked for: one past each limit, so that it is the
\* guards of getNextStep that keep the limits.
Candidate == [step           : Step,
              iteration      : 0 .. MaxIterations + 1,
              eval_revisions : 0 .. MaxRevisions]

Start == [step |-> "INIT", iteration |-> 0, eval_revisions |-> 0]

StepsTypeOK ==
  /\ status \in Status
  /\ at \in Position
  /\ testCommand \in BOOLEAN
  /\ workspace \in {"untouched", "changed", "accepted", "verified"}
  /\ plans \in Nat

StepsInit ==
  /\ status = "PENDING"
  /\ at = Start
  /\ testCommand \in BOOLEAN
  /\ workspace = "untouched"
  /\ plans = 0

-----------------------------------------------------------------------------
\* Steps that hand over to the next one whether or not they succeeded.
Straight == [INIT          |-> "PLAN",
             PLAN          |-> "PLAN_CONTRACT",
             PLAN_CONTRACT |-> "EXECUTE",
             EXECUTE       |-> "EVALUATE"]

\* Mutant: the limit is tested before the iteration is incremented.
AnyIteration(iteration) == iteration <= MaxIterations + 1

ValidateIterationLimit(iteration) == iteration <= MaxIterations

\* A failed VERIFY, and a failed EVALUATE whose plan is not viable, go back to
\* PLAN in the next iteration.
Replans(p, passed, viable) ==
  ~passed /\ (p.step = "VERIFY" \/ (p.step = "EVALUATE" /\ ~viable))

\* Mutant: a failed evaluation of a viable plan does not count a revision.
FollowsWithoutRevision(p, passed, viable, q) ==
  \/ p.step \in DOMAIN Straight /\ q = [p EXCEPT !.step = Straight[p.step]]
  \/ p.step = "EVALUATE" /\ passed /\ q = [p EXCEPT !.step = "VERIFY", !.eval_revisions = 0]
  \/ p.step = "EVALUATE" /\ ~passed /\ viable /\ q = [p EXCEPT !.step = "EXECUTE"]
  \/ p.step = "VERIFY" /\ passed /\ q = [p EXCEPT !.step = "FINALIZE"]

\* Mutant: exhausted revisions go on to VERIFY.
FollowsUnaccepted(p, passed, viable, q) ==
  \/ p.step \in DOMAIN Straight /\ q = [p EXCEPT !.step = Straight[p.step]]
  \/ p.step = "EVALUATE" /\ q = [p EXCEPT !.step = "VERIFY", !.eval_revisions = 0]
  \/ p.step = "VERIFY" /\ passed /\ q = [p EXCEPT !.step = "FINALIZE"]

\* getNextStep: q is the position after p.  No q follows where the code
\* returns null: the limits are reached, or the step was FINALIZE.
Follows(p, passed, viable, q) ==
  \/ /\ p.step \in DOMAIN Straight
     /\ q = [p EXCEPT !.step = Straight[p.step]]
  \/ /\ p.step = "EVALUATE" /\ passed
     /\ q = [p EXCEPT !.step = "VERIFY", !.eval_revisions = 0]
  \/ /\ p.step = "EVALUATE" /\ ~passed /\ viable
     /\ p.eval_revisions + 1 < MaxRevisions
     /\ q = [p EXCEPT !.step = "EXECUTE", !.eval_revisions = @ + 1]
  \/ /\ Replans(p, passed, viable)
     /\ ValidateIterationLimit(p.iteration + 1)
     /\ q = [step |-> "PLAN", iteration |-> p.iteration + 1, eval_revisions |-> 0]
  \/ /\ p.step = "VERIFY" /\ passed
     /\ q = [p EXCEPT !.step = "FINALIZE"]

Ends(p, passed, viable) == ~ \E q \in Candidate : Follows(p, passed, viable, q)

-----------------------------------------------------------------------------
\* What the verification harness may decide; "none" when there is no harness
\* file.  "crash" is a suite that throws anything but a gate error.
HarnessOutcome == {"none", "passed", "below_rate", "block", "abort", "crash"}

\* Mutant: the harness verdict replaces the verdict of the test command.
VerifyPassedByHarness(tests, harness) ==
  harness = "passed" \/ (harness = "none" /\ testCommand /\ tests)

\* VERIFY passes only if the spec has a test command, it passes, and a harness
\* that is present lets it through.
VerifyPassed(tests, harness) ==
  /\ testCommand /\ tests
  /\ harness \in {"none", "passed"}

\* What a step leaves known about the workspace.
WorkspaceAfter(passed) ==
  IF at.step = "EXECUTE" THEN "changed"
  ELSE IF at.step = "EVALUATE" /\ passed THEN "accepted"
  ELSE IF at.step = "VERIFY" /\ passed THEN "verified"
  ELSE workspace

CountPlan == plans' = IF at.step = "PLAN" THEN plans + 1 ELSE plans

\* The queue pickup: PENDING becomes RUNNING, at the position it had.
Promote ==
  /\ status = "PENDING"
  /\ status' = "RUNNING"
  /\ UNCHANGED <<at, testCommand, workspace, plans>>

\* The end of the tick: advance, or store the final status at FINALIZE.
Advance(passed, viable) ==
  \/ /\ at.step # "FINALIZE"
     /\ \E q \in Candidate : Follows(at, passed, viable, q) /\ at' = q
     /\ UNCHANGED status
  \/ /\ at.step = "FINALIZE" \/ Ends(at, passed, viable)
     /\ at' = [at EXCEPT !.step = "FINALIZE"]
     /\ status' = IF passed THEN "COMPLETED" ELSE "FAILED"

\* A tick of an agent step: any answer, and any judgement of the plan.
RunAgentStep ==
  /\ status = "RUNNING" /\ at.step # "VERIFY"
  /\ ValidateIterationLimit(at.iteration)
  /\ \E passed, viable \in BOOLEAN :
       /\ Advance(passed, viable)
       /\ workspace' = WorkspaceAfter(passed)
  /\ CountPlan
  /\ UNCHANGED testCommand

\* A tick of VERIFY: the agent's own answer is overruled by the test command
\* and the harness; a harness that aborts fails the pipeline on the spot.
RunVerifyStep ==
  /\ status = "RUNNING" /\ at.step = "VERIFY"
  /\ ValidateIterationLimit(at.iteration)
  /\ \E tests \in BOOLEAN, harness \in HarnessOutcome :
       \/ /\ harness = "abort"
          /\ status' = "FAILED"
          /\ UNCHANGED <<at, workspace>>
       \/ /\ harness # "abort"
          /\ Advance(VerifyPassed(tests, harness), FALSE)
          /\ workspace' = WorkspaceAfter(VerifyPassed(tests, harness))
  /\ UNCHANGED <<testCommand, plans>>

\* The tick stores FAILED at once: invalid spec, runtime exceeded, iteration
\* limit, unusable working directory, scope violation of an EXECUTE, contract
\* file that cannot be written.  Recovery and the zombie sweep do the same.
StopFailed ==
  /\ status = "RUNNING"
  /\ status' = "FAILED"
  /\ UNCHANGED <<at, testCommand, workspace, plans>>

\* session_abort_pipeline and the dashboard's kill switch.
Abort ==
  /\ status \notin Finished
  /\ status' = "ABORTED"
  /\ UNCHANGED <<at, testCommand, workspace, plans>>

StepsNext == Promote \/ RunAgentStep \/ RunVerifyStep \/ StopFailed \/ Abort

StepsSpec == StepsInit /\ [][StepsNext]_stepsVars

-----------------------------------------------------------------------------
\* EXECUTE and EVALUATE alternate inside one phase, told apart by the revision.
Phase == [INIT |-> 0, PLAN |-> 1, PLAN_CONTRACT |-> 2,
          EXECUTE |-> 3, EVALUATE |-> 3, VERIFY |-> 4, FINALIZE |-> 5]

\* p comes before q in every run.
Precedes(p, q) ==
  \/ p.iteration < q.iteration
  \/ /\ p.iteration = q.iteration
     /\ \/ Phase[p.step] < Phase[q.step]
        \/ /\ Phase[p.step] = 3 /\ Phase[q.step] = 3
           /\ \/ p.eval_revisions < q.eval_revisions
              \/ /\ p.eval_revisions = q.eval_revisions
                 /\ p.step = "EXECUTE" /\ q.step = "EVALUATE"

\* No position is ever taken twice: the runner tells "still my step" from
\* "advanced concurrently" by comparing step, iteration and revision, which is
\* sound only because the machine moves strictly forward in this order.
PositionsNeverRepeat == [][at' # at => Precedes(at, at')]_stepsVars

\* A pipeline reported COMPLETED has passed its test command and its harness
\* on the files of its last EXECUTE: nothing was executed after the passing
\* VERIFY, and a spec without a test command never completes.
CompletedIsVerified == status = "COMPLETED" => workspace = "verified" /\ testCommand

\* VERIFY and FINALIZE are only reached with work the evaluator accepted in
\* this iteration.
VerifyOnlyAccepted ==
  /\ at.step = "VERIFY" /\ status = "RUNNING" => workspace = "accepted"
  /\ at.step = "FINALIZE" /\ status = "RUNNING" => workspace = "verified"

\* However the model answers, a pipeline that was picked up ends.
Terminates == status = "RUNNING" ~> status \in Finished

\* "executes a PLAN -> EXECUTE -> VERIFY cycle up to `max_iterations` times"
\* (src/src/tools/pipelineDefinitions.ts:9).  Iterations are numbered from 0
\* and the limit is inclusive, so the code runs one cycle more.
CyclesWithinLimit == plans <= MaxIterations
=============================================================================
