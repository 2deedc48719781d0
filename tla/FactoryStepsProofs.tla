-------------------------- MODULE FactoryStepsProofs --------------------------
(***************************************************************************)
(* Proofs about the step machine for any limits.  The two history facts    *)
(* that CompletedIsVerified needs besides VerifyOnlyAccepted: a pipeline   *)
(* that waits has not started, and verified files passed a test command.   *)
(***************************************************************************)
EXTENDS FactorySteps, TLAPS

Waiting == status = "PENDING" => at = Start
Tested  == workspace = "verified" => testCommand

IInv == StepsTypeOK /\ Waiting /\ Tested /\ VerifyOnlyAccepted /\ CompletedIsVerified

-----------------------------------------------------------------------------
\* A position with another step and revision is a position.
LEMMA Moved ==
  ASSUME NEW p \in Position, NEW s \in Step, NEW n \in 0 .. MaxRevisions - 1
  PROVE  LET q == [p EXCEPT !.step = s, !.eval_revisions = n] IN
         /\ q \in Position /\ q \in Candidate
         /\ q.step = s /\ q.iteration = p.iteration /\ q.eval_revisions = n
<1>1. n \in 0 .. MaxRevisions /\ p.iteration \in 0 .. MaxIterations + 1
  BY LimitsAssumption DEF Position
<1> QED BY <1>1 DEF Position, Candidate

\* The next position stays within the limits and is ahead of the last one.
LEMMA FollowsForward ==
  ASSUME NEW p \in Position, NEW passed \in BOOLEAN, NEW viable \in BOOLEAN,
         NEW q \in Candidate, Follows(p, passed, viable, q)
  PROVE  /\ q \in Position
         /\ Precedes(p, q)
         /\ q.step = "VERIFY" => p.step = "EVALUATE" /\ passed
         /\ q.step = "FINALIZE" => p.step = "VERIFY" /\ passed
<1> USE LimitsAssumption DEF Position
<1>1. CASE p.step \in DOMAIN Straight /\ q = [p EXCEPT !.step = Straight[p.step]]
  <2>1. /\ q.iteration = p.iteration /\ q.eval_revisions = p.eval_revisions
        /\ q.step = Straight[p.step]
        /\ p.step \in {"INIT", "PLAN", "PLAN_CONTRACT", "EXECUTE"}
    BY <1>1 DEF Straight
  <2>2. q.step \in Step \ {"VERIFY", "FINALIZE"}
    BY <2>1 DEF Straight, Step
  <2>3. q \in Position
    BY <1>1, <2>2
  <2>4. Precedes(p, q)
    BY <2>1 DEF Precedes, Phase, Straight
  <2> QED BY <2>2, <2>3, <2>4
<1>2. CASE p.step = "EVALUATE" /\ passed /\ q = [p EXCEPT !.step = "VERIFY", !.eval_revisions = 0]
  <2>1. "VERIFY" \in Step /\ 0 \in 0 .. MaxRevisions - 1
    BY DEF Step
  <2>2. q \in Position /\ q.iteration = p.iteration /\ q.step = "VERIFY"
    <3> DEFINE r == [p EXCEPT !.step = "VERIFY", !.eval_revisions = 0]
    <3>1. r.iteration = p.iteration /\ r.step = "VERIFY"
      OBVIOUS
    <3>2. r \in Position
      <4>1. \A s \in Step, n \in 0 .. MaxRevisions - 1 :
              [p EXCEPT !.step = s, !.eval_revisions = n] \in Position
        BY Moved
      <4> HIDE DEF Position
      <4> QED BY <2>1, <4>1
    <3> QED BY <1>2, <3>1, <3>2
  <2>3. Precedes(p, q)
    BY <1>2, <2>2 DEF Precedes, Phase
  <2> QED BY <1>2, <2>2, <2>3
<1>3. CASE /\ p.step = "EVALUATE" /\ ~passed /\ viable
           /\ p.eval_revisions + 1 < MaxRevisions
           /\ q = [p EXCEPT !.step = "EXECUTE", !.eval_revisions = @ + 1]
  <2>1. /\ q.iteration = p.iteration /\ q.step = "EXECUTE"
        /\ q.eval_revisions = p.eval_revisions + 1
        /\ p.eval_revisions \in Nat
    BY <1>3
  <2>2. q \in Position
    <3>1. p.eval_revisions + 1 \in 0 .. MaxRevisions - 1 /\ "EXECUTE" \in Step
      BY <1>3, <2>1 DEF Step
    <3> HIDE DEF Position
    <3> QED BY <1>3, <3>1, Moved
  <2>3. Precedes(p, q)
    BY <1>3, <2>1 DEF Precedes, Phase
  <2> QED BY <2>1, <2>2, <2>3
<1>4. CASE /\ ValidateIterationLimit(p.iteration + 1)
           /\ q = [step |-> "PLAN", iteration |-> p.iteration + 1, eval_revisions |-> 0]
  <2>1. p.iteration \in Nat /\ p.iteration + 1 \in 0 .. MaxIterations
    BY <1>4 DEF ValidateIterationLimit
  <2>2. q \in Position
    BY <1>4, <2>1 DEF Step
  <2> QED BY <1>4, <2>1, <2>2 DEF Precedes
<1>5. CASE p.step = "VERIFY" /\ passed /\ q = [p EXCEPT !.step = "FINALIZE"]
  <2>1. q.iteration = p.iteration /\ q.step = "FINALIZE"
    BY <1>5
  <2>2. q \in Position
    BY <1>5 DEF Step
  <2> QED BY <1>5, <2>1, <2>2 DEF Precedes, Phase
<1> QED BY <1>1, <1>2, <1>3, <1>4, <1>5 DEF Follows

\* A tick that ends in Advance keeps the invariant and moves forward or stops
\* at FINALIZE; it completes the pipeline only at a passing FINALIZE.
LEMMA AdvanceKeeps ==
  ASSUME IInv, status = "RUNNING", NEW passed \in BOOLEAN, NEW viable \in BOOLEAN,
         Advance(passed, viable), workspace' = WorkspaceAfter(passed),
         passed /\ at.step = "VERIFY" => testCommand,
         testCommand' = testCommand, plans' \in Nat
  PROVE  IInv' /\ (at' # at => Precedes(at, at'))
<1>1. at \in Position /\ at.step \in Step
  BY DEF IInv, StepsTypeOK, Position
<1>2. workspace' \in {"untouched", "changed", "accepted", "verified"}
  BY DEF WorkspaceAfter, IInv, StepsTypeOK
<1>3. Tested'
  BY DEF WorkspaceAfter, IInv, Tested
<1>4. CASE \E q \in Candidate : Follows(at, passed, viable, q) /\ at' = q /\ UNCHANGED status
  <2>1. /\ at' \in Position /\ Precedes(at, at') /\ status' = "RUNNING"
        /\ at'.step = "VERIFY" => at.step = "EVALUATE" /\ passed
        /\ at'.step = "FINALIZE" => at.step = "VERIFY" /\ passed
    BY <1>1, <1>4, FollowsForward
  <2>2. VerifyOnlyAccepted'
    BY <2>1 DEF WorkspaceAfter, VerifyOnlyAccepted
  <2>3. Waiting' /\ CompletedIsVerified'
    BY <2>1 DEF Waiting, CompletedIsVerified
  <2>4. StepsTypeOK'
    BY <1>2, <2>1 DEF IInv, StepsTypeOK
  <2> QED BY <1>3, <2>1, <2>2, <2>3, <2>4 DEF IInv
<1>5. CASE /\ at.step = "FINALIZE" \/ Ends(at, passed, viable)
           /\ at' = [at EXCEPT !.step = "FINALIZE"]
           /\ status' = IF passed THEN "COMPLETED" ELSE "FAILED"
  <2>1. /\ at' \in Position /\ at'.step = "FINALIZE" /\ at'.iteration = at.iteration
        /\ at.step = "FINALIZE" => at' = at
    BY <1>1, <1>5 DEF Position, Step
  <2>2. at' # at => Precedes(at, at')
    <3>1. SUFFICES ASSUME at.step # "FINALIZE" PROVE Precedes(at, at')
      BY <2>1
    <3>2. Phase[at.step] < 5
      BY <1>1, <3>1 DEF Phase, Step
    <3> QED BY <2>1, <3>2 DEF Precedes, Phase
  <2>3. passed => at.step = "FINALIZE"
    <3>1. SUFFICES ASSUME passed, at.step # "FINALIZE", Ends(at, passed, viable) PROVE FALSE
      BY <1>5
    <3>2. at.iteration \in 0 .. MaxIterations + 1 /\ at.eval_revisions \in 0 .. MaxRevisions
      BY <1>1, LimitsAssumption DEF Position
    <3>3. CASE at.step \in {"INIT", "PLAN", "PLAN_CONTRACT", "EXECUTE"}
      <4> DEFINE q == [at EXCEPT !.step = Straight[at.step]]
      <4>1. Straight[at.step] \in Step /\ at.step \in DOMAIN Straight
        BY <3>3 DEF Straight, Step
      <4>2. q \in Candidate
        BY <1>1, <3>2, <4>1, LimitsAssumption DEF Candidate, Position
      <4>3. Follows(at, passed, viable, q)
        BY <4>1 DEF Follows
      <4>4. q \in Position
        BY <1>1, <4>1 DEF Position
      <4> QED BY <3>1, <4>2, <4>3, <4>4 DEF Ends
    <3>4. CASE at.step = "EVALUATE"
      <4> DEFINE q == [at EXCEPT !.step = "VERIFY", !.eval_revisions = 0]
      <4>0. "VERIFY" \in Step /\ 0 \in 0 .. MaxRevisions - 1
        BY LimitsAssumption DEF Step
      <4>1. q \in Candidate /\ q \in Position
        BY <1>1, <4>0, Moved
      <4>2. Follows(at, passed, viable, q)
        BY <3>1, <3>4 DEF Follows
      <4> QED BY <3>1, <4>1, <4>2 DEF Ends
    <3>5. CASE at.step = "VERIFY"
      <4> DEFINE q == [at EXCEPT !.step = "FINALIZE"]
      <4>1. q \in Candidate /\ q \in Position
        BY <1>1, <3>2, LimitsAssumption DEF Candidate, Position, Step
      <4>2. Follows(at, passed, viable, q)
        BY <3>1, <3>5 DEF Follows
      <4> QED BY <3>1, <4>1, <4>2 DEF Ends
    <3> QED BY <1>1, <3>1, <3>3, <3>4, <3>5 DEF Step
  <2>4. CompletedIsVerified'
    BY <1>5, <2>3 DEF IInv, VerifyOnlyAccepted, WorkspaceAfter, CompletedIsVerified, Tested
  <2>5. Waiting' /\ VerifyOnlyAccepted'
    BY <1>5 DEF Waiting, VerifyOnlyAccepted
  <2>6. StepsTypeOK'
    BY <1>2, <1>5, <2>1 DEF IInv, StepsTypeOK, Status
  <2> QED BY <1>3, <2>2, <2>4, <2>5, <2>6 DEF IInv
<1> QED BY <1>4, <1>5 DEF Advance

\* The invariant is inductive, and no step goes back.
LEMMA StepForward == IInv /\ [StepsNext]_stepsVars => IInv' /\ (at' # at => Precedes(at, at'))
<1> SUFFICES ASSUME IInv, [StepsNext]_stepsVars PROVE IInv' /\ (at' # at => Precedes(at, at'))
  OBVIOUS
<1> USE DEF IInv
<1>1. CASE Promote
  BY <1>1 DEF Promote, StepsTypeOK, Status, Waiting, Start, Tested, VerifyOnlyAccepted, CompletedIsVerified
<1>2. CASE RunAgentStep
  <2>1. PICK passed \in BOOLEAN, viable \in BOOLEAN :
          Advance(passed, viable) /\ workspace' = WorkspaceAfter(passed)
    BY <1>2 DEF RunAgentStep
  <2>2. plans' \in Nat /\ testCommand' = testCommand /\ status = "RUNNING" /\ at.step # "VERIFY"
    BY <1>2 DEF RunAgentStep, CountPlan, StepsTypeOK
  <2> QED BY <2>1, <2>2, AdvanceKeeps
<1>3. CASE RunVerifyStep
  <2>1. PICK tests \in BOOLEAN, harness \in HarnessOutcome :
          \/ status' = "FAILED" /\ UNCHANGED <<at, workspace>>
          \/ /\ Advance(VerifyPassed(tests, harness), FALSE)
             /\ workspace' = WorkspaceAfter(VerifyPassed(tests, harness))
    BY <1>3 DEF RunVerifyStep
  <2>2. plans' \in Nat /\ testCommand' = testCommand /\ status = "RUNNING"
    BY <1>3 DEF RunVerifyStep, StepsTypeOK
  <2>3. CASE status' = "FAILED" /\ UNCHANGED <<at, workspace>>
    BY <2>2, <2>3 DEF StepsTypeOK, Status, Waiting, Tested, VerifyOnlyAccepted, CompletedIsVerified
  <2>4. VerifyPassed(tests, harness) \in BOOLEAN /\ (VerifyPassed(tests, harness) => testCommand)
    BY DEF VerifyPassed, StepsTypeOK
  <2> QED BY <2>1, <2>2, <2>3, <2>4, AdvanceKeeps
<1>4. CASE StopFailed
  BY <1>4 DEF StopFailed, StepsTypeOK, Status, Waiting, Tested, VerifyOnlyAccepted, CompletedIsVerified
<1>5. CASE Abort
  BY <1>5 DEF Abort, StepsTypeOK, Status, Waiting, Tested, VerifyOnlyAccepted, CompletedIsVerified
<1>6. CASE UNCHANGED stepsVars
  BY <1>6 DEF stepsVars, StepsTypeOK, Waiting, Tested, VerifyOnlyAccepted, CompletedIsVerified
<1> QED BY <1>1, <1>2, <1>3, <1>4, <1>5, <1>6 DEF StepsNext

\* The invariant holds at the start.
LEMMA InitInv == StepsInit => IInv
BY LimitsAssumption
   DEF StepsInit, IInv, StepsTypeOK, Status, Start, Position, Step, Waiting, Tested, VerifyOnlyAccepted, CompletedIsVerified

-----------------------------------------------------------------------------
\* The invariant holds in every reachable state.
THEOREM InvariantHolds == StepsSpec => []IInv
<1>1. IInv /\ [StepsNext]_stepsVars => IInv'
  BY StepForward
<1> QED BY <1>1, InitInv, PTL DEF StepsSpec

\* The position never leaves its limits, whatever the limits are.
THEOREM TypeCorrect == StepsSpec => []StepsTypeOK
<1>1. IInv => StepsTypeOK
  BY DEF IInv
<1> QED BY <1>1, InvariantHolds, PTL

\* VERIFY is only reached with work accepted in this iteration, FINALIZE only
\* with work that passed VERIFY.
THEOREM OnlyAcceptedWorkIsVerified == StepsSpec => []VerifyOnlyAccepted
<1>1. IInv => VerifyOnlyAccepted
  BY DEF IInv
<1> QED BY <1>1, InvariantHolds, PTL

\* A completed pipeline passed its test command after its last EXECUTE.
THEOREM CompletionIsVerified == StepsSpec => []CompletedIsVerified
<1>1. IInv => CompletedIsVerified
  BY DEF IInv
<1> QED BY <1>1, InvariantHolds, PTL

\* Step, iteration and revision only move forward, so that a runner which
\* compares the three knows its own step from any other.
THEOREM PositionsMoveForward == StepsSpec => PositionsNeverRepeat
<1>1. IInv /\ [StepsNext]_stepsVars => [at' # at => Precedes(at, at')]_stepsVars
  BY StepForward
<1> QED BY <1>1, InvariantHolds, PTL DEF StepsSpec, PositionsNeverRepeat
=============================================================================
