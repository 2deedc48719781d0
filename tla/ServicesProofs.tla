---------------------------- MODULE ServicesProofs ----------------------------
(***************************************************************************)
(* Proofs about the components beside the factory, for any constants: the  *)
(* verification suite, the lock of the maintenance sweep and the           *)
(* compaction it shares the ledger with, the devices a machine trusts, and *)
(* the watchdog's registry.  The components share no state; each part      *)
(* reads on its own.                                                       *)
(***************************************************************************)
EXTENDS VerificationSuite, SweepLock, DeviceTrust, HivemindWatchdog, LedgerCompaction,
        FiniteSetTheorems, TLAPS

-----------------------------------------------------------------------------
(* VerificationSuite: what runs.                                           *)

\* Exactly what is waiting or running has no result.
ResultsAreKept ==
  /\ pending \cap running = {}
  /\ \A t \in Test : outcome[t] = "none" <=> t \in pending \cup running

\* Nothing starts before the results known beforehand are taken out.
PreparedFirst == Prepared \/ (pending = Test /\ running = {})

\* What runs or ran was not precomputed, and what it depends on had passed.
RanRightly ==
  \A t \in Test : t \in running \/ outcome[t] \in {"passed", "failed"} =>
    /\ t \notin Precomputed
    /\ \/ suite[t].dep = "no"
       \/ suite[t].dep \in Test /\ outcome[suite[t].dep] = "passed"

\* What was skipped was precomputed, or what it depends on did not pass.
SkippedRightly ==
  \A t \in Test : outcome[t] = "skipped" =>
    \/ t \in Precomputed
    \/ suite[t].dep \in Test /\ outcome[suite[t].dep] \in {"failed", "skipped"}

SuiteIInv == SuiteTypeOK /\ ResultsAreKept /\ PreparedFirst /\ RanRightly /\ SkippedRightly

\* The visited assertions follow the edges, and every set that does has them.
LEMMA VisitedIsLeast ==
  /\ FollowsEdges(Visited)
  /\ \A S \in SUBSET Test : FollowsEdges(S) => Visited \subseteq S
<1>1. \A S \in SUBSET Test : FollowsEdges(S) => Visited \subseteq S
  BY DEF Visited
<1>2. ASSUME NEW t \in Test, suite[t].dep \in {"no", "missing"} \/ suite[t].dep \in Visited
      PROVE  t \in Visited
  <2>1. ASSUME NEW S \in SUBSET Test, FollowsEdges(S) PROVE t \in S
    BY <1>1, <1>2, <2>1 DEF FollowsEdges
  <2>2. QED
    BY <2>1 DEF Visited
<1>3. QED
  BY <1>1, <1>2 DEF FollowsEdges

\* The suite does not change, and so neither does what is precomputed.
LEMMA PrecomputedStays == suite' = suite => Precomputed' = Precomputed
<1> SUFFICES ASSUME suite' = suite PROVE Precomputed' = Precomputed
  OBVIOUS
<1>1. Visited' = Visited
  BY DEF Visited, FollowsEdges
<1>2. QED
  BY <1>1 DEF Precomputed

\* While assertions wait and none runs, one of them is ready: behind every
\* waiting one is another or something with a result, and no cycle is waiting.
LEMMA SomeReady ==
  ASSUME SuiteTypeOK, ResultsAreKept, Prepared, running = {}, pending # {}
  PROVE  Ready # {}
<1> SUFFICES ASSUME Ready = {} PROVE FALSE
  OBVIOUS
<1>1. FollowsEdges(Test \ pending)
  <2>1. ASSUME NEW t \in Test, t \in pending,
               suite[t].dep \in {"no", "missing"} \/ suite[t].dep \in Test \ pending
        PROVE  FALSE
    <3>1. suite[t].dep # "no"
      BY <2>1 DEF Ready
    <3>2. suite[t].dep # "missing"
      BY <2>1 DEF Prepared, Precomputed
    <3>3. suite[t].dep \in Test \ pending
      BY <2>1, <3>1, <3>2
    <3>4. outcome[suite[t].dep] # "none"
      BY <3>3 DEF ResultsAreKept
    <3>5. QED
      BY <2>1, <3>4 DEF Ready
  <2>2. QED
    BY <2>1 DEF FollowsEdges
<1>2. Visited \cap pending = {}
  BY <1>1, VisitedIsLeast
<1>3. PICK t \in pending : TRUE
  OBVIOUS
<1>4. t \in Test /\ t \in Precomputed
  BY <1>2, <1>3 DEF Precomputed, SuiteTypeOK
<1>5. QED
  BY <1>3, <1>4 DEF Prepared

\* A round runs what it may, skips what it takes and does not run, and takes
\* nothing that is not ready.
LEMMA RoundTakesReady ==
  ASSUME SuiteIInv, StartRound
  PROVE  /\ Prepared /\ running = {} /\ suite' = suite
         /\ running' = {t \in Ready : Allowed(t)}
         /\ outcome' = [t \in Test |-> IF t \in Ready \ running' THEN "skipped" ELSE outcome[t]]
         /\ pending' = pending \ Ready
         /\ Ready \subseteq pending
<1>1. Ready # {}
  BY SomeReady DEF SuiteIInv, StartRound
<1>2. QED
  BY <1>1 DEF StartRound, Ready

\* What is ready and waits on something waits on a result.
LEMMA ReadyHasResult ==
  ASSUME SuiteIInv, Prepared, NEW t \in Ready, suite[t].dep # "no"
  PROVE  /\ suite[t].dep \in Test /\ suite[t].dep \notin pending
         /\ outcome[suite[t].dep] \in {"passed", "failed", "skipped"}
<1>1. t \in Test /\ t \in pending /\ outcome[suite[t].dep] # "none"
  BY DEF Ready, SuiteIInv, SuiteTypeOK
<1>2. suite[t].dep \in Test \cup {"missing"}
  BY <1>1 DEF SuiteIInv, SuiteTypeOK
<1>3. suite[t].dep # "missing"
  BY <1>1 DEF Prepared, Precomputed
<1>4. QED
  BY <1>1, <1>2, <1>3 DEF SuiteIInv, SuiteTypeOK, ResultsAreKept

\* prepareAssertions.
LEMMA PrepareKeeps ==
  ASSUME SuiteIInv, Prepare
  PROVE  SuiteIInv'
<1>1. Precomputed' = Precomputed
  BY PrecomputedStays DEF Prepare
<1>2. running = {} /\ running' = {} /\ suite' = suite /\ pending' = Test \ Precomputed
  BY DEF Prepare, SuiteIInv, SuiteTypeOK, ResultsAreKept
<1>3. \A t \in Test : outcome'[t] = IF t \in Precomputed THEN "skipped" ELSE "none"
  BY DEF Prepare
<1>4. SuiteTypeOK'
  BY <1>2 DEF Prepare, SuiteIInv, SuiteTypeOK
<1>5. ResultsAreKept'
  BY <1>2, <1>3 DEF ResultsAreKept
<1>6. PreparedFirst'
  BY <1>1, <1>2 DEF PreparedFirst, Prepared
<1>7. RanRightly'
  BY <1>2, <1>3 DEF RanRightly
<1>8. SkippedRightly'
  BY <1>1, <1>3 DEF SkippedRightly
<1>9. QED
  BY <1>4, <1>5, <1>6, <1>7, <1>8 DEF SuiteIInv

\* One turn of the while of runSuite.
LEMMA StartRoundKeeps ==
  ASSUME SuiteIInv, StartRound
  PROVE  SuiteIInv'
<1> DEFINE run == {t \in Ready : Allowed(t)}
<1>1. /\ Prepared /\ running = {} /\ suite' = suite /\ running' = run
      /\ outcome' = [t \in Test |-> IF t \in Ready \ run THEN "skipped" ELSE outcome[t]]
      /\ pending' = pending \ Ready
      /\ Ready \subseteq pending /\ run \subseteq Ready /\ pending \subseteq Test
  BY RoundTakesReady DEF SuiteIInv, SuiteTypeOK
<1> HIDE DEF run
<1>2. Precomputed' = Precomputed
  BY <1>1, PrecomputedStays
<1>3. \A t \in Test : t \in pending => outcome[t] = "none"
  BY DEF SuiteIInv, ResultsAreKept
<1>4. \A t \in Test : t \notin pending => outcome'[t] = outcome[t]
  BY <1>1
<1>5. SuiteTypeOK'
  BY <1>1 DEF SuiteIInv, SuiteTypeOK
<1>6. ResultsAreKept'
  BY <1>1, <1>3 DEF SuiteIInv, ResultsAreKept
<1>7. PreparedFirst'
  BY <1>1, <1>2 DEF PreparedFirst, Prepared
<1>8. RanRightly'
  <2> SUFFICES ASSUME NEW t \in Test, t \in running' \/ outcome'[t] \in {"passed", "failed"}
               PROVE  /\ t \notin Precomputed
                      /\ \/ suite[t].dep = "no"
                         \/ suite[t].dep \in Test /\ outcome'[suite[t].dep] = "passed"
    BY <1>1, <1>2 DEF RanRightly
  <2>1. CASE t \in running'
    <3>1. t \in Ready /\ Allowed(t) /\ t \notin Precomputed
      BY <1>1, <2>1 DEF Prepared, run
    <3>2. QED
      BY <1>1, <1>4, <3>1, ReadyHasResult DEF Allowed
  <2>2. CASE t \notin running'
    <3>1. outcome[t] \in {"passed", "failed"}
      BY <1>1, <2>2
    <3>2. t \notin Precomputed /\ \/ suite[t].dep = "no"
                                  \/ suite[t].dep \in Test /\ outcome[suite[t].dep] = "passed"
      BY <3>1 DEF SuiteIInv, RanRightly
    <3>3. QED
      BY <1>3, <1>4, <3>2
  <2>3. QED
    BY <2>1, <2>2
<1>9. SkippedRightly'
  <2> SUFFICES ASSUME NEW t \in Test, outcome'[t] = "skipped", t \notin Precomputed
               PROVE  suite[t].dep \in Test /\ outcome'[suite[t].dep] \in {"failed", "skipped"}
    BY <1>1, <1>2 DEF SkippedRightly
  <2>1. CASE t \in Ready \ run
    <3>1. t \in Ready /\ ~Allowed(t)
      BY <2>1 DEF run
    <3>2. QED
      BY <1>1, <1>4, <3>1, ReadyHasResult DEF Allowed
  <2>2. CASE t \notin Ready \ run
    <3>1. outcome[t] = "skipped"
      BY <1>1, <2>2
    <3>2. suite[t].dep \in Test /\ outcome[suite[t].dep] \in {"failed", "skipped"}
      BY <3>1 DEF SuiteIInv, SkippedRightly
    <3>3. QED
      BY <1>3, <1>4, <3>2
  <2>3. QED
    BY <2>1, <2>2
<1>10. QED
  BY <1>5, <1>6, <1>7, <1>8, <1>9 DEF SuiteIInv

\* An assertion has passed or failed.
LEMMA FinishAssertionKeeps ==
  ASSUME SuiteIInv, NEW u \in Test, FinishAssertion(u)
  PROVE  SuiteIInv'
<1>1. PICK result \in {"passed", "failed"} : outcome' = [outcome EXCEPT ![u] = result]
  BY DEF FinishAssertion
<1>2. /\ u \in running /\ outcome[u] = "none" /\ u \notin pending
      /\ running' = running \ {u} /\ suite' = suite /\ pending' = pending
  BY DEF FinishAssertion, SuiteIInv, ResultsAreKept
<1>3. Precomputed' = Precomputed
  BY <1>2, PrecomputedStays
<1>4. outcome'[u] = result /\ \A t \in Test : t # u => outcome'[t] = outcome[t]
  BY <1>1 DEF SuiteIInv, SuiteTypeOK
<1>5. SuiteTypeOK'
  BY <1>1, <1>2 DEF SuiteIInv, SuiteTypeOK
<1>6. ResultsAreKept'
  BY <1>2, <1>4 DEF SuiteIInv, ResultsAreKept
<1>7. PreparedFirst'
  BY <1>2, <1>3 DEF SuiteIInv, PreparedFirst, Prepared
<1>8. RanRightly'
  BY <1>2, <1>3, <1>4 DEF SuiteIInv, RanRightly
<1>9. SkippedRightly'
  BY <1>2, <1>3, <1>4 DEF SuiteIInv, SkippedRightly
<1>10. QED
  BY <1>5, <1>6, <1>7, <1>8, <1>9 DEF SuiteIInv

\* The invariant holds from the first state on.
LEMMA SuiteInvariant == SuiteSpec => []SuiteIInv
<1>1. SuiteInit => SuiteIInv
  BY DEF SuiteInit, SuiteIInv, SuiteTypeOK, ResultsAreKept, PreparedFirst, RanRightly, SkippedRightly
<1>2. SuiteIInv /\ [SuiteNext]_suiteVars => SuiteIInv'
  <2> SUFFICES ASSUME SuiteIInv, [SuiteNext]_suiteVars PROVE SuiteIInv'
    OBVIOUS
  <2>1. CASE Prepare
    BY <2>1, PrepareKeeps
  <2>2. CASE StartRound
    BY <2>2, StartRoundKeeps
  <2>3. ASSUME NEW t \in Test, FinishAssertion(t) PROVE SuiteIInv'
    BY <2>3, FinishAssertionKeeps
  <2>4. CASE UNCHANGED suiteVars
    <3>1. Precomputed' = Precomputed
      BY <2>4, PrecomputedStays DEF suiteVars
    <3>2. QED
      BY <2>4, <3>1 DEF suiteVars, SuiteIInv, SuiteTypeOK, ResultsAreKept, PreparedFirst,
                        Prepared, RanRightly, SkippedRightly
  <2>5. QED
    BY <2>1, <2>2, <2>3, <2>4 DEF SuiteNext
<1>3. QED
  BY <1>1, <1>2, PTL DEF SuiteSpec

\* Results and sets of a run have their types, whatever the suite.
THEOREM SuiteTypeCorrect == SuiteSpec => []SuiteTypeOK
<1>1. SuiteIInv => SuiteTypeOK
  BY DEF SuiteIInv
<1>2. QED
  BY <1>1, SuiteInvariant, PTL

\* runSuite runs exactly the assertions that no filter leaves out and whose
\* dependency passed, for suites of any size and with any cycles.
THEOREM ExactlyTheAllowedRun == SuiteSpec => []RanIffAllowed
<1>1. ASSUME SuiteIInv PROVE RanIffAllowed
  <2> SUFFICES ASSUME SuiteDone, NEW t \in Test
               PROVE  /\ outcome[t] # "none"
                      /\ outcome[t] # "skipped" <=>
                           /\ ~suite[t].filtered
                           /\ \/ suite[t].dep = "no"
                              \/ suite[t].dep \in Test /\ outcome[suite[t].dep] = "passed"
    BY DEF RanIffAllowed
  <2>1. outcome[t] \in {"passed", "failed", "skipped"}
    BY <1>1 DEF SuiteIInv, SuiteTypeOK, ResultsAreKept, SuiteDone
  <2>2. ASSUME outcome[t] # "skipped"
        PROVE  /\ ~suite[t].filtered
               /\ \/ suite[t].dep = "no"
                  \/ suite[t].dep \in Test /\ outcome[suite[t].dep] = "passed"
    BY <1>1, <2>1, <2>2 DEF SuiteIInv, RanRightly, Precomputed
  <2>3. ASSUME ~suite[t].filtered,
               \/ suite[t].dep = "no"
               \/ suite[t].dep \in Test /\ outcome[suite[t].dep] = "passed"
        PROVE  outcome[t] # "skipped"
    <3>1. ~(suite[t].dep \in Test /\ outcome[suite[t].dep] \in {"failed", "skipped"})
      BY <2>3, SuiteAssumption
    <3>2. suite[t].dep = "no" \/ suite[t].dep \in Visited
      BY <1>1, <2>3 DEF SuiteIInv, RanRightly, Precomputed
    <3>3. t \in Visited
      BY <3>2, VisitedIsLeast DEF FollowsEdges
    <3>4. t \notin Precomputed
      BY <2>3, <3>3, SuiteAssumption DEF Precomputed
    <3>5. QED
      BY <1>1, <3>1, <3>4 DEF SuiteIInv, SkippedRightly
  <2>4. QED
    BY <2>1, <2>2, <2>3
<1>2. QED
  BY <1>1, SuiteInvariant, PTL

\* The floor raises a severity and never lowers one.
LEMMA FloorIsAFloor ==
  ASSUME NEW s \in Severity, NEW floor \in Severity
  PROVE  /\ Effective(s, floor) \in Severity
         /\ s # "warn" => Effective(s, floor) # "warn"
         /\ floor # "warn" => Effective(s, floor) # "warn"
  BY DEF Effective, Rank, Severity

\* severityPolicy.ts and the gate of the pipeline: when it passes, every assertion
\* critical by its own severity has passed, and none that the floor makes critical
\* has failed, whatever the severities, the floor and the pass rate asked for.
\* That one of the latter was skipped is not excluded.
THEOREM PassingIsNoWayAround == SuiteSpec => []PassedMeansCritical
<1>1. ASSUME SuiteIInv PROVE PassedMeansCritical
  <2> SUFFICES ASSUME SuiteDone, NEW severity \in [Test -> Severity], NEW floor \in Severity,
                      Verdict(severity, floor) = "passed", NEW t \in Test
               PROVE  /\ severity[t] # "warn" => outcome[t] = "passed"
                      /\ Effective(severity[t], floor) # "warn" => outcome[t] # "failed"
    BY DEF PassedMeansCritical
  <2>1. outcome[t] \in {"passed", "failed", "skipped"} /\ severity[t] \in Severity
    BY <1>1 DEF SuiteIInv, SuiteTypeOK, ResultsAreKept, SuiteDone
  <2>2. GateAction(severity, floor) \notin {"abort", "block"}
    BY DEF Verdict
  <2>3. severity[t] # "warn" => outcome[t] # "skipped"
    BY <2>1, <2>2 DEF GateAction, With, Severity
  <2>4. Effective(severity[t], floor) # "warn" => outcome[t] # "failed"
    <3>1. Effective(severity[t], floor) \in Severity
      BY <2>1, FloorIsAFloor
    <3>2. QED
      BY <3>1, <2>2 DEF GateAction, With, Severity
  <2>5. QED
    BY <2>1, <2>3, <2>4, FloorIsAFloor
<1>2. QED
  BY <1>1, SuiteInvariant, PTL

\* The safety guard of runSuite, which skips what is left when nothing is
\* ready, never acts: prepareAssertions has taken out every cycle.
THEOREM SafetyGuardIsDead == SuiteSpec => []GuardNeverActs
<1>1. SuiteIInv => GuardNeverActs
  BY SomeReady DEF SuiteIInv, GuardNeverActs
<1>2. QED
  BY <1>1, SuiteInvariant, PTL

-----------------------------------------------------------------------------
(* SweepLock: one sweeper as long as its lock is renewed.                  *)

\* A process that sweeps with a lock that never ran out has the lock.
SweeperHolds ==
  \A i \in Node : stage[i] = "sweeping" /\ i \notin lapsed => mainLock = [pid |-> i, live |-> TRUE]

\* A release that is on its way belongs to no process in a sweep.
LateRelease ==
  \A i \in Node : [op |-> "release", pid |-> i] \in late => stage[i] = "idle"

SweepIInv == SweepTypeOK /\ SweeperHolds /\ LateRelease

\* The lock's row keeps its type under every request, whoever sends it.
LEMMA RequestTypes ==
  ASSUME SweepTypeOK, NEW i \in Owner
  PROVE  /\ Taken(i) \in {NoLock} \cup [pid : Owner, live : BOOLEAN]
         /\ Renewed(i) \in {NoLock} \cup [pid : Owner, live : BOOLEAN]
         /\ Released(i) \in {NoLock} \cup [pid : Owner, live : BOOLEAN]
<1>1. /\ i # "none"
      /\ [pid |-> i, live |-> TRUE] \in [pid : Owner, live : BOOLEAN]
  BY SweepAssumption DEF Owner
<1>2. mainLock.pid = i => [mainLock EXCEPT !.live = TRUE] \in [pid : Owner, live : BOOLEAN]
  BY <1>1 DEF SweepTypeOK, NoLock
<1>3. QED
  BY <1>1, <1>2 DEF SweepTypeOK, Taken, Renewed, Released

\* No request of i takes a live lock from j, unless i is j and releases it.
LEMMA RequestsSpare ==
  ASSUME NEW i, NEW j, mainLock = [pid |-> j, live |-> TRUE]
  PROVE  Taken(i) = mainLock /\ Renewed(i) = mainLock /\ (i # j => Released(i) = mainLock)
<1>1. [mainLock EXCEPT !.live = TRUE] = mainLock
  <2>1. mainLock \in [pid : {j}, live : {TRUE}]
    OBVIOUS
  <2>2. \A r \in [pid : {j}, live : {TRUE}] : [r EXCEPT !.live = TRUE] = r
    OBVIOUS
  <2>3. QED
    BY <2>1, <2>2
<1>2. QED
  BY <1>1, Zenon DEF Taken, Free, Renewed, Released

\* A process that gives up leaves one request behind, or none.
LEMMA GivesUpLeaves ==
  ASSUME SweepTypeOK, NEW i \in Node, NEW op \in {"acquire", "renew", "release"}, GivesUp(op, i)
  PROVE  /\ late' \subseteq Late /\ lockFaults' \in 0 .. MaxLockFaults
         /\ late' \subseteq late \cup {[op |-> op, pid |-> i]}
<1>1. [op |-> op, pid |-> i] \in Late
  BY DEF Late, Owner
<1>2. lockFaults' \in 0 .. MaxLockFaults
  BY SweepAssumption DEF GivesUp, Fault, SweepTypeOK
<1>3. QED
  BY <1>1, <1>2 DEF GivesUp, SweepTypeOK

\* The steps of a sweep that leave the lock alone.
LEMMA QuietSweepSteps ==
  ASSUME SweepIInv, NEW i \in Node,
         BeginSweep(i) \/ AcquireFails(i) \/ Heartbeat(i) \/ RenewFails(i) \/ EndSweep(i) \/ ReleaseFails(i)
  PROVE  SweepIInv'
<1> USE DEF SweepIInv
<1>1. CASE BeginSweep(i)
  BY <1>1 DEF BeginSweep, Moves, SweepTypeOK, SweeperHolds, LateRelease
<1>2. CASE AcquireFails(i)
  <2>1. late' \subseteq Late /\ lockFaults' \in 0 .. MaxLockFaults
        /\ late' \subseteq late \cup {[op |-> "acquire", pid |-> i]}
    BY <1>2, GivesUpLeaves DEF AcquireFails
  <2>2. QED
    BY <1>2, <2>1 DEF AcquireFails, Moves, SweepTypeOK, SweeperHolds, LateRelease
<1>3. CASE Heartbeat(i)
  BY <1>3 DEF Heartbeat, SweepTypeOK, SweeperHolds, LateRelease
<1>4. CASE RenewFails(i)
  <2>1. late' \subseteq Late /\ lockFaults' \in 0 .. MaxLockFaults
        /\ late' \subseteq late \cup {[op |-> "renew", pid |-> i]}
    BY <1>4, GivesUpLeaves DEF RenewFails
  <2>2. QED
    BY <1>4, <2>1 DEF RenewFails, SweepTypeOK, SweeperHolds, LateRelease
<1>5. CASE EndSweep(i)
  BY <1>5 DEF EndSweep, Moves, SweepTypeOK, SweeperHolds, LateRelease
<1>6. CASE ReleaseFails(i)
  <2>1. late' \subseteq Late /\ lockFaults' \in 0 .. MaxLockFaults
        /\ late' \subseteq late \cup {[op |-> "release", pid |-> i]}
    BY <1>6, GivesUpLeaves DEF ReleaseFails
  <2>2. \A j \in Node : [op |-> "release", pid |-> j] = [op |-> "release", pid |-> i] => j = i
    OBVIOUS
  <2>3. QED
    BY <1>6, <2>1, <2>2 DEF ReleaseFails, Moves, SweepTypeOK, SweeperHolds, LateRelease
<1>7. QED
  BY <1>1, <1>2, <1>3, <1>4, <1>5, <1>6

\* The requests that are answered, and the one that comes too late.
LEMMA LockSteps ==
  ASSUME SweepIInv,
         ApplyLate \/ \E i \in Node : AcquireLock(i) \/ Renew(i) \/ UnlockMain(i)
  PROVE  SweepIInv'
<1> USE DEF SweepIInv
<1>1. ASSUME NEW i \in Node, AcquireLock(i) PROVE SweepIInv'
  <2>1. SweepTypeOK'
    BY <1>1, RequestTypes DEF AcquireLock, SweepTypeOK, Owner
  <2>2. SweeperHolds'
    <3>1. CASE Free
      <4>1. \A j \in Node : stage[j] = "sweeping" => j \in lapsed
        BY <3>1 DEF SweeperHolds, Free
      <4>2. QED
        BY <1>1, <3>1, <4>1 DEF AcquireLock, Taken, SweeperHolds, SweepTypeOK
    <3>2. CASE ~Free
      BY <1>1, <3>2 DEF AcquireLock, Taken, SweeperHolds, SweepTypeOK
    <3>3. QED
      BY <3>1, <3>2
  <2>3. LateRelease'
    BY <1>1 DEF AcquireLock, LateRelease, SweepTypeOK
  <2>4. QED
    BY <2>1, <2>2, <2>3
<1>2. ASSUME NEW i \in Node, Renew(i) PROVE SweepIInv'
  <2>1. SweepTypeOK'
    BY <1>2, RequestTypes DEF Renew, SweepTypeOK, Owner
  <2>2. SweeperHolds'
    BY <1>2, RequestsSpare DEF Renew, SweeperHolds
  <2>3. LateRelease'
    BY <1>2 DEF Renew, LateRelease
  <2>4. QED
    BY <2>1, <2>2, <2>3
<1>3. ASSUME NEW i \in Node, UnlockMain(i) PROVE SweepIInv'
  <2>1. SweepTypeOK'
    BY <1>3, RequestTypes DEF UnlockMain, Moves, SweepTypeOK, Owner
  <2>2. SweeperHolds'
    BY <1>3, RequestsSpare DEF UnlockMain, Moves, SweeperHolds, SweepTypeOK
  <2>3. LateRelease'
    BY <1>3 DEF UnlockMain, Moves, LateRelease, SweepTypeOK
  <2>4. QED
    BY <2>1, <2>2, <2>3
<1>4. CASE ApplyLate
  <2>1. PICK r \in late :
          /\ late' = late \ {r}
          /\ mainLock' \in {mainLock,
               CASE r.op = "acquire" -> Taken(r.pid)
                 [] r.op = "renew"   -> Renewed(r.pid)
                 [] r.op = "release" -> Released(r.pid)}
    BY <1>4 DEF ApplyLate
  <2>2. r.pid \in Owner /\ r.op \in {"acquire", "renew", "release"} /\ r = [op |-> r.op, pid |-> r.pid]
    BY DEF SweepTypeOK, Late
  <2>3. \/ mainLock' = mainLock
        \/ r.op = "acquire" /\ mainLock' = Taken(r.pid)
        \/ r.op = "renew"   /\ mainLock' = Renewed(r.pid)
        \/ r.op = "release" /\ mainLock' = Released(r.pid)
    BY <2>1, <2>2
  <2>4. SweepTypeOK'
    BY <1>4, <2>1, <2>2, <2>3, RequestTypes DEF ApplyLate, SweepTypeOK
  <2>5. SweeperHolds'
    <3> SUFFICES ASSUME NEW j \in Node, stage[j] = "sweeping", j \notin lapsed
                 PROVE  mainLock' = [pid |-> j, live |-> TRUE]
      BY <1>4 DEF ApplyLate, SweeperHolds
    <3>1. mainLock = [pid |-> j, live |-> TRUE]
      BY DEF SweeperHolds
    <3>2. r.op = "release" => r.pid # j
      BY <2>2 DEF LateRelease
    <3>3. QED
      BY <2>3, <3>1, <3>2, RequestsSpare
  <2>6. LateRelease'
    BY <1>4, <2>1 DEF ApplyLate, LateRelease
  <2>7. QED
    BY <2>4, <2>5, <2>6
<1>5. QED
  BY <1>1, <1>2, <1>3, <1>4

\* The lock runs out.
LEMMA ExpireKeeps == SweepIInv /\ Expire => SweepIInv'
<1> SUFFICES ASSUME SweepIInv, Expire PROVE SweepIInv'
  OBVIOUS
<1> USE DEF SweepIInv
<1>1. SweepTypeOK'
  <2>1. mainLock \in [pid : Owner, live : BOOLEAN]
    BY DEF Expire, SweepTypeOK, NoLock
  <2>2. QED
    BY <2>1 DEF Expire, SweepTypeOK
<1>2. SweeperHolds'
  BY DEF Expire, SweeperHolds
<1>3. LateRelease'
  BY DEF Expire, LateRelease
<1>4. QED
  BY <1>1, <1>2, <1>3

\* A process dies: what it had is nobody's.
LEMMA CrashSweepKeeps ==
  ASSUME SweepIInv, NEW i \in Node, CrashSweep(i)
  PROVE  SweepIInv'
<1> USE DEF SweepIInv
<1> DEFINE dead(r) == [r EXCEPT !.pid = IF @ = i THEN "dead" ELSE @]
<1>1. \A r \in Late : dead(r) \in Late /\ dead(r).op = r.op
                      /\ dead(r).pid = IF r.pid = i THEN "dead" ELSE r.pid
  BY DEF Late, Owner
<1>2. \A q \in late' : q \in Late /\ (q.pid = "dead" \/ q \in late)
  <2>1. \A r \in late : dead(r) \in Late /\ (dead(r).pid = "dead" \/ dead(r) = r)
    <3> SUFFICES ASSUME NEW r \in late PROVE dead(r) \in Late /\ (dead(r).pid = "dead" \/ dead(r) = r)
      OBVIOUS
    <3>1. r \in Late
      BY DEF SweepTypeOK
    <3>2. r.pid # i => dead(r) = r
      BY <3>1 DEF Late
    <3>3. QED
      BY <1>1, <3>1, <3>2
  <2>2. \A op \in {"acquire", "renew", "release"} : [op |-> op, pid |-> "dead"] \in Late
    BY DEF Late, Owner
  <2>3. late' = {dead(r) : r \in late}
                \cup (IF stage[i] = "acquiring" THEN {[op |-> "acquire", pid |-> "dead"]} ELSE {})
                \cup (IF stage[i] = "releasing" THEN {[op |-> "release", pid |-> "dead"]} ELSE {})
                \cup (IF i \in renewing THEN {[op |-> "renew", pid |-> "dead"]} ELSE {})
    BY DEF CrashSweep
  <2> HIDE DEF dead
  <2>4. QED
    BY <2>1, <2>2, <2>3
<1>3. SweepTypeOK'
  <2>1. mainLock' \in {NoLock} \cup [pid : Owner, live : BOOLEAN]
    <3>1. mainLock.pid = i => mainLock \in [pid : Owner, live : BOOLEAN]
      BY SweepAssumption DEF SweepTypeOK, NoLock
    <3>2. QED
      BY <3>1 DEF CrashSweep, SweepTypeOK, Owner
  <2>2. late' \subseteq Late
    BY <1>2
  <2>3. lockFaults' \in 0 .. MaxLockFaults
    BY SweepAssumption DEF CrashSweep, Fault, SweepTypeOK
  <2>4. QED
    BY <2>1, <2>2, <2>3 DEF CrashSweep, SweepTypeOK
<1>4. SweeperHolds'
  <2> SUFFICES ASSUME NEW j \in Node, stage'[j] = "sweeping", j \notin lapsed'
               PROVE  mainLock' = [pid |-> j, live |-> TRUE]
    BY DEF SweeperHolds
  <2>1. j # i /\ stage[j] = "sweeping" /\ j \notin lapsed
    BY DEF CrashSweep, SweepTypeOK
  <2>2. mainLock = [pid |-> j, live |-> TRUE] /\ mainLock.pid = j
    BY <2>1 DEF SweeperHolds
  <2>3. QED
    BY <2>1, <2>2 DEF CrashSweep
<1>5. LateRelease'
  <2> SUFFICES ASSUME NEW j \in Node, [op |-> "release", pid |-> j] \in late'
               PROVE  stage'[j] = "idle"
    BY DEF LateRelease
  <2>1. j # "dead"
    BY SweepAssumption
  <2>2. [op |-> "release", pid |-> j] \in late
    BY <1>2, <2>1
  <2>3. QED
    BY <2>2 DEF CrashSweep, LateRelease, SweepTypeOK
<1>6. QED
  BY <1>3, <1>4, <1>5

\* The invariant holds from the first state on.
LEMMA SweepInvariant == SweepSpec => []SweepIInv
<1>1. SweepInit => SweepIInv
  BY SweepAssumption DEF SweepInit, SweepIInv, SweepTypeOK, SweeperHolds, LateRelease
<1>2. SweepIInv /\ [SweepNext]_sweepVars => SweepIInv'
  <2> SUFFICES ASSUME SweepIInv, [SweepNext]_sweepVars PROVE SweepIInv'
    OBVIOUS
  <2>1. CASE SweepNext
    BY <2>1, QuietSweepSteps, LockSteps, ExpireKeeps, CrashSweepKeeps DEF SweepNext, SweepTurn
  <2>2. CASE UNCHANGED sweepVars
    BY <2>2 DEF sweepVars, SweepIInv, SweepTypeOK, SweeperHolds, LateRelease
  <2>3. QED
    BY <2>1, <2>2
<1>3. QED
  BY <1>1, <1>2, PTL DEF SweepSpec

\* The row of the lock and the stages of the sweeps have their types.
THEOREM SweepTypeCorrect == SweepSpec => []SweepTypeOK
<1>1. SweepIInv => SweepTypeOK
  BY DEF SweepIInv
<1>2. QED
  BY <1>1, SweepInvariant, PTL

\* backgroundScheduler.ts: of any number of processes, two sweep at once only
\* if the lock of one ran out under its sweep, whatever crashes, and whichever
\* requests are answered late.
THEOREM OneSweepAtATime == SweepSpec => []SweepExclusive
<1>1. SweepIInv => SweepExclusive
  BY DEF SweepIInv, SweeperHolds, SweepExclusive
<1>2. QED
  BY <1>1, SweepInvariant, PTL

-----------------------------------------------------------------------------
(* DeviceTrust: no device is sealed to in silence.                         *)

\* The devices that were named, are about to be, or whose push died before it could.
Heard == warned \cup AboutToHear \cup unheard

\* Whatever is pinned, or was when a push read the file, is one of them.
PinnedIsHeard ==
  /\ pins \subseteq Heard
  /\ \A w \in Window : push[w].at \in {"sending", "accepted"} => push[w].known \subseteq Heard

TrustIInv == TrustTypeOK /\ PinnedIsHeard /\ NoSilentDevice

\* A step of the push of one window.
PushStep(w) ==
  \/ BeginPush(w) \/ RegisterDevice(w) \/ ListDevices(w) \/ Stored(w)
  \/ Accepted(w) \/ Warn(w) \/ DieUnheard(w) \/ PushFails(w) \/ EndPush(w)

\* The devices about to be named, one by one.
LEMMA HeardOf ==
  ASSUME NEW k
  PROVE  k \in Heard <=> \/ k \in warned \cup unheard
                         \/ \E v \in Window : Pushing(v, "accepted") /\ k \in NewDevices(v)
  BY DEF Heard, AboutToHear

\* The devices of a push are devices.
LEMMA PushFields ==
  ASSUME TrustTypeOK, NEW w \in Window
  PROVE  /\ push[w] \in Push /\ push[w].targets \subseteq Device /\ push[w].known \subseteq Device
         /\ NewDevices(w) \subseteq Device
         /\ push[w].targets \subseteq push[w].known \cup NewDevices(w)
  BY DEF TrustTypeOK, Push, NewDevices

\* Every step keeps the types.
LEMMA TrustStepType ==
  ASSUME TrustTypeOK, NEW w \in Window, PushStep(w)
  PROVE  TrustTypeOK'
<1> USE DEF TrustTypeOK, Push, Pushing, told
<1>1. CASE BeginPush(w)
  BY <1>1 DEF BeginPush
<1>2. CASE RegisterDevice(w)
  BY <1>2 DEF RegisterDevice
<1>3. CASE ListDevices(w)
  <2>1. PICK targets \in SUBSET Device, known \in {pins, {}} :
          push' = [push EXCEPT ![w] = [at |-> "sending", targets |-> targets,
                                       known |-> known, sealed |-> FALSE]]
    BY <1>3 DEF ListDevices
  <2>2. QED
    BY <1>3, <2>1 DEF ListDevices
<1>4. CASE Stored(w)
  BY <1>4 DEF Stored
<1>5. CASE Accepted(w)
  BY <1>5, PushFields DEF Accepted
<1>6. CASE Warn(w)
  BY <1>6, PushFields DEF Warn
<1>7. CASE DieUnheard(w)
  BY <1>7, PushFields DEF DieUnheard, NoPush
<1>8. CASE PushFails(w)
  BY <1>8 DEF PushFails, NoPush
<1>9. CASE EndPush(w)
  BY <1>9 DEF EndPush, NoPush
<1>10. QED
  BY <1>1, <1>2, <1>3, <1>4, <1>5, <1>6, <1>7, <1>8, <1>9 DEF PushStep

\* A step changes the push of one window alone, and nobody's devices are lost:
\* those that were about to be named are named or died with their push.
LEMMA HeardGrows ==
  ASSUME TrustTypeOK, NEW w \in Window, PushStep(w)
  PROVE  /\ \A v \in Window : v # w => push'[v] = push[v]
         /\ Heard \subseteq Heard'
<1>1. \A v \in Window : v # w => push'[v] = push[v]
  BY DEF PushStep, BeginPush, RegisterDevice, ListDevices, Stored, Accepted, Warn, DieUnheard,
         PushFails, EndPush, TrustTypeOK
<1>2. warned \subseteq warned' /\ unheard \subseteq unheard'
  BY DEF PushStep, BeginPush, RegisterDevice, ListDevices, Stored, Accepted, Warn, DieUnheard,
         PushFails, EndPush, told
<1>3. Pushing(w, "accepted") => NewDevices(w) \subseteq warned' \cup unheard'
  BY DEF PushStep, BeginPush, RegisterDevice, ListDevices, Stored, Accepted, Warn, DieUnheard,
         PushFails, EndPush, Pushing
<1>4. ASSUME NEW k \in Heard PROVE k \in Heard'
  <2>1. CASE k \in warned \cup unheard
    BY <1>2, <2>1 DEF Heard
  <2>2. CASE \E v \in Window : Pushing(v, "accepted") /\ k \in NewDevices(v)
    <3>1. PICK v \in Window : Pushing(v, "accepted") /\ k \in NewDevices(v)
      BY <2>2
    <3>2. CASE v = w
      BY <1>3, <3>1, <3>2 DEF Heard
    <3>3. CASE v # w
      <4>1. Pushing(v, "accepted")' /\ k \in NewDevices(v)'
        BY <1>1, <3>1, <3>3 DEF Pushing, NewDevices
      <4>2. QED
        BY <4>1 DEF Heard, AboutToHear
    <3>4. QED
      BY <3>2, <3>3
  <2>3. QED
    BY <1>4, <2>1, <2>2, HeardOf
<1>5. QED
  BY <1>1, <1>4

\* So it is enough to look at the file and at the push that made the step.
LEMMA TrustStepKeeps ==
  ASSUME TrustIInv, NEW w \in Window, PushStep(w)
  PROVE  TrustIInv'
<1> USE DEF TrustIInv
<1>1. /\ \A v \in Window : v # w => push'[v] = push[v]
      /\ Heard \subseteq Heard'
  BY HeardGrows
<1>2. /\ pins' \subseteq Heard'
      /\ push'[w].at \in {"sending", "accepted"} => push'[w].known \subseteq Heard'
      /\ push'[w].at = "done" => push'[w].targets \subseteq Heard'
  <2>1. push \in [Window -> Push] /\ pins \subseteq Heard
    BY DEF TrustTypeOK, PinnedIsHeard
  <2>2. CASE ListDevices(w)
    <3>1. PICK targets \in SUBSET Device, known \in {pins, {}} :
            push' = [push EXCEPT ![w] = [at |-> "sending", targets |-> targets,
                                         known |-> known, sealed |-> FALSE]]
      BY <2>2 DEF ListDevices
    <3>2. push'[w].at = "sending" /\ push'[w].known = known
      BY <2>1, <3>1
    <3>3. QED
      BY <1>1, <2>1, <2>2, <3>2 DEF ListDevices
  <2>3. CASE Accepted(w)
    <3>1. push[w].known \subseteq Heard /\ push'[w].known = push[w].known /\ push'[w].at = "accepted"
          /\ push'[w].targets = push[w].targets
      BY <2>1, <2>3 DEF Accepted, Pushing, PinnedIsHeard, Push
    <3>2. NewDevices(w)' = NewDevices(w)
      BY <3>1 DEF NewDevices
    <3>3. NewDevices(w) \subseteq Heard'
      BY <3>1, <3>2 DEF Heard, AboutToHear, Pushing
    <3>4. pins' = pins \/ pins' = push[w].known \cup NewDevices(w)
      BY <2>3 DEF Accepted
    <3>5. QED
      BY <1>1, <2>1, <3>1, <3>3, <3>4
  <2>4. CASE Warn(w)
    <3>1. push[w].known \subseteq Heard /\ push'[w].at = "done" /\ push'[w].targets = push[w].targets
      BY <2>1, <2>4 DEF Warn, Pushing, PinnedIsHeard, Push
    <3>2. NewDevices(w) \subseteq Heard' /\ pins' = pins
      BY <2>4 DEF Warn, Heard
    <3>3. QED
      BY <1>1, <2>1, <3>1, <3>2, PushFields
  <2>5. CASE Stored(w)
    BY <1>1, <2>1, <2>5 DEF Stored, Pushing, PinnedIsHeard, Push
  <2>6. CASE BeginPush(w) \/ RegisterDevice(w)
    BY <1>1, <2>1, <2>6 DEF BeginPush, RegisterDevice, Push
  <2>7. CASE DieUnheard(w) \/ PushFails(w) \/ EndPush(w)
    BY <1>1, <2>1, <2>7 DEF DieUnheard, PushFails, EndPush, NoPush
  <2>8. QED
    BY <2>2, <2>3, <2>4, <2>5, <2>6, <2>7 DEF PushStep
<1>3. ASSUME NEW v \in Window
      PROVE  /\ push'[v].at \in {"sending", "accepted"} => push'[v].known \subseteq Heard'
             /\ push'[v].at = "done" => push'[v].targets \subseteq Heard'
  <2>1. /\ push[v].at \in {"sending", "accepted"} => push[v].known \subseteq Heard
        /\ push[v].at = "done" => push[v].targets \subseteq Heard
    BY DEF PinnedIsHeard, NoSilentDevice, Pushing, Heard
  <2>2. QED
    BY <1>1, <1>2, <2>1
<1>4. QED
  BY <1>2, <1>3, TrustStepType DEF PinnedIsHeard, NoSilentDevice, Pushing, Heard

\* The invariant holds from the first state on.
LEMMA TrustInvariant == TrustSpec => []TrustIInv
<1>1. TrustInit => TrustIInv
  BY DEF TrustInit, TrustIInv, TrustTypeOK, PinnedIsHeard, NoSilentDevice, NoPush, Push, Pushing
<1>2. TrustIInv /\ [TrustNext]_trustVars => TrustIInv'
  <2> SUFFICES ASSUME TrustIInv, [TrustNext]_trustVars PROVE TrustIInv'
    OBVIOUS
  <2>1. CASE TrustNext
    BY <2>1, TrustStepKeeps DEF TrustNext, PushStep
  <2>2. CASE UNCHANGED trustVars
    BY <2>2 DEF trustVars, told, TrustIInv, TrustTypeOK, PinnedIsHeard, NoSilentDevice, Pushing,
                Heard, AboutToHear, NewDevices
  <2>3. QED
    BY <2>1, <2>2
<1>3. QED
  BY <1>1, <1>2, PTL DEF TrustSpec

\* The pins and the pushes of all windows have their types.
THEOREM TrustTypeCorrect == TrustSpec => []TrustTypeOK
<1>1. TrustIInv => TrustTypeOK
  BY DEF TrustIInv
<1>2. QED
  BY <1>1, TrustInvariant, PTL

\* handoffSync.ts: for any number of windows and devices, a push that succeeded has
\* sealed to no device but those some push has named, is about to name, or would
\* have named had its process not died.
THEOREM NoDeviceInSilence == TrustSpec => []NoSilentDevice
<1>1. TrustIInv => NoSilentDevice
  BY DEF TrustIInv
<1>2. QED
  BY <1>1, TrustInvariant, PTL

-----------------------------------------------------------------------------
(* HivemindWatchdog: the registry is well-formed whoever writes it.        *)

\* Loop counts stay in their range.
LEMMA LoopCounts ==
  /\ 0 \in 0 .. MaxLoops
  /\ \A n \in 0 .. MaxLoops : /\ Capped(n) \in 0 .. MaxLoops
                              /\ Capped(n + 1) \in 0 .. MaxLoops
                              /\ n \in 0 .. MaxLoops + 1
  /\ NoBeat \in 0 .. MaxLoops + 1
  BY WatchdogAssumption DEF Capped, NoBeat

\* A heartbeat between its read and its write holds a count.
LEMMA BeatType ==
  ASSUME WatchdogTypeOK, NEW a \in Agent, beat[a] # NoBeat
  PROVE  beat[a] \in 0 .. MaxLoops
<1>1. MaxLoops \in Nat /\ beat[a] \in 0 .. MaxLoops + 1 /\ beat[a] # MaxLoops + 1
  BY WatchdogAssumption DEF WatchdogTypeOK, NoBeat
<1>2. QED
  BY <1>1

\* A row that is there is a Row; its status and loop count may be written.
LEMMA RowsAreWritten ==
  ASSUME WatchdogTypeOK, NEW a \in Agent, Listed(a)
  PROVE  /\ registry[a] \in Row
         /\ \A s \in Status, n \in 0 .. MaxLoops :
              [[registry[a] EXCEPT !.status = s] EXCEPT !.loops = n] \in Row
<1>1. registry[a] \in Row
  BY DEF WatchdogTypeOK, Listed
<1>2. QED
  BY <1>1 DEF Row

\* updateAgentStatus leaves a registry behind.
LEMMA UpdatedType ==
  ASSUME WatchdogTypeOK, NEW a \in Agent, NEW s \in Status, NEW n \in 0 .. MaxLoops
  PROVE  Updated(a, s, n) \in [Agent -> Row \cup {NoRow}]
<1>1. CASE Listed(a)
  <2>1. Updated(a, s, n) =
          [registry EXCEPT ![a] = [[registry[a] EXCEPT !.status = s] EXCEPT !.loops = n]]
    BY <1>1 DEF Updated, WatchdogTypeOK
  <2>2. [[registry[a] EXCEPT !.status = s] EXCEPT !.loops = n] \in Row
    BY <1>1, RowsAreWritten
  <2>3. QED
    BY <2>1, <2>2 DEF WatchdogTypeOK
<1>2. CASE ~Listed(a)
  BY <1>2 DEF Updated, WatchdogTypeOK
<1>3. QED
  BY <1>1, <1>2

\* The watchdog writes no status that the registry does not know.
LEMMA NewStatusIsStatus ==
  ASSUME NEW w, NEW a, NEW r, NEW new \in NewStatus(w, a, r)
  PROVE  new \in Status \cup {"none"}
<1>1. Silent(r) \in Status \cup {"none"}
  BY DEF Silent, Status
<1>2. QED
  BY <1>1 DEF NewStatus, Status

\* The listing of a sweep holds rows.
LEMMA ListingType ==
  ASSUME WatchdogTypeOK, NEW w \in Watchdog, NEW t \in sweep[w]
  PROVE  /\ t[1] \in Agent /\ t[2] \in Row /\ t = <<t[1], t[2]>>
         /\ t[2].status \in Status /\ t[2].loops \in 0 .. MaxLoops
<1>1. t \in Agent \X Row
  BY DEF WatchdogTypeOK
<1>2. QED
  BY <1>1 DEF Row

\* Taking a row off the listing leaves a listing.
LEMMA RestType ==
  ASSUME WatchdogTypeOK, NEW w \in Watchdog, NEW a, NEW r
  PROVE  Rest(w, a, r) \in [Watchdog -> SUBSET (Agent \X Row)]
  BY DEF WatchdogTypeOK, Rest

\* What the agents do.
LEMMA AgentStepType ==
  ASSUME WatchdogTypeOK, NEW a \in Agent,
         Register(a) \/ ReadBeat(a) \/ WriteBeat(a) \/ LeaveAssertions(a) \/ Grow(a) \/ Leave(a)
  PROVE  WatchdogTypeOK'
<1> USE DEF happened
<1>1. CASE Register(a)
  <2>1. [status |-> "active", age |-> "fresh", loops |-> 0] \in Row
    BY LoopCounts DEF Row, Status, Age
  <2>2. QED
    BY <1>1, <2>1 DEF Register, WatchdogTypeOK
<1>2. CASE ReadBeat(a)
  <2>1. registry[a].loops \in 0 .. MaxLoops /\ repeats[a] \in 0 .. MaxLoops
    BY LoopCounts DEF WatchdogTypeOK, Row, NoRow
  <2>2. QED
    BY <1>2, <2>1, LoopCounts DEF ReadBeat, WatchdogTypeOK
<1>3. CASE WriteBeat(a)
  <2>1. beat[a] \in 0 .. MaxLoops
    BY <1>3, BeatType DEF WriteBeat
  <2>2. [status |-> IF beat[a] >= LoopThreshold THEN "looping" ELSE "active",
         age |-> "fresh", loops |-> beat[a]] \in Row
    BY <2>1 DEF Row, Status, Age
  <2>3. QED
    BY <1>3, <2>2, LoopCounts DEF WriteBeat, WatchdogTypeOK
<1>4. CASE LeaveAssertions(a)
  BY <1>4 DEF LeaveAssertions, WatchdogTypeOK
<1>5. CASE Grow(a)
  <2>1. registry[a] \in Row /\ registry[a].age \in {"fresh", "stale", "frozen"}
    BY <1>5, RowsAreWritten DEF Grow, Row, Age
  <2>2. PICK age \in Age : registry' = [registry EXCEPT ![a] = [registry[a] EXCEPT !.age = age]]
    BY <1>5, <2>1 DEF Grow, Age, WatchdogTypeOK
  <2>3. [registry[a] EXCEPT !.age = age] \in Row
    BY <2>1 DEF Row
  <2>4. QED
    BY <1>5, <2>2, <2>3 DEF Grow, WatchdogTypeOK
<1>6. CASE Leave(a)
  BY <1>6 DEF Leave, WatchdogTypeOK
<1>7. QED
  BY <1>1, <1>2, <1>3, <1>4, <1>5, <1>6

\* What a watchdog does with one agent.
LEMMA SweepStepType ==
  ASSUME WatchdogTypeOK, NEW w \in Watchdog, NEW a \in Agent, SweepStep(w, a) \/ PruneFails(w, a)
  PROVE  WatchdogTypeOK'
<1> USE DEF happened
<1>1. CASE Prune(w, a)
  BY <1>1, RestType DEF Prune, WatchdogTypeOK
<1>2. CASE PruneFails(w, a)
  BY <1>2, RestType DEF PruneFails, WatchdogTypeOK
<1>3. CASE Examine(w, a)
  <2>0. PICK t \in sweep[w] :
          /\ \E new \in NewStatus(w, a, t[2]) :
               /\ registry' \in IF new \in {"none", t[2].status} THEN {registry}
                                ELSE {registry, Updated(a, new, t[2].loops)}
               /\ assertions' = IF new = "looping" THEN assertions \ {a} ELSE assertions
               /\ check' = IF new # "verifying" THEN check
                           ELSE [check EXCEPT ![<<w, a>>] =
                                  [NoCheck EXCEPT !.at = "running", !.loops = t[2].loops]]
          /\ sweep' = Rest(w, a, t[2])
    BY <1>3, Zenon DEF Examine
  <2>1. PICK new \in NewStatus(w, a, t[2]) :
          /\ registry' \in IF new \in {"none", t[2].status} THEN {registry}
                           ELSE {registry, Updated(a, new, t[2].loops)}
          /\ assertions' = IF new = "looping" THEN assertions \ {a} ELSE assertions
          /\ check' = IF new # "verifying" THEN check
                      ELSE [check EXCEPT ![<<w, a>>] =
                             [NoCheck EXCEPT !.at = "running", !.loops = t[2].loops]]
    BY <2>0
  <2>2. new \in Status \cup {"none"} /\ t[2].loops \in 0 .. MaxLoops
    BY NewStatusIsStatus, ListingType
  <2>3. registry' \in [Agent -> Row \cup {NoRow}]
    BY <2>1, <2>2, UpdatedType DEF WatchdogTypeOK
  <2>4. [NoCheck EXCEPT !.at = "running", !.loops = t[2].loops] \in Check
    BY <2>2 DEF NoCheck, Check, Status
  <2>5. check' \in [Watchdog \X Agent -> Check]
    BY <2>1, <2>4 DEF WatchdogTypeOK
  <2>6. QED
    BY <1>3, <2>0, <2>1, <2>3, <2>5, RestType DEF Examine, WatchdogTypeOK
<1>4. QED
  BY <1>1, <1>2, <1>3 DEF SweepStep

\* What becomes of a verification.
LEMMA VerdictType ==
  ASSUME WatchdogTypeOK, NEW w \in Watchdog, NEW a \in Agent, Judge(w, a) \/ WriteVerdict(w, a)
  PROVE  WatchdogTypeOK'
<1> USE DEF happened
<1>1. check[<<w, a>>] \in Check
  BY DEF WatchdogTypeOK
<1>2. /\ check[<<w, a>>].loops \in 0 .. MaxLoops /\ Capped(check[<<w, a>>].loops + 1) \in 0 .. MaxLoops
      /\ check[<<w, a>>].verdict \in Status
  BY <1>1, LoopCounts DEF Check
<1>3. CASE Judge(w, a)
  <2>0. failures' \in [Agent -> 0 .. MaxLoops]
    <3>1. failures[a] \in 0 .. MaxLoops
      BY DEF WatchdogTypeOK
    <3>2. failures' \in {failures, [failures EXCEPT ![a] = Capped(failures[a] + 1)]}
      BY <1>3 DEF Judge, WatchdogTypeOK
    <3>3. QED
      BY <3>1, <3>2, LoopCounts DEF WatchdogTypeOK
  <2>1. PICK verdict \in {"active", "looping", "failed_validation"}, n \in 0 .. MaxLoops :
          /\ assertions' \subseteq assertions
          /\ check' = [check EXCEPT ![<<w, a>>] =
                        [at |-> "writing", verdict |-> verdict, loops |-> n]]
    <3>1. PICK result \in {"passed", "refused", "failed", "unreadable"},
               verdict \in {"active", "looping", "failed_validation"} :
            /\ assertions' = IF verdict = "failed_validation" THEN assertions ELSE assertions \ {a}
            /\ check' = [check EXCEPT ![<<w, a>>] =
                 [at |-> "writing", verdict |-> verdict,
                  loops |-> CASE verdict = "active" -> 0
                              [] verdict = "looping" -> check[<<w, a>>].loops
                              [] OTHER -> Capped(check[<<w, a>>].loops + 1)]]
      BY <1>3 DEF Judge
    <3>2. (CASE verdict = "active" -> 0
             [] verdict = "looping" -> check[<<w, a>>].loops
             [] OTHER -> Capped(check[<<w, a>>].loops + 1)) \in 0 .. MaxLoops
      BY <1>2, LoopCounts
    <3>3. QED
      BY <3>1, <3>2
  <2>2. [at |-> "writing", verdict |-> verdict, loops |-> n] \in Check
    BY DEF Check, Status
  <2>3. QED
    BY <1>3, <2>0, <2>1, <2>2 DEF Judge, WatchdogTypeOK
<1>4. CASE WriteVerdict(w, a)
  <2>1. registry' \in [Agent -> Row \cup {NoRow}]
    BY <1>2, <1>4, UpdatedType DEF WriteVerdict, WatchdogTypeOK
  <2>2. NoCheck \in Check
    BY LoopCounts DEF NoCheck, Check, Status
  <2>3. QED
    BY <1>4, <2>1, <2>2 DEF WriteVerdict, WatchdogTypeOK
<1>5. QED
  BY <1>3, <1>4

\* What a watchdog does for all.
LEMMA WatchdogStepType ==
  ASSUME WatchdogTypeOK, NEW w \in Watchdog, ListAgents(w) \/ CrashWatchdog(w)
  PROVE  WatchdogTypeOK'
<1> USE DEF happened
<1>1. CASE ListAgents(w)
  <2>1. \A b \in Agent : Listed(b) => registry[b] \in Row
    BY RowsAreWritten
  <2>2. {<<b, registry[b]>> : b \in {b \in Agent : Listed(b)}} \subseteq Agent \X Row
    BY <2>1
  <2>3. QED
    BY <1>1, <2>2 DEF ListAgents, WatchdogTypeOK
<1>2. CASE CrashWatchdog(w)
  <2>1. NoCheck \in Check
    BY LoopCounts DEF NoCheck, Check, Status
  <2>2. QED
    BY <1>2, <2>1 DEF CrashWatchdog, WatchdogTypeOK
<1>3. QED
  BY <1>1, <1>2

\* Every step keeps the types.
LEMMA WatchdogTypeStep == WatchdogTypeOK /\ [WatchdogNext]_watchdogVars => WatchdogTypeOK'
<1> SUFFICES ASSUME WatchdogTypeOK, [WatchdogNext]_watchdogVars PROVE WatchdogTypeOK'
  OBVIOUS
<1>1. CASE WatchdogNext
  BY <1>1, AgentStepType, SweepStepType, VerdictType, WatchdogStepType DEF WatchdogNext
<1>2. CASE UNCHANGED watchdogVars
  BY <1>2 DEF watchdogVars, happened, WatchdogTypeOK
<1>3. QED
  BY <1>1, <1>2

\* hivemindWatchdog.ts and agent_registry: the rows, the listings and the
\* verdicts keep their types whichever process writes over which other.
THEOREM WatchdogTypeCorrect == WatchdogSpec => []WatchdogTypeOK
<1>1. WatchdogInit => WatchdogTypeOK
  BY LoopCounts DEF WatchdogInit, WatchdogTypeOK, NoCheck, Check, Status
<1>2. QED
  BY <1>1, WatchdogTypeStep, PTL DEF WatchdogSpec

-----------------------------------------------------------------------------
(* HivemindWatchdog: nobody is called looping for nothing.                 *)

\* What NoFalseLoop asks of the row of an agent.
Counted(a, n)   == n <= repeats[a] + failures[a]
Justified(a, n) == n >= LoopThreshold \/ (n >= BailOut /\ failures[a] > 0)
Fair(a, status, n) == Counted(a, n) /\ (status = "looping" => Justified(a, n))

\* Whatever may be written to a row later: counts of heartbeats, of listings and
\* of verifications.
BeatsCounted    == \A a \in Agent : beat[a] # NoBeat => Counted(a, beat[a])
ListingsCounted == \A w \in Watchdog : \A t \in sweep[w] : Counted(t[1], t[2].loops)
VerdictCounted(w, a) ==
  LET v == check[<<w, a>>] IN
  Counted(a, v.loops) /\ (v.at = "writing" => Fair(a, v.verdict, v.loops))
VerdictsCounted == \A w \in Watchdog, a \in Agent : VerdictCounted(w, a)

CountsStand  == NoFalseLoop /\ BeatsCounted /\ ListingsCounted /\ VerdictsCounted
WatchdogIInv == WatchdogTypeOK /\ CountsStand

\* NoFalseLoop, row by row.
LEMMA FairRows == NoFalseLoop <=> \A a \in Agent : Fair(a, registry[a].status, registry[a].loops)
  BY DEF NoFalseLoop, Fair, Counted, Justified

\* The histories are numbers; a count of none is no claim.
LEMMA HistoryTypes ==
  ASSUME WatchdogTypeOK, NEW a \in Agent
  PROVE  /\ repeats[a] \in 0 .. MaxLoops /\ failures[a] \in 0 .. MaxLoops
         /\ registry[a].loops \in 0 .. MaxLoops
         /\ Counted(a, 0)
  BY LoopCounts, WatchdogAssumption DEF WatchdogTypeOK, Counted, Row, NoRow

\* What has happened is not undone, so a count that stood still stands.
LEMMA CountsStay ==
  ASSUME WatchdogTypeOK, WatchdogTypeOK', NEW a \in Agent, NEW n \in 0 .. MaxLoops, NEW status,
         repeats[a] <= repeats'[a], failures[a] <= failures'[a]
  PROVE  /\ Counted(a, n) => Counted(a, n)'
         /\ Fair(a, status, n) => Fair(a, status, n)'
<1>1. /\ repeats[a] \in Nat /\ failures[a] \in Nat
      /\ repeats'[a] \in Nat /\ failures'[a] \in Nat
  BY WatchdogAssumption DEF WatchdogTypeOK
<1>2. QED
  BY <1>1 DEF Counted, Fair, Justified

\* And so does all of it, where nothing else is written.
LEMMA AllStay ==
  ASSUME WatchdogIInv, WatchdogTypeOK',
         \A a \in Agent : repeats[a] <= repeats'[a] /\ failures[a] <= failures'[a]
  PROVE  /\ registry' = registry => NoFalseLoop'
         /\ beat' = beat => BeatsCounted'
         /\ sweep' = sweep => ListingsCounted'
         /\ \A w \in Watchdog, a \in Agent :
              check'[<<w, a>>] = check[<<w, a>>] => VerdictCounted(w, a)'
<1> USE DEF WatchdogIInv, CountsStand
<1>1. ASSUME registry' = registry PROVE NoFalseLoop'
  <2>1. ASSUME NEW a \in Agent PROVE Fair(a, registry[a].status, registry[a].loops)'
    <3>1. Fair(a, registry[a].status, registry[a].loops) /\ registry[a].loops \in 0 .. MaxLoops
      BY FairRows, HistoryTypes
    <3>2. QED
      BY <1>1, <3>1, CountsStay DEF Fair, Counted, Justified
  <2>2. QED
    BY <2>1 DEF NoFalseLoop, Fair, Counted, Justified
<1>2. ASSUME beat' = beat PROVE BeatsCounted'
  <2>1. ASSUME NEW a \in Agent, beat[a] # NoBeat PROVE Counted(a, beat[a])'
    <3>1. Counted(a, beat[a]) /\ beat[a] \in 0 .. MaxLoops
      BY <2>1, BeatType DEF BeatsCounted
    <3>2. QED
      BY <1>2, <3>1, CountsStay DEF Counted
  <2>2. QED
    BY <1>2, <2>1 DEF BeatsCounted, NoBeat
<1>3. ASSUME sweep' = sweep PROVE ListingsCounted'
  <2>1. ASSUME NEW w \in Watchdog, NEW t \in sweep[w] PROVE Counted(t[1], t[2].loops)'
    <3>1. Counted(t[1], t[2].loops) /\ t[1] \in Agent /\ t[2].loops \in 0 .. MaxLoops
      BY ListingType DEF ListingsCounted
    <3>2. QED
      BY <3>1, CountsStay DEF Counted
  <2>2. QED
    BY <1>3, <2>1 DEF ListingsCounted
<1>4. ASSUME NEW w \in Watchdog, NEW a \in Agent, check'[<<w, a>>] = check[<<w, a>>]
      PROVE  VerdictCounted(w, a)'
  <2>1. check[<<w, a>>].loops \in 0 .. MaxLoops
    BY DEF WatchdogTypeOK, Check
  <2>2. VerdictCounted(w, a)
    BY DEF VerdictsCounted
  <2>3. QED
    BY <1>4, <2>1, <2>2, CountsStay DEF VerdictCounted, Counted, Fair, Justified
<1>5. QED
  BY <1>1, <1>2, <1>3, <1>4

\* updateAgentStatus writes both fields, so it needs a status that is justified.
LEMMA UpdatedFair ==
  ASSUME WatchdogTypeOK, NoFalseLoop, NEW a \in Agent, NEW s \in Status, NEW n \in 0 .. MaxLoops,
         Fair(a, s, n)
  PROVE  \A b \in Agent : Fair(b, Updated(a, s, n)[b].status, Updated(a, s, n)[b].loops)
<1>1. CASE Listed(a)
  <2>1. Updated(a, s, n) =
          [registry EXCEPT ![a] = [[registry[a] EXCEPT !.status = s] EXCEPT !.loops = n]]
    BY <1>1 DEF Updated, WatchdogTypeOK
  <2>2. registry[a] \in Row
    BY <1>1, RowsAreWritten
  <2>3. Updated(a, s, n)[a].status = s /\ Updated(a, s, n)[a].loops = n
    BY <2>1, <2>2 DEF Row, WatchdogTypeOK
  <2>4. \A b \in Agent : b # a => Updated(a, s, n)[b] = registry[b]
    BY <2>1 DEF WatchdogTypeOK
  <2>5. QED
    BY <2>3, <2>4, FairRows
<1>2. CASE ~Listed(a)
  BY <1>2, FairRows DEF Updated
<1>3. QED
  BY <1>1, <1>2

\* Fair rows, beside histories that stay.
LEMMA FairAfter ==
  ASSUME UNCHANGED happened,
         \A b \in Agent : Fair(b, registry'[b].status, registry'[b].loops)
  PROVE  NoFalseLoop'
  BY DEF NoFalseLoop, Fair, Counted, Justified, happened

\* The agents: a heartbeat writes the count together with what it says.
LEMMA AgentStepLoop ==
  ASSUME WatchdogIInv, WatchdogTypeOK', NEW a \in Agent,
         Register(a) \/ ReadBeat(a) \/ WriteBeat(a) \/ LeaveAssertions(a) \/ Grow(a) \/ Leave(a)
  PROVE  CountsStand'
<1> USE DEF WatchdogIInv, CountsStand
<1>1. sweep' = sweep /\ check' = check
  BY DEF Register, ReadBeat, WriteBeat, LeaveAssertions, Grow, Leave
<1>2. CASE ReadBeat(a)
  <2>1. /\ repeats[a] \in 0 .. MaxLoops /\ failures[a] \in 0 .. MaxLoops
        /\ registry[a].loops \in 0 .. MaxLoops
        /\ Counted(a, 0) /\ Counted(a, registry[a].loops)
    BY HistoryTypes, FairRows DEF Fair
  <2>2. \A b \in Agent : repeats[b] <= repeats'[b] /\ failures[b] <= failures'[b]
    <3>1. \A b \in Agent : repeats[b] \in Nat /\ failures[b] \in Nat
      BY WatchdogAssumption DEF WatchdogTypeOK
    <3>2. repeats' = repeats \/ repeats' = [repeats EXCEPT ![a] = Capped(repeats[a] + 1)]
      BY <1>2 DEF ReadBeat
    <3>3. QED
      BY <1>2, <2>1, <3>1, <3>2, WatchdogAssumption DEF ReadBeat, WatchdogTypeOK, Capped
  <2>3. Counted(a, beat[a])'
    <3>1. CASE repeats' = repeats /\ \E n \in {0, registry[a].loops} : beat' = [beat EXCEPT ![a] = n]
      BY <1>2, <2>1, <3>1 DEF ReadBeat, WatchdogTypeOK, Counted
    <3>2. CASE /\ beat' = [beat EXCEPT ![a] = Capped(registry[a].loops + 1)]
               /\ repeats' = [repeats EXCEPT ![a] = Capped(repeats[a] + 1)]
      <4>1. beat'[a] = Capped(registry[a].loops + 1) /\ repeats'[a] = Capped(repeats[a] + 1)
            /\ failures'[a] = failures[a]
        BY <1>2, <3>2 DEF ReadBeat, WatchdogTypeOK
      <4>2. QED
        BY <2>1, <4>1, WatchdogAssumption DEF Counted, Capped
    <3>3. QED
      BY <1>2, <3>1, <3>2 DEF ReadBeat
  <2>4. NoFalseLoop' /\ ListingsCounted' /\ VerdictsCounted'
    BY <1>1, <1>2, <2>2, AllStay DEF ReadBeat, VerdictsCounted
  <2>5. ASSUME NEW b \in Agent, b # a, beat'[b] # NoBeat PROVE Counted(b, beat[b])'
    <3>1. beat'[b] = beat[b] /\ repeats'[b] = repeats[b] /\ failures'[b] = failures[b]
      BY <1>2, <2>5 DEF ReadBeat, WatchdogTypeOK
    <3>2. QED
      BY <2>5, <3>1 DEF BeatsCounted, Counted
  <2>6. QED
    BY <2>3, <2>4, <2>5 DEF BeatsCounted, NoBeat
<1>3. ASSUME UNCHANGED happened PROVE ListingsCounted' /\ VerdictsCounted'
  BY <1>1, <1>3 DEF ListingsCounted, VerdictsCounted, VerdictCounted, happened, Counted, Fair, Justified
<1>4. ASSUME UNCHANGED happened, beat' = beat PROVE BeatsCounted'
  BY <1>4 DEF BeatsCounted, happened, Counted, NoBeat
<1>5. CASE Register(a) \/ Leave(a)
  <2>1. Fair(a, "active", 0) /\ Fair(a, "pruned", 0)
    BY HistoryTypes DEF Fair
  <2>2. \A b \in Agent : b # a => registry'[b] = registry[b]
    BY <1>5 DEF Register, Leave, WatchdogTypeOK
  <2>3. Fair(a, registry'[a].status, registry'[a].loops)
    BY <1>5, <2>1 DEF Register, Leave, WatchdogTypeOK, NoRow
  <2>4. NoFalseLoop'
    BY <1>5, <2>2, <2>3, FairRows, FairAfter DEF Register, Leave
  <2>5. QED
    BY <1>3, <1>4, <1>5, <2>4 DEF Register, Leave
<1>6. CASE WriteBeat(a)
  <2>1. Fair(a, IF beat[a] >= LoopThreshold THEN "looping" ELSE "active", beat[a])
    BY <1>6 DEF WriteBeat, BeatsCounted, Fair, Justified
  <2>2. \A b \in Agent : \/ registry'[b] = registry[b]
                         \/ /\ b = a /\ registry'[b].loops = beat[a]
                            /\ registry'[b].status = IF beat[a] >= LoopThreshold THEN "looping" ELSE "active"
    BY <1>6 DEF WriteBeat, WatchdogTypeOK
  <2>3. \A b \in Agent : Fair(b, registry'[b].status, registry'[b].loops)
    BY <2>1, <2>2, FairRows
  <2>4. NoFalseLoop'
    BY <1>6, <2>3, FairAfter DEF WriteBeat
  <2>5. BeatsCounted'
    BY <1>6 DEF WriteBeat, WatchdogTypeOK, BeatsCounted, happened, Counted, NoBeat
  <2>6. QED
    BY <1>3, <1>6, <2>4, <2>5 DEF WriteBeat
<1>7. CASE LeaveAssertions(a)
  <2>1. NoFalseLoop'
    BY <1>7, FairRows, FairAfter DEF LeaveAssertions
  <2>2. QED
    BY <1>3, <1>4, <1>7, <2>1 DEF LeaveAssertions
<1>8. CASE Grow(a)
  <2>1. registry[a] \in Row /\ registry[a].age \in {"fresh", "stale", "frozen"}
    BY <1>8, RowsAreWritten DEF Grow, Row, Age
  <2>2. PICK age \in Age : registry' = [registry EXCEPT ![a] = [registry[a] EXCEPT !.age = age]]
    BY <1>8, <2>1 DEF Grow, Age, WatchdogTypeOK
  <2>3. /\ [registry[a] EXCEPT !.age = age].status = registry[a].status
        /\ [registry[a] EXCEPT !.age = age].loops = registry[a].loops
    BY <2>1 DEF Row
  <2>4. \A b \in Agent : registry'[b].status = registry[b].status /\ registry'[b].loops = registry[b].loops
    BY <2>2, <2>3 DEF WatchdogTypeOK
  <2>5. NoFalseLoop'
    BY <1>8, <2>4, FairRows, FairAfter DEF Grow
  <2>6. QED
    BY <1>3, <1>4, <1>8, <2>5 DEF Grow
<1>9. QED
  BY <1>2, <1>5, <1>6, <1>7, <1>8

\* The sweep says so only of a row that was listed with the count it writes.
LEMMA NewLoopHasCount ==
  ASSUME NEW w, NEW a, NEW r, "looping" \in NewStatus(w, a, r)
  PROVE  r.loops >= LoopThreshold
<1>1. Silent(r) # "looping"
  BY DEF Silent
<1>2. QED
  BY <1>1 DEF NewStatus

\* A sweep of one agent.
LEMMA SweepStepLoop ==
  ASSUME WatchdogIInv, NEW w \in Watchdog, NEW a \in Agent, SweepStep(w, a) \/ PruneFails(w, a)
  PROVE  CountsStand'
<1> USE DEF WatchdogIInv, CountsStand
<1>1. UNCHANGED happened /\ beat' = beat
  BY DEF SweepStep, Prune, Examine, PruneFails
<1>2. BeatsCounted'
  BY <1>1 DEF BeatsCounted, happened, Counted, NoBeat
<1>3. ListingsCounted'
  <2>1. \A v \in Watchdog : sweep'[v] \subseteq sweep[v]
    <3>1. CASE Prune(w, a)
      BY <3>1 DEF Prune, Rest, WatchdogTypeOK
    <3>2. CASE PruneFails(w, a)
      BY <3>2 DEF PruneFails, Rest, WatchdogTypeOK
    <3>3. CASE Examine(w, a)
      <4>1. PICK t \in sweep[w] : sweep' = Rest(w, a, t[2])
        BY <3>3, Zenon DEF Examine
      <4>2. QED
        BY <4>1 DEF Rest, WatchdogTypeOK
    <3>4. QED
      BY <3>1, <3>2, <3>3 DEF SweepStep
  <2>2. QED
    BY <1>1, <2>1 DEF ListingsCounted, happened, Counted
<1>4. ASSUME check' = check PROVE VerdictsCounted'
  BY <1>1, <1>4 DEF VerdictsCounted, VerdictCounted, happened, Counted, Fair, Justified
<1>5. CASE Prune(w, a) \/ PruneFails(w, a)
  <2>1. registry' \in {registry, [registry EXCEPT ![a] = NoRow]} /\ check' = check
    BY <1>5 DEF Prune, PruneFails
  <2>2. Fair(a, "pruned", 0)
    BY HistoryTypes DEF Fair
  <2>3. \A b \in Agent : Fair(b, registry'[b].status, registry'[b].loops)
    BY <2>1, <2>2, FairRows DEF WatchdogTypeOK, NoRow
  <2>4. QED
    BY <1>1, <1>2, <1>3, <1>4, <2>1, <2>3, FairAfter
<1>6. CASE Examine(w, a)
  <2>0. PICK t \in sweep[w] :
          /\ t[1] = a
          /\ \E new \in NewStatus(w, a, t[2]) :
               /\ registry' \in IF new \in {"none", t[2].status} THEN {registry}
                                ELSE {registry, Updated(a, new, t[2].loops)}
               /\ check' = IF new # "verifying" THEN check
                           ELSE [check EXCEPT ![<<w, a>>] =
                                  [NoCheck EXCEPT !.at = "running", !.loops = t[2].loops]]
    BY <1>6, Zenon DEF Examine
  <2>1. PICK new \in NewStatus(w, a, t[2]) :
          /\ registry' \in IF new \in {"none", t[2].status} THEN {registry}
                           ELSE {registry, Updated(a, new, t[2].loops)}
          /\ check' = IF new # "verifying" THEN check
                      ELSE [check EXCEPT ![<<w, a>>] =
                             [NoCheck EXCEPT !.at = "running", !.loops = t[2].loops]]
    BY <2>0
  <2>2. /\ new \in Status \cup {"none"} /\ t[2].loops \in 0 .. MaxLoops
        /\ Counted(a, t[2].loops)
    BY <2>0, NewStatusIsStatus, ListingType DEF ListingsCounted
  <2>3. Fair(a, new, t[2].loops)
    BY <2>2, NewLoopHasCount DEF Fair, Justified
  <2>4. \A b \in Agent : Fair(b, registry'[b].status, registry'[b].loops)
    BY <2>1, <2>2, <2>3, UpdatedFair, FairRows
  <2>5. NoFalseLoop'
    BY <1>1, <2>4, FairAfter
  <2>6. ASSUME check' = [check EXCEPT ![<<w, a>>] =
                          [NoCheck EXCEPT !.at = "running", !.loops = t[2].loops]]
        PROVE  VerdictsCounted'
    <3>1. ASSUME NEW x \in Watchdog, NEW b \in Agent
          PROVE  VerdictCounted(x, b)'
      <4>1. CASE x = w /\ b = a
        <5>1. check'[<<x, b>>].at = "running" /\ check'[<<x, b>>].loops = t[2].loops
          BY <2>6, <4>1 DEF WatchdogTypeOK, NoCheck
        <5>2. QED
          BY <1>1, <2>2, <4>1, <5>1 DEF VerdictCounted, Counted, happened
      <4>2. CASE ~(x = w /\ b = a)
        <5>1. check'[<<x, b>>] = check[<<x, b>>]
          BY <2>6, <4>2 DEF WatchdogTypeOK
        <5>2. QED
          BY <1>1, <5>1 DEF VerdictsCounted, VerdictCounted, Counted, Fair, Justified, happened
      <4>3. QED
        BY <4>1, <4>2
    <3>2. QED
      BY <3>1 DEF VerdictsCounted
  <2>7. QED
    BY <1>2, <1>3, <1>4, <2>1, <2>5, <2>6
<1>7. QED
  BY <1>5, <1>6 DEF SweepStep

\* A verification says so only with the count it was started with, once it failed.
LEMMA JudgeLoop ==
  ASSUME WatchdogIInv, WatchdogTypeOK', NEW w \in Watchdog, NEW a \in Agent, Judge(w, a)
  PROVE  CountsStand'
<1> USE DEF WatchdogIInv, CountsStand
<1> DEFINE Claim(v) == CASE v = "active" -> 0
                         [] v = "looping" -> check[<<w, a>>].loops
                         [] OTHER -> Capped(check[<<w, a>>].loops + 1)
<1>a. PICK result \in {"passed", "refused", "failed", "unreadable"},
           verdict \in {"active", "looping", "failed_validation"} :
        /\ verdict = "looping" => check[<<w, a>>].loops >= BailOut
        /\ result = "passed" <=> verdict = "active"
        /\ check' = [check EXCEPT ![<<w, a>>] =
                      [at |-> "writing", verdict |-> verdict, loops |-> Claim(verdict)]]
        /\ failures' = IF result = "passed" THEN failures
                       ELSE [failures EXCEPT ![a] = Capped(@ + 1)]
  BY DEF Judge
<1>b. PICK n : n = Claim(verdict)
  OBVIOUS
<1>1. /\ n = CASE verdict = "active" -> 0
                [] verdict = "looping" -> check[<<w, a>>].loops
                [] OTHER -> Capped(check[<<w, a>>].loops + 1)
      /\ verdict = "looping" => check[<<w, a>>].loops >= BailOut
      /\ result = "passed" <=> verdict = "active"
      /\ check' = [check EXCEPT ![<<w, a>>] =
                    [at |-> "writing", verdict |-> verdict, loops |-> n]]
      /\ failures' = IF result = "passed" THEN failures
                     ELSE [failures EXCEPT ![a] = Capped(@ + 1)]
  BY <1>a, <1>b
<1>2. /\ repeats[a] \in 0 .. MaxLoops /\ failures[a] \in 0 .. MaxLoops
      /\ check[<<w, a>>].loops \in 0 .. MaxLoops /\ Counted(a, check[<<w, a>>].loops)
  BY HistoryTypes DEF WatchdogTypeOK, Check, VerdictsCounted, VerdictCounted
<1>3. repeats' = repeats /\ registry' = registry /\ beat' = beat /\ sweep' = sweep
  BY DEF Judge
<1>4. failures'[a] = IF result = "passed" THEN failures[a] ELSE Capped(failures[a] + 1)
  BY <1>1 DEF WatchdogTypeOK
<1>5. \A b \in Agent : repeats[b] <= repeats'[b] /\ failures[b] <= failures'[b]
  <2>1. \A b \in Agent : repeats[b] \in Nat /\ failures[b] \in Nat
    BY WatchdogAssumption DEF WatchdogTypeOK
  <2>2. \A b \in Agent : b # a => failures'[b] = failures[b]
    BY <1>1 DEF WatchdogTypeOK
  <2>3. QED
    BY <1>2, <1>3, <1>4, <2>1, <2>2, WatchdogAssumption DEF Capped
<1>6. Fair(a, verdict, n)'
  <2>1. CASE verdict = "active"
    BY <1>1, <1>2, <1>3, <1>4, <2>1, WatchdogAssumption DEF Fair, Counted
  <2>2. CASE verdict = "looping"
    BY <1>1, <1>2, <1>3, <1>4, <2>2, WatchdogAssumption DEF Fair, Counted, Justified, Capped
  <2>3. CASE verdict = "failed_validation"
    BY <1>1, <1>2, <1>3, <1>4, <2>3, WatchdogAssumption DEF Fair, Counted, Capped
  <2>4. QED
    BY <1>a, <2>1, <2>2, <2>3
<1>7. ASSUME NEW x \in Watchdog, NEW b \in Agent
      PROVE  VerdictCounted(x, b)'
  <2>1. CASE x = w /\ b = a
    <3>1. check'[<<x, b>>].verdict = verdict /\ check'[<<x, b>>].loops = n
      BY <1>1, <2>1 DEF WatchdogTypeOK
    <3>2. QED
      BY <1>6, <2>1, <3>1 DEF VerdictCounted, Fair, Counted, Justified
  <2>2. CASE ~(x = w /\ b = a)
    <3>1. check'[<<x, b>>] = check[<<x, b>>]
      BY <1>1, <2>2 DEF WatchdogTypeOK
    <3>2. QED
      BY <1>5, <3>1, AllStay
  <2>3. QED
    BY <2>1, <2>2
<1>8. VerdictsCounted'
  BY <1>7 DEF VerdictsCounted
<1>9. QED
  BY <1>3, <1>5, <1>8, AllStay

\* Verifications that are as they were, or forgotten, claim no more than before.
LEMMA VerdictsStay ==
  ASSUME WatchdogIInv, UNCHANGED happened,
         \A x \in Watchdog, b \in Agent : check'[<<x, b>>] \in {check[<<x, b>>], NoCheck}
  PROVE  VerdictsCounted'
<1> SUFFICES ASSUME NEW x \in Watchdog, NEW b \in Agent PROVE VerdictCounted(x, b)'
  BY DEF VerdictsCounted
<1>1. CASE check'[<<x, b>>] = check[<<x, b>>]
  BY <1>1 DEF WatchdogIInv, CountsStand, VerdictsCounted, VerdictCounted, Counted, Fair, Justified, happened
<1>2. CASE check'[<<x, b>>] = NoCheck
  <2>1. Counted(b, 0)
    BY HistoryTypes DEF WatchdogIInv
  <2>2. QED
    BY <1>2, <2>1 DEF VerdictCounted, NoCheck, Counted, happened
<1>3. QED
  BY <1>1, <1>2

\* The verdict is written as it was found.
LEMMA VerdictLoop ==
  ASSUME WatchdogIInv, NEW w \in Watchdog, NEW a \in Agent, WriteVerdict(w, a)
  PROVE  CountsStand'
<1> USE DEF WatchdogIInv, CountsStand
<1>1. UNCHANGED happened /\ beat' = beat /\ sweep' = sweep
  BY DEF WriteVerdict
<1>2. BeatsCounted' /\ ListingsCounted'
  BY <1>1 DEF BeatsCounted, ListingsCounted, happened, Counted, NoBeat
<1>3. /\ check[<<w, a>>].verdict \in Status /\ check[<<w, a>>].loops \in 0 .. MaxLoops
      /\ Fair(a, check[<<w, a>>].verdict, check[<<w, a>>].loops)
  BY DEF WriteVerdict, WatchdogTypeOK, Check, VerdictsCounted, VerdictCounted
<1>4. \A b \in Agent : Fair(b, registry'[b].status, registry'[b].loops)
  BY <1>3, UpdatedFair, FairRows DEF WriteVerdict
<1>5. NoFalseLoop'
  BY <1>1, <1>4, FairAfter
<1>6. ASSUME NEW x \in Watchdog, NEW b \in Agent PROVE check'[<<x, b>>] \in {check[<<x, b>>], NoCheck}
  BY DEF WriteVerdict, WatchdogTypeOK
<1>7. VerdictsCounted'
  BY <1>1, <1>6, VerdictsStay
<1>8. QED
  BY <1>2, <1>5, <1>7

\* A listing copies counts that stand, and a crash only forgets some.
LEMMA WatchdogStepLoop ==
  ASSUME WatchdogIInv, NEW w \in Watchdog, ListAgents(w) \/ CrashWatchdog(w)
  PROVE  CountsStand'
<1> USE DEF WatchdogIInv, CountsStand
<1>1. UNCHANGED happened /\ registry' = registry /\ beat' = beat
  BY DEF ListAgents, CrashWatchdog
<1>2. NoFalseLoop' /\ BeatsCounted'
  BY <1>1, FairRows, FairAfter DEF BeatsCounted, happened, Counted, NoBeat
<1>3. ASSUME NEW v \in Watchdog, NEW t \in sweep'[v] PROVE Counted(t[1], t[2].loops)
  <2>1. t \in sweep[v] \/ \E b \in Agent : t = <<b, registry[b]>>
    BY <1>3 DEF ListAgents, CrashWatchdog, WatchdogTypeOK
  <2>2. QED
    BY <2>1, FairRows DEF ListingsCounted, Fair
<1>4. ASSUME NEW x \in Watchdog, NEW b \in Agent PROVE check'[<<x, b>>] \in {check[<<x, b>>], NoCheck}
  BY DEF ListAgents, CrashWatchdog, WatchdogTypeOK
<1>5. VerdictsCounted'
  BY <1>1, <1>4, VerdictsStay
<1>6. QED
  BY <1>1, <1>2, <1>3, <1>5 DEF ListingsCounted, happened, Counted

\* heartbeatAgent, the sweep and the detached verifications: whichever write
\* comes last, an agent is called looping only beside a count that reached
\* loopThreshold, or the bail-out after a failure; and no count is higher than
\* the repetitions and the failures of the agent together.
THEOREM LoopsAreCounted == WatchdogSpec => []NoFalseLoop
<1>1. WatchdogInit => WatchdogTypeOK
  BY LoopCounts DEF WatchdogInit, WatchdogTypeOK, NoCheck, Check, Status
<1>2. WatchdogInit => CountsStand
  BY LoopCounts, WatchdogAssumption
  DEF WatchdogInit, CountsStand, NoFalseLoop, BeatsCounted, ListingsCounted, VerdictsCounted,
      VerdictCounted, Counted, NoRow, NoCheck
<1>3. WatchdogIInv /\ [WatchdogNext]_watchdogVars => WatchdogIInv'
  <2> SUFFICES ASSUME WatchdogIInv, [WatchdogNext]_watchdogVars PROVE WatchdogIInv'
    OBVIOUS
  <2>1. WatchdogTypeOK'
    BY WatchdogTypeStep DEF WatchdogIInv
  <2>2. CASE WatchdogNext
    BY <2>1, <2>2, AgentStepLoop, SweepStepLoop, JudgeLoop, VerdictLoop, WatchdogStepLoop
       DEF WatchdogNext, WatchdogIInv
  <2>3. CASE UNCHANGED watchdogVars
    BY <2>1, <2>3 DEF watchdogVars, happened, WatchdogIInv, CountsStand, NoFalseLoop, BeatsCounted,
                      ListingsCounted, VerdictsCounted, VerdictCounted, Counted, Fair, Justified, NoBeat
  <2>4. QED
    BY <2>2, <2>3
<1>4. WatchdogIInv => NoFalseLoop
  BY DEF WatchdogIInv, CountsStand
<1>5. QED
  BY <1>1, <1>2, <1>3, <1>4, PTL DEF WatchdogSpec, WatchdogIInv

-----------------------------------------------------------------------------
(* LedgerCompaction: the invariant.                                        *)

\* A call that archives has saved the rollup of what it archives.
BatchCovered ==
  \A c \in Compactor : compaction[c].pc = "archive" =>
    \E r \in Rollup : row[r] # "none" /\ compaction[c].batch \subseteq covers[r]

\* A call that nobody disturbed still finds what it counted.
CountStands ==
  \A c \in Compactor :
    compaction[c].pc = "fetch" /\ compaction[c].alone => Cardinality(Active) >= compaction[c].count

LedgerIInv == LedgerTypeOK /\ ArchivedIsCovered /\ BatchCovered /\ CountStands

-----------------------------------------------------------------------------
(* LedgerCompaction: types.                                                *)

\* Sets of entries are finite, and their parts are no larger.
LEMMA ActiveFinite ==
  ASSUME NEW S \in SUBSET Entry
  PROVE  /\ IsFiniteSet(S) /\ Cardinality(S) \in Nat
         /\ \A T \in SUBSET S : /\ IsFiniteSet(T) /\ Cardinality(T) \in Nat
                                /\ Cardinality(T) <= Cardinality(S)
  BY FS_Subset, FS_CardinalityType, LedgerAssumption

\* A call with another batch is a call.
LEMMA MarkBatch ==
  ASSUME NEW m \in Compaction, NEW T \in SUBSET Entry
  PROVE  [m EXCEPT !.batch = T] \in Compaction
  BY DEF Compaction

\* The fields of a call.
LEMMA CompactionFields ==
  ASSUME NEW m \in Compaction
  PROVE  /\ m.pc \in {"idle", "fetch", "save", "archive"} /\ m.keep \in Nat
         /\ m.keep \in Keep \cup {0} /\ m.count \in Nat
         /\ m.batch \in SUBSET Entry /\ m.alone \in BOOLEAN
<1>1. Keep \cup {0} \subseteq Nat
  BY LedgerAssumption
<1>2. QED
  BY <1>1 DEF Compaction

\* No call is a call.
LEMMA NoCompactionType == NoCompaction \in Compaction
  BY DEF NoCompaction, Compaction

\* Taking an entry away leaves calls that are calls, where they are; it stands
\* for itself in those that have counted and not yet fetched.
LEMMA DisturbedType ==
  ASSUME LedgerTypeOK
  PROVE  /\ Disturbed \in [Compactor -> Compaction]
         /\ \A d \in Compactor : /\ Disturbed[d].pc = compaction[d].pc
                                 /\ Disturbed[d].batch = compaction[d].batch
                                 /\ Disturbed[d].alone = (compaction[d].pc # "fetch")
<1>1. ASSUME NEW d \in Compactor
      PROVE  /\ compaction[d] \in Compaction
             /\ Disturbed[d] = [compaction[d] EXCEPT !.alone = compaction[d].pc # "fetch"]
             /\ (compaction[d].pc # "fetch") \in BOOLEAN
  BY DEF Disturbed, LedgerTypeOK
<1>2. ASSUME NEW d \in Compactor
      PROVE  /\ Disturbed[d] \in Compaction
             /\ Disturbed[d].pc = compaction[d].pc
             /\ Disturbed[d].batch = compaction[d].batch
             /\ Disturbed[d].alone = (compaction[d].pc # "fetch")
  BY <1>1 DEF Compaction
<1>3. QED
  BY <1>2 DEF Disturbed

\* What is fetched is active.
LEMMA FetchedActive == ASSUME NEW c PROVE Fetched(c) \in SUBSET Active
  BY DEF Fetched, LeastUsed

\* The initial state has its types.
LEMMA LedgerTypeInit == LedgerInit => LedgerTypeOK
  BY LedgerAssumption DEF LedgerInit, LedgerTypeOK, NoCompaction, Compaction

\* And every step keeps them.
LEMMA LedgerTypeNext == LedgerTypeOK /\ [LedgerNext]_ledgerVars => LedgerTypeOK'
<1> SUFFICES ASSUME LedgerTypeOK, [LedgerNext]_ledgerVars PROVE LedgerTypeOK'
  OBVIOUS
<1> USE LedgerAssumption DEF LedgerTypeOK
<1>1. ASSUME NEW e \in Entry, SaveEntry(e) PROVE LedgerTypeOK'
  BY <1>1 DEF SaveEntry
<1>2. ASSUME NEW e \in Entry, ForgetEntry(e) PROVE LedgerTypeOK'
  BY <1>2 DEF ForgetEntry, Take
<1>3. ASSUME NEW i \in Entry \cup Rollup, EraseRow(i) PROVE LedgerTypeOK'
  BY <1>3, DisturbedType DEF EraseRow, Take
<1>4. CASE ExpireByTTL
  BY <1>4, DisturbedType DEF ExpireByTTL, Take
<1>5. ASSUME NEW c \in Compactor, CountEntries(c) PROVE LedgerTypeOK'
  <2>1. Active \in SUBSET Entry /\ Active \ forgotten \in SUBSET Entry
    BY DEF Active
  <2>2. Cardinality(Active) \in Nat /\ Cardinality(Active \ forgotten) \in Nat
    BY <2>1, ActiveFinite
  <2>3. PICK keep \in Keep, n \in Nat :
          compaction' = [compaction EXCEPT ![c] =
                          [NoCompaction EXCEPT !.pc = "fetch", !.keep = keep, !.count = n]]
    BY <1>5, <2>2 DEF CountEntries
  <2>4. [NoCompaction EXCEPT !.pc = "fetch", !.keep = keep, !.count = n] \in Compaction
    BY DEF NoCompaction, Compaction
  <2>5. QED
    BY <1>5, <2>3, <2>4 DEF CountEntries
<1>6. ASSUME NEW c \in Compactor, FetchOldest(c) PROVE LedgerTypeOK'
  <2>1. Fetched(c) \in SUBSET Entry
    BY FetchedActive DEF Active
  <2>2. [NoCompaction EXCEPT !.pc = "save", !.batch = Fetched(c)] \in Compaction
    BY <2>1 DEF NoCompaction, Compaction
  <2>3. QED
    BY <1>6, <2>2, NoCompactionType DEF FetchOldest
<1>7. ASSUME NEW c \in Compactor, SaveRollup(c) PROVE LedgerTypeOK'
  BY <1>7 DEF SaveRollup, Compaction
<1>8. ASSUME NEW c \in Compactor, ArchiveEntry(c) PROVE LedgerTypeOK'
  <2>1. PICK e \in compaction[c].batch :
          /\ row' = IF row[e] = "erased" THEN row ELSE [row EXCEPT ![e] = "rolled"]
          /\ compaction' = [Disturbed EXCEPT ![c].batch = @ \ {e}]
    BY <1>8 DEF ArchiveEntry
  <2>2. [Disturbed[c] EXCEPT !.batch = @ \ {e}] \in Compaction
    <3>1. Disturbed[c] \in Compaction /\ Disturbed[c].batch \ {e} \in SUBSET Entry
      BY DisturbedType, CompactionFields
    <3>2. QED
      BY <3>1, MarkBatch
  <2>3. compaction' \in [Compactor -> Compaction]
    BY <2>1, <2>2, DisturbedType
  <2>4. QED
    BY <1>8, <2>1, <2>3 DEF ArchiveEntry
<1>9. ASSUME NEW c \in Compactor, EndCompaction(c) \/ AbortCompaction(c) PROVE LedgerTypeOK'
  BY <1>9, NoCompactionType DEF EndCompaction, AbortCompaction
<1>10. CASE UseEntries
  BY <1>10 DEF UseEntries
<1>11. CASE UNCHANGED ledgerVars
  BY <1>11 DEF ledgerVars
<1>12. QED
  BY <1>1, <1>2, <1>3, <1>4, <1>5, <1>6, <1>7, <1>8, <1>9, <1>10, <1>11 DEF LedgerNext

\* Type correctness of every reachable state.
THEOREM LedgerTypeCorrect == LedgerSpec => []LedgerTypeOK
  BY LedgerTypeInit, LedgerTypeNext, PTL DEF LedgerSpec

-----------------------------------------------------------------------------
(* LedgerCompaction: archived entries are covered.                         *)

\* A rollup that was saved stays saved, with what it covers: only a row that is
\* free becomes a rollup.
LEMMA RollupStays ==
  ASSUME LedgerTypeOK, LedgerNext, NEW r \in Rollup, row[r] # "none"
  PROVE  row'[r] # "none" /\ covers'[r] = covers[r]
<1> USE LedgerAssumption DEF LedgerTypeOK
<1>1. ASSUME NEW c \in Compactor, SaveRollup(c) PROVE row'[r] # "none" /\ covers'[r] = covers[r]
  BY <1>1 DEF SaveRollup, Fresh
<1>2. ASSUME NEW c \in Compactor, ArchiveEntry(c) PROVE row'[r] # "none" /\ covers'[r] = covers[r]
  BY <1>2 DEF ArchiveEntry
<1>3. ASSUME NEW e \in Entry, SaveEntry(e) \/ ForgetEntry(e)
      PROVE  row'[r] # "none" /\ covers'[r] = covers[r]
  BY <1>3 DEF SaveEntry, ForgetEntry
<1>4. ASSUME NEW i \in Entry \cup Rollup, EraseRow(i)
      PROVE  row'[r] # "none" /\ covers'[r] = covers[r]
  BY <1>4 DEF EraseRow
<1>5. CASE ExpireByTTL \/ UseEntries
  BY <1>5 DEF ExpireByTTL, UseEntries
<1>6. ASSUME NEW c \in Compactor,
             CountEntries(c) \/ FetchOldest(c) \/ EndCompaction(c) \/ AbortCompaction(c)
      PROVE  row'[r] # "none" /\ covers'[r] = covers[r]
  BY <1>6 DEF CountEntries, FetchOldest, EndCompaction, AbortCompaction
<1>7. QED
  BY <1>1, <1>2, <1>3, <1>4, <1>5, <1>6 DEF LedgerNext

\* Who archives was saving just before, or archived already, and the batch only
\* shrinks.
LEMMA BatchNext ==
  ASSUME LedgerTypeOK, LedgerNext, NEW c \in Compactor, compaction'[c].pc = "archive"
  PROVE  \/ compaction[c].pc = "archive" /\ compaction'[c].batch \subseteq compaction[c].batch
         \/ SaveRollup(c)
<1> USE DEF LedgerTypeOK
<1>1. ASSUME NEW d \in Compactor, ArchiveEntry(d)
      PROVE  compaction[c].pc = "archive" /\ compaction'[c].batch \subseteq compaction[c].batch
  <2>1. PICK e \in compaction[d].batch : compaction' = [Disturbed EXCEPT ![d].batch = @ \ {e}]
    BY <1>1 DEF ArchiveEntry
  <2>2. Disturbed \in [Compactor -> Compaction]
    BY DisturbedType
  <2>3. compaction'[c].pc = Disturbed[c].pc /\ compaction'[c].batch \subseteq Disturbed[c].batch
    BY <2>1, <2>2 DEF Compaction
  <2>4. QED
    BY <2>3, DisturbedType
<1>2. ASSUME NEW i \in Entry \cup Rollup, EraseRow(i)
      PROVE  compaction[c].pc = "archive" /\ compaction'[c].batch = compaction[c].batch
  BY <1>2, DisturbedType DEF EraseRow
<1>3. ASSUME ExpireByTTL
      PROVE  compaction[c].pc = "archive" /\ compaction'[c].batch = compaction[c].batch
  BY <1>3, DisturbedType DEF ExpireByTTL
<1>4. ASSUME UseEntries \/ \E e \in Entry : SaveEntry(e) \/ ForgetEntry(e)
      PROVE  compaction'[c] = compaction[c]
  BY <1>4 DEF UseEntries, SaveEntry, ForgetEntry
<1>5. ASSUME NEW d \in Compactor,
             CountEntries(d) \/ FetchOldest(d) \/ EndCompaction(d) \/ AbortCompaction(d)
      PROVE  compaction'[c] = compaction[c]
  <2>1. CASE d # c
    BY <1>5, <2>1 DEF CountEntries, FetchOldest, EndCompaction, AbortCompaction
  <2>2. CASE d = c
    <3>1. CASE CountEntries(c)
      BY <3>1 DEF CountEntries, NoCompaction
    <3>2. CASE FetchOldest(c)
      BY <3>2 DEF FetchOldest, NoCompaction, Compaction
    <3>3. CASE EndCompaction(c) \/ AbortCompaction(c)
      BY <3>3 DEF EndCompaction, AbortCompaction, NoCompaction
    <3>4. QED
      BY <1>5, <2>2, <3>1, <3>2, <3>3
  <2>3. QED
    BY <2>1, <2>2
<1>6. ASSUME NEW d \in Compactor, SaveRollup(d), d # c
      PROVE  compaction'[c] = compaction[c]
  BY <1>6 DEF SaveRollup
<1>7. QED
  BY <1>1, <1>2, <1>3, <1>4, <1>5, <1>6 DEF LedgerNext

\* A call that archives still has the rollup of what it archives.
LEMMA BatchCoveredNext ==
  ASSUME LedgerTypeOK, BatchCovered, LedgerNext
  PROVE  BatchCovered'
<1> SUFFICES ASSUME NEW c \in Compactor, compaction'[c].pc = "archive"
             PROVE  \E r \in Rollup : row'[r] # "none" /\ compaction'[c].batch \subseteq covers'[r]
  BY DEF BatchCovered
<1>1. CASE compaction[c].pc = "archive" /\ compaction'[c].batch \subseteq compaction[c].batch
  <2>1. PICK r \in Rollup : row[r] # "none" /\ compaction[c].batch \subseteq covers[r]
    BY <1>1 DEF BatchCovered
  <2>2. QED
    BY <1>1, <2>1, RollupStays
<1>2. CASE SaveRollup(c)
  BY <1>2, LedgerAssumption DEF SaveRollup, LedgerTypeOK, Compaction
<1>3. QED
  BY <1>1, <1>2, BatchNext

\* Only compaction archives into a rollup, and only what is in its batch.
LEMMA RolledNext ==
  ASSUME LedgerTypeOK, LedgerNext, NEW e \in Entry, row'[e] = "rolled"
  PROVE  \/ row[e] = "rolled"
         \/ \E c \in Compactor : compaction[c].pc = "archive" /\ e \in compaction[c].batch
<1> USE LedgerAssumption DEF LedgerTypeOK
<1>1. ASSUME NEW c \in Compactor, ArchiveEntry(c), row[e] # "rolled"
      PROVE  compaction[c].pc = "archive" /\ e \in compaction[c].batch
  BY <1>1 DEF ArchiveEntry
<1>2. ASSUME NEW c \in Compactor, SaveRollup(c) PROVE row[e] = "rolled"
  BY <1>2 DEF SaveRollup
<1>3. ASSUME NEW d \in Entry, SaveEntry(d) \/ ForgetEntry(d) PROVE row[e] = "rolled"
  BY <1>3 DEF SaveEntry, ForgetEntry
<1>4. ASSUME NEW i \in Entry \cup Rollup, EraseRow(i) PROVE row[e] = "rolled"
  BY <1>4 DEF EraseRow
<1>5. ASSUME ExpireByTTL \/ UseEntries PROVE row[e] = "rolled"
  BY <1>5 DEF ExpireByTTL, UseEntries
<1>6. ASSUME NEW c \in Compactor,
             CountEntries(c) \/ FetchOldest(c) \/ EndCompaction(c) \/ AbortCompaction(c)
      PROVE  row[e] = "rolled"
  BY <1>6 DEF CountEntries, FetchOldest, EndCompaction, AbortCompaction
<1>7. QED
  BY <1>1, <1>2, <1>3, <1>4, <1>5, <1>6 DEF LedgerNext

\* An entry becomes rolled only out of a batch that is covered.
LEMMA CoveredNext ==
  ASSUME LedgerTypeOK, BatchCovered, ArchivedIsCovered, LedgerNext
  PROVE  ArchivedIsCovered'
<1> SUFFICES ASSUME NEW e \in Entry, row'[e] = "rolled"
             PROVE  \E r \in Rollup : row'[r] # "none" /\ e \in covers'[r]
  BY DEF ArchivedIsCovered
<1>1. PICK r \in Rollup : row[r] # "none" /\ e \in covers[r]
  BY RolledNext DEF BatchCovered, ArchivedIsCovered
<1>2. QED
  BY <1>1, RollupStays

-----------------------------------------------------------------------------
(* LedgerCompaction: what is kept.                                         *)

\* A call that has counted, not yet fetched, and from which nobody took an entry.
Counting(c) == compaction[c].pc = "fetch" /\ compaction[c].alone

\* A step by which nobody takes an entry away from c.
Apart(c) ==
  /\ compaction'[c] = compaction[c]
  /\ Active \subseteq Active'

\* After any step c is no such call, unless the step left it apart or was its count.
LEMMA StepKinds ==
  ASSUME LedgerTypeOK, LedgerNext, NEW c \in Compactor
  PROVE  Apart(c) \/ ~Counting(c)' \/ CountEntries(c)
<1> USE LedgerAssumption DEF LedgerTypeOK, Apart, Counting
<1>1. ASSUME NEW e \in Entry, SaveEntry(e) \/ ForgetEntry(e) PROVE Apart(c)
  BY <1>1 DEF SaveEntry, ForgetEntry, Active, Fresh
<1>2. ASSUME NEW i \in Entry \cup Rollup, EraseRow(i) PROVE Apart(c) \/ ~Counting(c)'
  <2>1. CASE i \in Entry
    BY <1>2, <2>1, DisturbedType DEF EraseRow
  <2>2. CASE i \notin Entry
    BY <1>2, <2>2 DEF EraseRow, Active
  <2>3. QED
    BY <2>1, <2>2
<1>3. CASE ExpireByTTL
  BY <1>3, DisturbedType DEF ExpireByTTL
<1>4. ASSUME NEW d \in Compactor, ArchiveEntry(d) PROVE ~Counting(c)'
  <2>1. PICK e \in compaction[d].batch : compaction' = [Disturbed EXCEPT ![d].batch = @ \ {e}]
    BY <1>4 DEF ArchiveEntry
  <2>2. Disturbed \in [Compactor -> Compaction]
    BY DisturbedType
  <2>3. compaction'[c].pc = Disturbed[c].pc /\ compaction'[c].alone = Disturbed[c].alone
    BY <2>1, <2>2 DEF Compaction
  <2>4. QED
    BY <2>3, DisturbedType
<1>5. ASSUME NEW d \in Compactor, d # c,
             \/ CountEntries(d) \/ FetchOldest(d) \/ SaveRollup(d)
             \/ EndCompaction(d) \/ AbortCompaction(d)
      PROVE  Apart(c)
  BY <1>5 DEF CountEntries, FetchOldest, SaveRollup, EndCompaction, AbortCompaction, Active
<1>6. ASSUME FetchOldest(c) \/ SaveRollup(c) PROVE ~Counting(c)'
  <2>1. CASE SaveRollup(c)
    BY <2>1 DEF SaveRollup, Compaction
  <2>2. CASE FetchOldest(c)
    <3>1. compaction'[c] \in {NoCompaction, [NoCompaction EXCEPT !.pc = "save", !.batch = Fetched(c)]}
      BY <2>2 DEF FetchOldest
    <3>2. NoCompaction.pc = "idle" /\ [NoCompaction EXCEPT !.pc = "save", !.batch = Fetched(c)].pc = "save"
      BY DEF NoCompaction
    <3>3. QED
      BY <3>1, <3>2
  <2>3. QED
    BY <1>6, <2>1, <2>2
<1>7. ASSUME EndCompaction(c) \/ AbortCompaction(c) PROVE ~Counting(c)'
  BY <1>7 DEF EndCompaction, AbortCompaction, NoCompaction
<1>8. ASSUME UseEntries PROVE Apart(c)
  BY <1>8 DEF UseEntries, Active
<1>9. QED
  BY <1>1, <1>2, <1>3, <1>4, <1>5, <1>6, <1>7, <1>8 DEF LedgerNext

\* The active rows are entries, before a step and after it.
LEMMA ActiveOfEntries ==
  ASSUME LedgerTypeOK, LedgerTypeOK'
  PROVE  Active \in SUBSET Entry /\ Active' \in SUBSET Entry
  BY DEF Active

\* Whoever takes an entry away marks the calls that have counted it.
LEMMA CountStandsNext ==
  ASSUME LedgerIInv, LedgerTypeOK', LedgerNext
  PROVE  CountStands'
<1> SUFFICES ASSUME NEW c \in Compactor, Counting(c)'
             PROVE  Cardinality(Active') >= compaction'[c].count
  BY DEF CountStands, Counting
<1>1. LedgerTypeOK /\ Active \in SUBSET Entry /\ Active' \in SUBSET Entry
  BY ActiveOfEntries DEF LedgerIInv
<1>2. CASE Apart(c)
  <2>1. Cardinality(Active) >= compaction[c].count /\ Cardinality(Active') >= Cardinality(Active)
    BY <1>1, <1>2, ActiveFinite DEF Apart, Counting, LedgerIInv, CountStands
  <2>2. QED
    BY <1>1, <1>2, <2>1, ActiveFinite DEF Apart, LedgerTypeOK, Compaction
<1>3. CASE CountEntries(c)
  <2>1. PICK counted \in {Active, Active \ forgotten} : compaction'[c].count = Cardinality(counted)
    BY <1>1, <1>3 DEF CountEntries, NoCompaction, LedgerTypeOK
  <2>2. Cardinality(Active') = Cardinality(Active)
    BY <1>3 DEF CountEntries, Active
  <2>3. QED
    BY <1>1, <2>1, <2>2, ActiveFinite
<1>4. QED
  BY <1>1, <1>2, <1>3, StepKinds

\* Who goes from the fetch to the save has fetched.
LEMMA FetchesFetch ==
  ASSUME LedgerTypeOK, LedgerNext, NEW c \in Compactor, Fetches(c)
  PROVE  FetchOldest(c)
<1> USE DEF LedgerTypeOK, Fetches
<1>1. ASSUME NEW d \in Compactor, ArchiveEntry(d) PROVE FALSE
  <2>1. PICK e \in compaction[d].batch : compaction' = [Disturbed EXCEPT ![d].batch = @ \ {e}]
    BY <1>1 DEF ArchiveEntry
  <2>2. Disturbed \in [Compactor -> Compaction]
    BY DisturbedType
  <2>3. compaction'[c].pc = Disturbed[c].pc
    BY <2>1, <2>2 DEF Compaction
  <2>4. QED
    BY <2>3, DisturbedType
<1>2. ASSUME NEW i \in Entry \cup Rollup, EraseRow(i) PROVE FALSE
  BY <1>2, DisturbedType DEF EraseRow
<1>3. CASE ExpireByTTL
  BY <1>3, DisturbedType DEF ExpireByTTL
<1>4. CASE UseEntries \/ \E e \in Entry : SaveEntry(e) \/ ForgetEntry(e)
  BY <1>4 DEF UseEntries, SaveEntry, ForgetEntry
<1>5. ASSUME NEW d \in Compactor,
             CountEntries(d) \/ SaveRollup(d) \/ EndCompaction(d) \/ AbortCompaction(d)
      PROVE  FALSE
  <2>1. CASE d # c
    BY <1>5, <2>1 DEF CountEntries, SaveRollup, EndCompaction, AbortCompaction
  <2>2. CASE d = c
    <3>1. ~CountEntries(c) /\ ~SaveRollup(c)
      BY DEF CountEntries, SaveRollup
    <3>2. ~EndCompaction(c) /\ ~AbortCompaction(c)
      BY DEF EndCompaction, AbortCompaction, NoCompaction
    <3>3. QED
      BY <1>5, <2>2, <3>1, <3>2
  <2>3. QED
    BY <2>1, <2>2
<1>6. ASSUME NEW d \in Compactor, FetchOldest(d) PROVE d = c
  BY <1>6 DEF FetchOldest
<1>7. QED
  BY <1>1, <1>2, <1>3, <1>4, <1>5, <1>6 DEF LedgerNext

\* An active entry has the others before it or after it.
LEMMA NeighboursAreAll ==
  ASSUME LedgerTypeOK, NEW e \in Active
  PROVE  Cardinality(Active) <= Cardinality({f \in Active : UsedBefore(f, e)})
                                + Cardinality({f \in Active : UsedBefore(e, f)}) + 1
<1> DEFINE B == {f \in Active : UsedBefore(f, e)}
           A == {f \in Active : UsedBefore(e, f)}
<1>1. Active \in SUBSET Entry /\ B \in SUBSET Entry /\ A \in SUBSET Entry
      /\ {e} \in SUBSET Entry /\ B \cup A \in SUBSET Entry /\ (B \cup A) \cup {e} \in SUBSET Entry
      /\ B \cap A \in SUBSET Entry /\ (B \cup A) \cap {e} \in SUBSET Entry
  BY DEF Active
<1>2. Active = (B \cup A) \cup {e}
  <2>1. ASSUME NEW f \in Active, f # e PROVE UsedBefore(f, e) \/ UsedBefore(e, f)
    <3>1. e \in Nat /\ f \in Nat /\ used[e] \in Nat /\ used[f] \in Nat
      BY LedgerAssumption DEF Active, LedgerTypeOK
    <3>2. QED
      BY <2>1, <3>1 DEF UsedBefore
  <2>2. QED
    BY <2>1
<1> HIDE DEF B, A
<1>3. /\ IsFiniteSet(B) /\ IsFiniteSet(A) /\ IsFiniteSet({e}) /\ IsFiniteSet(B \cup A)
      /\ Cardinality(B) \in Nat /\ Cardinality(A) \in Nat /\ Cardinality(B \cup A) \in Nat
      /\ Cardinality(B \cap A) \in Nat /\ Cardinality((B \cup A) \cap {e}) \in Nat
  BY <1>1, ActiveFinite
<1>4. Cardinality(B \cup A) = Cardinality(B) + Cardinality(A) - Cardinality(B \cap A)
  BY <1>3, FS_Union
<1>5. Cardinality((B \cup A) \cup {e})
        = Cardinality(B \cup A) + Cardinality({e}) - Cardinality((B \cup A) \cap {e})
  BY <1>3, FS_Union
<1>6. Cardinality({e}) = 1
  BY FS_Singleton
<1>7. Cardinality((B \cup A) \cup {e}) <= Cardinality(B) + Cardinality(A) + 1
  BY <1>3, <1>4, <1>5, <1>6
<1>8. Cardinality(Active) <= Cardinality(B) + Cardinality(A) + 1
  BY <1>2, <1>7
<1>9. QED
  BY <1>8 DEF B, A

\* The limit leaves room for what is to be kept.
LEMMA FetchSpares ==
  ASSUME LedgerIInv, NEW c \in Compactor, FetchOldest(c), compaction'[c].pc = "save",
         compaction[c].alone
  PROVE  LET m == compaction[c] IN
         /\ m.keep < m.count  => compaction'[c].batch \cap LastUsed(m.keep) = {}
         /\ m.keep >= m.count => compaction'[c].batch = Active
<1> DEFINE m == compaction[c]
<1>1. m.pc = "fetch" /\ compaction'[c].batch = Fetched(c)
  BY DEF LedgerIInv, LedgerTypeOK, Compaction, NoCompaction, FetchOldest
<1>2. /\ Cardinality(Active) \in Nat /\ m.keep \in Nat /\ m.count \in Nat
      /\ MaxEntries \in Nat \ {0} /\ Cardinality(Active) >= m.count
  <2>1. m \in Compaction /\ Active \in SUBSET Entry
    BY DEF LedgerIInv, LedgerTypeOK, Active
  <2>2. Cardinality(Active) >= m.count
    BY <1>1 DEF LedgerIInv, CountStands
  <2>3. QED
    BY <2>1, <2>2, ActiveFinite, CompactionFields, LedgerAssumption
<1>3. CASE m.keep >= m.count
  <2>1. ToCompact(c) <= 0
    BY <1>2, <1>3 DEF ToCompact
  <2>2. QED
    BY <1>1, <1>2, <1>3, <2>1 DEF Fetched
<1>4. CASE m.keep < m.count
  <2>1. ToCompact(c) \in Nat \ {0} /\ ToCompact(c) <= m.count - m.keep
    BY <1>2, <1>4 DEF ToCompact
  <2>2. Fetched(c) = LeastUsed(ToCompact(c))
    BY <2>1 DEF Fetched
  <2>3. ASSUME NEW e \in Active, e \in LeastUsed(ToCompact(c)), e \in LastUsed(m.keep)
        PROVE  FALSE
    <3>1. /\ Cardinality({f \in Active : UsedBefore(f, e)}) < ToCompact(c)
          /\ Cardinality({f \in Active : UsedBefore(e, f)}) < m.keep
      BY <2>3 DEF LeastUsed, LastUsed
    <3>2. /\ {f \in Active : UsedBefore(f, e)} \in SUBSET Entry
          /\ {f \in Active : UsedBefore(e, f)} \in SUBSET Entry
      BY DEF Active
    <3>3. /\ Cardinality({f \in Active : UsedBefore(f, e)}) \in Nat
          /\ Cardinality({f \in Active : UsedBefore(e, f)}) \in Nat
      BY <3>2, ActiveFinite
    <3>4. Cardinality(Active) <= Cardinality({f \in Active : UsedBefore(f, e)})
                                 + Cardinality({f \in Active : UsedBefore(e, f)}) + 1
      BY NeighboursAreAll DEF LedgerIInv
    <3>5. QED
      BY <1>2, <2>1, <3>1, <3>3, <3>4
  <2>4. compaction'[c].batch \cap LastUsed(m.keep) = {}
    BY <1>1, <2>2, <2>3 DEF LeastUsed
  <2>5. QED
    BY <1>2, <1>4, <2>4
<1>5. QED
  BY <1>2, <1>3, <1>4

-----------------------------------------------------------------------------
\* The invariant holds initially.
LEMMA LedgerInvInit == LedgerInit => LedgerIInv
<1> SUFFICES ASSUME LedgerInit PROVE LedgerIInv
  OBVIOUS
<1>1. LedgerTypeOK
  BY LedgerTypeInit
<1>2. \A c \in Compactor : compaction[c].pc = "idle"
  BY DEF LedgerInit, NoCompaction
<1>3. \A e \in Entry : row[e] = "none"
  BY DEF LedgerInit
<1>4. QED
  BY <1>1, <1>2, <1>3
  DEF LedgerIInv, ArchivedIsCovered, BatchCovered, CountStands

\* And every step preserves it.
LEMMA LedgerInvNext == LedgerIInv /\ [LedgerNext]_ledgerVars => LedgerIInv'
<1> SUFFICES ASSUME LedgerIInv, [LedgerNext]_ledgerVars PROVE LedgerIInv'
  OBVIOUS
<1>1. LedgerTypeOK'
  BY LedgerTypeNext DEF LedgerIInv
<1>2. CASE LedgerNext
  BY <1>1, <1>2, BatchCoveredNext, CoveredNext, CountStandsNext DEF LedgerIInv
<1>3. CASE UNCHANGED ledgerVars
  BY <1>1, <1>3 DEF ledgerVars, LedgerIInv, ArchivedIsCovered, BatchCovered, CountStands, Active
<1>4. QED
  BY <1>2, <1>3

\* So it holds in every reachable state.
LEMMA LedgerInvariant == LedgerSpec => []LedgerIInv
  BY LedgerInvInit, LedgerInvNext, PTL DEF LedgerSpec

\* Whatever fails, races or is forgotten, an archived entry has its summary.
THEOREM CompactionLosesNothing == LedgerSpec => []ArchivedIsCovered
<1>1. LedgerIInv => ArchivedIsCovered
  BY DEF LedgerIInv
<1>2. QED
  BY <1>1, LedgerInvariant, PTL

\* Whatever was saved, used or tombstoned between the count and the fetch, a call
\* from which nobody took an entry away spares the keep_recent entries that were
\* used last, if it counted more than those, and spares nothing otherwise.
THEOREM CompactionSparesLastUsed == LedgerSpec => SparesLastUsed
<1>1. LedgerIInv /\ [LedgerNext]_ledgerVars =>
        [\A c \in Compactor : Fetches(c) /\ compaction[c].alone =>
           LET m == compaction[c] IN
           /\ m.keep < m.count  => compaction'[c].batch \cap LastUsed(m.keep) = {}
           /\ m.keep >= m.count => compaction'[c].batch = Active]_ledgerVars
  <2> SUFFICES ASSUME LedgerIInv, LedgerNext, NEW c \in Compactor, Fetches(c), compaction[c].alone
               PROVE  LET m == compaction[c] IN
                      /\ m.keep < m.count  => compaction'[c].batch \cap LastUsed(m.keep) = {}
                      /\ m.keep >= m.count => compaction'[c].batch = Active
    OBVIOUS
  <2>1. FetchOldest(c) /\ compaction'[c].pc = "save"
    BY FetchesFetch DEF LedgerIInv, Fetches
  <2>2. QED
    BY <2>1, FetchSpares
<1>2. QED
  BY <1>1, LedgerInvariant, PTL DEF LedgerSpec, SparesLastUsed
=============================================================================
