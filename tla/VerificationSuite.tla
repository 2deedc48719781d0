--------------------------- MODULE VerificationSuite ---------------------------
(***************************************************************************)
(* A run of a verification suite (VerificationRunner.runSuite in           *)
(* src/src/verification/runner.ts), its severity gate (severityPolicy.ts)  *)
(* and what the pipeline makes of it (darkfactory/runner.ts with           *)
(* gatekeeper.ts): the HarnessOutcome that FactorySteps takes as an input. *)
(*                                                                         *)
(* One id stands for one result.  Severities change nothing in the run     *)
(* once the filters are applied, so the properties range over all of them. *)
(***************************************************************************)
EXTENDS Naturals, FiniteSets

CONSTANTS
  Test,      \* ids of the assertions
  MinRate    \* minPassRate, as a pair: MinRate[1] out of MinRate[2]

\* The two marks for "depends on nothing" and "on an id the suite lacks" are no ids.
ASSUME SuiteAssumption == Test \cap {"no", "missing"} = {}

Severity == {"warn", "gate", "abort"}

VARIABLES
  suite,     \* per id: what it depends on, and whether a filter leaves it out
  outcome,   \* per id: "none" until it has a result
  pending,   \* assertions not started
  running    \* assertions of the round in progress

suiteVars == <<suite, outcome, pending, running>>

SuiteTypeOK ==
  /\ suite \in [Test -> [dep : Test \cup {"no", "missing"}, filtered : BOOLEAN]]
  /\ outcome \in [Test -> {"none", "passed", "failed", "skipped"}]
  /\ pending \subseteq Test /\ running \subseteq Test

\* filtered: not in the active layers, below minSeverity, or a duplicate id.
SuiteInit ==
  /\ suite \in [Test -> [dep : Test \cup {"no", "missing"}, filtered : BOOLEAN]]
  /\ outcome = [t \in Test |-> "none"]
  /\ pending = Test /\ running = {}

-----------------------------------------------------------------------------
(* prepareAssertions.                                                      *)

\* Kahn's queue starts with what has no edge, and a visit adds the dependents.
FollowsEdges(S) ==
  \A t \in Test : suite[t].dep \in {"no", "missing"} \/ suite[t].dep \in S => t \in S

\* What has been visited when the queue is empty: the least such set.
Visited == {t \in Test : \A S \in SUBSET Test : FollowsEdges(S) => t \in S}

\* Mutant: what waits for itself is left for the run to find out.
PrecomputedWithoutCycles == {t \in Test : suite[t].filtered \/ suite[t].dep = "missing"}

\* Results known beforehand: filtered, without its dependency, or behind a cycle.
Precomputed ==
  {t \in Test : \/ suite[t].filtered
                \/ suite[t].dep = "missing"
                \/ t \notin Visited}

Prepare ==
  /\ pending = Test /\ \A t \in Test : outcome[t] = "none"
  /\ Precomputed # {}
  /\ outcome' = [t \in Test |-> IF t \in Precomputed THEN "skipped" ELSE "none"]
  /\ pending' = Test \ Precomputed
  /\ UNCHANGED <<suite, running>>

-----------------------------------------------------------------------------
(* runSuite.                                                               *)

Prepared == Precomputed \cap pending = {}

Ready == {t \in pending : suite[t].dep = "no" \/ outcome[suite[t].dep] # "none"}

\* Mutant: only a failed dependency stops an assertion.
AllowedUnlessFailed(t) == suite[t].dep = "no" \/ outcome[suite[t].dep] # "failed"

Allowed(t) == suite[t].dep = "no" \/ outcome[suite[t].dep] = "passed"

\* A round takes all that are ready; what depends on something that did not
\* pass is skipped.  With none ready the rest is skipped.
StartRound ==
  /\ Prepared /\ running = {} /\ pending # {}
  /\ LET taken == IF Ready = {} THEN pending ELSE Ready
         run   == {t \in Ready : Allowed(t)} IN
     /\ running' = run
     /\ outcome' = [t \in Test |-> IF t \in taken \ run THEN "skipped" ELSE outcome[t]]
     /\ pending' = pending \ taken
  /\ UNCHANGED suite

\* The assertion passes, or fails after its retries.
FinishAssertion(t) ==
  /\ t \in running
  /\ \E result \in {"passed", "failed"} : outcome' = [outcome EXCEPT ![t] = result]
  /\ running' = running \ {t}
  /\ UNCHANGED <<suite, pending>>

SuiteDone == pending = {} /\ running = {}

SuiteNext == Prepare \/ StartRound \/ \E t \in Test : FinishAssertion(t)

SuiteSpec == SuiteInit /\ [][SuiteNext]_suiteVars

-----------------------------------------------------------------------------
(* evaluateSeverityGates, and the verdict of the pipeline.                 *)

Rank(s) == CASE s = "warn" -> 0 [] s = "gate" -> 1 [] s = "abort" -> 2

\* resolveEffectiveSeverity: the default is a floor.
Effective(s, floor) == IF Rank(s) >= Rank(floor) THEN s ELSE floor

With(result) == {t \in Test : outcome[t] = result}

\* Mutant: a skipped assertion is not counted.
GateActionOfFailures(severity, floor) ==
  LET failed == {Effective(severity[t], floor) : t \in With("failed")} IN
  IF "abort" \in failed THEN "abort" ELSE IF "gate" \in failed THEN "block" ELSE "continue"

\* Skipped critical assertions are looked at first, with their own severity.
GateAction(severity, floor) ==
  LET skipped == {severity[t] : t \in With("skipped")}
      failed  == {Effective(severity[t], floor) : t \in With("failed")} IN
  IF "abort" \in skipped THEN "abort"
  ELSE IF "gate" \in skipped THEN "block"
  ELSE IF "abort" \in failed THEN "abort"
  ELSE IF "gate" \in failed THEN "block"
  ELSE "continue"

\* passRate >= minPassRate; a suite that ran nothing has rate 0.
RateMet ==
  LET executed == Cardinality(With("passed")) + Cardinality(With("failed")) IN
  IF executed = 0 THEN MinRate[1] = 0
  ELSE Cardinality(With("passed")) * MinRate[2] >= MinRate[1] * executed

\* executeGate throws on abort, refuses on block, and leaves the rate to decide.
Verdict(severity, floor) ==
  CASE GateAction(severity, floor) = "abort" -> "abort"
    [] GateAction(severity, floor) = "block" -> "block"
    [] OTHER -> IF RateMet THEN "passed" ELSE "below_rate"

-----------------------------------------------------------------------------
(* Properties.                                                             *)

\* In the end every assertion has a result, and exactly those ran that no
\* filter leaves out and whose dependency passed: whatever the order, the
\* cycles and the missing ids of the suite.
RanIffAllowed ==
  SuiteDone => \A t \in Test :
    /\ outcome[t] # "none"
    /\ outcome[t] # "skipped" <=>
         /\ ~suite[t].filtered
         /\ \/ suite[t].dep = "no"
            \/ suite[t].dep \in Test /\ outcome[suite[t].dep] = "passed"

\* The guard of runSuite against a suite that makes no progress never acts:
\* however the ids depend on each other, with cycles, missing ones and filtered
\* ones among them, prepareAssertions has left nothing that waits for itself.
GuardNeverActs == Prepared /\ running = {} /\ pending # {} => Ready # {}

\* A pipeline whose harness passed has every assertion that is critical by its own
\* severity passed: whatever it depends on, it was not skipped to get around the
\* gate.  What is critical by the floor alone has not failed; it may have been
\* skipped.
PassedMeansCritical ==
  SuiteDone => \A severity \in [Test -> Severity], floor \in Severity :
    Verdict(severity, floor) = "passed" =>
      \A t \in Test :
        /\ severity[t] # "warn" => outcome[t] = "passed"
        /\ Effective(severity[t], floor) # "warn" => outcome[t] # "failed"

\* "Crafting depends_on to skip critical checks must not neutralize the gate", and
\* the floor "overrides individual assertion severity levels" (severityPolicy.ts):
\* refuted by what only the floor makes critical.
FloorHoldsForSkipped ==
  SuiteDone => \A severity \in [Test -> Severity], floor \in Severity :
    Verdict(severity, floor) = "passed" =>
      \A t \in Test : Effective(severity[t], floor) # "warn" /\ ~suite[t].filtered =>
        outcome[t] = "passed"
=============================================================================
