--------------------------- MODULE HivemindWatchdog ---------------------------
(***************************************************************************)
(* The watchdog over the agents of a team (src/src/hivemindWatchdog.ts)    *)
(* and the registry it shares with them (agent_registry in                 *)
(* storage/sqlite.ts).                                                     *)
(*                                                                         *)
(* A sweep works from one listing of the registry; a verification runs     *)
(* detached and writes its verdict later.  Every server process has a      *)
(* watchdog, which does not know of the verifications of the others.  Time *)
(* is the age of an agent's heartbeat, in the thresholds of the sweep.     *)
(* The alerts and the legacy assertion file are left out.                  *)
(***************************************************************************)
EXTENDS Naturals

CONSTANTS
  Agent,          \* rows (project, user, role) of the registry
  Watchdog,       \* server processes
  LoopThreshold,  \* loopThreshold, and the 5 of heartbeatAgent
  BailOut,        \* the 3 failures after which a validation gives up
  MaxLoops        \* bound of loop_count and of the two histories: they stay there

ASSUME WatchdogAssumption ==
  /\ LoopThreshold \in 1 .. MaxLoops /\ BailOut \in 1 .. MaxLoops /\ MaxLoops \in Nat

VARIABLES
  registry,   \* per agent: its row
  beat,       \* per agent: the loop_count its heartbeat is about to write
  assertions, \* agents that have an assertion file
  sweep,      \* per watchdog: the part of its listing still to examine
  check,      \* per watchdog and agent: the verification in flight
  repeats,    \* history, per agent: heartbeats with the task of the last one
  failures    \* history, per agent: verifications that did not pass

happened     == <<repeats, failures>>
watchdogVars == <<registry, beat, assertions, sweep, check, repeats, failures>>

Status == {"active", "stale", "frozen", "overdue", "looping", "verifying", "failed_validation"}
Age    == {"fresh", "stale", "frozen", "offline"}
Row    == [status : Status, age : Age, loops : 0 .. MaxLoops]
NoRow  == [status |-> "pruned", age |-> "fresh", loops |-> 0]

NoCheck == [at |-> "no", loops |-> 0, verdict |-> "active"]
Check   == [at : {"no", "running", "writing"}, loops : 0 .. MaxLoops, verdict : Status]

WatchdogTypeOK ==
  /\ registry \in [Agent -> Row \cup {NoRow}]
  /\ beat \in [Agent -> 0 .. MaxLoops + 1]
  /\ assertions \subseteq Agent
  /\ sweep \in [Watchdog -> SUBSET (Agent \X Row)]
  /\ check \in [Watchdog \X Agent -> Check]
  /\ repeats \in [Agent -> 0 .. MaxLoops]
  /\ failures \in [Agent -> 0 .. MaxLoops]

NoBeat == MaxLoops + 1

WatchdogInit ==
  /\ registry = [a \in Agent |-> NoRow]
  /\ beat = [a \in Agent |-> NoBeat]
  /\ assertions = {}
  /\ sweep = [w \in Watchdog |-> {}]
  /\ check = [v \in Watchdog \X Agent |-> NoCheck]
  /\ repeats = [a \in Agent |-> 0]
  /\ failures = [a \in Agent |-> 0]

-----------------------------------------------------------------------------
(* The agents.                                                             *)

Listed(a) == registry[a] # NoRow

Capped(n) == IF n < MaxLoops THEN n ELSE MaxLoops

\* Mutant: updateAgentStatus writes the status and leaves the fields alone.
UpdatedStatusOnly(a, status, loops) ==
  IF Listed(a) THEN [registry EXCEPT ![a].status = status] ELSE registry

\* updateAgentStatus: nothing happens if the row is gone.
Updated(a, status, loops) ==
  IF Listed(a) THEN [registry EXCEPT ![a].status = status, ![a].loops = loops] ELSE registry

\* registerAgent, new or again.
Register(a) ==
  /\ registry' = [registry EXCEPT ![a] = [status |-> "active", age |-> "fresh", loops |-> 0]]
  /\ UNCHANGED <<beat, assertions, sweep, check, happened>>

\* heartbeatAgent reads the row: the same task counts up, another one starts
\* again, none leaves the count; without a row there is no count and no task.
ReadBeat(a) ==
  /\ beat[a] = NoBeat
  /\ \/ /\ \E loops \in {0, registry[a].loops} : beat' = [beat EXCEPT ![a] = loops]
        /\ UNCHANGED repeats
     \/ /\ Listed(a)
        /\ beat' = [beat EXCEPT ![a] = Capped(registry[a].loops + 1)]
        /\ repeats' = [repeats EXCEPT ![a] = Capped(@ + 1)]
  /\ UNCHANGED <<registry, assertions, sweep, check, failures>>

\* Then it writes, with a status of its own whatever the row says.
WriteBeat(a) ==
  /\ beat[a] # NoBeat
  /\ registry' = IF ~Listed(a) THEN registry
                 ELSE [registry EXCEPT ![a] =
                        [status |-> IF beat[a] >= LoopThreshold THEN "looping" ELSE "active",
                         age |-> "fresh", loops |-> beat[a]]]
  /\ beat' = [beat EXCEPT ![a] = NoBeat]
  /\ UNCHANGED <<assertions, sweep, check, happened>>

\* The agent leaves assertions to be verified.
LeaveAssertions(a) ==
  /\ a \notin assertions /\ Listed(a)
  /\ assertions' = assertions \cup {a}
  /\ UNCHANGED <<registry, beat, sweep, check, happened>>

\* staleThresholdMin, frozenThresholdMin and offlineThresholdMin pass.
Grow(a) ==
  /\ Listed(a) /\ registry[a].age # "offline"
  /\ registry' = [registry EXCEPT ![a].age =
       CASE @ = "fresh" -> "stale" [] @ = "stale" -> "frozen" [] @ = "frozen" -> "offline"]
  /\ UNCHANGED <<beat, assertions, sweep, check, happened>>

\* listTeam prunes too; deregisterAgent.
Leave(a) ==
  /\ Listed(a)
  /\ registry' = [registry EXCEPT ![a] = NoRow]
  /\ UNCHANGED <<beat, assertions, sweep, check, happened>>

-----------------------------------------------------------------------------
(* runWatchdogSweep.                                                       *)

ListAgents(w) ==
  /\ sweep[w] = {}
  /\ sweep' = [sweep EXCEPT ![w] = {<<a, registry[a]>> : a \in {b \in Agent : Listed(b)}}]
  /\ UNCHANGED <<registry, beat, assertions, check, happened>>

InFlight(w, a) == check[<<w, a>>].at # "no"

\* What the row as it was listed calls for; "none" leaves it alone.
Silent(row) ==
  CASE row.age = "frozen" /\ row.status # "frozen" -> "frozen"
    [] row.age = "stale" /\ row.status \notin {"stale", "frozen"} -> "stale"
    [] OTHER -> "none"

Verifies(w, a, row) ==
  row.status \in {"active", "failed_validation"} /\ a \in assertions /\ ~InFlight(w, a)

\* Silence, an overrun task, a verification to start, a loop: in this order.
NewStatus(w, a, row) ==
  IF Silent(row) # "none" THEN {Silent(row)}
  ELSE (IF row.status = "active" THEN {"overdue"} ELSE {})
       \cup {IF Verifies(w, a, row) THEN "verifying"
             ELSE IF row.loops >= LoopThreshold /\ row.status # "looping" THEN "looping" ELSE "none"}

Rest(w, a, row) == [sweep EXCEPT ![w] = @ \ {<<a, row>>}]

\* Mutant: an agent in verification is spared.
PruneUnlessVerifying(w, a) ==
  /\ \E t \in sweep[w] :
       /\ t[1] = a /\ t[2].age = "offline"
       /\ registry' = IF t[2].status = "verifying" THEN registry ELSE [registry EXCEPT ![a] = NoRow]
       /\ assertions' = assertions \ {a}
       /\ sweep' = Rest(w, a, t[2])
  /\ UNCHANGED <<beat, check, happened>>

\* An agent that is offline in the listing is pruned, after its file is deleted.
Prune(w, a) ==
  /\ \E t \in sweep[w] :
       /\ t[1] = a /\ t[2].age = "offline"
       /\ registry' = [registry EXCEPT ![a] = NoRow]
       /\ assertions' = assertions \ {a}
       /\ sweep' = Rest(w, a, t[2])
  /\ UNCHANGED <<beat, check, happened>>

\* The delete of the row fails: the next sweep tries again.
PruneFails(w, a) ==
  /\ \E t \in sweep[w] :
       /\ t[1] = a /\ t[2].age = "offline"
       /\ assertions' = assertions \ {a}
       /\ sweep' = Rest(w, a, t[2])
  /\ UNCHANGED <<registry, beat, check, happened>>

\* The new status is written, or the write fails; a verification runs anyway.
Examine(w, a) ==
  /\ \E t \in sweep[w] :
       LET row == t[2] IN
       /\ t[1] = a /\ row.age # "offline"
       /\ \E new \in NewStatus(w, a, row) :
            /\ registry' \in IF new \in {"none", row.status} THEN {registry}
                             ELSE {registry, Updated(a, new, row.loops)}
            /\ assertions' = IF new = "looping" THEN assertions \ {a} ELSE assertions
            /\ check' = IF new # "verifying" THEN check
                        ELSE [check EXCEPT ![<<w, a>>] =
                               [NoCheck EXCEPT !.at = "running", !.loops = row.loops]]
       /\ sweep' = Rest(w, a, row)
  /\ UNCHANGED <<beat, happened>>

\* The suite has run: it passed, a gate refused it, it failed, or it could not
\* be read.  The file goes with a pass and with the bail-out.
Judge(w, a) ==
  /\ check[<<w, a>>].at = "running"
  /\ \E result \in {"passed", "refused", "failed", "unreadable"} :
       LET n == check[<<w, a>>].loops
           verdict == CASE result = "passed" -> "active"
                        [] result = "failed" /\ n >= BailOut -> "looping"
                        [] OTHER -> "failed_validation" IN
       /\ assertions' = IF verdict = "failed_validation" THEN assertions ELSE assertions \ {a}
       /\ check' = [check EXCEPT ![<<w, a>>] =
            [at |-> "writing", verdict |-> verdict,
             loops |-> CASE verdict = "active" -> 0
                         [] verdict = "looping" -> n
                         [] OTHER -> Capped(n + 1)]]
       /\ failures' = IF result = "passed" THEN failures
                      ELSE [failures EXCEPT ![a] = Capped(@ + 1)]
  /\ UNCHANGED <<registry, beat, sweep, repeats>>

\* The verdict is written over whatever the row says now, or the write fails.
WriteVerdict(w, a) ==
  LET v == check[<<w, a>>] IN
  /\ v.at = "writing"
  /\ registry' \in {registry, Updated(a, v.verdict, v.loops)}
  /\ check' = [check EXCEPT ![<<w, a>>] = NoCheck]
  /\ UNCHANGED <<beat, assertions, sweep, happened>>

\* The server process ends, with its sweep and its verifications.
CrashWatchdog(w) ==
  /\ sweep' = [sweep EXCEPT ![w] = {}]
  /\ check' = [v \in Watchdog \X Agent |-> IF v[1] = w THEN NoCheck ELSE check[v]]
  /\ UNCHANGED <<registry, beat, assertions, happened>>

SweepStep(w, a) == Prune(w, a) \/ Examine(w, a)

WatchdogNext ==
  \/ \E a \in Agent : \/ Register(a) \/ ReadBeat(a) \/ WriteBeat(a) \/ LeaveAssertions(a)
                      \/ Grow(a) \/ Leave(a)
  \/ \E w \in Watchdog : \/ ListAgents(w) \/ CrashWatchdog(w)
                         \/ \E a \in Agent : \/ SweepStep(w, a) \/ PruneFails(w, a)
                                             \/ Judge(w, a) \/ WriteVerdict(w, a)

WatchdogSpec == WatchdogInit /\ [][WatchdogNext]_watchdogVars

\* Time passes, and every process sweeps again and again (setInterval), though
\* it may crash and be started again in between; a delete that is tried again
\* and again works in the end.
WatchdogFairness ==
  /\ \A a \in Agent : WF_watchdogVars(Grow(a))
  /\ \A w \in Watchdog : /\ SF_watchdogVars(ListAgents(w))
                         /\ \A a \in Agent : SF_watchdogVars(SweepStep(w, a))

-----------------------------------------------------------------------------
(* Properties.                                                             *)

\* loop_count counts two things, repetitions of a task and failed verifications,
\* and heartbeats, sweeps and late verdicts of any process write it over one
\* another.  Still an agent is called looping only beside a count that reached
\* loopThreshold, or the bail-out when one of its verifications failed; and no
\* count is higher than what happened to the agent, the two taken together.
NoFalseLoop ==
  \A a \in Agent :
    LET n == registry[a].loops IN
    /\ registry[a].status = "looping" =>
         n >= LoopThreshold \/ (n >= BailOut /\ failures[a] > 0)
    /\ n <= repeats[a] + failures[a]

\* "Consecutive same-task heartbeats to trigger LOOPING" (hivemindWatchdog.ts), or as
\* many failures as the alert of the bail-out names: refuted, because a
\* verification takes the repetitions it finds in loop_count for failures.
LoopingMeansItsThreshold ==
  \A a \in Agent : registry[a].status = "looping" =>
    repeats[a] >= LoopThreshold \/ failures[a] >= BailOut

\* No agent stays in verification for ever: not after a crash, nor after a
\* verdict that could not be written; its heartbeat or its silence ends it.
VerifyingEnds ==
  \A a \in Agent : (registry[a].status = "verifying") ~> (registry[a].status # "verifying")
=============================================================================
