----------------------------- MODULE FactoryPoll -----------------------------
(***************************************************************************)
(* Discovery of queued pipelines by the host windows that share one config *)
(* database: the poll schedule (claimFactoryPoll, finish,                  *)
(* readFactoryPollSnapshot and wakeFactoryPolling in                       *)
(* src/src/storage/configStorage.ts), the discovery half of runnerTick     *)
(* (src/src/darkfactory/runner.ts) and the submission of a pipeline        *)
(* (src/src/tools/pipelineHandlers.ts).                                    *)
(*                                                                         *)
(* Times are relative: what is left of the lease, of the wait for the next *)
(* poll, and the age of a scan.  A pipeline is a job that needs some more  *)
(* steps; how a step is run and how leases fence it is FactoryRunner.      *)
(***************************************************************************)
EXTENDS Naturals

CONSTANTS
  Proc,       \* host windows
  Job,        \* pipelines that may be submitted
  Base,       \* PRISM_DARK_FACTORY_POLL_MS
  MaxIdle,    \* MAX_FACTORY_IDLE_POLL_MS
  LeaseTime,  \* DEFAULT_FACTORY_LEASE_MS
  Steps,      \* bound: steps a pipeline takes
  MaxFaults   \* bound: crashes, stalls, failed scans and lost answers in a run

ASSUME TimesAssumption  == Base \in Nat \ {0} /\ MaxIdle \in Nat /\ LeaseTime \in Nat \ {0}
ASSUME BoundsAssumption == Steps \in Nat \ {0} /\ MaxFaults \in Nat

NoOne == "nobody"   \* the token is empty, or nobody uses it any more
ASSUME NoOneAssumption == NoOne \notin Proc

VARIABLES
  sched,   \* the row of dark_factory_poll_schedule
  job,     \* the pipelines
  tick,    \* per host window: the tick in progress
  faults   \* faults so far

pollVars == <<sched, job, tick, faults>>

MaxOf(a, b) == IF a >= b THEN a ELSE b
MinOf(a, b) == IF a <= b THEN a ELSE b
Less(a, b)  == IF a >= b THEN a - b ELSE 0

Longest == MaxOf(Base, MaxIdle)

Schedule == [token    : Proc \cup {NoOne},
             left     : 0 .. LeaseTime,   \* expires_at, from now
             due      : 0 .. Longest,     \* next_poll_at, from now
             idle     : 0 .. Longest,     \* idle_ms
             wake     : Nat,              \* wake_version
             snapshot : SUBSET Job]       \* snapshot_json

Pipeline == [status     : {"none", "PENDING", "RUNNING", "ended"},
             authorised : BOOLEAN,        \* registered in dark_factory_authority
             woken      : BOOLEAN,        \* its wake was delivered
             orphaned   : BOOLEAN,        \* its owner died in a step
             left       : 0 .. Steps]

Tick == [pc    : {"idle", "follow", "scan", "list", "finish", "work", "step"},
         wake  : Nat,                     \* wake_version at the claim
         idle  : 0 .. Longest,            \* idle_ms at the claim
         age   : 0 .. Longest,            \* time since the claim
         found : SUBSET Job]              \* listed jobs, then candidates, then the job

PollTypeOK ==
  /\ sched \in Schedule
  /\ job \in [Job -> Pipeline]
  /\ tick \in [Proc -> Tick]
  /\ faults \in 0 .. MaxFaults

Free == [pc |-> "idle", wake |-> 0, idle |-> 0, age |-> 0, found |-> {}]

PollInit ==
  /\ sched = [token |-> NoOne, left |-> 0, due |-> 0, idle |-> 0, wake |-> 0, snapshot |-> {}]
  /\ job = [j \in Job |-> [status |-> "none", authorised |-> FALSE, woken |-> FALSE,
                           orphaned |-> FALSE, left |-> Steps]]
  /\ tick = [p \in Proc |-> Free]
  /\ faults = 0

-----------------------------------------------------------------------------
At(p, place) == tick[p].pc = place

Scanning(t) == t.pc \in {"scan", "list", "finish"}

Active(j) == job[j].status \in {"PENDING", "RUNNING"}

Listed(s) == {j \in Job : job[j].status = s}

Fault == faults < MaxFaults /\ faults' = faults + 1

-----------------------------------------------------------------------------
(* Submission: session_start_pipeline.                                     *)

\* savePipeline of the new row.
Submit(j) ==
  /\ job[j].status = "none"
  /\ job' = [job EXCEPT ![j].status = "PENDING"]
  /\ UNCHANGED <<sched, tick, faults>>

\* registerPipelineAuthority, which makes this machine's runners accept it.
Register(j) ==
  /\ job[j].status = "PENDING" /\ ~job[j].authorised
  /\ job' = [job EXCEPT ![j].authorised = TRUE]
  /\ UNCHANGED <<sched, tick, faults>>

\* It fails: the handler aborts the pipeline.
RegisterFails(j) ==
  /\ job[j].status = "PENDING" /\ ~job[j].authorised /\ Fault
  /\ job' = [job EXCEPT ![j].status = "ended"]
  /\ UNCHANGED <<sched, tick>>

Woken == [sched EXCEPT !.due = 0, !.idle = 0, !.wake = @ + 1]

\* wakeFactoryPolling, the handler's last step.  The handler may die or the
\* call may fail before it: then the job waits for the idle interval.
Wake(j) ==
  /\ job[j].authorised /\ ~job[j].woken
  /\ sched' = Woken
  /\ job' = [job EXCEPT ![j].woken = TRUE]
  /\ UNCHANGED <<tick, faults>>

-----------------------------------------------------------------------------
(* Discovery: one window scans, the others follow its snapshot.            *)

\* claimFactoryPoll: over an expired lease, and only when a poll is due.
ClaimPoll(p) ==
  /\ At(p, "idle")
  /\ IF sched.left = 0 /\ sched.due = 0
     THEN /\ sched' = [sched EXCEPT !.token = p, !.left = LeaseTime]
          /\ tick' = [tick EXCEPT ![p] = [Free EXCEPT !.pc = "scan", !.wake = sched.wake,
                                                      !.idle = sched.idle]]
     ELSE /\ tick' = [tick EXCEPT ![p] = [Free EXCEPT !.pc = "follow"]]
          /\ UNCHANGED sched
  /\ UNCHANGED <<job, faults>>

\* A follower reads the snapshot; while an empty one is being renewed it waits
\* until its deadline, then gives up.
Follow(p) ==
  /\ At(p, "follow")
  /\ tick' = [tick EXCEPT ![p] = IF sched.snapshot = {} THEN Free
                                 ELSE [Free EXCEPT !.pc = "work", !.found = sched.snapshot]]
  /\ UNCHANGED <<sched, job, faults>>

\* The scan lists the RUNNING rows first.
ListRunning(p) ==
  /\ At(p, "scan")
  /\ tick' = [tick EXCEPT ![p].pc = "list", ![p].found = Listed("RUNNING")]
  /\ UNCHANGED <<sched, job, faults>>

\* Mutant: the first listing is forgotten.
Discovered(p) == Listed("PENDING")

Both(p) == tick[p].found \cup Listed("PENDING")

\* Later it lists the PENDING ones; a job promoted in between is in neither.
ListPending(p) ==
  /\ At(p, "list")
  /\ tick' = [tick EXCEPT ![p].pc = "finish", ![p].found = Both(p)]
  /\ UNCHANGED <<sched, job, faults>>

\* Only a successful, empty scan lengthens the interval.
Delay(t, candidates) ==
  IF candidates = {} THEN MinOf(Longest, MaxOf(Base, 2 * t.idle)) ELSE Base

\* Mutant: the wake that came during the scan is overwritten.
FinishedUnwoken(t, candidates, delay, idle) ==
  [sched EXCEPT !.token = NoOne, !.left = 0, !.snapshot = candidates,
                !.due = Less(delay, t.age), !.idle = idle]

\* Mutant: an empty scan waits as long as after an idle one.
FinishedLate(t, candidates, delay, idle) ==
  [sched EXCEPT !.token = NoOne, !.left = 0, !.snapshot = candidates,
                !.due = delay, !.idle = delay + 1]

\* What finish stores: the next poll counts from the claim, and is at once if
\* a wake came during the scan.
AfterScan(t, candidates, delay, idle) ==
  [sched EXCEPT !.token = NoOne, !.left = 0, !.snapshot = candidates,
                !.due  = IF sched.wake = t.wake THEN Less(delay, t.age) ELSE 0,
                !.idle = IF sched.wake = t.wake THEN idle ELSE 0]

\* finish is fenced by the token and the lease.
HoldsPoll(p) == sched.token = p /\ sched.left > 0

\* The candidates are the authorised ones among the rows that were listed.
FinishScan(p) ==
  LET candidates == {j \in tick[p].found : job[j].authorised}
      delay      == Delay(tick[p], candidates)
  IN  /\ At(p, "finish")
      /\ sched' = IF HoldsPoll(p)
                  THEN AfterScan(tick[p], candidates, delay,
                                IF candidates = {} THEN delay ELSE 0)
                  ELSE sched
      /\ tick' = [tick EXCEPT ![p] = [Free EXCEPT !.pc = "work", !.found = candidates]]
      /\ UNCHANGED <<job, faults>>

\* A listing fails: the snapshot stays and is what this window works from.
ScanFails(p) ==
  /\ tick[p].pc \in {"scan", "list", "finish"} /\ Fault
  /\ sched' = IF HoldsPoll(p) THEN AfterScan(tick[p], sched.snapshot, Base, 0) ELSE sched
  /\ tick' = [tick EXCEPT ![p] = [Free EXCEPT !.pc = "work", !.found = sched.snapshot]]
  /\ UNCHANGED job

\* The result cannot be stored: the lease is left to expire.
FinishLost(p) ==
  /\ At(p, "finish") /\ Fault
  /\ sched' = [sched EXCEPT !.token = IF @ = p THEN NoOne ELSE @]
  /\ tick' = [tick EXCEPT ![p] = [Free EXCEPT !.pc = "work",
                !.found = {j \in tick[p].found : job[j].authorised}]]
  /\ UNCHANGED job

-----------------------------------------------------------------------------
(* Execution, as far as discovery is concerned.                            *)

Busy(j) == \E q \in Proc : At(q, "step") /\ j \in tick[q].found

Claimable(p) == {j \in tick[p].found : Active(j) /\ ~Busy(j)}

\* The window takes a candidate that is live and not leased, promotes it if it
\* is PENDING, and fails it if its last owner died in a step.
Pick(p) ==
  /\ At(p, "work")
  /\ \/ /\ Claimable(p) = {}
        /\ tick' = [tick EXCEPT ![p] = Free]
        /\ UNCHANGED job
     \/ \E j \in Claimable(p) :
          IF job[j].orphaned
          THEN /\ job' = [job EXCEPT ![j].status = "ended"]
               /\ tick' = [tick EXCEPT ![p] = Free]
          ELSE /\ job' = [job EXCEPT ![j].status = "RUNNING"]
               /\ tick' = [tick EXCEPT ![p] = [Free EXCEPT !.pc = "step", !.found = {j}]]
  /\ UNCHANGED <<sched, faults>>

\* The step ends and with it the tick; the last one ends the pipeline.
EndStep(p) ==
  /\ At(p, "step")
  /\ \E j \in tick[p].found :
       job' = [job EXCEPT ![j].left = Less(@, 1),
                          ![j].status = IF job[j].left = 1 THEN "ended" ELSE @]
  /\ tick' = [tick EXCEPT ![p] = Free]
  /\ UNCHANGED <<sched, faults>>

-----------------------------------------------------------------------------
(* The surroundings.                                                       *)

\* Time passes; a window that scans renews its lease.
Time ==
  /\ sched' = [sched EXCEPT !.due  = Less(@, 1),
                            !.left = IF sched.token = NoOne THEN Less(@, 1) ELSE @]
  /\ tick' = [p \in Proc |-> IF Scanning(tick[p])
                             THEN [tick[p] EXCEPT !.age = MinOf(@ + 1, Longest)] ELSE tick[p]]
  /\ UNCHANGED <<job, faults>>

\* A window stalls past its discovery lease and will come back.
Stall ==
  /\ sched.token # NoOne /\ sched.left > 0 /\ Fault
  /\ sched' = [sched EXCEPT !.left = 0]
  /\ UNCHANGED <<job, tick>>

\* A window dies in its tick.
Crash(p) ==
  /\ Fault
  /\ tick' = [tick EXCEPT ![p] = Free]
  /\ sched' = [sched EXCEPT !.token = IF @ = p THEN NoOne ELSE @]
  /\ job' = [j \in Job |-> IF At(p, "step") /\ j \in tick[p].found
                           THEN [job[j] EXCEPT !.orphaned = TRUE] ELSE job[j]]

-----------------------------------------------------------------------------
PollStep(p) == ListRunning(p) \/ ListPending(p) \/ FinishScan(p)
           \/ ClaimPoll(p) \/ Follow(p) \/ Pick(p) \/ EndStep(p)

Handler(j) == Submit(j) \/ Register(j) \/ RegisterFails(j) \/ Wake(j)

PollNext ==
  \/ \E p \in Proc : PollStep(p) \/ ScanFails(p) \/ FinishLost(p) \/ Crash(p)
  \/ \E j \in Job : Handler(j)
  \/ Time \/ Stall

PollSpec == PollInit /\ [][PollNext]_pollVars

-----------------------------------------------------------------------------
\* No wake is lost.  A pipeline whose submission was announced and that no
\* window knows of yet never waits out the idle interval: the next poll is at
\* most one base interval away, whichever way its save, its wake, a running
\* scan, a promotion by a follower and a failed scan were interleaved.
PromptDiscovery ==
  \A j \in Job : job[j].woken /\ Active(j) /\ j \notin sched.snapshot => sched.due <= Base

\* An announced pipeline is found and ends, through any bounded number of
\* faults and whichever window scans and whichever follows.
AnnouncedEnds == \A j \in Job : job[j].woken ~> job[j].status = "ended"
=============================================================================
