------------------------------ MODULE SweepLock ------------------------------
(***************************************************************************)
(* The lock that lets one server process at a time run the maintenance     *)
(* sweep (src/src/backgroundScheduler.ts): a row of scheduler_locks in     *)
(* Supabase and the function prism_acquire_lock                            *)
(* (src/src/storage/supabaseMigrations.ts).                                *)
(*                                                                         *)
(* A request whose caller timed out may still be applied.  A late release  *)
(* is applied before its instance sweeps again: the sweeps of one process  *)
(* are hours apart.  The lock of the SQLite backend is not modelled: it is *)
(* a setting that every process reads from a cache of its own.             *)
(***************************************************************************)
EXTENDS Naturals

CONSTANTS
  Node,            \* server processes
  MaxLockFaults    \* bound: crashes, failed and late requests

ASSUME SweepAssumption == "none" \notin Node /\ "dead" \notin Node /\ MaxLockFaults \in Nat

VARIABLES
  mainLock,    \* the row: the pid, and whether expires_at is still to come
  stage,       \* per instance: where its sweep is
  renewing,    \* instances with a heartbeat in flight
  late,        \* requests whose caller has given up
  lapsed,      \* history: instances whose lock ran out under their sweep
  lockFaults

sweepVars == <<mainLock, stage, renewing, late, lapsed, lockFaults>>

NoLock == [pid |-> "none", live |-> FALSE]
\* INSTANCE_ID is drawn anew at every start: what a dead process left matches nobody.
Owner  == Node \cup {"dead"}
Late   == [op : {"acquire", "renew", "release"}, pid : Owner]

SweepTypeOK ==
  /\ mainLock \in {NoLock} \cup [pid : Owner, live : BOOLEAN]
  /\ stage \in [Node -> {"idle", "acquiring", "sweeping", "releasing"}]
  /\ renewing \subseteq Node
  /\ late \subseteq Late
  /\ lapsed \subseteq Node
  /\ lockFaults \in 0 .. MaxLockFaults

SweepInit ==
  /\ mainLock = NoLock
  /\ stage = [i \in Node |-> "idle"]
  /\ renewing = {} /\ late = {} /\ lapsed = {} /\ lockFaults = 0

-----------------------------------------------------------------------------
(* The requests, as the database applies them.                             *)

\* Mutant: a lock that ran out is not taken over.
FreeIfReleased == mainLock = NoLock

\* prism_acquire_lock inserts the row, or takes over one that has expired.
Free == ~mainLock.live

Taken(i) == IF Free THEN [pid |-> i, live |-> TRUE] ELSE mainLock

Renewed(i) == IF mainLock.pid = i THEN [mainLock EXCEPT !.live = TRUE] ELSE mainLock

\* Mutant: the release does not look at the pid.
ReleasedByKey(i) == NoLock

Released(i) == IF mainLock.pid = i THEN NoLock ELSE mainLock

-----------------------------------------------------------------------------
(* runSchedulerSweep.                                                      *)

Moves(i, from, to) == stage[i] = from /\ stage' = [stage EXCEPT ![i] = to]

Fault == lockFaults < MaxLockFaults /\ lockFaults' = lockFaults + 1

\* The caller gives up; the request is lost or applied later.
GivesUp(op, i) == Fault /\ late' \in {late, late \cup {[op |-> op, pid |-> i]}}

\* The timer of startScheduler fires.
BeginSweep(i) ==
  /\ Moves(i, "idle", "acquiring")
  /\ [op |-> "release", pid |-> i] \notin late
  /\ UNCHANGED <<mainLock, renewing, late, lapsed, lockFaults>>

AcquireLock(i) ==
  /\ stage[i] = "acquiring"
  /\ mainLock' = Taken(i)
  /\ stage' = [stage EXCEPT ![i] = IF Free THEN "sweeping" ELSE "idle"]
  /\ lapsed' = IF Free THEN lapsed \ {i} ELSE lapsed
  /\ UNCHANGED <<renewing, late, lockFaults>>

\* An error of the request skips the sweep.
AcquireFails(i) ==
  /\ Moves(i, "acquiring", "idle")
  /\ GivesUp("acquire", i)
  /\ UNCHANGED <<mainLock, renewing, lapsed>>

\* heartbeatInterval: the request is sent without waiting for it.
Heartbeat(i) ==
  /\ stage[i] = "sweeping" /\ i \notin renewing
  /\ renewing' = renewing \cup {i}
  /\ UNCHANGED <<mainLock, stage, late, lapsed, lockFaults>>

Renew(i) ==
  /\ i \in renewing
  /\ mainLock' = Renewed(i)
  /\ renewing' = renewing \ {i}
  /\ UNCHANGED <<stage, late, lapsed, lockFaults>>

RenewFails(i) ==
  /\ i \in renewing
  /\ GivesUp("renew", i)
  /\ renewing' = renewing \ {i}
  /\ UNCHANGED <<mainLock, stage, lapsed>>

\* The tasks end, or fail: finally.
EndSweep(i) ==
  /\ Moves(i, "sweeping", "releasing")
  /\ UNCHANGED <<mainLock, renewing, late, lapsed, lockFaults>>

UnlockMain(i) ==
  /\ Moves(i, "releasing", "idle")
  /\ mainLock' = Released(i)
  /\ UNCHANGED <<renewing, late, lapsed, lockFaults>>

ReleaseFails(i) ==
  /\ Moves(i, "releasing", "idle")
  /\ GivesUp("release", i)
  /\ UNCHANGED <<mainLock, renewing, lapsed>>

\* A late request is applied, or lost after all.
ApplyLate ==
  /\ \E r \in late :
       /\ late' = late \ {r}
       /\ mainLock' \in {mainLock,
            CASE r.op = "acquire" -> Taken(r.pid)
              [] r.op = "renew"   -> Renewed(r.pid)
              [] r.op = "release" -> Released(r.pid)}
  /\ UNCHANGED <<stage, renewing, lapsed, lockFaults>>

\* expires_at passes: always for an owner that is gone, and for a living one
\* that stalls, whose heartbeats fail or whose clock is behind the database's.
Expire ==
  /\ mainLock.live
  /\ mainLock' = [mainLock EXCEPT !.live = FALSE]
  /\ lapsed' = IF mainLock.pid \in Node THEN lapsed \cup {mainLock.pid} ELSE lapsed
  /\ UNCHANGED <<stage, renewing, late, lockFaults>>

\* The process dies and is started again; what it sent may still arrive.
CrashSweep(i) ==
  /\ Fault
  /\ stage' = [stage EXCEPT ![i] = "idle"]
  /\ mainLock' = IF mainLock.pid = i THEN [mainLock EXCEPT !.pid = "dead"] ELSE mainLock
  /\ late' = {[r EXCEPT !.pid = IF @ = i THEN "dead" ELSE @] : r \in late}
             \cup (IF stage[i] = "acquiring" THEN {[op |-> "acquire", pid |-> "dead"]} ELSE {})
             \cup (IF stage[i] = "releasing" THEN {[op |-> "release", pid |-> "dead"]} ELSE {})
             \cup (IF i \in renewing THEN {[op |-> "renew", pid |-> "dead"]} ELSE {})
  /\ renewing' = renewing \ {i}
  /\ lapsed' = lapsed \ {i}

SweepTurn(i) == BeginSweep(i) \/ AcquireLock(i) \/ EndSweep(i) \/ UnlockMain(i)

SweepNext ==
  \/ ApplyLate \/ Expire
  \/ \E i \in Node :
       \/ SweepTurn(i) \/ AcquireFails(i) \/ Heartbeat(i) \/ Renew(i)
       \/ RenewFails(i) \/ ReleaseFails(i) \/ CrashSweep(i)

SweepSpec == SweepInit /\ [][SweepNext]_sweepVars

\* The loop of startScheduler re-arms itself in a finally, requests are
\* answered or time out, and time passes.
SweepFairness ==
  /\ \A i \in Node : WF_sweepVars(SweepTurn(i))
  /\ WF_sweepVars(Expire) /\ WF_sweepVars(ApplyLate)

-----------------------------------------------------------------------------
(* Properties.                                                             *)

\* Two processes sweep at once only if the lock of one ran out under its
\* sweep: no late request, no crash and no release of another one takes a lock
\* from a process that keeps renewing it.
SweepExclusive ==
  \A i, j \in Node :
    stage[i] = "sweeping" /\ stage[j] = "sweeping" => i = j \/ i \in lapsed \/ j \in lapsed

\* Maintenance goes on: whenever a process asks for the lock, some process
\* sweeps later, whatever locks crashes and late requests have left behind.
SweepsGoOn ==
  (\E i \in Node : stage[i] = "acquiring") ~> (\E i \in Node : stage[i] = "sweeping")
=============================================================================
