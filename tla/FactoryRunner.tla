---------------------------- MODULE FactoryRunner ----------------------------
(***************************************************************************)
(* The background runners of several host processes working one pipeline   *)
(* (src/src/darkfactory/runner.ts) under the execution lease of the shared *)
(* config database (src/src/storage/configStorage.ts).                     *)
(*                                                                         *)
(* One action is what happens between two awaits.  Two abstractions rest   *)
(* on other modules: a position is the number of advances, because         *)
(* positions never repeat (FactorySteps!PositionsNeverRepeat), and a write *)
(* lands exactly when the row is unchanged since it was read, because the  *)
(* time stamps are versions (PipelineStore!StampsAreVersions).  A lease    *)
(* token is the process whose tick drew it: a tick holds one lease at a    *)
(* time and a new tick draws a new token.                                  *)
(***************************************************************************)
EXTENDS Naturals, PipelineStatus

CONSTANTS
  Proc,        \* host processes that share the config database
  LastPos,     \* position of the final step
  MaxFaults    \* bound: crashes, stalls, lost releases and timeouts in a run

ASSUME RunnerAssumption == LastPos \in Nat /\ MaxFaults \in Nat

NoOwner == "released"   \* the token is empty
Gone    == "gone"       \* the token of a tick that can no longer use it

ASSUME OwnerAssumption == Proc \cap {NoOwner, Gone} = {}

VARIABLES
  row,      \* the pipeline row
  lease,    \* its row of dark_factory_execution_leases
  proc,     \* per process: the tick in progress
  beat,     \* per process: the heartbeat pulse in flight
  wire,     \* writes whose sender gave up and that the backend may still apply
  startup,  \* startupRecoveryPending
  faults,   \* faults so far
  lost      \* history: attempts that ended without a result

vars == <<row, lease, proc, beat, wire, startup, faults, lost>>

Row     == [status : Status, pos : 0 .. LastPos, lapsed : BOOLEAN]
Purpose == {"recover", "sweep", "run"}
Place   == {"idle", "claim", "read", "guard", "save", "ack", "reread", "clear",
            "begin", "work", "after", "judge", "release"}

Idle == [pc |-> "idle", purpose |-> "run", reclaimed |-> FALSE, acting |-> FALSE,
         fresh |-> FALSE, snap |-> [pos |-> 0, lapsed |-> FALSE],
         seen  |-> [status |-> "PENDING", pos |-> 0, lapsed |-> FALSE],
         write |-> [status |-> "PENDING", pos |-> 0, lapsed |-> FALSE],
         next  |-> "release"]

Tick == [pc : Place, purpose : Purpose, reclaimed : BOOLEAN, acting : BOOLEAN,
         fresh : BOOLEAN, snap : [pos : 0 .. LastPos, lapsed : BOOLEAN],
         seen : Row, write : Row, next : {"ack", "reread", "release"}]

TypeOK ==
  /\ row \in Row
  /\ lease \in [owner : Proc \cup {NoOwner, Gone}, expired : BOOLEAN, reclaimed : BOOLEAN]
  /\ proc \in [Proc -> Tick]
  /\ beat \in [Proc -> {"none", "held", "read"}]
  /\ wire \subseteq Row
  /\ startup \in [Proc -> BOOLEAN]
  /\ faults \in 0 .. MaxFaults
  /\ lost \subseteq [pos : 0 .. LastPos, by : {"crash", "expiry"}]

\* A pipeline just submitted and authorised on this machine; no lease row yet,
\* which a claim treats like a released one.
Init ==
  /\ row = [status |-> "PENDING", pos |-> 0, lapsed |-> FALSE]
  /\ lease = [owner |-> NoOwner, expired |-> TRUE, reclaimed |-> FALSE]
  /\ proc = [p \in Proc |-> Idle]
  /\ beat = [p \in Proc |-> "none"]
  /\ wire = {}
  /\ startup = [p \in Proc |-> TRUE]
  /\ faults = 0
  /\ lost = {}

-----------------------------------------------------------------------------
(* Helpers.                                                                *)

Holds(p) == lease.owner = p /\ ~lease.expired

Goto(p, tick) == proc' = [proc EXCEPT ![p] = tick]

At(p, place) == proc[p].pc = place

Fault == faults < MaxFaults /\ faults' = faults + 1

\* Mutant: a save does not look whether the row is still the one it was made from.
LandOverStale(new, ticks) ==
  /\ row' = new
  /\ proc' = ticks
  /\ beat' = beat
  /\ wire' = wire \ {new}

\* A write lands: whatever was read or sent on the older row is refused from
\* now on.  ticks is the state of the processes, the writer's step included.
Land(new, ticks) ==
  /\ row' = new
  /\ proc' = [q \in Proc |-> [ticks[q] EXCEPT !.fresh = FALSE]]
  /\ beat' = [q \in Proc |-> IF beat[q] = "read" THEN "none" ELSE beat[q]]
  /\ wire' = {}

\* Where a tick goes when it has nothing more to do for its purpose: startup
\* recovery, then the zombie sweep of what the scan saw lapsed, then the run.
Onward(t) ==
  IF t.purpose = "run" THEN Idle
  ELSE [Idle EXCEPT !.pc = "claim",
                    !.purpose = IF t.purpose = "recover" /\ t.snap.lapsed
                                THEN "sweep" ELSE "run",
                    !.snap = t.snap]

\* A tick that only has its lease to settle forgets what it read.
Settle(t, place) == [Idle EXCEPT !.pc = place, !.purpose = t.purpose, !.snap = t.snap]

\* The save a tick prepares on the row it has read, and what it does once the
\* save has succeeded.
Prepare(t, new, then) ==
  [Idle EXCEPT !.pc = "guard", !.purpose = t.purpose, !.reclaimed = t.reclaimed,
               !.snap = t.snap, !.fresh = t.fresh, !.write = new, !.next = then]

\* The step a tick is at, with the row it read.
Working(t, place) == [Idle EXCEPT !.pc = place, !.reclaimed = t.reclaimed,
                                  !.seen = row, !.fresh = TRUE]

Failed(r) == [r EXCEPT !.status = "FAILED"]

-----------------------------------------------------------------------------
(* The tick: discovery.                                                    *)

\* The scan that owns discovery lists RUNNING rows, recovers them once after a
\* start, sweeps the lapsed ones, then offers them and the PENDING ones.
Scan(p) ==
  /\ At(p, "idle")
  /\ IF row.status = "RUNNING"
     THEN Goto(p, [Idle EXCEPT !.pc = "claim",
                               !.purpose = IF startup[p] THEN "recover"
                                           ELSE IF row.lapsed THEN "sweep" ELSE "run",
                               !.snap = [pos |-> row.pos, lapsed |-> row.lapsed]])
     ELSE Goto(p, [Idle EXCEPT !.pc = IF row.status = "PENDING" THEN "claim" ELSE "idle"])
  /\ startup' = [startup EXCEPT ![p] = FALSE]
  /\ UNCHANGED <<row, lease, beat, wire, faults, lost>>

\* A follower of someone else's discovery, or a scan that failed, works from
\* the last persisted snapshot, which may name a pipeline that has moved on.
Follow(p) ==
  /\ At(p, "idle")
  /\ Goto(p, [Idle EXCEPT !.pc = "claim"])
  /\ UNCHANGED <<row, lease, beat, wire, startup, faults, lost>>

-----------------------------------------------------------------------------
(* The tick: lease, then the live row, then a guarded save.                *)

\* Mutant: the mark is set by this claim alone, an older one is forgotten.
ForgetsReclaim(l) == l.owner # NoOwner

\* The lease was taken from an owner that never released it, now or earlier.
TakenOver(l) == l.reclaimed \/ l.owner # NoOwner

\* Mutant: only a released lease can be taken.
ClaimableIfReleased(l) == l.owner = NoOwner

Claimable(l) == l.expired

\* claimFactoryLease: one conditional statement, only over an expired lease.
Claim(p) ==
  /\ At(p, "claim")
  /\ IF Claimable(lease)
     THEN /\ lease' = [owner |-> p, expired |-> FALSE, reclaimed |-> TakenOver(lease)]
          /\ Goto(p, [proc[p] EXCEPT !.pc = "read", !.reclaimed = TakenOver(lease)])
     ELSE /\ Goto(p, Onward(proc[p]))
          /\ UNCHANGED lease
  /\ UNCHANGED <<row, beat, wire, startup, faults, lost>>

\* Mutant: the reclaimed mark does not stop a pipeline from being continued.
StopsWhenLapsed(t) == row.status = "RUNNING" /\ t.purpose # "run" /\ row.lapsed

\* The live row is stopped for good: startup recovery takes reclaimed and
\* lapsed ones, the sweep lapsed ones, the run refuses reclaimed ones.
Stops(t) ==
  /\ row.status = "RUNNING"
  /\ \/ t.purpose # "sweep" /\ t.reclaimed
     \/ t.purpose # "run" /\ row.lapsed

\* What a stop stores: startup recovery writes the step of its scan over the
\* live one, the others keep the row they read.
Stopped(t) == [row EXCEPT !.status = "FAILED",
                          !.pos = IF t.purpose = "recover" THEN t.snap.pos ELSE @]

\* Mutant: a candidate is run without a look at its live status.
AfterReadUnchecked(t) ==
  IF Stops(t) THEN Prepare(t, Stopped(t), "ack")
  ELSE IF t.purpose # "run" THEN Settle(t, "release")
  ELSE IF row.status = "PENDING" THEN Prepare(t, [row EXCEPT !.status = "RUNNING"], "reread")
  ELSE Working(t, "begin")

\* What the live row decides.
AfterRead(t) ==
  IF Stops(t) THEN Prepare(t, Stopped(t), "ack")
  ELSE IF t.purpose # "run" THEN Settle(t, "release")
  ELSE IF row.status = "PENDING" THEN Prepare(t, [row EXCEPT !.status = "RUNNING"], "reread")
  ELSE IF row.status = "RUNNING" THEN Working(t, "begin")
  ELSE Settle(t, IF row.status \in Finished THEN "ack" ELSE "release")

ReadLive(p) ==
  /\ At(p, "read")
  /\ Goto(p, AfterRead([proc[p] EXCEPT !.fresh = TRUE]))
  /\ UNCHANGED <<row, lease, beat, wire, startup, faults, lost>>

\* isHeld before a persisted write: the proxy around the store, and the
\* explicit checks of recovery and sweep.
GuardSave(p) ==
  /\ At(p, "guard")
  /\ Goto(p, IF Holds(p) THEN [proc[p] EXCEPT !.pc = "save"] ELSE Settle(proc[p], "release"))
  /\ UNCHANGED <<row, lease, beat, wire, startup, faults, lost>>

\* The writer's next place; a pipeline that was just failed is not run.
AfterSave(t) == [Idle EXCEPT !.pc = t.next, !.reclaimed = t.reclaimed /\ t.next = "reread",
                             !.purpose = IF t.next = "release" THEN t.purpose ELSE "run"]

SaveLands(p) ==
  /\ At(p, "save") /\ proc[p].fresh
  /\ Land(proc[p].write, [proc EXCEPT ![p] = AfterSave(proc[p])])
  /\ UNCHANGED <<lease, startup, faults, lost>>

SaveRefused(p) ==
  /\ At(p, "save") /\ ~proc[p].fresh
  /\ Goto(p, Settle(proc[p], "release"))
  /\ UNCHANGED <<row, lease, beat, wire, startup, faults, lost>>

\* The request times out; the backend may still apply it later.
SaveTimesOut(p) ==
  /\ At(p, "save") /\ Fault
  /\ wire' = IF proc[p].fresh THEN wire \cup {proc[p].write} ELSE wire
  /\ Goto(p, Settle(proc[p], "release"))
  /\ UNCHANGED <<row, lease, beat, startup, lost>>

\* acknowledgeRecovery by the token that is stored, expired or not.
Acknowledged(p) == [lease EXCEPT !.reclaimed = @ /\ lease.owner # p]

\* Recovery, sweep or refusal done, or the candidate turned out finished.
Acknowledge(p) ==
  /\ At(p, "ack")
  /\ lease' = Acknowledged(p)
  /\ Goto(p, Settle(proc[p], "release"))
  /\ UNCHANGED <<row, beat, wire, startup, faults, lost>>

\* The promoted row is read again; only a RUNNING one is worked on.
Reread(p) ==
  /\ At(p, "reread")
  /\ Goto(p, IF row.status = "RUNNING"
             THEN Working(proc[p], IF proc[p].reclaimed THEN "clear" ELSE "begin")
             ELSE Settle(proc[p], "release"))
  /\ UNCHANGED <<row, lease, beat, wire, startup, faults, lost>>

\* A job that was still PENDING lost nothing with its owner.
ClearPromoted(p) ==
  /\ At(p, "clear")
  /\ lease' = Acknowledged(p)
  /\ Goto(p, [proc[p] EXCEPT !.pc = "begin"])
  /\ UNCHANGED <<row, beat, wire, startup, faults, lost>>

\* finally: the token is emptied if it is still the stored one.  The mark of a
\* reclaim is left as it is.
Release(p) ==
  /\ At(p, "release")
  /\ lease' = IF lease.owner = p THEN [lease EXCEPT !.owner = NoOwner, !.expired = TRUE]
              ELSE lease
  /\ Goto(p, Onward(proc[p]))
  /\ UNCHANGED <<row, beat, wire, startup, faults, lost>>

\* The release itself fails: the token stays until it expires.
ReleaseLost(p) ==
  /\ At(p, "release") /\ lease.owner = p /\ Fault
  /\ lease' = [lease EXCEPT !.owner = Gone]
  /\ Goto(p, Onward(proc[p]))
  /\ UNCHANGED <<row, beat, wire, startup, lost>>

-----------------------------------------------------------------------------
(* The tick: one step of the pipeline.                                     *)

\* The checks on spec, runtime, directory and iterations fail the pipeline.
Reject(p) ==
  /\ At(p, "begin")
  /\ Goto(p, Prepare(proc[p], Failed(proc[p].seen), "release"))
  /\ UNCHANGED <<row, lease, beat, wire, startup, faults, lost>>

\* The step is handed to the agent.  Nothing looks at the lease here.
Begin(p) ==
  /\ At(p, "begin")
  /\ Goto(p, [proc[p] EXCEPT !.pc = "work"])
  /\ UNCHANGED <<row, lease, beat, wire, startup, faults, lost>>

\* stillRunning before a file mutation or a command: the lease, the live row,
\* the lease again.  A lease still held at the last look was held throughout,
\* so the whole check is placed where the row is read.
CheckAction(p) ==
  /\ proc[p].pc \in {"work", "judge"} /\ ~proc[p].acting
  /\ Holds(p) /\ row.status = "RUNNING"
  /\ Goto(p, [proc[p] EXCEPT !.acting = TRUE])
  /\ UNCHANGED <<row, lease, beat, wire, startup, faults, lost>>

\* The mutation that was checked reaches the workspace.
Act(p) ==
  /\ proc[p].acting
  /\ Goto(p, [proc[p] EXCEPT !.acting = FALSE])
  /\ UNCHANGED <<row, lease, beat, wire, startup, faults, lost>>

\* The step is over: a result without the lease is dropped on the spot.
FinishStep(p) ==
  /\ At(p, "work") /\ ~proc[p].acting
  /\ Goto(p, IF Holds(p) THEN [proc[p] EXCEPT !.pc = "after"] ELSE Settle(proc[p], "release"))
  /\ lost' = IF Holds(p) THEN lost
             ELSE lost \cup {[pos |-> proc[p].seen.pos, by |-> "expiry"]}
  /\ UNCHANGED <<row, lease, beat, wire, startup, faults>>

\* The row is read again and the result rebased onto it, unless the pipeline
\* stopped or moved meanwhile.
Rebase(p) ==
  /\ At(p, "after")
  /\ Goto(p, IF row.status = "RUNNING" /\ row.pos = proc[p].seen.pos
             THEN Working(proc[p], "judge")
             ELSE Settle(proc[p], "release"))
  /\ UNCHANGED <<row, lease, beat, wire, startup, faults, lost>>

\* Mutant: the last step advances like any other.
OutcomesPastTheEnd(r) ==
  {Failed(r), [r EXCEPT !.pos = @ + 1, !.lapsed = FALSE]}

\* What a step result may store: a failure that ends the pipeline, the next
\* position, or the end.
Outcomes(r) ==
  {Failed(r), [r EXCEPT !.status = "COMPLETED", !.pos = LastPos, !.lapsed = FALSE],
   [Failed(r) EXCEPT !.pos = LastPos, !.lapsed = FALSE]}
  \cup {[r EXCEPT !.pos = @ + 1, !.lapsed = FALSE] : q \in {r.pos} \ {LastPos}}

Judge(p) ==
  /\ At(p, "judge") /\ ~proc[p].acting
  /\ \E new \in Outcomes(proc[p].seen) : Goto(p, Prepare(proc[p], new, "release"))
  /\ UNCHANGED <<row, lease, beat, wire, startup, faults, lost>>

-----------------------------------------------------------------------------
(* The heartbeat pulse, a timer of its own that outlives the step it began *)
(* in.  At most one pulse of a process is in flight.                       *)

PulseCheck(p) ==
  /\ beat[p] = "none" /\ At(p, "work") /\ Holds(p)
  /\ beat' = [beat EXCEPT ![p] = "held"]
  /\ UNCHANGED <<row, lease, proc, wire, startup, faults, lost>>

PulseRead(p) ==
  /\ beat[p] = "held"
  /\ beat' = [beat EXCEPT ![p] = IF row.status = "RUNNING" THEN "read" ELSE "none"]
  /\ UNCHANGED <<row, lease, proc, wire, startup, faults, lost>>

\* The pulse saves the row it read, with no further look at the lease; if the
\* row changed meanwhile the pulse was dropped by Land.
PulseSave(p) ==
  /\ beat[p] = "read"
  /\ Land([row EXCEPT !.lapsed = FALSE], proc)
  /\ UNCHANGED <<lease, startup, faults, lost>>

-----------------------------------------------------------------------------
(* The surroundings.                                                       *)

\* A write whose sender gave up is applied after all.
WireLands ==
  /\ \E w \in wire : Land(w, proc)
  /\ UNCHANGED <<lease, startup, faults, lost>>

\* session_abort_pipeline or the dashboard, when its own save is not refused.
Abort ==
  /\ row.status \notin Finished
  /\ Land([row EXCEPT !.status = "ABORTED"], proc)
  /\ UNCHANGED <<lease, startup, faults, lost>>

\* Five minutes since the heartbeat, or since the submission.
HeartbeatLapses ==
  /\ row.status \notin Finished /\ ~row.lapsed
  /\ row' = [row EXCEPT !.lapsed = TRUE]
  /\ UNCHANGED <<lease, proc, beat, wire, startup, faults, lost>>

\* A living owner stalls past its lease: no renewal for thirty seconds.
Stall ==
  /\ lease.owner \in Proc /\ ~lease.expired /\ Fault
  /\ lease' = [lease EXCEPT !.expired = TRUE]
  /\ UNCHANGED <<row, proc, beat, wire, startup, lost>>

\* Nobody renews the lease of a tick that is gone.
GoneExpires ==
  /\ lease.owner = Gone /\ ~lease.expired
  /\ lease' = [lease EXCEPT !.expired = TRUE]
  /\ UNCHANGED <<row, proc, beat, wire, startup, faults, lost>>

\* An attempt has begun and its result is not recorded yet.
Unfinished(t) == t.pc \in {"work", "after", "judge"}

\* A process dies and is started again; a request it had sent may still land.
\* Its attempt counts as lost unless another process has taken the lease over
\* and none of its actions was under way.
Crash(p) ==
  /\ Fault
  /\ lease' = [lease EXCEPT !.owner = IF @ = p THEN Gone ELSE @]
  /\ \/ wire' = wire
     \/ /\ At(p, "save") /\ proc[p].fresh
        /\ wire' = wire \cup {proc[p].write}
     \/ /\ beat[p] = "read"
        /\ wire' = wire \cup {[row EXCEPT !.lapsed = FALSE]}
  /\ lost' = IF Unfinished(proc[p]) /\ (lease.owner = p \/ proc[p].acting)
             THEN lost \cup {[pos |-> proc[p].seen.pos, by |-> "crash"]} ELSE lost
  /\ proc' = [proc EXCEPT ![p] = Idle]
  /\ beat' = [beat EXCEPT ![p] = "none"]
  /\ startup' = [startup EXCEPT ![p] = TRUE]
  /\ UNCHANGED row

-----------------------------------------------------------------------------
\* What a living process does next by itself.
Step(p) ==
  \/ Scan(p) \/ Claim(p) \/ ReadLive(p) \/ GuardSave(p)
  \/ SaveLands(p) \/ SaveRefused(p) \/ Acknowledge(p) \/ Reread(p)
  \/ ClearPromoted(p) \/ Release(p) \/ Begin(p) \/ Act(p) \/ FinishStep(p)
  \/ Rebase(p) \/ Judge(p)

Beat(p) == PulseCheck(p) \/ PulseRead(p) \/ PulseSave(p)

Environment(p) ==
  Follow(p) \/ Reject(p) \/ CheckAction(p) \/ SaveTimesOut(p) \/ ReleaseLost(p) \/ Crash(p)

Next ==
  \/ \E p \in Proc : Step(p) \/ Beat(p) \/ Environment(p)
  \/ WireLands \/ Abort \/ HeartbeatLapses \/ Stall \/ GoneExpires

Spec == Init /\ [][Next]_vars

\* A pulse, fired once in fifteen seconds and only while the agent works, does
\* not overtake the end of every step: now and then a tick goes from its last
\* read to its save on an unchanged row.
Unspoilt(p) ==
  /\ SF_vars(proc[p].fresh /\ Judge(p))
  /\ SF_vars(proc[p].fresh /\ GuardSave(p))
  /\ SF_vars(SaveLands(p))

\* The poll timer keeps ticking and every await returns; an agent's list of
\* actions is finite; time passes for the lease of a tick that is gone.
FairSpec ==
  /\ Spec
  /\ \A p \in Proc : /\ WF_vars(Step(p)) /\ WF_vars(Beat(p))
                     /\ SF_vars(FinishStep(p)) /\ SF_vars(Judge(p)) /\ Unspoilt(p)
  /\ WF_vars(GoneExpires)

-----------------------------------------------------------------------------
\* Whatever stalls, crashes or is delayed, two processes are never inside a
\* checked file action or command of the pipeline at the same time: an owner
\* whose lease ran out while it was acting fences the pipeline off, because the
\* next owner finds the lease reclaimed and fails the pipeline instead.
OneActor == \A p, q \in Proc : proc[p].acting /\ proc[q].acting => p = q

CrashLost == \E l \in lost : l.by = "crash"

\* Once a crash has cut an owner's attempt short, its pipeline never moves on:
\* no process performs a file action for it, and no process sends a write that
\* could succeed except the one that fails it.  The step is not replayed over
\* half-applied file actions.
NoReplayAfterCrash ==
  CrashLost => \A p \in Proc :
    /\ ~proc[p].acting
    /\ At(p, "save") /\ proc[p].fresh => proc[p].write.status = "FAILED"

\* "Expired owners cannot silently replay an unfinished running step"
\* (src/docs/ARCHITECTURE.md:579).  An attempt dropped because its lease had
\* expired is never begun again.
ExpiredNotReplayed ==
  [][\A p \in Proc : At(p, "begin") /\ proc'[p].pc = "work" =>
       [pos |-> proc[p].seen.pos, by |-> "expiry"] \notin lost]_vars

\* Writes, refusals and requests that land late, of all processes together, add
\* up to the life of one pipeline: none revives a finished one, skips a position,
\* takes one back, or records a step that was not reached.
Job == INSTANCE PipelineJob WITH status <- row.status, pos <- row.pos

KeepsJob == Job!Spec

\* After any number of stalls, crashes and lost answers the pipeline is
\* finished in the end; no dead owner keeps it from the others.
Settles == <>(row.status \in Finished)

\* Once the pipeline is finished, by the kill switch or otherwise, every process
\* stops working on it and none begins again.
Quiesces == row.status \in Finished ~> [](\A p \in Proc : ~Unfinished(proc[p]))
=============================================================================
