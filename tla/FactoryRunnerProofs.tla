------------------------ MODULE FactoryRunnerProofs ------------------------
(***************************************************************************)
(* Proofs about the runners of one pipeline, for any number of processes,  *)
(* any number of positions and any number of faults.                       *)
(*                                                                         *)
(* The argument.  A threat is a process that could still do something for  *)
(* the pipeline: it is inside a checked action, or about to send a save    *)
(* that could succeed and does not fail the pipeline.  As long as a threat *)
(* exists, its token is in the lease or the lease is marked reclaimed,     *)
(* and while the mark is there nobody else gets into the step.             *)
(*                                                                         *)
(* That the writes of all processes add up to the life of one pipeline     *)
(* rests on a second invariant: as long as a read is good, what its tick   *)
(* knows is true and what it will save can follow on the row (Honest), and *)
(* so can every request in flight.                                         *)
(***************************************************************************)
EXTENDS FactoryRunner, TLAPS

Saving(t) == t.pc \in {"guard", "save"}

\* Inside a step of the pipeline: from its promotion, or from the read that
\* found it RUNNING, to the save of the result.
InStep(t) ==
  \/ t.pc \in {"reread", "clear", "begin", "work", "after", "judge"}
  \/ Saving(t) /\ t.next = "release"

\* The tick has a RUNNING pipeline in hand.
InHand(t) == t.pc \in {"clear", "begin", "work", "after", "judge"}

Threat(t) ==
  \/ t.acting
  \/ t.pc = "save" /\ t.fresh /\ t.next = "release" /\ t.write.status # "FAILED"

-----------------------------------------------------------------------------
(* The parts of the inductive invariant.                                   *)

\* What each kind of save writes, and what a read that is still good says of
\* the row.
Saves ==
  \A p \in Proc :
    /\ proc[p].fresh => row.status \notin Finished
    /\ Saving(proc[p]) =>
         /\ proc[p].next = "ack" => proc[p].write.status = "FAILED"
         /\ proc[p].write.status # "PENDING"
         /\ proc[p].fresh /\ proc[p].next = "reread" => row.status = "PENDING"

\* Nothing in flight undoes a promotion or reopens a finished pipeline.
InFlight ==
  /\ wire # {} => row.status \notin Finished
  /\ \A w \in wire : w.status # "PENDING"
  /\ \A p \in Proc : beat[p] = "read" => row.status = "RUNNING"

\* Where a tick is tells what the row has been through.
Places ==
  \A p \in Proc :
    /\ proc[p].acting => proc[p].pc \in {"work", "judge"}
    /\ InStep(proc[p]) => row.status # "PENDING"
    /\ InHand(proc[p]) => proc[p].seen.status = "RUNNING"
    /\ proc[p].pc = "ack" => row.status \in Finished
    /\ lease.owner = p => proc[p].pc \notin {"idle", "claim"}

\* The fence: a threat holds the token or the mark is set.
Fenced ==
  \A p \in Proc : Threat(proc[p]) =>
    \/ lease.owner = p
    \/ lease.reclaimed
    \/ row.status \in Finished

\* An owner that is in the step, or will get there, is the only threat.
Alone ==
  \A p, q \in Proc : lease.owner = p /\ q # p /\ Threat(proc[q]) =>
    /\ ~InStep(proc[p])
    /\ proc[p].pc = "read" /\ ~proc[p].reclaimed => row.status \in Finished

OneThreat == \A p, q \in Proc : Threat(proc[p]) /\ Threat(proc[q]) => p = q

\* The scar of a lost attempt: whoever holds the lease now only fails the
\* pipeline, and whoever takes it next will find the mark.
Scarred ==
  CrashLost =>
    /\ row.status # "PENDING"
    /\ \A p \in Proc : ~Threat(proc[p])
    /\ row.status \notin Finished =>
         /\ lease.owner # Gone => lease.reclaimed
         /\ \A p \in Proc : lease.owner = p =>
              /\ ~InStep(proc[p])
              /\ proc[p].pc = "read" => proc[p].reclaimed

IInv ==
  TypeOK /\ Saves /\ InFlight /\ Places /\ Fenced /\ Alone /\ OneThreat /\ Scarred

-----------------------------------------------------------------------------
(* The operators that build ticks.                                         *)

\* The idle tick is a tick.
LEMMA IdleType == Idle \in Tick
BY RunnerAssumption DEF Idle, Tick, Place, Purpose, Row, Status

\* A settled tick keeps its purpose and its scan, and is no threat.
LEMMA SettleFields ==
  ASSUME NEW t \in Tick, NEW place \in {"ack", "release"}
  PROVE  LET s == Settle(t, place) IN
         /\ s \in Tick
         /\ s.pc = place
         /\ ~InStep(s) /\ ~Saving(s) /\ ~Threat(s) /\ ~InHand(s) /\ ~s.acting /\ ~s.fresh
BY ZenonT(120), IdleType DEF Settle, Idle, Tick, Place, InStep, Saving, Threat, InHand

\* A working tick is at the place given, on the row as it is.
LEMMA WorkingFields ==
  ASSUME NEW t \in Tick, row \in Row,
         NEW place \in {"clear", "begin", "judge"}
  PROVE  LET s == Working(t, place) IN
         /\ s \in Tick
         /\ s.pc = place
         /\ s.seen = row
         /\ ~Saving(s) /\ ~Threat(s) /\ ~s.acting
BY ZenonT(120), IdleType DEF Working, Idle, Tick, Place, Saving, Threat

\* A prepared save is not sent yet.
LEMMA PrepareFields ==
  ASSUME NEW t \in Tick, NEW new \in Row, NEW then \in {"ack", "reread", "release"}
  PROVE  LET s == Prepare(t, new, then) IN
         /\ s \in Tick
         /\ s.pc = "guard" /\ s.write = new /\ s.next = then /\ s.fresh = t.fresh
         /\ s.reclaimed = t.reclaimed
         /\ ~Threat(s) /\ ~s.acting
         /\ InStep(s) <=> then = "release"
         /\ ~InHand(s)
BY ZenonT(120), IdleType DEF Prepare, Idle, Tick, Place, Threat, InStep, Saving, InHand

\* What is left for a tick to do is to try the lease again, or nothing.
LEMMA OnwardFields ==
  ASSUME NEW t \in Tick
  PROVE  LET s == Onward(t) IN
         /\ s \in Tick
         /\ s.pc \in {"idle", "claim"}
         /\ ~InStep(s) /\ ~Saving(s) /\ ~Threat(s) /\ ~InHand(s) /\ ~s.acting /\ ~s.fresh
BY ZenonT(120), IdleType DEF Onward, Idle, Tick, Place, Purpose, InStep, Saving, Threat, InHand

-----------------------------------------------------------------------------
(* The invariant apart from types and flight, and how steps keep it.       *)

Core == Saves /\ Places /\ Fenced /\ Alone /\ OneThreat /\ Scarred

\* What a tick t may become when neither the row nor the lease changes: it is a
\* threat only if it was one or is in the step with the token, and with the
\* token it gets into the step only from a read without the mark.
Legitimate(p, t) ==
  /\ t \in Tick
  /\ t.fresh => row.status \notin Finished
  /\ Saving(t) =>
       /\ t.next = "ack" => t.write.status = "FAILED"
       /\ t.write.status # "PENDING"
       /\ t.fresh /\ t.next = "reread" => row.status = "PENDING"
  /\ t.acting => t.pc \in {"work", "judge"}
  /\ InStep(t) => row.status # "PENDING"
  /\ InHand(t) => t.seen.status = "RUNNING"
  /\ t.pc = "ack" => row.status \in Finished
  /\ t.pc # "read"
  /\ lease.owner = p => t.pc \notin {"idle", "claim"}
  /\ Threat(t) => \/ Threat(proc[p])
                  \/ /\ lease.owner = p /\ InStep(proc[p])
                     /\ row.status \notin Finished
  /\ lease.owner = p /\ InStep(t) =>
       \/ InStep(proc[p])
       \/ /\ proc[p].pc = "read" /\ ~proc[p].reclaimed
          /\ row.status \notin Finished

\* One tick moves on, row and lease stay as they are.
LEMMA TickMoves ==
  ASSUME TypeOK, Core, NEW p \in Proc, NEW t, Legitimate(p, t),
         proc' = [proc EXCEPT ![p] = t],
         UNCHANGED <<row, lease>>, CrashLost' => CrashLost
  PROVE  Core' /\ proc' \in [Proc -> Tick]
<1>1. proc' \in [Proc -> Tick] /\ proc'[p] = t /\ \A q \in Proc : q # p => proc'[q] = proc[q]
  BY DEF TypeOK, Legitimate
<1>2. Saves'
  BY <1>1 DEF Core, Saves, Legitimate
<1>3. Places'
  BY <1>1 DEF Core, Places, Legitimate
<1>4. Fenced'
  BY <1>1 DEF Core, Fenced, Legitimate
<1>5. Alone'
  <2>1. SUFFICES ASSUME NEW o \in Proc, NEW q \in Proc, lease.owner = o, q # o,
                        Threat(proc'[q])
                 PROVE  /\ ~InStep(proc'[o])
                        /\ proc'[o].pc = "read" /\ ~proc'[o].reclaimed => row.status \in Finished
    BY DEF Alone
  <2>2. Threat(proc[q])
    BY <1>1, <2>1 DEF Legitimate
  <2>3. ~InStep(proc[o]) /\ (proc[o].pc = "read" /\ ~proc[o].reclaimed => row.status \in Finished)
    BY <2>1, <2>2 DEF Core, Alone
  <2> QED BY <1>1, <2>1, <2>3 DEF Legitimate
<1>6. OneThreat'
  <2>1. SUFFICES ASSUME NEW q \in Proc, q # p, Threat(proc[q]), Threat(t)
                 PROVE  FALSE
    BY <1>1 DEF Core, OneThreat
  <2>2. CASE Threat(proc[p])
    BY <2>1, <2>2 DEF Core, OneThreat
  <2>3. CASE lease.owner = p /\ InStep(proc[p])
    BY <2>1, <2>3 DEF Core, Alone
  <2> QED BY <2>1, <2>2, <2>3 DEF Legitimate
<1>7. Scarred'
  <2>1. SUFFICES ASSUME CrashLost PROVE Scarred'
    BY DEF Scarred
  <2>2. \A q \in Proc : ~Threat(proc'[q])
    <3>1. ~Threat(t)
      BY <2>1 DEF Core, Scarred, Legitimate
    <3> QED BY <1>1, <2>1, <3>1 DEF Core, Scarred
  <2> QED BY <1>1, <2>1, <2>2 DEF Core, Scarred, Legitimate
<1> QED BY <1>1, <1>2, <1>3, <1>4, <1>5, <1>6, <1>7 DEF Core

\* No tick moves, and of row and lease only the clocks.
LEMMA ClocksMove ==
  ASSUME Core, UNCHANGED proc, row'.status = row.status,
         lease'.owner = lease.owner, lease'.reclaimed = lease.reclaimed,
         CrashLost' => CrashLost
  PROVE  Core'
BY DEF Core, Saves, Places, Fenced, Alone, OneThreat, Scarred, InStep, Saving, Threat, InHand

\* A save of tick t has landed.
LEMMA AfterSaveFields ==
  ASSUME NEW t \in Tick
  PROVE  LET s == AfterSave(t) IN
         /\ s \in Tick
         /\ s.pc = t.next
         /\ ~Saving(s) /\ ~Threat(s) /\ ~InHand(s) /\ ~s.acting
         /\ InStep(s) <=> t.next = "reread"
BY ZenonT(120), IdleType DEF AfterSave, Idle, Tick, Place, Purpose, InStep, Saving, Threat, InHand

\* A write reaches a row that was not finished: sent by a tick that goes on, or
\* by nobody who still waits for it.
LEMMA RowLands ==
  ASSUME TypeOK, Core, row.status \notin Finished,
         NEW new \in Row, new.status # "PENDING",
         NEW ticks \in [Proc -> Tick], Land(new, ticks),
         \A q \in Proc :
           \/ ticks[q] = proc[q]
           \/ /\ ticks[q] = AfterSave(proc[q])
              /\ proc[q].pc = "save" /\ proc[q].fresh /\ proc[q].write = new,
         UNCHANGED <<lease, lost>>
  PROVE  Core' /\ proc' \in [Proc -> Tick]
<1> DEFINE Moved(q) == /\ ticks[q] = AfterSave(proc[q])
                       /\ proc[q].pc = "save" /\ proc[q].fresh /\ proc[q].write = new
<1>1. /\ row' = new
      /\ proc' \in [Proc -> Tick]
      /\ \A q \in Proc : /\ proc'[q].fresh = FALSE
                         /\ proc'[q].pc = ticks[q].pc /\ proc'[q].next = ticks[q].next
                         /\ proc'[q].write = ticks[q].write /\ proc'[q].acting = ticks[q].acting
                         /\ proc'[q].reclaimed = ticks[q].reclaimed
                         /\ proc'[q].seen = ticks[q].seen
  <2>1. row' = new /\ proc' = [q \in Proc |-> [ticks[q] EXCEPT !.fresh = FALSE]]
    BY DEF Land
  <2>2. ASSUME NEW q \in Proc
        PROVE  /\ proc'[q] = [ticks[q] EXCEPT !.fresh = FALSE]
               /\ ticks[q] \in Tick
    BY <2>1
  <2>3. ASSUME NEW t \in Tick
        PROVE  [t EXCEPT !.fresh = FALSE] \in Tick
    BY DEF Tick
  <2>4. proc' \in [Proc -> Tick]
    BY <2>1, <2>2, <2>3
  <2> QED BY <2>1, <2>2, <2>4 DEF Tick
<1>2. \A q \in Proc : Moved(q) =>
        /\ proc'[q].pc = proc[q].next
        /\ ~Saving(proc'[q]) /\ ~proc'[q].acting
        /\ InStep(proc'[q]) => row.status = "PENDING"
        /\ proc'[q].pc = "ack" => new.status = "FAILED"
        /\ proc'[q].pc \in {"ack", "reread", "release"}
  <2>1. SUFFICES ASSUME NEW q \in Proc, Moved(q)
                 PROVE  /\ proc'[q].pc = proc[q].next
                        /\ ~Saving(proc'[q]) /\ ~proc'[q].acting
                        /\ InStep(proc'[q]) => row.status = "PENDING"
                        /\ proc'[q].pc = "ack" => new.status = "FAILED"
                        /\ proc'[q].pc \in {"ack", "reread", "release"}
    OBVIOUS
  <2>2. proc[q] \in Tick /\ Saving(proc[q])
    BY <2>1 DEF TypeOK, Saving
  <2>3. /\ ticks[q].pc = proc[q].next /\ ~Saving(ticks[q]) /\ ~ticks[q].acting
        /\ InStep(ticks[q]) => proc[q].next = "reread"
    BY <2>1, <2>2, AfterSaveFields
  <2> QED BY <1>1, <2>1, <2>2, <2>3 DEF Core, Saves, Saving, InStep, Tick
<1>3. \A q \in Proc : ~Moved(q) =>
        /\ proc'[q].pc = proc[q].pc /\ proc'[q].reclaimed = proc[q].reclaimed
        /\ proc'[q].acting = proc[q].acting
        /\ Saving(proc'[q]) <=> Saving(proc[q])
        /\ InStep(proc'[q]) <=> InStep(proc[q])
        /\ proc'[q].next = proc[q].next /\ proc'[q].write = proc[q].write
        /\ proc'[q].seen = proc[q].seen
  BY <1>1 DEF Saving, InStep
<1>4. \A q \in Proc : Threat(proc'[q]) =>
        proc'[q].acting /\ proc[q].acting /\ Threat(proc[q]) /\ row.status # "PENDING"
  <2>1. SUFFICES ASSUME NEW q \in Proc, Threat(proc'[q])
                 PROVE  proc'[q].acting /\ proc[q].acting /\ Threat(proc[q]) /\ row.status # "PENDING"
    OBVIOUS
  <2>2. proc'[q].acting /\ ~Moved(q)
    BY <1>1, <1>2, <2>1 DEF Threat
  <2> QED BY <1>3, <2>2 DEF Threat, Core, Places, InStep
<1> HIDE DEF Moved
<1>5. Saves'
  BY <1>1, <1>2, <1>3 DEF Core, Saves
<1>6. Places'
  <2>1. SUFFICES ASSUME NEW q \in Proc
                 PROVE  /\ proc'[q].acting => proc'[q].pc \in {"work", "judge"}
                        /\ InStep(proc'[q]) => new.status # "PENDING"
                        /\ InHand(proc'[q]) => proc'[q].seen.status = "RUNNING"
                        /\ proc'[q].pc = "ack" => new.status \in Finished
                        /\ lease.owner = q => proc'[q].pc \notin {"idle", "claim"}
    BY <1>1 DEF Places
  <2>2. CASE Moved(q)
    BY <1>1, <1>2, <2>2 DEF Finished, InHand
  <2>3. CASE ~Moved(q)
    BY <1>3, <2>3 DEF Core, Places, InHand
  <2> QED BY <2>2, <2>3
<1>7. Fenced'
  BY <1>4 DEF Core, Fenced
<1>8. Alone'
  <2>1. SUFFICES ASSUME NEW o \in Proc, NEW q \in Proc, lease.owner = o, q # o,
                        Threat(proc'[q])
                 PROVE  ~InStep(proc'[o]) /\ ~(proc'[o].pc = "read" /\ ~proc'[o].reclaimed)
    BY DEF Alone
  <2>2. ~InStep(proc[o]) /\ ~(proc[o].pc = "read" /\ ~proc[o].reclaimed)
    BY <1>4, <2>1 DEF Core, Alone
  <2>3. CASE Moved(o)
    BY <1>2, <1>4, <2>1, <2>3
  <2>4. CASE ~Moved(o)
    BY <1>3, <2>2, <2>4
  <2> QED BY <2>3, <2>4
<1>9. OneThreat'
  BY <1>4 DEF Core, OneThreat
<1>10. Scarred'
  <2>1. SUFFICES ASSUME CrashLost
                 PROVE  /\ \A q \in Proc : ~Threat(proc'[q])
                        /\ lease.owner # Gone => lease.reclaimed
                        /\ \A o \in Proc : lease.owner = o =>
                             /\ ~InStep(proc'[o])
                             /\ proc'[o].pc = "read" => proc'[o].reclaimed
    BY <1>1 DEF Scarred, CrashLost
  <2>2. ASSUME NEW o \in Proc, lease.owner = o
        PROVE  ~InStep(proc'[o]) /\ (proc'[o].pc = "read" => proc'[o].reclaimed)
    <3>1. ~InStep(proc[o]) /\ (proc[o].pc = "read" => proc[o].reclaimed) /\ row.status # "PENDING"
      BY <2>1, <2>2 DEF Core, Scarred
    <3> QED BY <1>2, <1>3, <3>1
  <2> QED BY <1>4, <2>1, <2>2 DEF Core, Scarred
<1> QED BY <1>1, <1>5, <1>6, <1>7, <1>8, <1>9, <1>10 DEF Core

-----------------------------------------------------------------------------
(* Steps that change the lease.                                            *)

\* A claim: a threat left behind finds its token replaced by the mark.
LEMMA ClaimKeeps ==
  ASSUME TypeOK, Core, NEW p \in Proc, Claim(p), lease.expired
  PROVE  Core' /\ proc' \in [Proc -> Tick]
<1> DEFINE t == [proc[p] EXCEPT !.pc = "read", !.reclaimed = TakenOver(lease)]
<1>1. /\ proc' = [proc EXCEPT ![p] = t]
      /\ lease'.owner = p /\ lease'.reclaimed = TakenOver(lease)
      /\ row' = row /\ lost' = lost /\ proc[p].pc = "claim"
  BY DEF Claim, Claimable, At, Goto
<1>2. /\ t \in Tick /\ t.pc = "read" /\ t.reclaimed = TakenOver(lease)
      /\ t.acting = proc[p].acting /\ t.fresh = proc[p].fresh
  <2>1. TakenOver(lease) \in BOOLEAN /\ proc[p] \in Tick
    BY DEF TakenOver, TypeOK
  <2>2. ASSUME NEW u \in Tick, NEW b \in BOOLEAN
        PROVE  LET v == [u EXCEPT !.pc = "read", !.reclaimed = b] IN
               /\ v \in Tick /\ v.pc = "read" /\ v.reclaimed = b
               /\ v.acting = u.acting /\ v.fresh = u.fresh
    BY DEF Tick, Place
  <2> QED BY <2>1, <2>2
<1>3. ~proc[p].acting
  BY <1>1 DEF Core, Places
<1>4. ~Threat(t) /\ ~InStep(t) /\ ~Saving(t) /\ ~t.acting
  BY <1>2, <1>3 DEF Threat, InStep, Saving
<1>5. /\ proc'[p] = t
      /\ \A q \in Proc : q # p => proc'[q] = proc[q]
      /\ proc' \in [Proc -> Tick]
  BY <1>1, <1>2 DEF TypeOK
<1> HIDE DEF t
<1>6. \A q \in Proc : Threat(proc[q]) => q # p /\ (TakenOver(lease) \/ row.status \in Finished)
  BY <1>1, <1>3, OwnerAssumption DEF Core, Fenced, TakenOver, Threat
<1>7. Saves' /\ Places'
  BY <1>1, <1>2, <1>4, <1>5 DEF Core, Saves, Places, InHand
<1>8. Fenced'
  BY <1>1, <1>4, <1>5, <1>6 DEF Fenced
<1>9. Alone'
  BY <1>1, <1>2, <1>4, <1>5, <1>6 DEF Alone
<1>10. OneThreat'
  BY <1>4, <1>5 DEF Core, OneThreat
<1>11. Scarred'
  <2>1. SUFFICES ASSUME CrashLost PROVE Scarred'
    BY <1>1 DEF Scarred, CrashLost
  <2>2. row.status \notin Finished => TakenOver(lease)
    BY <2>1, OwnerAssumption DEF Core, Scarred, TakenOver, Gone, NoOwner
  <2> QED BY <1>1, <1>2, <1>4, <1>5, <2>1, <2>2 DEF Core, Scarred
<1> QED BY <1>5, <1>7, <1>8, <1>9, <1>10, <1>11 DEF Core

\* Clearing the mark, after the pipeline was finished or promoted: nobody else
\* is a threat then.
LEMMA ClearKeeps ==
  ASSUME TypeOK, Core, NEW p \in Proc, Acknowledge(p) \/ ClearPromoted(p)
  PROVE  Core' /\ proc' \in [Proc -> Tick]
<1> DEFINE t == IF proc[p].pc = "ack" THEN Settle(proc[p], "release")
                ELSE [proc[p] EXCEPT !.pc = "begin"]
<1>1. /\ proc' = [proc EXCEPT ![p] = t]
      /\ lease' = Acknowledged(p)
      /\ row' = row /\ lost' = lost
      /\ proc[p].pc \in {"ack", "clear"}
  BY DEF Acknowledge, ClearPromoted, At, Goto
<1>2. proc[p] \in Tick
  BY DEF TypeOK
<1>3. ~proc[p].acting /\ ~Threat(proc[p])
  BY <1>1 DEF Core, Places, Threat
<1>4. /\ t \in Tick /\ ~Threat(t) /\ ~Saving(t) /\ ~t.acting
      /\ t.pc \in {"release", "begin"}
      /\ (InStep(t) => proc[p].pc = "clear")
      /\ t.fresh => proc[p].fresh
      /\ InHand(t) => InHand(proc[p]) /\ t.seen = proc[p].seen
  <2>1. CASE proc[p].pc = "ack"
    BY <1>2, <2>1, SettleFields
  <2>2. CASE proc[p].pc = "clear"
    BY <1>2, <1>3, <2>2 DEF Tick, Place, Threat, Saving, InStep, InHand
  <2> QED BY <1>1, <2>1, <2>2
<1>5. /\ proc'[p] = t
      /\ \A q \in Proc : q # p => proc'[q] = proc[q]
      /\ proc' \in [Proc -> Tick]
  BY <1>1, <1>4 DEF TypeOK
<1> HIDE DEF t
<1>6. lease'.owner = lease.owner /\ (lease'.reclaimed <=> lease.reclaimed /\ lease.owner # p)
  BY <1>1 DEF Acknowledged, TypeOK
<1>7. proc[p].pc = "ack" => row.status \in Finished
  BY DEF Core, Places
<1>8. proc[p].pc = "clear" => row.status # "PENDING" /\ InStep(proc[p])
  BY DEF Core, Places, InStep
<1>9. lease.owner = p => \/ row.status \in Finished
                        \/ \A q \in Proc : ~Threat(proc[q])
  BY <1>1, <1>3, <1>7, <1>8 DEF Core, Alone
<1>10. Saves' /\ Places'
  BY <1>1, <1>4, <1>5, <1>6, <1>8 DEF Core, Saves, Places
<1>11. Fenced'
  BY <1>1, <1>4, <1>5, <1>6, <1>9 DEF Core, Fenced
<1>12. Alone'
  BY <1>1, <1>4, <1>5, <1>6, <1>8 DEF Core, Alone
<1>13. OneThreat'
  BY <1>4, <1>5 DEF Core, OneThreat
<1>14. Scarred'
  <2>1. SUFFICES ASSUME CrashLost PROVE Scarred'
    BY <1>1 DEF Scarred, CrashLost
  <2>2. lease.owner = p => row.status \in Finished
    BY <1>1, <1>7, <1>8, <2>1 DEF Core, Scarred
  <2> QED BY <1>1, <1>4, <1>5, <1>6, <1>8, <2>1, <2>2 DEF Core, Scarred
<1> QED BY <1>5, <1>10, <1>11, <1>12, <1>13, <1>14 DEF Core

\* A release, or one that failed: the mark stays, whoever set it.
LEMMA ReleaseKeeps ==
  ASSUME TypeOK, Core, NEW p \in Proc, Release(p) \/ ReleaseLost(p)
  PROVE  Core' /\ proc' \in [Proc -> Tick]
<1> DEFINE t == Onward(proc[p])
<1>1. /\ proc' = [proc EXCEPT ![p] = t]
      /\ IF lease.owner = p THEN lease'.owner \in {NoOwner, Gone}
         ELSE lease'.owner = lease.owner
      /\ lease'.reclaimed = lease.reclaimed
      /\ row' = row /\ lost' = lost /\ proc[p].pc = "release"
  BY DEF Release, ReleaseLost, At, Goto, TypeOK
<1>2. ~proc[p].acting /\ ~Threat(proc[p])
  BY <1>1 DEF Core, Places, Threat
<1>3. /\ t \in Tick /\ t.pc \in {"idle", "claim"}
      /\ ~Threat(t) /\ ~Saving(t) /\ ~t.acting /\ ~InStep(t) /\ ~InHand(t) /\ ~t.fresh
  BY OnwardFields DEF TypeOK
<1>4. /\ proc'[p] = t
      /\ \A q \in Proc : q # p => proc'[q] = proc[q]
      /\ proc' \in [Proc -> Tick]
  BY <1>1, <1>3 DEF TypeOK
<1> HIDE DEF t
<1>5. \A q \in Proc : lease'.owner = q => lease.owner = q /\ q # p
  BY <1>1, OwnerAssumption
<1>6. Saves' /\ Places'
  BY <1>1, <1>3, <1>4, <1>5 DEF Core, Saves, Places
<1>7. Fenced'
  BY <1>1, <1>2, <1>3, <1>4 DEF Core, Fenced
<1>8. Alone'
  BY <1>1, <1>3, <1>4, <1>5 DEF Core, Alone
<1>9. OneThreat'
  BY <1>3, <1>4 DEF Core, OneThreat
<1>10. Scarred'
  <2>1. SUFFICES ASSUME CrashLost PROVE Scarred'
    BY <1>1 DEF Scarred, CrashLost
  <2>2. lease'.owner # Gone /\ row.status \notin Finished => lease.reclaimed
    BY <1>1, <2>1, OwnerAssumption DEF Core, Scarred, Gone, NoOwner
  <2> QED BY <1>1, <1>3, <1>4, <1>5, <2>1, <2>2 DEF Core, Scarred
<1> QED BY <1>4, <1>6, <1>7, <1>8, <1>9, <1>10 DEF Core

\* A crash: the token of the dead process stays behind and will be found.
LEMMA CrashKeeps ==
  ASSUME TypeOK, Core, NEW p \in Proc, Crash(p)
  PROVE  Core' /\ proc' \in [Proc -> Tick]
<1>1. /\ proc' = [proc EXCEPT ![p] = Idle]
      /\ lease'.owner = (IF lease.owner = p THEN Gone ELSE lease.owner)
      /\ lease'.reclaimed = lease.reclaimed
      /\ row' = row
      /\ CrashLost' => \/ CrashLost
                       \/ Unfinished(proc[p]) /\ (lease.owner = p \/ proc[p].acting)
  BY DEF Crash, TypeOK, CrashLost
<1>2. Idle \in Tick /\ ~Threat(Idle) /\ ~Saving(Idle) /\ ~Idle.acting /\ ~InStep(Idle)
      /\ Idle.pc = "idle" /\ ~Idle.fresh /\ ~InHand(Idle)
  BY IdleType DEF Idle, Threat, Saving, InStep, InHand
<1>3. /\ proc'[p] = Idle
      /\ \A q \in Proc : q # p => proc'[q] = proc[q]
      /\ proc' \in [Proc -> Tick]
  BY <1>1, <1>2 DEF TypeOK
<1>4. \A q \in Proc : lease'.owner = q => lease.owner = q /\ q # p
  BY <1>1, OwnerAssumption
<1>5. Saves' /\ Places'
  BY <1>1, <1>2, <1>3, <1>4 DEF Core, Saves, Places
<1>6. Fenced'
  BY <1>1, <1>2, <1>3 DEF Core, Fenced
<1>7. Alone'
  BY <1>1, <1>2, <1>3, <1>4 DEF Core, Alone
<1>8. OneThreat'
  BY <1>2, <1>3 DEF Core, OneThreat
<1>9. Scarred'
  <2>1. CASE CrashLost
    BY <1>1, <1>2, <1>3, <1>4, <2>1 DEF Core, Scarred
  <2>2. CASE ~CrashLost
    <3>1. SUFFICES ASSUME Unfinished(proc[p]), lease.owner = p \/ proc[p].acting
                   PROVE  Scarred'
      BY <1>1, <2>2 DEF Scarred
    <3>2. InStep(proc[p]) /\ (proc[p].acting => Threat(proc[p]))
      BY <3>1 DEF Unfinished, InStep, Threat
    <3>3. row.status # "PENDING"
      BY <3>2 DEF Core, Places
    <3>4. \A q \in Proc : q # p => ~Threat(proc[q])
      <4>1. CASE lease.owner = p
        BY <3>2, <4>1 DEF Core, Alone
      <4>2. CASE proc[p].acting
        BY <3>2, <4>2 DEF Core, OneThreat
      <4> QED BY <3>1, <4>1, <4>2
    <3>5. CASE lease.owner = p
      BY <1>1, <1>2, <1>3, <1>4, <3>3, <3>4, <3>5, OwnerAssumption DEF Scarred
    <3>6. CASE lease.owner # p
      <4>1. Threat(proc[p]) /\ (lease.reclaimed \/ row.status \in Finished)
        BY <3>1, <3>2, <3>6 DEF Core, Fenced
      <4>2. \A q \in Proc : lease.owner = q =>
              /\ ~InStep(proc[q])
              /\ proc[q].pc = "read" /\ ~proc[q].reclaimed => row.status \in Finished
        BY <3>6, <4>1 DEF Core, Alone
      <4> QED BY <1>1, <1>2, <1>3, <1>4, <3>3, <3>4, <4>1, <4>2 DEF Scarred
    <3> QED BY <3>5, <3>6
  <2> QED BY <2>1, <2>2
<1> QED BY <1>3, <1>5, <1>6, <1>7, <1>8, <1>9 DEF Core

-----------------------------------------------------------------------------
(* Steps of a tick that leave row and lease alone.                         *)

\* Discovery, and a claim that finds the lease held.
LEMMA DiscoveryKeeps ==
  ASSUME TypeOK, Core, NEW p \in Proc,
         Scan(p) \/ Follow(p) \/ (Claim(p) /\ ~lease.expired)
  PROVE  Core' /\ proc' \in [Proc -> Tick]
<1>1. lease.owner # p
  BY DEF Scan, Follow, Claim, At, Core, Places
<1>2. PICK t \in Tick : /\ proc' = [proc EXCEPT ![p] = t]
                        /\ t.pc \in {"idle", "claim"} /\ ~t.acting /\ ~t.fresh
  <2>1. CASE Scan(p)
    <3>1. CASE row.status = "RUNNING"
      <4> DEFINE t == [Idle EXCEPT !.pc = "claim",
                        !.purpose = IF startup[p] THEN "recover"
                                    ELSE IF row.lapsed THEN "sweep" ELSE "run",
                        !.snap = [pos |-> row.pos, lapsed |-> row.lapsed]]
      <4>1. t \in Tick /\ t.pc = "claim" /\ ~t.acting /\ ~t.fresh
        BY ZenonT(120), IdleType DEF TypeOK, Row, Idle, Tick, Place, Purpose
      <4>2. proc' = [proc EXCEPT ![p] = t]
        BY <2>1, <3>1 DEF Scan, Goto
      <4> QED BY <4>1, <4>2
    <3>2. CASE row.status # "RUNNING"
      <4> DEFINE t == [Idle EXCEPT !.pc = IF row.status = "PENDING" THEN "claim" ELSE "idle"]
      <4>1. t \in Tick /\ t.pc \in {"idle", "claim"} /\ ~t.acting /\ ~t.fresh
        BY IdleType DEF Idle, Tick, Place
      <4>2. proc' = [proc EXCEPT ![p] = t]
        BY <2>1, <3>2 DEF Scan, Goto
      <4> QED BY <4>1, <4>2
    <3> QED BY <3>1, <3>2
  <2>2. CASE Follow(p)
    <3> DEFINE t == [Idle EXCEPT !.pc = "claim"]
    <3>1. t \in Tick /\ t.pc = "claim" /\ ~t.acting /\ ~t.fresh
      BY IdleType DEF Idle, Tick, Place
    <3>2. proc' = [proc EXCEPT ![p] = t]
      BY <2>2 DEF Follow, Goto
    <3> QED BY <3>1, <3>2
  <2>3. CASE Claim(p) /\ ~lease.expired
    <3>1. proc' = [proc EXCEPT ![p] = Onward(proc[p])]
      BY <2>3 DEF Claim, Claimable, Goto
    <3> QED BY <3>1, OnwardFields DEF TypeOK
  <2> QED BY <2>1, <2>2, <2>3
<1>3. UNCHANGED <<row, lease>> /\ lost' = lost
  BY DEF Scan, Follow, Claim, Claimable
<1>4. Legitimate(p, t)
  BY <1>1, <1>2 DEF Legitimate, InStep, Saving, Threat, InHand
<1> QED BY <1>2, <1>3, <1>4, TickMoves DEF CrashLost

\* The decision on the live row.
LEMMA ReadKeeps ==
  ASSUME TypeOK, Core, NEW p \in Proc, ReadLive(p)
  PROVE  Core' /\ proc' \in [Proc -> Tick]
<1> DEFINE u == [proc[p] EXCEPT !.fresh = TRUE]
           t == AfterRead(u)
           promoted == [row EXCEPT !.status = "RUNNING"]
<1>1. /\ proc' = [proc EXCEPT ![p] = t]
      /\ UNCHANGED <<row, lease>> /\ lost' = lost /\ proc[p].pc = "read"
  BY DEF ReadLive, At, Goto
<1>2. u \in Tick /\ u.reclaimed = proc[p].reclaimed /\ u.purpose = proc[p].purpose
      /\ u.fresh = TRUE /\ row \in Row
  BY ZenonT(120) DEF TypeOK, Tick
<1>3. Stopped(u) \in Row /\ Stopped(u).status = "FAILED"
  BY <1>2 DEF Stopped, Row, Tick, Status
<1>4. promoted \in Row /\ promoted.status = "RUNNING"
  BY <1>2 DEF Row, Status
<1> HIDE DEF u, promoted
<1>5. CASE Stops(u)
  <2>1. t = Prepare(u, Stopped(u), "ack")
    BY <1>5 DEF AfterRead
  <2> HIDE DEF t
  <2>2. /\ t \in Tick /\ t.pc = "guard" /\ t.write = Stopped(u) /\ t.next = "ack"
        /\ ~Threat(t) /\ ~t.acting /\ ~InStep(t) /\ ~InHand(t)
    <3>1. Stopped(u) \in Row /\ "ack" \in {"ack", "reread", "release"} /\ "ack" # "release"
      BY <1>3
    <3> DEFINE s == Prepare(u, Stopped(u), "ack")
    <3>2. s \in Tick /\ s.pc = "guard" /\ s.write = Stopped(u) /\ s.next = "ack"
      BY <1>2, <3>1, PrepareFields
    <3>3. ~Threat(s) /\ ~s.acting /\ ~InStep(s) /\ ~InHand(s)
      BY <1>2, <3>1, PrepareFields
    <3> QED BY <2>1, <3>2, <3>3
  <2>3. Legitimate(p, t)
    BY <1>3, <1>5, <2>2 DEF Legitimate, Stops, Finished
  <2> QED BY <1>1, <2>3, TickMoves DEF CrashLost
<1>6. CASE ~Stops(u) /\ u.purpose = "run" /\ row.status = "PENDING"
  <2>1. t = Prepare(u, promoted, "reread")
    BY <1>6 DEF AfterRead, promoted
  <2> HIDE DEF t
  <2>2. /\ t \in Tick /\ t.pc = "guard" /\ t.write = promoted /\ t.next = "reread"
        /\ ~Threat(t) /\ ~t.acting /\ ~InStep(t) /\ ~InHand(t)
    <3>1. promoted \in Row /\ "reread" \in {"ack", "reread", "release"} /\ "reread" # "release"
      BY <1>4
    <3> DEFINE s == Prepare(u, promoted, "reread")
    <3>2. s \in Tick /\ s.pc = "guard" /\ s.write = promoted /\ s.next = "reread"
      BY <1>2, <3>1, PrepareFields
    <3>3. ~Threat(s) /\ ~s.acting /\ ~InStep(s) /\ ~InHand(s)
      BY <1>2, <3>1, PrepareFields
    <3> QED BY <2>1, <3>2, <3>3
  <2>3. Legitimate(p, t)
    BY <1>4, <1>6, <2>2 DEF Legitimate, Finished
  <2> QED BY <1>1, <2>3, TickMoves DEF CrashLost
<1>7. CASE ~Stops(u) /\ u.purpose = "run" /\ row.status = "RUNNING"
  <2>1. t = Working(u, "begin") /\ ~u.reclaimed
    BY <1>7 DEF AfterRead, Stops
  <2> HIDE DEF t
  <2>2. t \in Tick /\ t.pc = "begin" /\ ~Threat(t) /\ ~Saving(t) /\ ~t.acting /\ t.seen = row
    BY <1>2, <2>1, WorkingFields
  <2>3. Legitimate(p, t)
    BY <1>1, <1>2, <1>7, <2>1, <2>2 DEF Legitimate, Finished
  <2> QED BY <1>1, <2>3, TickMoves DEF CrashLost
<1>8. CASE ~Stops(u) /\ (u.purpose # "run" \/ row.status \notin {"PENDING", "RUNNING"})
  <2>1. \/ t = Settle(u, "release")
        \/ t = Settle(u, "ack") /\ row.status \in Finished
    BY <1>8 DEF AfterRead
  <2> HIDE DEF t
  <2>2. /\ t \in Tick /\ t.pc \in {"ack", "release"} /\ ~InStep(t) /\ ~Saving(t) /\ ~Threat(t) /\ ~t.acting
        /\ ~InHand(t) /\ ~t.fresh
        /\ t.pc = "ack" => row.status \in Finished
    BY <1>2, <2>1, SettleFields
  <2>3. Legitimate(p, t)
    BY <2>2 DEF Legitimate
  <2> QED BY <1>1, <2>3, TickMoves DEF CrashLost
<1> QED BY <1>5, <1>6, <1>7, <1>8

\* A save that is checked, refused or never answered.
LEMMA SavingKeeps ==
  ASSUME TypeOK, Core, NEW p \in Proc,
         GuardSave(p) \/ SaveRefused(p) \/ SaveTimesOut(p)
  PROVE  Core' /\ proc' \in [Proc -> Tick]
<1>1. /\ UNCHANGED <<row, lease>> /\ lost' = lost
      /\ proc[p].pc \in {"guard", "save"} /\ proc[p] \in Tick
  BY DEF GuardSave, SaveRefused, SaveTimesOut, At, TypeOK
<1>2. CASE proc' = [proc EXCEPT ![p] = Settle(proc[p], "release")]
  <2> DEFINE t == Settle(proc[p], "release")
  <2>1. /\ t \in Tick /\ t.pc = "release" /\ ~InStep(t) /\ ~Saving(t) /\ ~Threat(t) /\ ~t.acting
        /\ ~InHand(t) /\ ~t.fresh
    BY <1>1, SettleFields
  <2>2. Legitimate(p, t)
    BY <2>1 DEF Legitimate
  <2> QED BY <1>1, <1>2, <2>2, TickMoves DEF CrashLost
<1>3. CASE GuardSave(p) /\ Holds(p)
  <2> DEFINE t == [proc[p] EXCEPT !.pc = "save"]
  <2>1. proc[p].pc = "guard" /\ lease.owner = p /\ proc' = [proc EXCEPT ![p] = t]
    BY <1>3 DEF GuardSave, At, Holds, Goto
  <2>2. /\ t \in Tick /\ t.pc = "save" /\ t.acting = proc[p].acting
        /\ t.next = proc[p].next /\ t.write = proc[p].write /\ t.fresh = proc[p].fresh
    BY <1>1 DEF Tick, Place
  <2> HIDE DEF t
  <2>3. /\ ~proc[p].acting
        /\ InStep(t) => InStep(proc[p])
        /\ Saving(proc[p])
        /\ Threat(t) => InStep(proc[p]) /\ t.fresh
    BY <2>1, <2>2 DEF Core, Places, InStep, Saving, Threat
  <2>4. Legitimate(p, t)
    BY <2>1, <2>2, <2>3 DEF Legitimate, Core, Saves, Places, InHand
  <2> QED BY <1>1, <2>1, <2>4, TickMoves DEF CrashLost
<1> QED BY <1>2, <1>3 DEF GuardSave, SaveRefused, SaveTimesOut, Goto

\* A step result stores a row that has started.
LEMMA OutcomeRows ==
  ASSUME NEW r \in Row, r.status = "RUNNING", NEW new \in Outcomes(r)
  PROVE  new \in Row /\ new.status # "PENDING"
<1>1. LastPos \in 0 .. LastPos /\ r.pos \in 0 .. LastPos
  BY RunnerAssumption DEF Row
<1>2. /\ Failed(r) \in Row /\ Failed(r).status = "FAILED"
  BY DEF Failed, Row, Status
<1>3. ASSUME NEW q \in Row, NEW n \in 0 .. LastPos
      PROVE  LET z == [q EXCEPT !.pos = n, !.lapsed = FALSE] IN
             z \in Row /\ z.status = q.status
  BY DEF Row
<1>4. ASSUME NEW q \in Row, NEW n \in 0 .. LastPos
      PROVE  LET z == [q EXCEPT !.status = "COMPLETED", !.pos = n, !.lapsed = FALSE] IN
             z \in Row /\ z.status = "COMPLETED"
  BY DEF Row, Status
<1>5. CASE new = Failed(r)
  BY <1>2, <1>5
<1>6. CASE new = [r EXCEPT !.status = "COMPLETED", !.pos = LastPos, !.lapsed = FALSE]
  BY <1>1, <1>4, <1>6
<1>7. CASE new = [Failed(r) EXCEPT !.pos = LastPos, !.lapsed = FALSE]
  BY <1>1, <1>2, <1>3, <1>7
<1>8. CASE r.pos # LastPos /\ new = [r EXCEPT !.pos = @ + 1, !.lapsed = FALSE]
  <2>1. r.pos + 1 \in 0 .. LastPos
    BY <1>1, <1>8, RunnerAssumption
  <2> QED BY <1>3, <1>8, <2>1
<1> QED BY <1>5, <1>6, <1>7, <1>8 DEF Outcomes

\* The way into the step, and the answers that end it.
LEMMA StepKeeps ==
  ASSUME TypeOK, Core, NEW p \in Proc,
         Reread(p) \/ Reject(p) \/ Begin(p) \/ FinishStep(p) \/ Rebase(p) \/ Judge(p)
  PROVE  Core' /\ proc' \in [Proc -> Tick]
<1>1. /\ UNCHANGED <<row, lease>> /\ (CrashLost' => CrashLost)
      /\ proc[p].pc \in {"reread", "begin", "work", "after", "judge"}
      /\ proc[p] \in Tick /\ row \in Row
  BY DEF Reread, Reject, Begin, FinishStep, Rebase, Judge, At, TypeOK, CrashLost
<1>2. InStep(proc[p]) /\ row.status # "PENDING"
  BY <1>1 DEF InStep, Core, Places
<1>3. CASE proc' = [proc EXCEPT ![p] = Settle(proc[p], "release")]
  <2> DEFINE t == Settle(proc[p], "release")
  <2>1. /\ t \in Tick /\ t.pc = "release" /\ ~InStep(t) /\ ~Saving(t) /\ ~Threat(t) /\ ~t.acting
        /\ ~InHand(t) /\ ~t.fresh
    BY <1>1, SettleFields
  <2>2. Legitimate(p, t)
    BY <2>1 DEF Legitimate
  <2> QED BY <1>1, <1>3, <2>2, TickMoves
<1>4. ASSUME NEW place \in {"clear", "begin", "judge"}, row.status = "RUNNING",
             proc' = [proc EXCEPT ![p] = Working(proc[p], place)]
      PROVE  Core' /\ proc' \in [Proc -> Tick]
  <2> DEFINE t == Working(proc[p], place)
  <2>1. t \in Tick /\ t.pc = place /\ ~Saving(t) /\ ~Threat(t) /\ ~t.acting /\ t.seen = row
    BY <1>1, WorkingFields
  <2> HIDE DEF t
  <2>2. Legitimate(p, t)
    BY <1>2, <1>4, <2>1 DEF Legitimate, Finished
  <2> QED BY <1>1, <1>4, <2>2, TickMoves DEF t
<1>5. ASSUME NEW place \in {"work", "after"}, ~proc[p].acting, InHand(proc[p]),
             proc' = [proc EXCEPT ![p] = [proc[p] EXCEPT !.pc = place]]
      PROVE  Core' /\ proc' \in [Proc -> Tick]
  <2> DEFINE t == [proc[p] EXCEPT !.pc = place]
  <2>1. t \in Tick /\ t.pc = place /\ t.acting = proc[p].acting /\ t.seen = proc[p].seen
        /\ t.fresh = proc[p].fresh
    BY <1>1 DEF Tick, Place
  <2> HIDE DEF t
  <2>2. ~Saving(t) /\ ~Threat(t)
    BY <1>5, <2>1 DEF Saving, Threat
  <2>3. Legitimate(p, t)
    BY <1>2, <1>5, <2>1, <2>2 DEF Legitimate, Core, Saves, Places
  <2> QED BY <1>1, <1>5, <2>3, TickMoves DEF t
<1>6. ASSUME NEW new \in Row, new.status # "PENDING",
             proc' = [proc EXCEPT ![p] = Prepare(proc[p], new, "release")]
      PROVE  Core' /\ proc' \in [Proc -> Tick]
  <2> DEFINE t == Prepare(proc[p], new, "release")
  <2>1. /\ t \in Tick /\ t.pc = "guard" /\ t.write = new /\ t.next = "release"
    BY ZenonT(120), <1>1, PrepareFields
  <2>2. t.fresh = proc[p].fresh
    BY ZenonT(120), <1>1, PrepareFields
  <2>3. ~Threat(t) /\ ~t.acting /\ ~InHand(t)
    BY <1>1, PrepareFields
  <2> HIDE DEF t
  <2>4. Legitimate(p, t)
    BY <1>2, <1>6, <2>1, <2>2, <2>3 DEF Legitimate, Core, Saves
  <2> QED BY <1>1, <1>6, <2>4, TickMoves DEF t
<1>7. CASE Reread(p)
  BY <1>3, <1>4, <1>7 DEF Reread, Goto
<1>8. CASE Begin(p)
  <2>1. ~proc[p].acting /\ InHand(proc[p])
    BY <1>8 DEF Begin, At, InHand, Core, Places
  <2> QED BY <1>5, <1>8, <2>1 DEF Begin, Goto
<1>9. CASE FinishStep(p)
  <2>1. ~proc[p].acting /\ InHand(proc[p])
    BY <1>9 DEF FinishStep, At, InHand
  <2> QED BY <1>3, <1>5, <1>9, <2>1 DEF FinishStep, Goto
<1>10. CASE Rebase(p)
  BY <1>3, <1>4, <1>10 DEF Rebase, Goto
<1>11. CASE Reject(p)
  <2>1. Failed(proc[p].seen) \in Row /\ Failed(proc[p].seen).status = "FAILED"
    BY <1>1 DEF Failed, Tick, Row, Status
  <2> QED BY <1>6, <1>11, <2>1 DEF Reject, Goto
<1>12. CASE Judge(p)
  <2>1. proc[p].seen.status = "RUNNING" /\ proc[p].seen \in Row
    BY <1>1, <1>12 DEF Judge, At, InHand, Core, Places, Tick
  <2>2. \A new \in Outcomes(proc[p].seen) : new \in Row /\ new.status # "PENDING"
    BY <2>1, OutcomeRows
  <2> QED BY <1>6, <1>12, <2>2 DEF Judge, Goto
<1> QED BY <1>7, <1>8, <1>9, <1>10, <1>11, <1>12

\* A checked action begins and ends.
LEMMA ActionKeeps ==
  ASSUME TypeOK, Core, NEW p \in Proc, CheckAction(p) \/ Act(p)
  PROVE  Core' /\ proc' \in [Proc -> Tick]
<1>1. /\ UNCHANGED <<row, lease>> /\ lost' = lost
      /\ proc[p].pc \in {"work", "judge"}
      /\ proc[p] \in Tick
  BY DEF CheckAction, Act, TypeOK, Core, Places
<1>2. InStep(proc[p]) /\ InHand(proc[p]) /\ row.status # "PENDING"
  BY <1>1 DEF InStep, InHand, Core, Places
<1>3. PICK b \in BOOLEAN :
        /\ proc' = [proc EXCEPT ![p] = [proc[p] EXCEPT !.acting = b]]
        /\ b => lease.owner = p /\ row.status = "RUNNING"
  BY DEF CheckAction, Act, Goto, Holds
<1> DEFINE t == [proc[p] EXCEPT !.acting = b]
<1>4. /\ t \in Tick /\ t.pc = proc[p].pc /\ t.acting = b /\ t.fresh = proc[p].fresh
      /\ t.seen = proc[p].seen
  BY <1>1 DEF Tick
<1> HIDE DEF t
<1>5. ~Saving(t) /\ (Threat(t) => b) /\ (InHand(t) <=> InHand(proc[p]))
  BY <1>1, <1>4 DEF Saving, Threat, InHand
<1>6. Legitimate(p, t)
  BY <1>1, <1>2, <1>3, <1>4, <1>5 DEF Legitimate, Core, Saves, Places, Finished
<1> QED BY <1>1, <1>3, <1>6, TickMoves DEF t, CrashLost

-----------------------------------------------------------------------------
(* Steps that write the row.                                               *)

\* A save that lands, a pulse, a late write, and the kill switch.
LEMMA WriteKeeps ==
  ASSUME TypeOK, Core, InFlight,
         \/ \E p \in Proc : SaveLands(p) \/ PulseSave(p)
         \/ WireLands \/ Abort
  PROVE  Core' /\ proc' \in [Proc -> Tick] /\ row' \in Row /\ wire' = {}
<1> USE DEF TypeOK
<1>1. ASSUME NEW new \in Row, new.status # "PENDING", row.status \notin Finished,
             Land(new, proc), UNCHANGED <<lease, lost>>
      PROVE  Core' /\ proc' \in [Proc -> Tick] /\ row' \in Row /\ wire' = {}
  <2>1. Core' /\ proc' \in [Proc -> Tick]
    BY <1>1, RowLands
  <2> QED BY <1>1, <2>1 DEF Land
<1>2. ASSUME NEW p \in Proc, SaveLands(p)
      PROVE  Core' /\ proc' \in [Proc -> Tick] /\ row' \in Row /\ wire' = {}
  <2> DEFINE ticks == [proc EXCEPT ![p] = AfterSave(proc[p])]
  <2>1. /\ proc[p].pc = "save" /\ proc[p].fresh
        /\ Land(proc[p].write, ticks) /\ UNCHANGED <<lease, lost>>
    BY <1>2 DEF SaveLands, At
  <2>2. /\ row.status \notin Finished /\ proc[p].write \in Row
        /\ proc[p].write.status # "PENDING"
    BY <2>1 DEF Core, Saves, Saving, Tick
  <2>3. AfterSave(proc[p]) \in Tick
    BY AfterSaveFields
  <2>4. /\ ticks \in [Proc -> Tick]
        /\ \A q \in Proc : \/ ticks[q] = proc[q]
                           \/ ticks[q] = AfterSave(proc[q]) /\ q = p
    BY <2>3
  <2> HIDE DEF ticks
  <2>5. Core' /\ proc' \in [Proc -> Tick]
    BY <2>1, <2>2, <2>4, RowLands
  <2> QED BY <2>1, <2>2, <2>5 DEF Land
<1>3. ASSUME NEW p \in Proc, PulseSave(p)
      PROVE  Core' /\ proc' \in [Proc -> Tick] /\ row' \in Row /\ wire' = {}
  <2>1. row.status = "RUNNING"
    BY <1>3 DEF PulseSave, InFlight
  <2>2. [row EXCEPT !.lapsed = FALSE] \in Row /\ [row EXCEPT !.lapsed = FALSE].status = row.status
    BY DEF Row
  <2> QED BY <1>1, <1>3, <2>1, <2>2 DEF PulseSave, Finished
<1>4. ASSUME WireLands
      PROVE  Core' /\ proc' \in [Proc -> Tick] /\ row' \in Row /\ wire' = {}
  BY <1>1, <1>4 DEF WireLands, InFlight
<1>5. ASSUME Abort
      PROVE  Core' /\ proc' \in [Proc -> Tick] /\ row' \in Row /\ wire' = {}
  <2>1. [row EXCEPT !.status = "ABORTED"] \in Row /\ [row EXCEPT !.status = "ABORTED"].status = "ABORTED"
    BY DEF Row, Status
  <2> QED BY <1>1, <1>5, <2>1 DEF Abort
<1> QED BY <1>2, <1>3, <1>4, <1>5

-----------------------------------------------------------------------------
(* The invariant is inductive.                                             *)

\* The tick's own steps and the process's end.
ByTick(p) ==
  \/ Scan(p) \/ Follow(p) \/ Claim(p) \/ ReadLive(p) \/ GuardSave(p) \/ SaveRefused(p)
  \/ SaveTimesOut(p) \/ Acknowledge(p) \/ Reread(p) \/ ClearPromoted(p) \/ Release(p)
  \/ ReleaseLost(p) \/ Reject(p) \/ Begin(p) \/ CheckAction(p) \/ Act(p) \/ FinishStep(p)
  \/ Rebase(p) \/ Judge(p) \/ Crash(p)

Writes == \/ \E p \in Proc : SaveLands(p) \/ PulseSave(p)
          \/ WireLands \/ Abort

\* The clocks, and the pulse up to its save.
Clocks == \/ \E p \in Proc : PulseCheck(p) \/ PulseRead(p)
          \/ HeartbeatLapses \/ Stall \/ GoneExpires

\* Every step is one of these three.
LEMMA NextCases ==
  ASSUME Next
  PROVE  (\E p \in Proc : ByTick(p)) \/ Writes \/ Clocks
BY DEF Next, Step, Beat, Environment, ByTick, Writes, Clocks

\* A tick's step keeps the core.
LEMMA ByTickKeeps ==
  ASSUME TypeOK, Core, NEW p \in Proc, ByTick(p)
  PROVE  Core' /\ proc' \in [Proc -> Tick]
<1>1. CASE Scan(p) \/ Follow(p) \/ (Claim(p) /\ ~lease.expired)
  BY <1>1, DiscoveryKeeps
<1>2. CASE Claim(p) /\ lease.expired
  BY <1>2, ClaimKeeps
<1>3. CASE ReadLive(p)
  BY <1>3, ReadKeeps
<1>4. CASE GuardSave(p) \/ SaveRefused(p) \/ SaveTimesOut(p)
  BY <1>4, SavingKeeps
<1>5. CASE Acknowledge(p) \/ ClearPromoted(p)
  BY <1>5, ClearKeeps
<1>6. CASE Release(p) \/ ReleaseLost(p)
  BY <1>6, ReleaseKeeps
<1>7. CASE Reread(p) \/ Reject(p) \/ Begin(p) \/ FinishStep(p) \/ Rebase(p) \/ Judge(p)
  BY <1>7, StepKeeps
<1>8. CASE CheckAction(p) \/ Act(p)
  BY <1>8, ActionKeeps
<1>9. CASE Crash(p)
  BY <1>9, CrashKeeps
<1> QED BY <1>1, <1>2, <1>3, <1>4, <1>5, <1>6, <1>7, <1>8, <1>9 DEF ByTick

\* What a tick's step does to the types and to what is in flight.
LEMMA ByTickFlight ==
  ASSUME IInv, NEW p \in Proc, ByTick(p), proc' \in [Proc -> Tick]
  PROVE  TypeOK' /\ InFlight'
<1> USE DEF IInv
<1>1. row' = row
  BY DEF ByTick, Scan, Follow, Claim, ReadLive, GuardSave, SaveRefused, SaveTimesOut,
         Acknowledge, Reread, ClearPromoted, Release, ReleaseLost, Reject, Begin,
         CheckAction, Act, FinishStep, Rebase, Judge, Crash
<1>2. proc[p] \in Tick
  BY DEF TypeOK
<1>3. CASE SaveTimesOut(p)
  <2>1. /\ UNCHANGED <<lease, beat, startup, lost>>
        /\ faults < MaxFaults /\ faults' = faults + 1
        /\ wire' \subseteq wire \cup {proc[p].write}
        /\ proc[p].pc = "save"
        /\ wire' = wire \/ proc[p].fresh
    BY <1>3 DEF SaveTimesOut, At, Fault
  <2>2. proc[p].write \in Row /\ proc[p].write.status # "PENDING"
    BY <1>2, <2>1 DEF Tick, Saves, Saving
  <2>3. TypeOK'
    BY <1>1, <2>1, <2>2, RunnerAssumption DEF TypeOK
  <2>4. InFlight'
    BY <1>1, <2>1, <2>2 DEF InFlight, Saves
  <2> QED BY <2>3, <2>4
<1>4. CASE Crash(p)
  <2> DEFINE kept == [row EXCEPT !.lapsed = FALSE]
  <2>1. kept \in Row /\ kept.status = row.status
    BY DEF TypeOK, Row
  <2>2. \/ wire' = wire
        \/ proc[p].pc = "save" /\ proc[p].fresh /\ wire' = wire \cup {proc[p].write}
        \/ beat[p] = "read" /\ wire' = wire \cup {kept}
    BY <1>4 DEF Crash, At
  <2> HIDE DEF kept
  <2>3. /\ wire' \subseteq Row
        /\ \A w \in wire' : w.status # "PENDING"
        /\ wire' # {} => row.status \notin Finished
    BY <1>2, <2>1, <2>2 DEF TypeOK, InFlight, Saves, Saving, Tick, Finished
  <2>4. /\ beat' = [beat EXCEPT ![p] = "none"]
        /\ startup' = [startup EXCEPT ![p] = TRUE]
        /\ faults < MaxFaults /\ faults' = faults + 1
        /\ lease' = [lease EXCEPT !.owner = IF @ = p THEN Gone ELSE @]
        /\ lost' \subseteq lost \cup {[pos |-> proc[p].seen.pos, by |-> "crash"]}
    BY <1>4 DEF Crash, Fault
  <2>5. proc[p].seen.pos \in 0 .. LastPos
    BY <1>2 DEF Tick, Row
  <2>6. TypeOK'
    BY <1>1, <2>3, <2>4, <2>5, RunnerAssumption DEF TypeOK
  <2>7. InFlight'
    BY <1>1, <2>3, <2>4 DEF InFlight, TypeOK
  <2> QED BY <2>6, <2>7
<1>5. CASE ~SaveTimesOut(p) /\ ~Crash(p)
  <2>1. UNCHANGED <<beat, wire>>
    BY <1>5 DEF ByTick, Scan, Follow, Claim, ReadLive, GuardSave, SaveRefused,
         Acknowledge, Reread, ClearPromoted, Release, ReleaseLost, Reject, Begin,
         CheckAction, Act, FinishStep, Rebase, Judge
  <2>2. InFlight'
    BY <1>1, <2>1 DEF InFlight
  <2>3. /\ startup' \in [Proc -> BOOLEAN]
        /\ faults' \in 0 .. MaxFaults
    <3>1. startup' = startup \/ startup' = [startup EXCEPT ![p] = FALSE]
      BY <1>5 DEF ByTick, Scan, Follow, Claim, ReadLive, GuardSave, SaveRefused,
         Acknowledge, Reread, ClearPromoted, Release, ReleaseLost, Reject, Begin,
         CheckAction, Act, FinishStep, Rebase, Judge
    <3>2. faults' = faults \/ (faults < MaxFaults /\ faults' = faults + 1)
      BY <1>5 DEF Fault, ByTick, Scan, Follow, Claim, ReadLive, GuardSave, SaveRefused,
         Acknowledge, Reread, ClearPromoted, Release, ReleaseLost, Reject, Begin,
         CheckAction, Act, FinishStep, Rebase, Judge
    <3>3. startup \in [Proc -> BOOLEAN] /\ faults \in 0 .. MaxFaults
      BY DEF TypeOK
    <3>4. startup' \in [Proc -> BOOLEAN]
      BY <3>1, <3>3
    <3>5. faults' \in 0 .. MaxFaults
      BY <3>2, <3>3, RunnerAssumption
    <3> QED BY <3>4, <3>5
  <2>4. lease' \in [owner : Proc \cup {NoOwner, Gone}, expired : BOOLEAN, reclaimed : BOOLEAN]
    <3>1. \/ lease' = lease
          \/ lease' = [owner |-> p, expired |-> FALSE, reclaimed |-> TakenOver(lease)]
          \/ lease' = Acknowledged(p)
          \/ lease' = [lease EXCEPT !.owner = NoOwner, !.expired = TRUE]
          \/ lease' = [lease EXCEPT !.owner = Gone]
      BY <1>5 DEF ByTick, Scan, Follow, Claim, ReadLive, GuardSave, SaveRefused,
         Acknowledge, Reread, ClearPromoted, Release, ReleaseLost, Reject, Begin,
         CheckAction, Act, FinishStep, Rebase, Judge
    <3> DEFINE Leases == [owner : Proc \cup {NoOwner, Gone}, expired : BOOLEAN, reclaimed : BOOLEAN]
    <3>2. TakenOver(lease) \in BOOLEAN /\ lease \in Leases
      BY DEF TypeOK, TakenOver
    <3>3. Acknowledged(p) \in Leases
      BY <3>2 DEF Acknowledged
    <3>4. ASSUME NEW l \in Leases
          PROVE  /\ [l EXCEPT !.owner = NoOwner, !.expired = TRUE] \in Leases
                 /\ [l EXCEPT !.owner = Gone] \in Leases
      OBVIOUS
    <3>5. [owner |-> p, expired |-> FALSE, reclaimed |-> TakenOver(lease)] \in Leases
      BY <3>2
    <3>6. lease' \in Leases
      <4> HIDE DEF Leases
      <4> QED BY <3>1, <3>2, <3>3, <3>4, <3>5
    <3> QED BY <3>6
  <2>5. lost' \subseteq [pos : 0 .. LastPos, by : {"crash", "expiry"}]
    <3>1. proc[p].seen.pos \in 0 .. LastPos
      BY <1>2 DEF Tick, Row
    <3>2. lost' \subseteq lost \cup {[pos |-> proc[p].seen.pos, by |-> "expiry"]}
      BY <1>5 DEF ByTick, Scan, Follow, Claim, ReadLive, GuardSave, SaveRefused,
         Acknowledge, Reread, ClearPromoted, Release, ReleaseLost, Reject, Begin,
         CheckAction, Act, FinishStep, Rebase, Judge
    <3> QED BY <3>1, <3>2 DEF TypeOK
  <2> QED BY <1>1, <2>1, <2>2, <2>3, <2>4, <2>5 DEF TypeOK
<1> QED BY <1>3, <1>4, <1>5

\* A write leaves nothing in flight that could succeed.
LEMMA WritesFlight ==
  ASSUME IInv, Writes, proc' \in [Proc -> Tick], row' \in Row, wire' = {}
  PROVE  TypeOK' /\ InFlight'
<1>1. PICK new, ticks : Land(new, ticks) /\ UNCHANGED <<lease, startup, faults, lost>>
  BY DEF Writes, SaveLands, PulseSave, WireLands, Abort
<1>2. /\ beat' \in [Proc -> {"none", "held", "read"}]
      /\ \A q \in Proc : beat'[q] # "read"
  BY <1>1 DEF Land, IInv, TypeOK
<1> QED BY <1>1, <1>2 DEF IInv, TypeOK, InFlight

\* The clocks and the first half of a pulse.
LEMMA ClocksKeep ==
  ASSUME IInv, Clocks
  PROVE  IInv'
<1> USE DEF IInv
<1>1. /\ UNCHANGED <<proc, wire, startup, lost>>
      /\ lease'.owner = lease.owner /\ lease'.reclaimed = lease.reclaimed
      /\ row'.status = row.status
      /\ lease' \in [owner : Proc \cup {NoOwner, Gone}, expired : BOOLEAN, reclaimed : BOOLEAN]
  BY DEF Clocks, PulseCheck, PulseRead, HeartbeatLapses, Stall, GoneExpires, TypeOK, Row
<1>2. row' \in Row /\ faults' \in 0 .. MaxFaults
  <2>1. row' = row \/ row' = [row EXCEPT !.lapsed = TRUE]
    BY DEF Clocks, PulseCheck, PulseRead, HeartbeatLapses, Stall, GoneExpires
  <2>2. faults' = faults \/ (faults < MaxFaults /\ faults' = faults + 1)
    BY DEF Clocks, PulseCheck, PulseRead, HeartbeatLapses, Stall, GoneExpires, Fault
  <2>3. row' \in Row
    BY <2>1 DEF TypeOK, Row
  <2> QED BY <2>2, <2>3, RunnerAssumption DEF TypeOK
<1>3. /\ beat' \in [Proc -> {"none", "held", "read"}]
      /\ \A q \in Proc : beat'[q] = "read" => beat[q] = "read" \/ row.status = "RUNNING"
  BY DEF Clocks, PulseCheck, PulseRead, HeartbeatLapses, Stall, GoneExpires, TypeOK
<1>4. TypeOK' /\ InFlight'
  BY <1>1, <1>2, <1>3 DEF TypeOK, InFlight
<1>5. Core'
  BY <1>1, ClocksMove DEF Core, CrashLost
<1> QED BY <1>4, <1>5 DEF Core

\* The invariant holds at the start.
LEMMA InitInv == Init => IInv
<1> SUFFICES ASSUME Init PROVE IInv
  OBVIOUS
<1>1. Idle.pc = "idle" /\ ~Idle.acting /\ ~Idle.fresh
  BY DEF Idle
<1>2. ~InStep(Idle) /\ ~InHand(Idle) /\ ~Threat(Idle) /\ ~Saving(Idle)
  BY <1>1 DEF InStep, InHand, Threat, Saving
<1>3. proc = [p \in Proc |-> Idle] /\ row.status = "PENDING" /\ wire = {} /\ lost = {}
      /\ beat = [p \in Proc |-> "none"] /\ lease.owner = NoOwner
  BY DEF Init
<1>4. TypeOK
  BY IdleType, RunnerAssumption DEF Init, TypeOK, Row, Status
<1>5. Saves /\ InFlight /\ Places
  BY <1>1, <1>2, <1>3, OwnerAssumption DEF Saves, InFlight, Places
<1>6. Fenced /\ Alone /\ OneThreat
  BY <1>2, <1>3 DEF Fenced, Alone, OneThreat
<1>7. Scarred
  BY <1>3 DEF Scarred, CrashLost
<1> QED BY <1>4, <1>5, <1>6, <1>7 DEF IInv

\* Every step keeps it.
LEMMA StepInv == IInv /\ [Next]_vars => IInv'
<1> SUFFICES ASSUME IInv, [Next]_vars PROVE IInv'
  OBVIOUS
<1>1. TypeOK /\ Core /\ InFlight
  BY DEF IInv, Core
<1>2. ASSUME NEW p \in Proc, ByTick(p) PROVE IInv'
  BY <1>1, <1>2, ByTickKeeps, ByTickFlight DEF IInv, Core
<1>3. CASE Writes
  <2>1. Core' /\ proc' \in [Proc -> Tick] /\ row' \in Row /\ wire' = {}
    BY <1>1, <1>3, WriteKeeps DEF Writes
  <2> QED BY <1>3, <2>1, WritesFlight DEF IInv, Core
<1>4. CASE Clocks
  BY <1>4, ClocksKeep
<1>5. CASE UNCHANGED vars
  BY <1>5 DEF vars, IInv, TypeOK, Saves, InFlight, Places, Fenced, Alone, OneThreat, Scarred,
              InStep, InHand, Saving, Threat, CrashLost
<1> QED BY <1>2, <1>3, <1>4, <1>5, NextCases

-----------------------------------------------------------------------------
(* What follows.                                                           *)

\* The invariant holds in every reachable state.
THEOREM InvariantHolds == Spec => []IInv
BY InitInv, StepInv, PTL DEF Spec

\* Whatever the interleaving of ticks, pulses, faults and late writes, row,
\* lease and processes keep their types.
THEOREM TypeCorrect == Spec => []TypeOK
<1>1. IInv => TypeOK
  BY DEF IInv
<1> QED BY <1>1, InvariantHolds, PTL

\* However many host processes share the config database, at most one of them
\* is inside a checked file action or command of the pipeline.
THEOREM OneActorAtATime == Spec => []OneActor
<1>1. IInv => OneActor
  BY DEF IInv, OneThreat, OneActor, Threat
<1> QED BY <1>1, InvariantHolds, PTL

\* After a crash that cut an owner's attempt short, no process acts for the
\* pipeline again or saves anything but its failure.
THEOREM CrashNeverReplayed == Spec => []NoReplayAfterCrash
<1>1. IInv => NoReplayAfterCrash
  <2>1. SUFFICES ASSUME IInv, CrashLost, NEW p \in Proc
                 PROVE  /\ ~proc[p].acting
                        /\ At(p, "save") /\ proc[p].fresh => proc[p].write.status = "FAILED"
    BY DEF NoReplayAfterCrash
  <2>2. ~Threat(proc[p]) /\ row.status # "PENDING"
    BY <2>1 DEF IInv, Scarred
  <2>3. ASSUME At(p, "save"), proc[p].fresh PROVE proc[p].write.status = "FAILED"
    <3>1. proc[p].next \in {"ack", "reread", "release"}
      BY <2>1 DEF IInv, TypeOK, Tick
    <3> QED BY <2>1, <2>2, <2>3, <3>1 DEF IInv, Saves, Saving, Threat, At
  <2> QED BY <2>2, <2>3 DEF Threat
<1> QED BY <1>1, InvariantHolds, PTL

-----------------------------------------------------------------------------
(* All writes together are the life of one pipeline.                       *)

\* A step of the job, or the pulse that leaves it where it is.
CanBecome(r, w) ==
  \/ r.status = "PENDING" /\ w.status = "RUNNING" /\ w.pos = r.pos
  \/ /\ r.status = "RUNNING"
     /\ \/ w.status = "RUNNING" /\ w.pos = r.pos
        \/ w.status = "RUNNING" /\ r.pos < LastPos /\ w.pos = r.pos + 1
        \/ w.status = "COMPLETED" /\ w.pos = LastPos
        \/ w.status = "FAILED" /\ w.pos \in 0 .. r.pos \cup {LastPos}

\* What a tick knows is true as long as its read is good, what it is about to
\* save can follow on the row, and its scan saw no position still to come.
Honest(t) ==
  /\ t.fresh /\ InHand(t) => row.status = "RUNNING" /\ t.seen.pos = row.pos
  /\ t.fresh /\ Saving(t) => CanBecome(row, t.write)
  /\ row.status \notin Finished => t.snap.pos <= row.pos

JobInv ==
  /\ \A p \in Proc : Honest(proc[p])
  /\ \A w \in wire : CanBecome(row, w)

\* A tick that has read nothing, and scanned nothing further than the row.
LEMMA HonestWithoutRead ==
  ASSUME NEW t, ~t.fresh, t.snap.pos <= row.pos \/ row.status \in Finished
  PROVE  Honest(t)
BY DEF Honest

\* The idle tick has scanned nothing.
LEMMA HonestIdle ==
  ASSUME row \in Row
  PROVE  /\ Idle.snap.pos <= row.pos /\ Honest(Idle)
         /\ Idle.snap \in [pos : 0 .. LastPos, lapsed : BOOLEAN] /\ ~Idle.fresh
<1>1. Idle.snap = [pos |-> 0, lapsed |-> FALSE] /\ Idle.fresh = FALSE
  BY DEF Idle
<1>2. Idle.snap.pos = 0 /\ row.pos \in 0 .. LastPos
  BY <1>1 DEF Row
<1>3. Idle.snap.pos <= row.pos
  BY <1>2, RunnerAssumption
<1> QED BY <1>1, <1>3, HonestWithoutRead, RunnerAssumption

\* The operators that build ticks keep them honest: giving up.
LEMMA HonestSettle ==
  ASSUME NEW t \in Tick, Honest(t), NEW place \in {"ack", "release"}
  PROVE  Honest(Settle(t, place))
<1>1. ~Settle(t, place).fresh
  BY SettleFields
<1>2. Settle(t, place).snap = t.snap
  BY ZenonT(120), IdleType DEF Settle, Idle, Tick
<1> QED BY <1>1, <1>2, HonestWithoutRead DEF Honest

\* Going on to the next purpose.
LEMMA HonestOnward ==
  ASSUME NEW t \in Tick, row \in Row, Honest(t)
  PROVE  Honest(Onward(t))
<1>1. ~Onward(t).fresh
  BY OnwardFields
<1>2. Onward(t) = Idle \/ Onward(t).snap = t.snap
  BY ZenonT(120), IdleType DEF Onward, Idle, Tick
<1> QED BY <1>1, <1>2, HonestIdle, HonestWithoutRead DEF Honest

\* Having read a RUNNING row.
LEMMA HonestWorking ==
  ASSUME NEW t \in Tick, row \in Row, row.status = "RUNNING",
         NEW place \in {"clear", "begin", "judge"}
  PROVE  Honest(Working(t, place))
<1>1. Working(t, place).snap = Idle.snap
  BY ZenonT(120), IdleType DEF Working, Idle, Tick
<1> QED BY <1>1, WorkingFields, HonestIdle DEF Honest

\* Preparing a save that can follow, or one that is refused anyway.
LEMMA HonestPrepare ==
  ASSUME NEW t \in Tick, Honest(t), NEW new \in Row, NEW then \in {"ack", "reread", "release"},
         t.fresh => CanBecome(row, new)
  PROVE  Honest(Prepare(t, new, then))
<1>1. Prepare(t, new, then).snap = t.snap
  BY ZenonT(120), IdleType DEF Prepare, Idle, Tick
<1>2. Prepare(t, new, then).fresh = t.fresh /\ Prepare(t, new, then).write = new
  BY ZenonT(120), PrepareFields
<1>3. ~InHand(Prepare(t, new, then))
  BY PrepareFields
<1> QED BY <1>1, <1>2, <1>3 DEF Honest

\* So does moving on within what the tick was doing.
LEMMA HonestPlaced ==
  ASSUME NEW t \in Tick, Honest(t), NEW place \in Place,
         place \in {"guard", "save"} => Saving(t),
         place \in {"clear", "begin", "work", "after", "judge"} => InHand(t)
  PROVE  Honest([t EXCEPT !.pc = place])
<1>1. LET s == [t EXCEPT !.pc = place] IN
      s.pc = place /\ s.fresh = t.fresh /\ s.seen = t.seen /\ s.write = t.write /\ s.snap = t.snap
  BY DEF Tick
<1> QED BY <1>1 DEF Honest, Saving, InHand

\* A stop or a step result can follow on the RUNNING row it was made from.
LEMMA ResultsFollow ==
  ASSUME NEW r \in Row, r.status = "RUNNING", row \in Row, row.status = "RUNNING", r.pos = row.pos,
         NEW new \in Outcomes(r) \cup {Failed(r)}
  PROVE  CanBecome(row, new)
<1>1. r.pos \in 0 .. LastPos /\ row.pos \in 0 .. row.pos
  BY RunnerAssumption DEF Row
<1>2. CASE new = Failed(r)
  <2>1. new.status = "FAILED" /\ new.pos = row.pos
    BY <1>2 DEF Failed, Row
  <2> QED BY <1>1, <2>1 DEF CanBecome
<1>3. CASE new = [r EXCEPT !.status = "COMPLETED", !.pos = LastPos, !.lapsed = FALSE]
  <2>1. new.status = "COMPLETED" /\ new.pos = LastPos
    BY <1>3 DEF Row
  <2> QED BY <2>1 DEF CanBecome
<1>4. CASE new = [Failed(r) EXCEPT !.pos = LastPos, !.lapsed = FALSE]
  <2>1. new.status = "FAILED" /\ new.pos = LastPos
    BY <1>4 DEF Failed, Row
  <2> QED BY <2>1 DEF CanBecome
<1>5. CASE r.pos # LastPos /\ new = [r EXCEPT !.pos = @ + 1, !.lapsed = FALSE]
  <2>1. new.status = "RUNNING" /\ new.pos = row.pos + 1 /\ row.pos < LastPos
    BY <1>1, <1>5, RunnerAssumption DEF Row
  <2> QED BY <2>1 DEF CanBecome
<1> QED BY <1>2, <1>3, <1>4, <1>5 DEF Outcomes

\* The decision on the live row is honest.
LEMMA HonestDecision ==
  ASSUME NEW u \in Tick, row \in Row, Honest([u EXCEPT !.fresh = FALSE])
  PROVE  Honest(AfterRead([u EXCEPT !.fresh = TRUE]))
<1> DEFINE t == [u EXCEPT !.fresh = TRUE]
<1>1. t \in Tick /\ t.fresh /\ t.snap = u.snap /\ t.purpose = u.purpose /\ t.snap.pos \in 0 .. LastPos
  BY ZenonT(120) DEF Tick
<1>2. row.status \notin Finished => t.snap.pos <= row.pos
  BY <1>1 DEF Honest, Tick
<1> HIDE DEF t
<1>3. CASE Stops(t)
  <2>1. Stopped(t).status = "FAILED" /\ Stopped(t).pos \in {t.snap.pos, row.pos} /\ Stopped(t) \in Row
    BY <1>1 DEF Stopped, Row, Status
  <2>2. row.status = "RUNNING" /\ row.status \notin Finished
    BY <1>3 DEF Stops, Finished
  <2>3. Stopped(t).pos \in 0 .. row.pos
    BY <1>1, <1>2, <2>1, <2>2, RunnerAssumption DEF Row
  <2>4. CanBecome(row, Stopped(t))
    BY <2>1, <2>2, <2>3 DEF CanBecome
  <2>5. \A s : s = Prepare(t, Stopped(t), "ack") => Honest(s)
    <3>1. Prepare(t, Stopped(t), "ack").snap = t.snap
      BY ZenonT(120), <1>1, <2>1, IdleType DEF Prepare, Idle, Tick
    <3>2. Prepare(t, Stopped(t), "ack").write = Stopped(t)
      BY ZenonT(120), <1>1, <2>1, IdleType DEF Prepare, Idle, Tick
    <3>3. ~InHand(Prepare(t, Stopped(t), "ack"))
      BY <1>1, <2>1, PrepareFields
    <3> QED BY <3>3, <1>2, <2>4, <3>1, <3>2 DEF Honest
  <2> QED BY <1>3, <2>5 DEF AfterRead, t
<1>4. CASE ~Stops(t) /\ t.purpose = "run" /\ row.status = "PENDING"
  <2> DEFINE new == [row EXCEPT !.status = "RUNNING"]
  <2>1. new \in Row /\ new.status = "RUNNING" /\ new.pos = row.pos
    BY DEF Row, Status
  <2>2. CanBecome(row, new)
    BY <1>4, <2>1 DEF CanBecome
  <2> HIDE DEF new
  <2>3. \A s : s = Prepare(t, new, "reread") => Honest(s)
    <3>1. Prepare(t, new, "reread").snap = t.snap
      BY ZenonT(120), <1>1, <2>1, IdleType DEF Prepare, Idle, Tick
    <3>2. Prepare(t, new, "reread").write = new
      BY ZenonT(120), <1>1, <2>1, IdleType DEF Prepare, Idle, Tick
    <3>3. ~InHand(Prepare(t, new, "reread"))
      BY <1>1, <2>1, PrepareFields
    <3> QED BY <3>3, <1>2, <2>2, <3>1, <3>2 DEF Honest
  <2> QED BY <1>4, <2>3 DEF AfterRead, t, new
<1>5. CASE ~Stops(t) /\ t.purpose = "run" /\ row.status = "RUNNING"
  <2>1. AfterRead(t) = Working(t, "begin")
    BY <1>5 DEF AfterRead
  <2> QED BY <1>1, <1>5, <2>1, HonestWorking DEF t
<1>6. CASE ~Stops(t) /\ (t.purpose # "run" \/ row.status \notin {"PENDING", "RUNNING"})
  <2>1. AfterRead(t) = Settle(t, "release") \/ AfterRead(t) = Settle(t, "ack")
    BY <1>6 DEF AfterRead
  <2>2. \A place \in {"ack", "release"} : ~Settle(t, place).fresh /\ Settle(t, place).snap = t.snap
    BY ZenonT(120), <1>1, IdleType DEF Settle, Idle, Tick
  <2> QED BY <1>2, <2>1, <2>2, HonestWithoutRead DEF t
<1> QED BY <1>3, <1>4, <1>5, <1>6

\* Every step of a tick leaves it honest, and the row as it is.
LEMMA TicksStayHonest ==
  ASSUME IInv, JobInv, NEW p \in Proc, ByTick(p)
  PROVE  row' = row /\ \E t \in {proc'[p]} : proc' = [proc EXCEPT ![p] = t] /\ Honest(t)
<1>1. row' = row /\ row \in Row /\ proc[p] \in Tick /\ Honest(proc[p]) /\ proc \in [Proc -> Tick]
  BY DEF ByTick, Scan, Follow, Claim, ReadLive, GuardSave, SaveRefused, SaveTimesOut,
         Acknowledge, Reread, ClearPromoted, Release, ReleaseLost, Reject, Begin,
         CheckAction, Act, FinishStep, Rebase, Judge, Crash, IInv, TypeOK, JobInv
<1>2. ASSUME NEW t, proc' = [proc EXCEPT ![p] = t], Honest(t)
      PROVE  \E u \in {proc'[p]} : proc' = [proc EXCEPT ![p] = u] /\ Honest(u)
  BY <1>1, <1>2
<1>3. Honest(Settle(proc[p], "release")) /\ Honest(Onward(proc[p]))
  BY <1>1, HonestSettle, HonestOnward
<1>4. CASE Scan(p) \/ Follow(p)
  <2>1. PICK t : /\ proc' = [proc EXCEPT ![p] = t]
                 /\ ~t.fresh /\ (t.snap = Idle.snap \/ t.snap.pos = row.pos)
    <3>1. CASE Scan(p) /\ row.status = "RUNNING"
      <4> DEFINE t == [Idle EXCEPT !.pc = "claim",
                        !.purpose = IF startup[p] THEN "recover"
                                    ELSE IF row.lapsed THEN "sweep" ELSE "run",
                        !.snap = [pos |-> row.pos, lapsed |-> row.lapsed]]
      <4>1. ~t.fresh /\ t.snap.pos = row.pos
        BY ZenonT(120) DEF Idle
      <4>2. proc' = [proc EXCEPT ![p] = t]
        BY <3>1 DEF Scan, Goto
      <4> QED BY <4>1, <4>2
    <3>2. CASE Scan(p) /\ row.status # "RUNNING"
      <4> DEFINE t == [Idle EXCEPT !.pc = IF row.status = "PENDING" THEN "claim" ELSE "idle"]
      <4>1. ~t.fresh /\ t.snap = Idle.snap
        BY DEF Idle
      <4>2. proc' = [proc EXCEPT ![p] = t]
        BY <3>2 DEF Scan, Goto
      <4> QED BY <4>1, <4>2
    <3>3. CASE Follow(p)
      <4>1. LET t == [Idle EXCEPT !.pc = "claim"] IN ~t.fresh /\ t.snap = Idle.snap
        BY DEF Idle
      <4> QED BY <3>3, <4>1 DEF Follow, Goto
    <3> QED BY <1>4, <3>1, <3>2, <3>3
  <2>2. t.snap.pos <= row.pos
    BY <1>1, <2>1, HonestIdle, RunnerAssumption DEF Row
  <2> QED BY <1>1, <1>2, <2>1, <2>2, HonestWithoutRead
<1>5. CASE Claim(p)
  <2>1. CASE lease.expired
    <3>1. /\ proc' = [proc EXCEPT ![p] = [proc[p] EXCEPT !.pc = "read", !.reclaimed = TakenOver(lease)]]
          /\ proc[p].pc = "claim"
      BY <1>5, <2>1 DEF Claim, Claimable, Goto, At
    <3>2. LET t == [proc[p] EXCEPT !.pc = "read", !.reclaimed = TakenOver(lease)] IN
          t.pc = "read" /\ t.fresh = proc[p].fresh /\ t.snap = proc[p].snap
      BY <1>1 DEF Tick
    <3> QED BY <1>1, <1>2, <3>1, <3>2 DEF Honest, InHand, Saving
  <2>2. CASE ~lease.expired
    BY <1>1, <1>2, <1>3, <1>5, <2>2 DEF Claim, Claimable, Goto
  <2> QED BY <2>1, <2>2
<1>6. CASE ReadLive(p)
  <2>1. /\ proc' = [proc EXCEPT ![p] = AfterRead([proc[p] EXCEPT !.fresh = TRUE])]
    BY <1>6 DEF ReadLive, Goto
  <2>2. [proc[p] EXCEPT !.fresh = FALSE].snap = proc[p].snap /\ ~[proc[p] EXCEPT !.fresh = FALSE].fresh
    BY <1>1 DEF Tick
  <2>3. Honest([proc[p] EXCEPT !.fresh = FALSE])
    BY <1>1, <2>2, HonestWithoutRead DEF Honest
  <2> QED BY <1>1, <1>2, <2>1, <2>3, HonestDecision
<1>7. CASE SaveRefused(p) \/ SaveTimesOut(p) \/ Acknowledge(p)
  BY <1>2, <1>3, <1>7 DEF SaveRefused, SaveTimesOut, Acknowledge, Goto
<1>8. CASE Release(p) \/ ReleaseLost(p)
  BY <1>2, <1>3, <1>8 DEF Release, ReleaseLost, Goto
<1>9. ASSUME NEW place \in Place, proc' = [proc EXCEPT ![p] = [proc[p] EXCEPT !.pc = place]],
             place \in {"guard", "save"} => Saving(proc[p]),
             place \in {"clear", "begin", "work", "after", "judge"} => InHand(proc[p])
      PROVE  \E u \in {proc'[p]} : proc' = [proc EXCEPT ![p] = u] /\ Honest(u)
  BY <1>1, <1>2, <1>9, HonestPlaced
<1>10. CASE GuardSave(p)
  <2>1. Saving(proc[p]) /\ "save" \in Place
    BY <1>10 DEF GuardSave, At, Saving, Place
  <2>2. CASE Holds(p)
    BY <1>9, <1>10, <2>1, <2>2 DEF GuardSave, Goto
  <2>3. CASE ~Holds(p)
    BY <1>2, <1>3, <1>10, <2>3 DEF GuardSave, Goto
  <2> QED BY <2>2, <2>3
<1>11. CASE ClearPromoted(p)
  <2>1. InHand(proc[p]) /\ "begin" \in Place
    BY <1>11 DEF ClearPromoted, At, InHand, Place
  <2> QED BY <1>9, <1>11, <2>1 DEF ClearPromoted, Goto
<1>12. CASE Begin(p)
  <2>1. InHand(proc[p]) /\ "work" \in Place
    BY <1>12 DEF Begin, At, InHand, Place
  <2> QED BY <1>9, <1>12, <2>1 DEF Begin, Goto
<1>13. CASE FinishStep(p)
  <2>1. InHand(proc[p]) /\ "after" \in Place
    BY <1>13 DEF FinishStep, At, InHand, Place
  <2>2. CASE Holds(p)
    BY <1>9, <1>13, <2>1, <2>2 DEF FinishStep, Goto
  <2>3. CASE ~Holds(p)
    BY <1>2, <1>3, <1>13, <2>3 DEF FinishStep, Goto
  <2> QED BY <2>2, <2>3
<1>14. CASE CheckAction(p) \/ Act(p)
  <2>1. PICK b \in BOOLEAN : proc' = [proc EXCEPT ![p] = [proc[p] EXCEPT !.acting = b]]
    BY <1>14 DEF CheckAction, Act, Goto
  <2>2. LET t == [proc[p] EXCEPT !.acting = b] IN
        /\ t.pc = proc[p].pc /\ t.fresh = proc[p].fresh /\ t.snap = proc[p].snap
        /\ t.seen = proc[p].seen /\ t.write = proc[p].write
    BY <1>1 DEF Tick
  <2> QED BY <1>1, <1>2, <2>1, <2>2 DEF Honest, InHand, Saving
<1>15. ASSUME NEW place \in {"clear", "begin", "judge"}, row.status = "RUNNING",
              proc' = [proc EXCEPT ![p] = Working(proc[p], place)]
       PROVE  \E u \in {proc'[p]} : proc' = [proc EXCEPT ![p] = u] /\ Honest(u)
  BY <1>1, <1>2, <1>15, HonestWorking
<1>16. CASE Reread(p)
  BY <1>2, <1>3, <1>15, <1>16 DEF Reread, Goto
<1>17. CASE Rebase(p)
  BY <1>2, <1>3, <1>15, <1>17 DEF Rebase, Goto
<1>18. ASSUME InHand(proc[p]), NEW new \in Outcomes(proc[p].seen) \cup {Failed(proc[p].seen)},
              proc' = [proc EXCEPT ![p] = Prepare(proc[p], new, "release")]
       PROVE  \E u \in {proc'[p]} : proc' = [proc EXCEPT ![p] = u] /\ Honest(u)
  <2>1. proc[p].seen \in Row /\ proc[p].seen.status = "RUNNING"
    BY <1>1, <1>18 DEF Tick, IInv, Places
  <2>2. new \in Row
    BY <1>18, <2>1, OutcomeRows DEF Failed, Row, Status
  <2>3. proc[p].fresh => CanBecome(row, new)
    BY <1>1, <1>18, <2>1, ResultsFollow DEF Honest
  <2> QED BY <1>1, <1>2, <1>18, <2>2, <2>3, HonestPrepare
<1>19. CASE Reject(p)
  <2>1. InHand(proc[p])
    BY <1>19 DEF Reject, At, InHand
  <2> QED BY <1>18, <1>19, <2>1 DEF Reject, Goto
<1>20. CASE Judge(p)
  <2>1. InHand(proc[p])
    BY <1>20 DEF Judge, At, InHand
  <2> QED BY <1>18, <1>20, <2>1 DEF Judge, Goto
<1>21. CASE Crash(p)
  BY <1>1, <1>2, <1>21, HonestIdle DEF Crash
<1> QED BY <1>1, <1>4, <1>5, <1>6, <1>7, <1>8, <1>10, <1>11, <1>12, <1>13, <1>14, <1>16, <1>17,
           <1>19, <1>20, <1>21 DEF ByTick

\* So nothing in flight goes beyond what can follow, either.
LEMMA JobByTick ==
  ASSUME IInv, JobInv, NEW p \in Proc, ByTick(p)
  PROVE  JobInv'
<1>1. /\ row' = row /\ row \in Row /\ proc \in [Proc -> Tick]
      /\ Honest(proc[p]) /\ \A w \in wire : CanBecome(row, w)
  BY TicksStayHonest DEF IInv, TypeOK, JobInv
<1>2. PICK t : proc' = [proc EXCEPT ![p] = t] /\ Honest(t)
  BY TicksStayHonest
<1>3. ASSUME NEW q \in Proc
      PROVE  Honest(proc[q])'
  <2>1. Honest(proc'[q])
    BY <1>1, <1>2 DEF JobInv
  <2> QED BY <1>1, <2>1 DEF Honest, CanBecome
<1>4. ASSUME NEW w \in wire'
      PROVE  CanBecome(row, w)
  <2> DEFINE kept == [row EXCEPT !.lapsed = FALSE]
  <2>1. kept.status = row.status /\ kept.pos = row.pos
    BY <1>1 DEF Row
  <2>2. \/ w \in wire
        \/ w = proc[p].write /\ Saving(proc[p]) /\ proc[p].fresh
        \/ w = kept /\ beat[p] = "read"
    BY DEF ByTick, Scan, Follow, Claim, ReadLive, GuardSave, SaveRefused, SaveTimesOut,
           Acknowledge, Reread, ClearPromoted, Release, ReleaseLost, Reject, Begin,
           CheckAction, Act, FinishStep, Rebase, Judge, Crash, At, Saving
  <2> HIDE DEF kept
  <2>3. CASE w = kept /\ beat[p] = "read"
    BY <2>1, <2>3 DEF IInv, InFlight, CanBecome
  <2> QED BY <1>1, <2>2, <2>3 DEF Honest
<1>5. \A w \in wire' : CanBecome(row, w)'
  BY <1>1, <1>4 DEF CanBecome
<1> QED BY <1>3, <1>5 DEF JobInv

\* A write that can follow, or the abort, lands: every older read is void.
LEMMA JobLands ==
  ASSUME IInv, JobInv, NEW new \in Row, NEW ticks \in [Proc -> Tick], Land(new, ticks),
         \/ CanBecome(row, new)
         \/ row.status \notin Finished /\ new.status = "ABORTED" /\ new.pos = row.pos,
         \A q \in Proc : ticks[q].snap \in {proc[q].snap, Idle.snap}
  PROVE  JobInv'
<1>1. /\ row' = new /\ wire' = {} /\ row \in Row
      /\ proc' = [q \in Proc |-> [ticks[q] EXCEPT !.fresh = FALSE]]
  BY DEF Land, IInv, TypeOK
<1>2. new.status \notin Finished => row.status \notin Finished /\ row.pos <= new.pos
  <2>1. row.pos \in 0 .. LastPos
    BY <1>1 DEF Row
  <2> QED BY <2>1, RunnerAssumption DEF CanBecome, Finished
<1>3. ASSUME NEW q \in Proc
      PROVE  Honest(proc[q])'
  <2>1. ~proc'[q].fresh /\ proc'[q].snap = ticks[q].snap
    BY <1>1 DEF Tick
  <2>2. row.status \notin Finished => ticks[q].snap.pos <= row.pos
    BY <1>1, HonestIdle DEF JobInv, Honest
  <2>3. /\ ticks[q].snap.pos \in Nat /\ row.pos \in Nat /\ new.pos \in Nat
    BY <1>1, RunnerAssumption DEF Tick, Row
  <2>4. new.status \notin Finished => ticks[q].snap.pos <= new.pos
    BY <1>2, <2>2, <2>3
  <2> QED BY <1>1, <2>1, <2>4 DEF Honest
<1> QED BY <1>1, <1>3 DEF JobInv

\* What the four writers store, and what they leave of the ticks.
LEMMA WritesFollow ==
  ASSUME IInv, JobInv, Writes
  PROVE  /\ JobInv'
         /\ \/ CanBecome(row, row')
            \/ row.status \notin Finished /\ row'.status = "ABORTED" /\ row'.pos = row.pos
<1>1. row \in Row /\ proc \in [Proc -> Tick] /\ wire \subseteq Row
  BY DEF IInv, TypeOK
<1>2. ASSUME NEW new \in Row, Land(new, proc),
             \/ CanBecome(row, new)
             \/ row.status \notin Finished /\ new.status = "ABORTED" /\ new.pos = row.pos
      PROVE  /\ JobInv'
             /\ \/ CanBecome(row, row')
                \/ row.status \notin Finished /\ row'.status = "ABORTED" /\ row'.pos = row.pos
  <2>1. JobInv'
    BY <1>1, <1>2, JobLands
  <2> QED BY <1>2, <2>1 DEF Land
<1>3. ASSUME NEW p \in Proc, SaveLands(p)
      PROVE  JobInv' /\ CanBecome(row, row')
  <2> DEFINE ticks == [proc EXCEPT ![p] = AfterSave(proc[p])]
  <2>1. proc[p].pc = "save" /\ proc[p].fresh /\ Land(proc[p].write, ticks)
    BY <1>3 DEF SaveLands, At
  <2>2. CanBecome(row, proc[p].write) /\ proc[p].write \in Row
    BY <1>1, <2>1 DEF JobInv, Honest, Saving, Tick
  <2>3. AfterSave(proc[p]) \in Tick
    BY <1>1, AfterSaveFields
  <2>4. AfterSave(proc[p]).snap = Idle.snap
    BY <1>1, IdleType, ZenonT(120) DEF AfterSave, Idle, Tick
  <2>5. ticks \in [Proc -> Tick] /\ \A q \in Proc : ticks[q].snap \in {proc[q].snap, Idle.snap}
    BY <1>1, <2>3, <2>4
  <2>6. row' = proc[p].write
    BY <2>1 DEF Land
  <2> HIDE DEF ticks
  <2>7. JobInv'
    BY <2>1, <2>2, <2>5, JobLands
  <2> QED BY <2>2, <2>6, <2>7
<1>4. ASSUME NEW p \in Proc, PulseSave(p)
      PROVE  JobInv' /\ (CanBecome(row, row') \/ FALSE)
  <2> DEFINE kept == [row EXCEPT !.lapsed = FALSE]
  <2>1. kept \in Row /\ kept.status = row.status /\ kept.pos = row.pos
    BY <1>1 DEF Row
  <2>2. Land(kept, proc) /\ row.status = "RUNNING"
    BY <1>4 DEF PulseSave, IInv, InFlight
  <2> HIDE DEF kept
  <2>3. CanBecome(row, kept)
    BY <2>1, <2>2 DEF CanBecome
  <2>4. row' = kept
    BY <2>2 DEF Land
  <2> QED BY <1>2, <2>1, <2>2, <2>3, <2>4
<1>5. CASE WireLands
  BY <1>1, <1>2, <1>5 DEF WireLands, JobInv
<1>6. CASE Abort
  <2> DEFINE aborted == [row EXCEPT !.status = "ABORTED"]
  <2>1. aborted \in Row /\ aborted.status = "ABORTED" /\ aborted.pos = row.pos
    BY <1>1 DEF Row, Status
  <2>2. Land(aborted, proc) /\ row.status \notin Finished
    BY <1>6 DEF Abort
  <2> HIDE DEF aborted
  <2> QED BY <1>2, <2>1, <2>2
<1> QED BY <1>3, <1>4, <1>5, <1>6 DEF Writes

\* Everything but a write leaves the job where it is.
LEMMA OthersKeepJob ==
  ASSUME IInv, JobInv, (\E p \in Proc : ByTick(p)) \/ Clocks \/ UNCHANGED vars
  PROVE  JobInv' /\ row'.status = row.status /\ row'.pos = row.pos
<1>1. CASE \E p \in Proc : ByTick(p)
  BY <1>1, JobByTick, TicksStayHonest
<1>2. CASE Clocks \/ UNCHANGED vars
  <2>1. UNCHANGED <<proc, wire>> /\ row'.status = row.status /\ row'.pos = row.pos
    BY <1>2 DEF Clocks, PulseCheck, PulseRead, HeartbeatLapses, Stall, GoneExpires, vars,
                IInv, TypeOK, Row
  <2>2. \A q \in Proc : Honest(proc[q])'
    BY <2>1 DEF JobInv, Honest, CanBecome
  <2>3. \A w \in wire' : CanBecome(row, w)'
    BY <2>1 DEF JobInv, CanBecome
  <2> QED BY <2>1, <2>2, <2>3 DEF JobInv
<1> QED BY <1>1, <1>2

\* At the start nobody has read anything.
LEMMA JobInit == Init => JobInv
<1> SUFFICES ASSUME Init PROVE JobInv
  OBVIOUS
<1>1. row \in Row /\ wire = {} /\ \A p \in Proc : proc[p] = Idle
  BY InitInv DEF Init, IInv, TypeOK
<1> QED BY <1>1, HonestIdle DEF JobInv

\* However many processes, stalls, crashes and late requests there are, the
\* writes of all of them implement the job: each is a step of it, or a pulse
\* that leaves it where it is.
THEOREM RunnersKeepJob == Spec => KeepsJob
<1> DEFINE seen == <<row.status, row.pos>>
<1>1. Init => Job!Init
  BY DEF Init, Job!Init
<1>2. IInv /\ JobInv /\ [Next]_vars => JobInv' /\ [Job!Next]_seen
  <2> SUFFICES ASSUME IInv, JobInv, [Next]_vars
               PROVE  JobInv' /\ [Job!Next]_seen
    OBVIOUS
  <2>1. CASE Writes
    <3>1. JobInv' /\ \/ CanBecome(row, row')
                     \/ row.status \notin Finished /\ row'.status = "ABORTED" /\ row'.pos = row.pos
      BY <2>1, WritesFollow
    <3>2. CASE CanBecome(row, row')
      <4>1. CASE row.status = "PENDING" /\ row'.status = "RUNNING" /\ row'.pos = row.pos
        BY <3>1, <4>1 DEF Job!Next, Job!Promote
      <4>2. CASE row.status = "RUNNING" /\ row'.status = "RUNNING" /\ row'.pos = row.pos
        BY <3>1, <4>2
      <4>3. CASE /\ row.status = "RUNNING" /\ row'.status = "RUNNING"
                 /\ row.pos < LastPos /\ row'.pos = row.pos + 1
        BY <3>1, <4>3 DEF Job!Next, Job!Advance
      <4>4. CASE row.status = "RUNNING" /\ row'.status = "COMPLETED" /\ row'.pos = LastPos
        BY <3>1, <4>4 DEF Job!Next, Job!Complete
      <4>5. CASE /\ row.status = "RUNNING" /\ row'.status = "FAILED"
                 /\ row'.pos \in 0 .. row.pos \cup {LastPos}
        BY <3>1, <4>5 DEF Job!Next, Job!Fail
      <4> QED BY <3>2, <4>1, <4>2, <4>3, <4>4, <4>5 DEF CanBecome
    <3>3. CASE row.status \notin Finished /\ row'.status = "ABORTED" /\ row'.pos = row.pos
      BY <3>1, <3>3 DEF Job!Next, Job!Abort, Job!Finished, Finished
    <3> QED BY <3>1, <3>2, <3>3
  <2>2. CASE ~Writes
    <3>1. JobInv' /\ row'.status = row.status /\ row'.pos = row.pos
      BY <2>2, OthersKeepJob, NextCases
    <3> QED BY <3>1
  <2> QED BY <2>1, <2>2
<1> QED BY <1>1, <1>2, JobInit, InvariantHolds, PTL DEF Spec, KeepsJob, Job!Spec
=============================================================================
