---------------------------- MODULE PipelineStore ----------------------------
(***************************************************************************)
(* savePipeline of the SQLite and Supabase backends                        *)
(* (src/src/storage/sqlite.ts, src/src/storage/supabase.ts).               *)
(*                                                                         *)
(* A save is not atomic.  It reads the existing row, tests the status      *)
(* guard and the transition table against that read, picks an updated_at   *)
(* from the local clock and the read, and only then sends a conditional    *)
(* write.  Between the two any other host window may write, and a request  *)
(* whose caller timed out (10 s in supabaseApi.ts) may still be applied    *)
(* later.  The model therefore keeps the conditional writes in flight in   *)
(* a set and delivers them in any order.  Clocks of different hosts are    *)
(* not related: each save draws any reading.                               *)
(***************************************************************************)
EXTENDS Naturals, FiniteSets, PipelineStatus

CONSTANTS
  Client,       \* host windows, abort handlers, the dashboard: all that save
  Clock,        \* the readings Date.now() may return
  MaxInFlight,  \* bound: conditional writes in flight at a time
  MaxStamp      \* bound: the largest updated_at a save may pick

ASSUME ClockAssumption   == Clock \subseteq Nat
ASSUME BoundAssumption   == MaxInFlight \in Nat /\ MaxStamp \in Nat

VARIABLES
  backend,\* the configured backend, which decides the conditional write
  row,    \* the stored row; `revision` numbers its contents (history variable)
  view,   \* view[c]: the row as client c last read it
  wire    \* the conditional writes that were sent and not yet applied

storeVars == <<backend, row, view, wire>>

Backends == {"sqlite", "supabase"}

NoRow == [status |-> "NONE", updated_at |-> 0, revision |-> 0]

Stamps == 0 .. MaxStamp

Rows == [status : Status, updated_at : Stamps, revision : Nat]

\* A conditional write.  `base` is the row its caller read and modified, of
\* which the request carries updated_at; `existing` is what savePipeline read.
Requests == [base     : Rows \cup {NoRow},
             existing : Rows \cup {NoRow},
             status   : Status,
             stamp    : Stamps]

StoreTypeOK ==
  /\ backend \in Backends
  /\ row \in Rows \cup {NoRow}
  /\ view \in [Client -> Rows \cup {NoRow}]
  /\ wire \subseteq Requests

StoreInit ==
  /\ backend \in Backends
  /\ row = NoRow
  /\ view = [c \in Client |-> NoRow]
  /\ wire = {}

-----------------------------------------------------------------------------
\* updated_at := max(Date.now(), prior + 1), prior being the row just read.
LaterOf(a, b) == IF a >= b THEN a ELSE b

\* Mutant: updated_at is the local clock, whatever the row held.
NextStampFromClock(clock, existing) == clock

NextStamp(clock, existing) == LaterOf(clock, existing.updated_at + 1)

\* The status guard and the transition table, tested against the row just read.
\* A row that does not exist yet is only ever saved as PENDING.
Admits(existing, to) ==
  IF existing = NoRow
    THEN to = "PENDING"
    ELSE existing.status \notin Sealed /\ ValidTransition(existing.status, to)

\* Mutant: the WHERE clause only repeats the status guard.
WritableWhileOpen(r) ==
  IF r.existing = NoRow THEN row = NoRow ELSE row.status \notin Sealed

\* Mutant: the WHERE clause takes every final status for a sealed one.
WritableUnlessFinished(r) ==
  IF r.existing = NoRow
    THEN row = NoRow
    ELSE row.updated_at = r.base.updated_at /\ row.status \notin Finished

\* The WHERE clause of the conditional write.  A request built on a missing row
\* inserts; it updates nothing (updated_at = NULL, or a plain INSERT).
Writable(r) ==
  IF r.existing = NoRow
    THEN row = NoRow
    ELSE /\ row.updated_at = r.base.updated_at
         /\ CASE backend = "sqlite"   -> row.status \notin Sealed
              [] backend = "supabase" -> row.status = r.existing.status

Written(r) ==
  [status |-> r.status, updated_at |-> r.stamp, revision |-> row.revision + 1]

\* getPipeline / listPipelines: the caller keeps the row it read.
GetPipeline(c) ==
  /\ row # NoRow
  /\ view' = [view EXCEPT ![c] = row]
  /\ UNCHANGED <<backend, row, wire>>

\* savePipeline up to its conditional write.  A save that the guards reject
\* throws, and changes nothing.
BeginSave(c) ==
  /\ Cardinality(wire) < MaxInFlight
  /\ (row = NoRow) <=> (view[c] = NoRow)
  /\ \E to \in Status, clock \in Clock :
       /\ Admits(row, to)
       /\ NextStamp(clock, row) <= MaxStamp
       /\ wire' = wire \cup {[base     |-> view[c],
                              existing |-> row,
                              status   |-> to,
                              stamp    |-> NextStamp(clock, row)]}
  /\ UNCHANGED <<backend, row, view>>

\* The conditional write reaches the database: it is applied, or it matches no
\* row and its caller is told that the pipeline changed concurrently.
ApplySave(r) ==
  /\ wire' = wire \ {r}
  /\ row' = IF Writable(r) THEN Written(r) ELSE row
  /\ UNCHANGED <<backend, view>>

StoreNext ==
  \/ \E c \in Client : GetPipeline(c) \/ BeginSave(c)
  \/ \E r \in wire : ApplySave(r)

StoreSpec == StoreInit /\ [][StoreNext]_storeVars

-----------------------------------------------------------------------------
\* Two reads of the row, `a` no later than `b`: equal stamps are equal rows.
NoLaterThan(a, b) ==
  /\ b # NoRow
  /\ a.updated_at <= b.updated_at
  /\ a.updated_at = b.updated_at => a = b

\* Every row a client or a request holds is an earlier version of the stored
\* row, and two versions with one updated_at are the same row.  This is what
\* lets updated_at stand for the version in the WHERE clause.
StampsAreVersions ==
  /\ \A c \in Client : view[c] # NoRow => NoLaterThan(view[c], row)
  /\ \A r \in wire :
       \/ r.existing = NoRow /\ r.status = "PENDING"
       \/ /\ r.base # NoRow
          /\ NoLaterThan(r.base, r.existing)
          /\ NoLaterThan(r.existing, row)
          /\ Admits(r.existing, r.status)
          /\ r.stamp > r.existing.updated_at

\* A save lands exactly when the row is still the one its caller had read: none
\* lands on another version, and none that the guards let through is refused
\* while nobody else wrote.  FactoryRunner takes its writes to be like this.
LandsIffCurrent == \A r \in wire : Writable(r) <=> r.base = row

\* No lost update: a save that overwrites the row overwrites exactly the
\* contents its caller had read, never a version written in between; so a
\* heartbeat, an advance and an abort can not silently erase one another.
NoLostUpdate ==
  [][row' # row /\ row # NoRow => \E r \in wire \ wire' : r.base = row]_storeVars

\* The store keeps the promise of PipelineRow: one creation, legal transitions
\* only (so an aborted or completed pipeline stays so), growing updated_at,
\* although the guards are tested on a row read before the write.
Promise == INSTANCE PipelineRow WITH
  Stamp <- Stamps,
  row <- [status |-> row.status, updated_at |-> row.updated_at]

KeepsPromise == Promise!Spec
=============================================================================
