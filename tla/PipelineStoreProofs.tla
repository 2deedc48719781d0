------------------------- MODULE PipelineStoreProofs -------------------------
(***************************************************************************)
(* PipelineStore implements PipelineRow, for any set of clients, any clock *)
(* readings and either backend.  The whole argument rests on one           *)
(* invariant, StampsAreVersions: whatever is in flight was built on a row  *)
(* no later than the stored one, and equal updated_at means equal rows.    *)
(***************************************************************************)
EXTENDS PipelineStore, TLAPS

\* updated_at := max(clock, prior + 1) is always past the row that was read.
LEMMA StampGrows ==
  ASSUME NEW clock \in Clock, NEW existing \in Rows \cup {NoRow}
  PROVE  /\ NextStamp(clock, existing) \in Nat
         /\ NextStamp(clock, existing) > existing.updated_at
  BY ClockAssumption, BoundAssumption DEF NextStamp, LaterOf, Rows, NoRow, Stamps

\* NoLaterThan composes, and stays true when the later row is replaced by one
\* with a larger updated_at.
LEMMA NoLaterThanTransitive ==
  ASSUME NEW a \in Rows, NEW b \in Rows, NEW c \in Rows,
         NoLaterThan(a, b), NoLaterThan(b, c)
  PROVE  NoLaterThan(a, c)
  BY DEF NoLaterThan, Rows, Stamps

\* What was no later than a row is no later than its successor.
LEMMA NoLaterThanAfterWrite ==
  ASSUME NEW a \in Rows \cup {NoRow}, NEW b \in Rows, NEW c \in Rows,
         NoLaterThan(a, b), c.updated_at > b.updated_at
  PROVE  NoLaterThan(a, c)
  BY DEF NoLaterThan, Rows, NoRow, Stamps

\* The absent row is no row.
LEMMA NoRowIsNotARow == NoRow \notin Rows
  BY DEF NoRow, Rows, Status

IInv == StoreTypeOK /\ StampsAreVersions

\* A conditional write that is applied replaces exactly the row its caller had
\* read and savePipeline had checked.
LEMMA AppliedOnItsBase ==
  ASSUME IInv, NEW r \in wire, r.existing # NoRow, Writable(r)
  PROVE  /\ row \in Rows
         /\ row = r.existing
         /\ row = r.base
         /\ r.stamp > row.updated_at
         /\ ValidTransition(row.status, r.status)
<1>1. /\ r.base \in Rows /\ r.existing \in Rows
      /\ NoLaterThan(r.base, r.existing) /\ NoLaterThan(r.existing, row)
      /\ Admits(r.existing, r.status) /\ r.stamp > r.existing.updated_at
  BY DEF IInv, StoreTypeOK, StampsAreVersions, Requests
<1>2. row \in Rows
  BY <1>1 DEF IInv, StoreTypeOK, NoLaterThan
<1>3. row.updated_at = r.base.updated_at
  BY DEF Writable
<1>4. r.existing = row /\ r.base = row
  BY <1>1, <1>2, <1>3 DEF NoLaterThan, Rows, Stamps
<1>5. QED
  BY <1>1, <1>2, <1>4 DEF Admits

\* The invariant holds initially.
LEMMA InitInv == StoreInit => IInv
  BY DEF StoreInit, IInv, StoreTypeOK, StampsAreVersions, Backends

\* Reading a row preserves the invariant.
LEMMA GetPreserves ==
  ASSUME IInv, NEW c \in Client, GetPipeline(c)
  PROVE  IInv'
<1>1. row \in Rows /\ row' = row /\ wire' = wire /\ backend' = backend
  BY DEF GetPipeline, IInv, StoreTypeOK
<1>2. StoreTypeOK'
  BY <1>1 DEF GetPipeline, IInv, StoreTypeOK
<1>3. ASSUME NEW d \in Client, view'[d] # NoRow
      PROVE  NoLaterThan(view'[d], row')
  <2>1. CASE d = c
    BY <1>1, <2>1 DEF GetPipeline, IInv, StoreTypeOK, NoLaterThan, Rows, Stamps
  <2>2. CASE d # c
    BY <1>1, <1>3, <2>2 DEF GetPipeline, IInv, StoreTypeOK, StampsAreVersions
  <2>3. QED BY <2>1, <2>2
<1>4. QED
  BY <1>1, <1>2, <1>3 DEF IInv, StampsAreVersions

\* Testing the guard and preparing the write preserves the invariant.
LEMMA BeginPreserves ==
  ASSUME IInv, NEW c \in Client, BeginSave(c)
  PROVE  IInv'
<1>1. PICK status \in Status, clock \in Clock :
        /\ Admits(row, status)
        /\ NextStamp(clock, row) <= MaxStamp
        /\ wire' = wire \cup {[base     |-> view[c],
                               existing |-> row,
                               status   |-> status,
                               stamp    |-> NextStamp(clock, row)]}
  BY DEF BeginSave
<1> DEFINE q == [base |-> view[c], existing |-> row, status |-> status,
                 stamp |-> NextStamp(clock, row)]
<1>2. /\ row' = row /\ view' = view /\ backend' = backend
      /\ (row = NoRow) <=> (view[c] = NoRow)
  BY DEF BeginSave
<1>3. row \in Rows \cup {NoRow} /\ view[c] \in Rows \cup {NoRow}
  BY DEF IInv, StoreTypeOK
<1>4. q \in Requests /\ q.stamp > row.updated_at
  BY <1>1, <1>3, StampGrows, BoundAssumption DEF Requests, Stamps
<1>5. StoreTypeOK'
  BY <1>1, <1>2, <1>4 DEF IInv, StoreTypeOK
<1>6. \/ q.existing = NoRow /\ q.status = "PENDING"
      \/ /\ q.base # NoRow
         /\ NoLaterThan(q.base, q.existing)
         /\ NoLaterThan(q.existing, row')
         /\ Admits(q.existing, q.status)
         /\ q.stamp > q.existing.updated_at
  <2>1. CASE row = NoRow
    BY <1>1, <2>1 DEF Admits
  <2>2. CASE row # NoRow
    <3>1. view[c] # NoRow /\ NoLaterThan(view[c], row)
      BY <1>2, <2>2 DEF IInv, StampsAreVersions
    <3>2. NoLaterThan(row, row)
      BY <1>3, <2>2 DEF NoLaterThan, Rows, Stamps
    <3>3. QED
      BY <1>1, <1>2, <1>4, <3>1, <3>2
  <2>3. QED BY <2>1, <2>2
<1>7. QED
  BY <1>1, <1>2, <1>5, <1>6 DEF IInv, StampsAreVersions

\* The step of the store that writes: what it does to the row.
LEMMA ApplyOnRow ==
  ASSUME IInv, NEW r \in wire, ApplySave(r)
  PROVE  \/ row' = row
         \/ row = NoRow /\ row' \in Rows /\ row'.status = "PENDING"
         \/ /\ row = r.base /\ row \in Rows /\ row' \in Rows
            /\ row'.updated_at > row.updated_at
            /\ row'.status \in LegalTransitions[row.status]
<1>1. CASE ~Writable(r)
  BY <1>1 DEF ApplySave
<1> SUFFICES ASSUME Writable(r), row' = Written(r)
             PROVE  \/ row = NoRow /\ row' \in Rows /\ row'.status = "PENDING"
                    \/ /\ row = r.base /\ row \in Rows /\ row' \in Rows
                       /\ row'.updated_at > row.updated_at
                       /\ row'.status \in LegalTransitions[row.status]
  BY <1>1 DEF ApplySave
<1>2. Written(r) \in Rows
  BY DEF Written, Rows, IInv, StoreTypeOK, Requests, NoRow
<1>3. CASE r.existing = NoRow
  <2>1. row = NoRow
    BY <1>3 DEF Writable
  <2>2. r.status = "PENDING"
    BY <1>3 DEF IInv, StampsAreVersions, NoLaterThan, Admits
  <2>3. QED
    BY <1>2, <2>1, <2>2 DEF Written
<1>4. CASE r.existing # NoRow
  BY <1>2, <1>4, AppliedOnItsBase DEF Written, ValidTransition
<1>5. QED BY <1>3, <1>4

\* The conditional write preserves the invariant.
LEMMA ApplyPreserves ==
  ASSUME IInv, NEW r \in wire, ApplySave(r)
  PROVE  IInv'
<1>1. /\ view' = view /\ backend' = backend /\ wire' = wire \ {r}
      /\ row' \in Rows \cup {NoRow}
  BY ApplyOnRow DEF ApplySave, IInv, StoreTypeOK
<1>2. StoreTypeOK'
  BY <1>1 DEF IInv, StoreTypeOK
<1>3. ASSUME NEW a \in Rows \cup {NoRow}, a # NoRow, NoLaterThan(a, row)
      PROVE  NoLaterThan(a, row')
  <2>1. row \in Rows
    BY <1>3 DEF NoLaterThan, IInv, StoreTypeOK
  <2>2. row' = row \/ (row' \in Rows /\ row'.updated_at > row.updated_at)
    BY <2>1, ApplyOnRow, NoRowIsNotARow
  <2>3. QED
    BY <1>3, <2>1, <2>2, NoLaterThanAfterWrite
<1>4. ASSUME NEW c \in Client, view'[c] # NoRow
      PROVE  NoLaterThan(view'[c], row')
  BY <1>1, <1>3, <1>4 DEF IInv, StoreTypeOK, StampsAreVersions
<1>5. ASSUME NEW q \in wire', ~(q.existing = NoRow /\ q.status = "PENDING")
      PROVE  /\ q.base # NoRow
             /\ NoLaterThan(q.base, q.existing)
             /\ NoLaterThan(q.existing, row')
             /\ Admits(q.existing, q.status)
             /\ q.stamp > q.existing.updated_at
  <2>1. /\ q \in wire /\ q.base # NoRow
        /\ NoLaterThan(q.base, q.existing)
        /\ NoLaterThan(q.existing, row)
        /\ Admits(q.existing, q.status)
        /\ q.stamp > q.existing.updated_at
    BY <1>1, <1>5 DEF IInv, StampsAreVersions
  <2>2. q.existing # NoRow /\ q.existing \in Rows \cup {NoRow}
    BY <2>1 DEF NoLaterThan, IInv, StoreTypeOK, Requests
  <2>3. QED
    BY <1>3, <2>1, <2>2
<1>6. QED
  BY <1>2, <1>4, <1>5 DEF IInv, StampsAreVersions

\* Every step preserves the invariant.
LEMMA StepInv == IInv /\ [StoreNext]_storeVars => IInv'
<1> SUFFICES ASSUME IInv, [StoreNext]_storeVars PROVE IInv'
  OBVIOUS
<1>1. CASE UNCHANGED storeVars
  BY <1>1 DEF storeVars, IInv, StoreTypeOK, StampsAreVersions
<1>2. CASE StoreNext
  BY <1>2, GetPreserves, BeginPreserves, ApplyPreserves DEF StoreNext
<1>3. QED BY <1>1, <1>2

\* Every value a client, a request or the row ever holds is well typed.
THEOREM TypeCorrect == StoreSpec => []StoreTypeOK
<1>1. IInv => StoreTypeOK BY DEF IInv
<1>2. QED BY <1>1, InitInv, StepInv, PTL DEF StoreSpec

\* updated_at identifies the contents of the row: see StampsAreVersions.
THEOREM VersionsIdentifyRows == StoreSpec => []StampsAreVersions
<1>1. IInv => StampsAreVersions BY DEF IInv
<1>2. QED BY <1>1, InitInv, StepInv, PTL DEF StoreSpec

\* A creating save has read that there is no row.
CreatesUnread == \A r \in wire : r.existing = NoRow <=> r.base = NoRow

\* The comparison of stamps is the comparison of versions: FactoryRunner may say
\* that a write lands exactly when the row is unchanged since it was read.
THEOREM OnlyTheCurrentLands == StoreSpec => []LandsIffCurrent
<1>1. StoreInit => CreatesUnread
  BY DEF StoreInit, CreatesUnread
<1>2. CreatesUnread /\ [StoreNext]_storeVars => CreatesUnread'
  BY DEF CreatesUnread, StoreNext, storeVars, GetPipeline, BeginSave, ApplySave
<1>3. IInv /\ CreatesUnread => LandsIffCurrent
  <2> SUFFICES ASSUME IInv, CreatesUnread, NEW r \in wire
               PROVE  Writable(r) <=> r.base = row
    BY DEF LandsIffCurrent
  <2>1. CASE r.existing = NoRow
    BY <2>1 DEF CreatesUnread, Writable
  <2>2. CASE r.existing # NoRow
    <3>1. Writable(r) => r.base = row
      BY <2>2, AppliedOnItsBase
    <3>2. ASSUME r.base = row PROVE Writable(r)
      <4>1. /\ row \in Rows /\ r.existing \in Rows
            /\ NoLaterThan(row, r.existing) /\ NoLaterThan(r.existing, row)
            /\ Admits(r.existing, r.status)
        BY <2>2, <3>2 DEF IInv, StoreTypeOK, StampsAreVersions, Requests
      <4>2. r.existing = row
        BY <4>1 DEF NoLaterThan, Rows, Stamps
      <4> QED BY <2>2, <3>2, <4>1, <4>2 DEF Writable, Admits, IInv, StoreTypeOK, Backends
    <3> QED BY <3>1, <3>2
  <2> QED BY <2>1, <2>2
<1> QED BY <1>1, <1>2, <1>3, InitInv, StepInv, PTL DEF StoreSpec

\* No save overwrites contents that its caller had not read.
THEOREM LostUpdatesImpossible == StoreSpec => NoLostUpdate
<1>1. IInv /\ [StoreNext]_storeVars =>
        [row' # row /\ row # NoRow => \E r \in wire \ wire' : r.base = row]_storeVars
  <2> SUFFICES ASSUME IInv, StoreNext, row' # row, row # NoRow
               PROVE  \E r \in wire \ wire' : r.base = row
    BY DEF storeVars
  <2>1. PICK r \in wire : ApplySave(r)
    BY DEF StoreNext, GetPipeline, BeginSave
  <2>2. r.base = row
    BY <2>1, ApplyOnRow
  <2>3. r \in wire \ wire'
    BY <2>1 DEF ApplySave
  <2>4. QED BY <2>2, <2>3
<1>2. QED BY <1>1, InitInv, StepInv, PTL DEF StoreSpec, NoLostUpdate

\* The store implements PipelineRow: the checks made on a row read earlier hold
\* of the row that is overwritten, so only legal transitions are stored.
THEOREM StoreKeepsPromise == StoreSpec => KeepsPromise
<1> DEFINE seen == [status |-> row.status, updated_at |-> row.updated_at]
<1>1. StoreInit => Promise!Init
  BY DEF StoreInit, NoRow, Promise!Init, Promise!NoRow
<1>2. IInv /\ [StoreNext]_storeVars => [Promise!Next]_seen
  <2> SUFFICES ASSUME IInv, StoreNext, seen' # seen
               PROVE  Promise!Next
    BY DEF storeVars
  <2>1. PICK r \in wire : ApplySave(r)
    BY DEF StoreNext, GetPipeline, BeginSave
  <2>2. CASE row = NoRow /\ row' \in Rows /\ row'.status = "PENDING"
    <3>1. seen = Promise!NoRow
      BY <2>2 DEF NoRow, Promise!NoRow
    <3>2. Promise!Create
      BY <2>2, <3>1 DEF Promise!Create, Rows
    <3>3. QED BY <3>2 DEF Promise!Next
  <2>3. CASE /\ row \in Rows /\ row' \in Rows
             /\ row'.updated_at > row.updated_at
             /\ row'.status \in LegalTransitions[row.status]
    <3>1. seen # Promise!NoRow
      BY <2>3 DEF Rows, Status, Promise!NoRow
    <3>2. Promise!Update
      BY <2>3, <3>1 DEF Promise!Update, Promise!LegalTransitions, LegalTransitions, Rows
    <3>3. QED BY <3>2 DEF Promise!Next
  <2>4. QED
    BY <2>1, <2>2, <2>3, ApplyOnRow
<1>3. QED
  BY <1>1, <1>2, InitInv, StepInv, PTL DEF StoreSpec, KeepsPromise, Promise!Spec
=============================================================================
