-------------------------- MODULE MetricsSpoolProofs --------------------------
(***************************************************************************)
(* Proofs about MetricsSpool, for any processes, events and files: no      *)
(* valid metric is lost.                                                   *)
(*                                                                         *)
(* A claim is deleted by the process whose name it still has, and as long  *)
(* as it has that name nobody appends to it and nobody else renames it: so *)
(* what that process has read and not yet inserted is all that is missing  *)
(* from the ledger.                                                        *)
(***************************************************************************)
EXTENDS MetricsSpool, TLAPS

\* What is missing from the ledger is still to be inserted.
Inserted ==
  \A p \in Ingester : In(p, "insert") /\ Mine(p, ingest[p].cur) =>
    spool[ingest[p].cur].lines \cap Valid \subseteq ledger \cup ingest[p].left

IInv == SpoolTypeOK /\ Inserted /\ NoMetricLost

-----------------------------------------------------------------------------
(* Types.                                                                  *)

Places == {"idle", "lock", "stale", "list", "claim", "live", "put", "release", "drop", "work",
           "insert"}

\* A call that moves is a call.
LEMMA CallMoves ==
  ASSUME NEW m \in Ingest, NEW place \in Places
  PROVE  [m EXCEPT !.pc = place] \in Ingest /\ [m EXCEPT !.pc = place].pc = place
  BY DEF Ingest, Places

\* The fields of a call.
LEMMA CallFields ==
  ASSUME NEW m \in Ingest
  PROVE  /\ m.pc \in Places /\ m.job \in {"claim", "return"} /\ m.todo \in SUBSET (File \X ClaimName)
         /\ m.claims \in SUBSET File /\ m.cur \in File \cup {NoFile} /\ m.left \in SUBSET Valid
  BY DEF Ingest, Places

\* No call is a call, and idle.
LEMMA NoCallType == NoCall \in Ingest /\ NoCall.pc = "idle"
  BY DEF NoCall, Ingest

\* A call that is abandoned, or returns its claim, is a call.
LEMMA AbandonedType ==
  ASSUME ingest \in [Ingester -> Ingest], NEW p \in Ingester
  PROVE  /\ Abandoned(p) \in [Ingester -> Ingest] /\ Abandoned(p)[p].pc = "work"
         /\ ToReturn(p) \in [Ingester -> Ingest] /\ ToReturn(p)[p].pc = "lock"
         /\ \A q \in Ingester \ {p} : Abandoned(p)[q] = ingest[q] /\ ToReturn(p)[q] = ingest[q]
<1> DEFINE m == [ingest[p] EXCEPT !.pc = "work", !.cur = NoFile, !.left = {}]
           n == [ingest[p] EXCEPT !.pc = "lock", !.job = "return", !.left = {}]
<1>1. m \in Ingest /\ m.pc = "work" /\ n \in Ingest /\ n.pc = "lock"
  BY DEF Ingest
<1>2. Abandoned(p) = [ingest EXCEPT ![p] = m] /\ ToReturn(p) = [ingest EXCEPT ![p] = n]
  BY DEF Abandoned, ToReturn
<1> HIDE DEF m, n
<1>3. QED
  BY <1>1, <1>2

\* The initial state has its types.
LEMMA TypeInit == SpoolInit => SpoolTypeOK
  BY SpoolAssumption, NoCallType DEF SpoolInit, SpoolTypeOK, NoSpoolFile, Name, ClaimName

\* A step of one call that leaves the calls of the others alone.
LEMMA TypeOfCall ==
  ASSUME SpoolTypeOK, NEW p \in Ingester, NEW m \in Ingest,
         ingest' = [ingest EXCEPT ![p] = m],
         spool' \in [File -> [at : Name, lines : SUBSET Event, old : BOOLEAN]],
         spoolLock' \in [by : Ingester \cup {"nobody"}, old : BOOLEAN],
         ledger' \in SUBSET Event, written' = written, spoolFaults' \in 0 .. MaxSpoolFaults
  PROVE  SpoolTypeOK'
  BY DEF SpoolTypeOK

\* A renamed file is a file.
LEMMA RenameType ==
  ASSUME SpoolTypeOK, NEW f \in File, NEW name \in Name
  PROVE  [spool EXCEPT ![f].at = name] \in [File -> [at : Name, lines : SUBSET Event, old : BOOLEAN]]
  BY DEF SpoolTypeOK

-----------------------------------------------------------------------------
(* The steps.                                                              *)

\* Nothing is lost when files are at most renamed, nobody else's file gets the
\* name of a call that inserts, and no call begins to insert.
LEMMA CalmStep ==
  ASSUME IInv,
         \A f \in File : /\ spool'[f].lines = spool[f].lines
                         /\ spool[f].at # "absent" => spool'[f].at # "absent",
         ledger' = ledger, written' = written,
         \A q \in Ingester :
           \/ ingest'[q].pc # "insert"
           \/ ingest'[q] = ingest[q] /\ \A f \in File : spool'[f].at = q => spool[f].at = q
  PROVE  Inserted' /\ NoMetricLost'
<1>1. NoMetricLost'
  BY DEF IInv, NoMetricLost, OnDisk
<1>2. ASSUME NEW q \in Ingester, ingest'[q].pc = "insert", Mine(q, ingest[q].cur)'
      PROVE  spool'[ingest'[q].cur].lines \cap Valid \subseteq ledger' \cup ingest'[q].left
  <2>1. ingest'[q] = ingest[q] /\ \A f \in File : spool'[f].at = q => spool[f].at = q
    BY <1>2
  <2>2. ingest[q].cur \in File
    BY <1>2, <2>1, CallFields DEF IInv, SpoolTypeOK, Mine
  <2>3. In(q, "insert") /\ Mine(q, ingest[q].cur)
    BY <1>2, <2>1, <2>2 DEF In, Mine
  <2>4. QED
    BY <2>1, <2>2, <2>3 DEF IInv, Inserted
<1>3. QED
  BY <1>1, <1>2 DEF Inserted, In

\* The lock, and the steps of a call that leave the files alone.
LEMMA LockSteps ==
  ASSUME IInv, NEW p \in Ingester,
         \/ TakeLock(p) \/ SeeStaleLock(p) \/ RemoveStaleLock(p) \/ GiveUpLock(p) \/ ReadToken(p)
         \/ DropLock(p) \/ BeginIngest(p) \/ SeeLive(p)
  PROVE  IInv'
<1> USE DEF IInv
<1>1. ingest \in [Ingester -> Ingest] /\ ingest[p] \in Ingest
  BY DEF SpoolTypeOK
<1>2. UNCHANGED <<spool, ledger, written, spoolFaults>>
  BY DEF TakeLock, SeeStaleLock, RemoveStaleLock, GiveUpLock, ReadToken, DropLock, BeginIngest, SeeLive
<1>3. spoolLock' \in [by : Ingester \cup {"nobody"}, old : BOOLEAN]
  <2>1. CASE TakeLock(p)
    BY <2>1 DEF TakeLock
  <2>2. CASE RemoveStaleLock(p) \/ DropLock(p)
    <3>1. spoolLock' = [by |-> "nobody", old |-> FALSE]
      BY <2>2 DEF RemoveStaleLock, DropLock
    <3>2. QED
      BY <3>1
  <2>3. CASE SeeStaleLock(p) \/ GiveUpLock(p) \/ ReadToken(p) \/ BeginIngest(p) \/ SeeLive(p)
    BY <2>3 DEF SeeStaleLock, GiveUpLock, ReadToken, BeginIngest, SeeLive, SpoolTypeOK
  <2>4. QED
    BY <2>1, <2>2, <2>3
<1>4. \/ ingest' = Abandoned(p)
      \/ \E place \in Places \ {"insert"} : ingest' = [ingest EXCEPT ![p].pc = place]
  BY DEF TakeLock, SeeStaleLock, RemoveStaleLock, GiveUpLock, ReadToken, DropLock, BeginIngest,
         SeeLive, Move, Places
<1>5. /\ ingest' \in [Ingester -> Ingest] /\ ingest'[p].pc # "insert"
      /\ \A q \in Ingester \ {p} : ingest'[q] = ingest[q]
  <2>1. CASE ingest' = Abandoned(p)
    BY <1>1, <2>1, AbandonedType
  <2>2. ASSUME NEW place \in Places \ {"insert"}, ingest' = [ingest EXCEPT ![p].pc = place]
        PROVE  <1>5
    <3>1. ingest' = [ingest EXCEPT ![p] = [@ EXCEPT !.pc = place]]
      BY <1>1, <2>2
    <3>2. [ingest[p] EXCEPT !.pc = place] \in Ingest /\ [ingest[p] EXCEPT !.pc = place].pc = place
      BY <1>1, CallMoves
    <3>3. QED
      BY <1>1, <3>1, <3>2
  <2>3. QED
    BY <1>4, <2>1, <2>2
<1>6. SpoolTypeOK'
  BY <1>2, <1>3, <1>5 DEF SpoolTypeOK
<1>7. QED
  BY <1>2, <1>5, <1>6, CalmStep

\* The steps of a call that list, miss or end.
LEMMA CallSteps ==
  ASSUME IInv, NEW p \in Ingester,
         List(p) \/ MissClaim(p) \/ EndIngest(p) \/ InsertFails(p) \/ CrashIngest(p)
  PROVE  IInv'
<1> USE DEF IInv
<1>1. ingest \in [Ingester -> Ingest] /\ ingest[p] \in Ingest
  BY DEF SpoolTypeOK
<1>2. UNCHANGED <<spool, spoolLock, ledger, written>>
  BY DEF List, MissClaim, EndIngest, InsertFails, CrashIngest
<1>3. spoolFaults' \in 0 .. MaxSpoolFaults
  BY SpoolAssumption DEF List, MissClaim, EndIngest, InsertFails, CrashIngest, SpoolFault, SpoolTypeOK
<1>4. \E m \in Ingest : m.pc # "insert" /\ ingest' = [ingest EXCEPT ![p] = m]
  <2>1. CASE List(p)
    <3>1. PICK S \in SUBSET (File \X ClaimName) :
            ingest' = [ingest EXCEPT ![p] = [@ EXCEPT !.pc = "claim", !.todo = S]]
      BY <2>1 DEF List
    <3>2. [ingest[p] EXCEPT !.pc = "claim", !.todo = S] \in Ingest
      BY <1>1 DEF Ingest
    <3>3. [ingest[p] EXCEPT !.pc = "claim", !.todo = S].pc = "claim"
      BY <1>1 DEF Ingest
    <3>4. QED
      BY <1>1, <3>1, <3>2, <3>3
  <2>2. CASE MissClaim(p)
    <3>1. PICK f \in ingest[p].claims :
            ingest' = [ToReturn(p) EXCEPT ![p].claims = @ \ {f}, ![p].cur = f]
      BY <2>2 DEF MissClaim
    <3>2. f \in File /\ ingest[p].claims \ {f} \in SUBSET File
      BY <1>1, CallFields
    <3> DEFINE m == [ingest[p] EXCEPT !.pc = "lock", !.job = "return", !.left = {},
                                      !.claims = @ \ {f}, !.cur = f]
    <3>3. m \in Ingest /\ m.pc = "lock"
      BY <1>1, <3>2 DEF Ingest
    <3>4. ingest' = [ingest EXCEPT ![p] = m]
      BY <1>1, <3>1 DEF ToReturn, Ingest
    <3>5. QED
      BY <3>3, <3>4
  <2>3. CASE EndIngest(p) \/ CrashIngest(p)
    BY <2>3, NoCallType DEF EndIngest, CrashIngest
  <2>4. CASE InsertFails(p)
    <3> DEFINE m == [ingest[p] EXCEPT !.pc = "lock", !.job = "return", !.left = {}]
    <3>1. m \in Ingest /\ m.pc = "lock"
      BY <1>1 DEF Ingest
    <3>2. ingest' = [ingest EXCEPT ![p] = m]
      BY <1>1, <2>4 DEF InsertFails, ToReturn
    <3>3. QED
      BY <3>1, <3>2
  <2>5. QED
    BY <2>1, <2>2, <2>3, <2>4
<1>5. PICK m \in Ingest : m.pc # "insert" /\ ingest' = [ingest EXCEPT ![p] = m]
  BY <1>4
<1>6. SpoolTypeOK'
  BY <1>2, <1>3, <1>5, TypeOfCall DEF SpoolTypeOK
<1>7. \A q \in Ingester : ingest'[q].pc # "insert" \/ ingest'[q] = ingest[q]
  BY <1>1, <1>5
<1>8. QED
  BY <1>2, <1>6, <1>7, CalmStep

\* A call takes a name for itself, or puts its claim back.
LEMMA RenameSteps ==
  ASSUME IInv, NEW p \in Ingester, ClaimListed(p) \/ ClaimLive(p) \/ PutBack(p)
  PROVE  IInv'
<1> USE DEF IInv
<1>1. ingest \in [Ingester -> Ingest] /\ ingest[p] \in Ingest
  BY DEF SpoolTypeOK
<1>2. UNCHANGED <<spoolLock, ledger, written, spoolFaults>>
  BY DEF ClaimListed, ClaimLive, PutBack
<1>3. \/ spool' = spool
      \/ \E f \in File, name \in {p, "pending"} :
           spool[f].at # "absent" /\ spool' = [spool EXCEPT ![f].at = name]
  <2>1. CASE ClaimListed(p)
    <3>1. PICK t \in ingest[p].todo :
            \/ UNCHANGED spool
            \/ Claimable(t[1], t[2]) /\ Rename(t[1], p)
      BY <2>1 DEF ClaimListed
    <3>2. t[1] \in File /\ t[2] \in ClaimName
      BY <1>1, CallFields
    <3>3. QED
      BY <3>1, <3>2, SpoolAssumption DEF Claimable, Rename, ClaimName
  <2>2. CASE ClaimLive(p)
    BY <2>2 DEF ClaimLive, Rename
  <2>3. CASE PutBack(p)
    <3>1. CASE Mine(p, ingest[p].cur)
      <4>1. ingest[p].cur \in File /\ spool[ingest[p].cur].at # "absent"
        BY <1>1, <3>1, CallFields, SpoolAssumption DEF Mine
      <4>2. QED
        BY <2>3, <3>1, <4>1 DEF PutBack, Rename
    <3>2. QED
      BY <2>3, <3>1 DEF PutBack
  <2>4. QED
    BY <2>1, <2>2, <2>3
<1>4. /\ spool' \in [File -> [at : Name, lines : SUBSET Event, old : BOOLEAN]]
      /\ \A f \in File : spool'[f].lines = spool[f].lines
      /\ \A f \in File : spool[f].at # "absent" => spool'[f].at # "absent"
      /\ \A f \in File, q \in Ingester : q # p /\ spool'[f].at = q => spool[f].at = q
  <2>1. CASE spool' = spool
    BY <2>1 DEF SpoolTypeOK
  <2>2. ASSUME NEW f \in File, NEW name \in {p, "pending"}, spool[f].at # "absent",
               spool' = [spool EXCEPT ![f].at = name]
        PROVE  <1>4
    <3>1. name \in Name /\ name # "absent" /\ \A q \in Ingester : q # p => name # q
      BY <2>2, SpoolAssumption DEF Name, ClaimName
    <3>2. QED
      BY <2>2, <3>1, RenameType DEF SpoolTypeOK
  <2>3. QED
    BY <1>3, <2>1, <2>2
<1>5. \E m \in Ingest : m.pc # "insert" /\ ingest' = [ingest EXCEPT ![p] = m]
  <2>1. CASE ClaimListed(p)
    <3>1. PICK t \in ingest[p].todo :
            \/ ingest' = [ingest EXCEPT ![p].todo = @ \ {t}, ![p].claims = @ \cup {t[1]}]
            \/ ingest' = [ingest EXCEPT ![p].todo = @ \ {t}]
      BY <2>1 DEF ClaimListed
    <3>2. t[1] \in File /\ ingest[p].pc = "claim"
      BY <1>1, <2>1, CallFields DEF ClaimListed, In
    <3> DEFINE m == [ingest[p] EXCEPT !.todo = @ \ {t}, !.claims = @ \cup {t[1]}]
               n == [ingest[p] EXCEPT !.todo = @ \ {t}]
    <3>3. m \in Ingest /\ n \in Ingest /\ m.pc = "claim" /\ n.pc = "claim"
      BY <1>1, <3>2 DEF Ingest
    <3>4. ingest' = [ingest EXCEPT ![p] = m] \/ ingest' = [ingest EXCEPT ![p] = n]
      BY <1>1, <3>1
    <3>5. QED
      BY <3>3, <3>4
  <2>2. CASE ClaimLive(p)
    <3>1. PICK T \in SUBSET File :
            ingest' = [ingest EXCEPT ![p].pc = "release", ![p].claims = T]
      BY <1>1, <2>2, CallFields DEF ClaimLive
    <3> DEFINE m == [ingest[p] EXCEPT !.pc = "release", !.claims = T]
    <3>2. m \in Ingest /\ m.pc = "release"
      BY <1>1 DEF Ingest
    <3>3. ingest' = [ingest EXCEPT ![p] = m]
      BY <1>1, <3>1
    <3>4. QED
      BY <3>2, <3>3
  <2>3. CASE PutBack(p)
    <3>1. ingest' = [ingest EXCEPT ![p] = [@ EXCEPT !.pc = "release"]]
      BY <2>3 DEF PutBack, Move
    <3>2. QED
      BY <1>1, <3>1, CallMoves DEF Places
  <2>4. QED
    BY <2>1, <2>2, <2>3
<1>6. PICK m \in Ingest : m.pc # "insert" /\ ingest' = [ingest EXCEPT ![p] = m]
  BY <1>5
<1>7. SpoolTypeOK'
  BY <1>2, <1>4, <1>6, TypeOfCall DEF SpoolTypeOK
<1>8. \A q \in Ingester : \/ ingest'[q].pc # "insert"
                          \/ q # p /\ ingest'[q] = ingest[q]
  BY <1>1, <1>6
<1>9. QED
  BY <1>2, <1>4, <1>7, <1>8, CalmStep

\* A claim is read by the process that holds it.
LEMMA OpenPreserves ==
  ASSUME IInv, NEW p \in Ingester, OpenClaim(p)
  PROVE  IInv'
<1> USE DEF IInv
<1>1. ingest \in [Ingester -> Ingest] /\ ingest[p] \in Ingest
  BY DEF SpoolTypeOK
<1>2. PICK f \in ingest[p].claims :
        ingest' = [ingest EXCEPT ![p].pc = "insert", ![p].claims = @ \ {f}, ![p].cur = f,
                                 ![p].left = spool[f].lines \cap Valid]
  BY DEF OpenClaim
<1>3. UNCHANGED <<spool, spoolLock, ledger, written, spoolFaults>>
  BY DEF OpenClaim
<1> DEFINE m == [ingest[p] EXCEPT !.pc = "insert", !.claims = @ \ {f}, !.cur = f,
                                  !.left = spool[f].lines \cap Valid]
<1>4. f \in File
  BY <1>1, CallFields
<1>5. m \in Ingest /\ m.cur = f /\ m.left = spool[f].lines \cap Valid
  BY <1>1, <1>4 DEF Ingest
<1>6. ingest' = [ingest EXCEPT ![p] = m]
  BY <1>1, <1>2
<1> HIDE DEF m
<1>7. SpoolTypeOK'
  BY <1>3, <1>5, <1>6, TypeOfCall DEF SpoolTypeOK
<1>8. NoMetricLost'
  BY <1>3 DEF NoMetricLost, OnDisk
<1>9. ASSUME NEW q \in Ingester, In(q, "insert")', Mine(q, ingest[q].cur)'
      PROVE  spool'[ingest'[q].cur].lines \cap Valid \subseteq ledger' \cup ingest'[q].left
  <2>1. CASE q = p
    BY <1>1, <1>3, <1>5, <1>6, <2>1
  <2>2. CASE q # p
    BY <1>1, <1>3, <1>6, <1>9, <2>2 DEF Inserted, In, Mine
  <2>3. QED
    BY <2>1, <2>2
<1>10. QED
  BY <1>7, <1>8, <1>9 DEF Inserted

\* A batch leaves the call for the ledger.
LEMMA InsertPreserves ==
  ASSUME IInv, NEW p \in Ingester, InsertBatch(p)
  PROVE  IInv'
<1> USE DEF IInv
<1>1. ingest \in [Ingester -> Ingest] /\ ingest[p] \in Ingest
  BY DEF SpoolTypeOK
<1>2. PICK batch \in SUBSET ingest[p].left :
        /\ ledger' = ledger \cup batch
        /\ ingest' = [ingest EXCEPT ![p].left = @ \ batch]
  BY DEF InsertBatch
<1>3. UNCHANGED <<spool, spoolLock, written, spoolFaults>> /\ In(p, "insert")
  BY DEF InsertBatch
<1> DEFINE m == [ingest[p] EXCEPT !.left = @ \ batch]
<1>4. m \in Ingest /\ m.cur = ingest[p].cur /\ m.left = ingest[p].left \ batch /\ m.pc = ingest[p].pc
  BY <1>1 DEF Ingest
<1>5. ingest' = [ingest EXCEPT ![p] = m]
  BY <1>1, <1>2
<1> HIDE DEF m
<1>6. ledger' \in SUBSET Event
  BY <1>1, <1>2, CallFields, SpoolAssumption DEF SpoolTypeOK
<1>7. SpoolTypeOK'
  BY <1>3, <1>4, <1>5, <1>6, TypeOfCall DEF SpoolTypeOK
<1>8. NoMetricLost'
  BY <1>2, <1>3 DEF NoMetricLost, OnDisk
<1>9. ASSUME NEW q \in Ingester, In(q, "insert")', Mine(q, ingest[q].cur)'
      PROVE  spool'[ingest'[q].cur].lines \cap Valid \subseteq ledger' \cup ingest'[q].left
  <2>1. CASE q = p
    BY <1>1, <1>2, <1>3, <1>4, <1>5, <1>9, <2>1 DEF Inserted, In, Mine
  <2>2. CASE q # p
    BY <1>1, <1>2, <1>3, <1>5, <1>9, <2>2 DEF Inserted, In, Mine
  <2>3. QED
    BY <2>1, <2>2
<1>10. QED
  BY <1>7, <1>8, <1>9 DEF Inserted

\* A claim is deleted with everything inserted, or found taken over.
LEMMA UnlinkPreserves ==
  ASSUME IInv, NEW p \in Ingester, Unlink(p)
  PROVE  IInv'
<1> USE DEF IInv
<1>1. ingest \in [Ingester -> Ingest] /\ ingest[p] \in Ingest
  BY DEF SpoolTypeOK
<1>2. UNCHANGED <<spoolLock, ledger, written, spoolFaults>> /\ In(p, "insert") /\ ingest[p].left = {}
  BY DEF Unlink
<1>3. /\ ingest' \in [Ingester -> Ingest] /\ ingest'[p].pc # "insert"
      /\ \A q \in Ingester \ {p} : ingest'[q] = ingest[q]
  BY <1>1, AbandonedType DEF Unlink
<1>4. CASE Mine(p, ingest[p].cur)
  <2> DEFINE f == ingest[p].cur
  <2>1. f \in File /\ spool' = [spool EXCEPT ![f] = NoSpoolFile]
    BY <1>1, <1>4, CallFields DEF Unlink, Mine
  <2>2. spool[f].lines \cap Valid \subseteq ledger
    BY <1>2, <1>4 DEF Inserted
  <2> HIDE DEF f
  <2>3. SpoolTypeOK'
    BY <1>2, <1>3, <2>1 DEF SpoolTypeOK, NoSpoolFile, Name, ClaimName
  <2>4. \A g \in File \ {f} : spool'[g] = spool[g]
    BY <2>1 DEF SpoolTypeOK
  <2>5. NoMetricLost'
    BY <1>2, <2>2, <2>4 DEF NoMetricLost, OnDisk
  <2>6. ASSUME NEW q \in Ingester, In(q, "insert")', Mine(q, ingest[q].cur)'
        PROVE  spool'[ingest'[q].cur].lines \cap Valid \subseteq ledger' \cup ingest'[q].left
    <3>1. q # p /\ ingest'[q] = ingest[q]
      BY <1>3, <2>6 DEF In
    <3>2. spool'[f].at = "absent" /\ ingest[q].cur \in File
      BY <1>1, <2>1, <2>6, <3>1, CallFields DEF NoSpoolFile, SpoolTypeOK, Mine
    <3>3. ingest[q].cur # f
      BY <2>6, <3>1, <3>2, SpoolAssumption DEF Mine
    <3>4. QED
      BY <1>2, <2>4, <2>6, <3>1, <3>2, <3>3 DEF Inserted, In, Mine
  <2>7. QED
    BY <2>3, <2>5, <2>6 DEF Inserted
<1>5. CASE ~Mine(p, ingest[p].cur)
  <2>1. spool' = spool
    BY <1>5 DEF Unlink
  <2>2. SpoolTypeOK'
    BY <1>2, <1>3, <2>1 DEF SpoolTypeOK
  <2>3. QED
    BY <1>2, <1>3, <2>1, <2>2, CalmStep
<1>6. QED
  BY <1>4, <1>5

\* An event is appended to a file that is nobody's claim.
LEMMA AppendPreserves ==
  ASSUME IInv, NEW e \in Event, Append(e)
  PROVE  IInv'
<1> USE DEF IInv
<1>1. UNCHANGED <<spoolLock, ingest, ledger, spoolFaults>> /\ written' = written \cup {e}
  BY DEF Append
<1>2. PICK f \in File :
        /\ spool[f].at \in {"live", "absent"}
        /\ spool' = [spool EXCEPT ![f] = [at |-> "live", lines |-> @.lines \cup {e}, old |-> FALSE]]
  BY DEF Append
<1>3. /\ spool'[f].at = "live" /\ spool'[f].lines = spool[f].lines \cup {e}
      /\ \A g \in File \ {f} : spool'[g] = spool[g]
  BY <1>2 DEF SpoolTypeOK
<1>4. SpoolTypeOK'
  BY <1>1, <1>2 DEF SpoolTypeOK, Name, ClaimName
<1>5. NoMetricLost'
  BY <1>1, <1>3 DEF NoMetricLost, OnDisk
<1>6. ASSUME NEW q \in Ingester, In(q, "insert")', Mine(q, ingest[q].cur)'
      PROVE  spool'[ingest'[q].cur].lines \cap Valid \subseteq ledger' \cup ingest'[q].left
  <2>1. ingest[q].cur \in File
    BY <1>1, <1>6, CallFields DEF SpoolTypeOK, Mine
  <2>2. ingest[q].cur # f
    BY <1>1, <1>3, <1>6, SpoolAssumption DEF Mine
  <2>3. QED
    BY <1>1, <1>3, <1>6, <2>1, <2>2 DEF Inserted, In, Mine
<1>7. QED
  BY <1>4, <1>5, <1>6 DEF Inserted

\* Time passes for files and for the lock.
LEMMA TimePreserves ==
  ASSUME IInv, AgeLock \/ StallLock \/ \E f \in File : AgeFile(f)
  PROVE  IInv'
<1> USE DEF IInv
<1>1. UNCHANGED <<ingest, ledger, written>>
  BY DEF AgeLock, StallLock, AgeFile
<1>2. /\ \A f \in File : spool'[f].lines = spool[f].lines /\ spool'[f].at = spool[f].at
      /\ spool' \in [File -> [at : Name, lines : SUBSET Event, old : BOOLEAN]]
  <2>1. CASE AgeLock \/ StallLock
    BY <2>1 DEF AgeLock, StallLock, SpoolTypeOK
  <2>2. CASE \E f \in File : AgeFile(f)
    <3>1. PICK g \in File : spool' = [spool EXCEPT ![g].old = TRUE]
      BY <2>2 DEF AgeFile
    <3>2. [spool[g] EXCEPT !.old = TRUE] \in [at : Name, lines : SUBSET Event, old : BOOLEAN]
      BY DEF SpoolTypeOK
    <3>3. spool' = [spool EXCEPT ![g] = [spool[g] EXCEPT !.old = TRUE]]
      BY <3>1
    <3>4. \A f \in File \ {g} : spool'[f] = spool[f]
      BY <3>1 DEF SpoolTypeOK
    <3>5. spool'[g].lines = spool[g].lines /\ spool'[g].at = spool[g].at
      BY <3>1 DEF SpoolTypeOK
    <3>6. QED
      BY <3>2, <3>3, <3>4, <3>5 DEF SpoolTypeOK
  <2>3. QED
    BY <2>1, <2>2
<1>3. spoolLock' \in [by : Ingester \cup {"nobody"}, old : BOOLEAN]
  <2>1. [spoolLock EXCEPT !.old = TRUE] \in [by : Ingester \cup {"nobody"}, old : BOOLEAN]
    BY DEF SpoolTypeOK
  <2>2. spoolLock' \in {spoolLock, [spoolLock EXCEPT !.old = TRUE]}
    BY DEF AgeLock, StallLock, AgeFile
  <2>3. QED
    BY <2>1, <2>2 DEF SpoolTypeOK
<1>4. spoolFaults' \in 0 .. MaxSpoolFaults
  BY SpoolAssumption DEF AgeLock, StallLock, AgeFile, SpoolTypeOK, SpoolFault
<1>5. SpoolTypeOK'
  BY <1>1, <1>2, <1>3, <1>4 DEF SpoolTypeOK
<1>6. QED
  BY <1>1, <1>2, <1>5, CalmStep

-----------------------------------------------------------------------------
\* The invariant holds initially: nothing is written.
LEMMA InvInit == SpoolInit => IInv
  BY TypeInit, NoCallType DEF SpoolInit, IInv, Inserted, In, NoMetricLost

\* And every step keeps it.
LEMMA InvNext == IInv /\ [SpoolNext]_spoolVars => IInv'
<1> SUFFICES ASSUME IInv, [SpoolNext]_spoolVars PROVE IInv'
  OBVIOUS
<1>1. ASSUME NEW p \in Ingester, IngestStep(p) PROVE IInv'
  BY <1>1, LockSteps, CallSteps, RenameSteps, OpenPreserves, InsertPreserves, UnlinkPreserves
  DEF IngestStep
<1>2. ASSUME NEW p \in Ingester, BeginIngest(p) \/ InsertFails(p) \/ CrashIngest(p) PROVE IInv'
  BY <1>2, LockSteps, CallSteps
<1>3. CASE UNCHANGED spoolVars
  BY <1>3 DEF spoolVars, IInv, SpoolTypeOK, Inserted, In, Mine, NoMetricLost, OnDisk
<1>4. QED
  BY <1>1, <1>2, <1>3, AppendPreserves, TimePreserves DEF SpoolNext

\* The invariant holds in every reachable state.
LEMMA Invariant == SpoolSpec => []IInv
  BY InvInit, InvNext, PTL DEF SpoolSpec

\* Type correctness of every reachable state.
THEOREM TypeCorrect == SpoolSpec => []SpoolTypeOK
<1>1. IInv => SpoolTypeOK
  BY DEF IInv
<1>2. QED
  BY <1>1, Invariant, PTL

\* Every valid event that was written is in the ledger or on disk, whoever
\* crashes, stalls, or takes a claim over.
THEOREM NothingLost == SpoolSpec => []NoMetricLost
<1>1. IInv => NoMetricLost
  BY DEF IInv
<1>2. QED
  BY <1>1, Invariant, PTL
=============================================================================
