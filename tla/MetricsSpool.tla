----------------------------- MODULE MetricsSpool -----------------------------
(***************************************************************************)
(* The spool of panel metrics (src/src/storage/panelMetricsSpool.ts): the  *)
(* editor extension appends events to a file, and MCP processes claim the  *)
(* file by renaming it, insert its events into the ledger and delete it.   *)
(*                                                                         *)
(* A file is followed through its renames.  A claim is named after the     *)
(* call that made it, so a later claim of the same file makes the earlier  *)
(* name dangle.  A process makes one call of ingestPanelMetrics at a time. *)
(* The writer is outside the repository: it appends in one step.           *)
(***************************************************************************)
EXTENDS Naturals, FiniteSets

CONSTANTS
  Ingester,   \* MCP processes
  Event,      \* lines the extension may write
  Valid,      \* those parsePanelMetric accepts
  File,       \* files of the spool directory
  MaxClaims,  \* MAX_CLAIMS_PER_INGEST
  BatchSize,  \* BATCH_SIZE
  MaxSpoolFaults   \* bound: crashes, stalls and failed inserts in a run

ASSUME SpoolAssumption ==
  /\ Valid \subseteq Event /\ IsFiniteSet(Event) /\ IsFiniteSet(File)
  /\ MaxClaims \in Nat \ {0} /\ BatchSize \in Nat \ {0} /\ MaxSpoolFaults \in Nat
  /\ Ingester \cap {"absent", "live", "pending", "nobody"} = {}

NoFile == "no file"
ASSUME NoFileAssumption == NoFile \notin File

VARIABLES
  spool,       \* per file: its name, its lines, and whether its mtime is stale
  spoolLock,   \* whose token the lock file holds, and whether it is stale
  ingest,      \* per process: its call in progress
  ledger,      \* the events in infer_metrics
  written,     \* the lines the extension has written
  spoolFaults  \* faults so far

spoolVars == <<spool, spoolLock, ingest, ledger, written, spoolFaults>>

ClaimName == {"pending"} \cup Ingester
Name == {"absent", "live"} \cup ClaimName

Ingest == [pc     : {"idle", "lock", "stale", "list", "claim", "live", "put", "release",
                     "drop", "work", "insert"},
           job    : {"claim", "return"},       \* what the lock is taken for
           todo   : SUBSET (File \X ClaimName),   \* the listing of the directory
           claims : SUBSET File,
           cur    : File \cup {NoFile},        \* the claim being worked on
           left   : SUBSET Valid]              \* its events not yet inserted

SpoolTypeOK ==
  /\ spool \in [File -> [at : Name, lines : SUBSET Event, old : BOOLEAN]]
  /\ spoolLock \in [by : Ingester \cup {"nobody"}, old : BOOLEAN]
  /\ ingest \in [Ingester -> Ingest]
  /\ ledger \subseteq Event /\ written \subseteq Event
  /\ spoolFaults \in 0 .. MaxSpoolFaults

NoCall == [pc |-> "idle", job |-> "claim", todo |-> {}, claims |-> {}, cur |-> NoFile, left |-> {}]
NoSpoolFile == [at |-> "absent", lines |-> {}, old |-> FALSE]

SpoolInit ==
  /\ spool = [f \in File |-> NoSpoolFile]
  /\ spoolLock = [by |-> "nobody", old |-> FALSE]
  /\ ingest = [p \in Ingester |-> NoCall]
  /\ ledger = {} /\ written = {} /\ spoolFaults = 0

-----------------------------------------------------------------------------
In(p, place) == ingest[p].pc = place

Move(p, place) == ingest' = [ingest EXCEPT ![p].pc = place]

Rename(f, name) == spool' = [spool EXCEPT ![f].at = name]

Mine(p, f) == f # NoFile /\ spool[f].at = p   \* the name of the claim still resolves

SpoolFault == spoolFaults < MaxSpoolFaults /\ spoolFaults' = spoolFaults + 1

(* The writer and time.                                                    *)

\* The extension appends a line to the live file, which it creates at need.
Append(e) ==
  /\ e \notin written
  /\ \E f \in File :
       /\ \/ spool[f].at = "live"
          \/ spool[f].at = "absent" /\ \A g \in File : spool[g].at # "live"
       /\ spool' = [spool EXCEPT ![f] = [at |-> "live", lines |-> @.lines \cup {e}, old |-> FALSE]]
  /\ written' = written \cup {e}
  /\ UNCHANGED <<spoolLock, ingest, ledger, spoolFaults>>

\* PROCESSING_STALE_MS after the last append; a rename keeps the mtime.
AgeFile(f) ==
  /\ spool[f].at # "absent" /\ ~spool[f].old
  /\ spool' = [spool EXCEPT ![f].old = TRUE]
  /\ UNCHANGED <<spoolLock, ingest, ledger, written, spoolFaults>>

Locked(p) == ingest[p].pc \in {"list", "claim", "live", "put", "release", "drop"}

\* LOCK_STALE_MS after a call died with the lock.
AgeLock ==
  /\ spoolLock.by # "nobody" /\ ~spoolLock.old
  /\ \A p \in Ingester : spoolLock.by = p => ~Locked(p)
  /\ spoolLock' = [spoolLock EXCEPT !.old = TRUE]
  /\ UNCHANGED <<spool, ingest, ledger, written, spoolFaults>>

\* Its holder is alive, but stalls for that long.
StallLock ==
  /\ \E p \in Ingester : spoolLock.by = p /\ Locked(p)
  /\ ~spoolLock.old /\ SpoolFault
  /\ spoolLock' = [spoolLock EXCEPT !.old = TRUE]
  /\ UNCHANGED <<spool, ingest, ledger, written>>

-----------------------------------------------------------------------------
(* acquireLock and releaseLock.                                            *)

\* The exclusive create succeeds.
TakeLock(p) ==
  /\ In(p, "lock") /\ spoolLock.by = "nobody"
  /\ spoolLock' = [by |-> p, old |-> FALSE]
  /\ Move(p, IF ingest[p].job = "claim" THEN "list" ELSE "put")
  /\ UNCHANGED <<spool, ledger, written, spoolFaults>>

\* It exists and its age is past LOCK_STALE_MS.
SeeStaleLock(p) ==
  /\ In(p, "lock") /\ spoolLock.by # "nobody" /\ spoolLock.old
  /\ Move(p, "stale")
  /\ UNCHANGED <<spool, spoolLock, ledger, written, spoolFaults>>

\* After the last attempt: a call without claims ends with its claim; a claim
\* that cannot be returned stays under its name.
Abandoned(p) == [ingest EXCEPT ![p].pc = "work", ![p].cur = NoFile, ![p].left = {}]

\* The lock file is unlinked, even one created since; then another attempt, or
\* none are left.
RemoveStaleLock(p) ==
  /\ In(p, "stale")
  /\ spoolLock' = [by |-> "nobody", old |-> FALSE]
  /\ \/ Move(p, "lock")
     \/ ingest' = Abandoned(p)
  /\ UNCHANGED <<spool, ledger, written, spoolFaults>>

GiveUpLock(p) ==
  /\ In(p, "lock") /\ spoolLock.by # "nobody" /\ ~spoolLock.old
  /\ ingest' = Abandoned(p)
  /\ UNCHANGED <<spool, spoolLock, ledger, written, spoolFaults>>

\* releaseLock reads the token, then unlinks the file of that name.
ReadToken(p) ==
  /\ In(p, "release")
  /\ ingest' = IF spoolLock.by = p THEN [ingest EXCEPT ![p].pc = "drop"] ELSE Abandoned(p)
  /\ UNCHANGED <<spool, spoolLock, ledger, written, spoolFaults>>

DropLock(p) ==
  /\ In(p, "drop")
  /\ spoolLock' = [by |-> "nobody", old |-> FALSE]
  /\ ingest' = Abandoned(p)
  /\ UNCHANGED <<spool, ledger, written, spoolFaults>>

-----------------------------------------------------------------------------
(* claimAvailableFiles.                                                    *)

BeginIngest(p) ==
  /\ In(p, "idle")
  /\ Move(p, "lock")
  /\ UNCHANGED <<spool, spoolLock, ledger, written, spoolFaults>>

\* The names of the pending files and of the claims, whoever made them.
List(p) ==
  /\ In(p, "list")
  /\ ingest' = [ingest EXCEPT ![p].pc = "claim",
                  ![p].todo = {t \in File \X ClaimName : t[2] = spool[t[1]].at}]
  /\ UNCHANGED <<spool, spoolLock, ledger, written, spoolFaults>>

Full(p) == Cardinality(ingest[p].claims) >= MaxClaims

\* Mutant: a claim is never taken over.
ClaimablePending(f, name) == spool[f].at = name /\ name = "pending"

\* A claim is taken over only once its file is stale.
Claimable(f, name) == spool[f].at = name /\ (name = "pending" \/ spool[f].old)

\* Pending files come first.  A name that is gone is passed over.
ClaimListed(p) ==
  /\ In(p, "claim") /\ ~Full(p)
  /\ \E t \in ingest[p].todo :
       LET f == t[1] IN
       /\ t[2] = "pending" \/ \A u \in ingest[p].todo : u[2] # "pending"
       /\ IF Claimable(f, t[2])
          THEN /\ Rename(f, p)
               /\ ingest' = [ingest EXCEPT ![p].todo = @ \ {t}, ![p].claims = @ \cup {f}]
          ELSE /\ ingest' = [ingest EXCEPT ![p].todo = @ \ {t}]
               /\ UNCHANGED spool
  /\ UNCHANGED <<spoolLock, ledger, written, spoolFaults>>

\* The live file is looked at, then renamed.
SeeLive(p) ==
  /\ In(p, "claim") /\ (ingest[p].todo = {} \/ Full(p))
  /\ Move(p, IF ~Full(p) /\ \E f \in File : spool[f].at = "live" THEN "live" ELSE "release")
  /\ UNCHANGED <<spool, spoolLock, ledger, written, spoolFaults>>

\* Mutant: the failed rename is not noticed.
ClaimLiveBlindly(p) ==
  /\ In(p, "live")
  /\ ingest' = [ingest EXCEPT ![p].pc = "release",
                  ![p].claims = @ \cup (IF \E f \in File : spool[f].at = "live"
                                        THEN {f \in File : spool[f].at = "live"} ELSE {NoFile})]
  /\ spool' = [f \in File |-> IF spool[f].at = "live" THEN [spool[f] EXCEPT !.at = p] ELSE spool[f]]
  /\ UNCHANGED <<spoolLock, ledger, written, spoolFaults>>

\* If another process took it meanwhile the call fails: its claims are left
\* under their names.
ClaimLive(p) ==
  /\ In(p, "live")
  /\ \/ \E f \in File :
          /\ spool[f].at = "live"
          /\ Rename(f, p)
          /\ ingest' = [ingest EXCEPT ![p].pc = "release", ![p].claims = @ \cup {f}]
     \/ /\ \A f \in File : spool[f].at # "live"
        /\ ingest' = [ingest EXCEPT ![p].pc = "release", ![p].claims = {}]
        /\ UNCHANGED spool
  /\ UNCHANGED <<spoolLock, ledger, written, spoolFaults>>

-----------------------------------------------------------------------------
(* ingestPanelMetrics: each claim in turn.                                 *)

ToReturn(p) == [ingest EXCEPT ![p].pc = "lock", ![p].job = "return", ![p].left = {}]

\* The claim is read: nothing appends to it any more.
OpenClaim(p) ==
  /\ In(p, "work")
  /\ \E f \in ingest[p].claims :
       /\ Mine(p, f)
       /\ ingest' = [ingest EXCEPT ![p].pc = "insert", ![p].claims = @ \ {f}, ![p].cur = f,
                                   ![p].left = spool[f].lines \cap Valid]
  /\ UNCHANGED <<spool, spoolLock, ledger, written, spoolFaults>>

\* Another process has taken the claim over: the open fails.
MissClaim(p) ==
  /\ In(p, "work")
  /\ \E f \in ingest[p].claims :
       /\ ~Mine(p, f)
       /\ ingest' = [ToReturn(p) EXCEPT ![p].claims = @ \ {f}, ![p].cur = f]
  /\ UNCHANGED <<spool, spoolLock, ledger, written, spoolFaults>>

EndIngest(p) ==
  /\ In(p, "work") /\ ingest[p].claims = {}
  /\ ingest' = [ingest EXCEPT ![p] = NoCall]
  /\ UNCHANGED <<spool, spoolLock, ledger, written, spoolFaults>>

\* appendInferMetricBatch: one transaction of INSERT OR IGNORE per batch.
InsertBatch(p) ==
  /\ In(p, "insert") /\ ingest[p].left # {}
  /\ \E batch \in SUBSET ingest[p].left :
       /\ \/ Cardinality(batch) = BatchSize
          \/ batch = ingest[p].left /\ Cardinality(batch) < BatchSize
       /\ ledger' = ledger \cup batch
       /\ ingest' = [ingest EXCEPT ![p].left = @ \ batch]
  /\ UNCHANGED <<spool, spoolLock, written, spoolFaults>>

\* The ledger is unavailable: the claim is to be returned.
InsertFails(p) ==
  /\ In(p, "insert") /\ ingest[p].left # {} /\ SpoolFault
  /\ ingest' = ToReturn(p)
  /\ UNCHANGED <<spool, spoolLock, ledger, written>>

\* Mutant: the claim is deleted while batches are left.
UnlinkEarly(p) ==
  /\ In(p, "insert") /\ Mine(p, ingest[p].cur)
  /\ spool' = [spool EXCEPT ![ingest[p].cur] = NoSpoolFile]
  /\ ingest' = Abandoned(p)
  /\ UNCHANGED <<spoolLock, ledger, written, spoolFaults>>

\* All batches are in: the claim is deleted, or was taken over meanwhile.
Unlink(p) ==
  /\ In(p, "insert") /\ ingest[p].left = {}
  /\ IF Mine(p, ingest[p].cur)
     THEN /\ spool' = [spool EXCEPT ![ingest[p].cur] = NoSpoolFile]
          /\ ingest' = Abandoned(p)
     ELSE /\ ingest' = ToReturn(p)
          /\ UNCHANGED spool
  /\ UNCHANGED <<spoolLock, ledger, written, spoolFaults>>

\* returnClaimForRetry, under the lock.
PutBack(p) ==
  /\ In(p, "put")
  /\ IF Mine(p, ingest[p].cur) THEN Rename(ingest[p].cur, "pending") ELSE UNCHANGED spool
  /\ Move(p, "release")
  /\ UNCHANGED <<spoolLock, ledger, written, spoolFaults>>

\* The process dies: its lock file and its claims stay on disk.
CrashIngest(p) ==
  /\ ~In(p, "idle") /\ SpoolFault
  /\ ingest' = [ingest EXCEPT ![p] = NoCall]
  /\ UNCHANGED <<spool, spoolLock, ledger, written>>

\* The calls of a process run on to their end, whatever else happens.
IngestStep(p) ==
  \/ TakeLock(p) \/ SeeStaleLock(p) \/ RemoveStaleLock(p) \/ GiveUpLock(p)
  \/ ReadToken(p) \/ DropLock(p)
  \/ List(p) \/ ClaimListed(p) \/ SeeLive(p) \/ ClaimLive(p)
  \/ OpenClaim(p) \/ MissClaim(p) \/ EndIngest(p)
  \/ InsertBatch(p) \/ Unlink(p) \/ PutBack(p)

SpoolNext ==
  \/ \E e \in Event : Append(e)
  \/ \E f \in File : AgeFile(f)
  \/ AgeLock \/ StallLock
  \/ \E p \in Ingester : BeginIngest(p) \/ IngestStep(p) \/ InsertFails(p) \/ CrashIngest(p)

SpoolSpec == SpoolInit /\ [][SpoolNext]_spoolVars

\* A call runs on, some process calls again (at its next request), and time
\* passes for the files and for a lock whose holder died.
SpoolFairness ==
  /\ \A p \in Ingester : WF_spoolVars(IngestStep(p))
  /\ WF_spoolVars(\E q \in Ingester : BeginIngest(q))
  /\ \A f \in File : WF_spoolVars(AgeFile(f))
  /\ WF_spoolVars(AgeLock)

-----------------------------------------------------------------------------
(* Properties.                                                             *)

OnDisk(e) == \E f \in File : spool[f].at # "absent" /\ e \in spool[f].lines

\* The file's promise: a claim is deleted only after its events are in the
\* ledger, whoever took it over, crashed or failed meanwhile.
NoMetricLost == \A e \in written \cap Valid : e \in ledger \/ OnDisk(e)

\* From some moment on only one process asks for the metrics.
LoneIngester == \E p \in Ingester : <>[](\A q \in Ingester \ {p} : In(q, "idle"))

\* Then a valid event that was written is in the ledger in the end.  (Two
\* processes may take a stale claim from each other before either opens it.)
MetricsArrive == LoneIngester => \A e \in Valid : (e \in written) ~> (e \in ledger)
=============================================================================
