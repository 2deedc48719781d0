--------------------------- MODULE LedgerCompaction ---------------------------
(***************************************************************************)
(* The life of the session ledger's entries: compaction into rollups       *)
(* (src/src/tools/compactionHandler.ts), the TTL sweep and the forgetting  *)
(* of memories, on the rows of session_ledger (storage/sqlite.ts).         *)
(*                                                                         *)
(* Calls of session_compact_ledger and the schedulers' sweeps run side by  *)
(* side: the tool takes no lock, and the sweeps' lock is read through a    *)
(* per-process cache.  One project and one user.  A call compacts what was *)
(* used least recently, and what was never used first.  What the LLM makes *)
(* of it is left open; the memory graph (links, principles) is not         *)
(* modelled.                                                               *)
(***************************************************************************)
EXTENDS Integers, FiniteSets

CONSTANTS
  Entry,       \* session entries, numbered in the order they are saved
  Rollup,      \* rollups, numbered likewise
  Compactor,   \* calls that run side by side
  Threshold,   \* thresholds and keep_recent values the callers give
  Keep,
  MaxEntries,  \* MAX_ENTRIES_PER_RUN
  MaxTaken,    \* bound: expiries, tombstones and deletions in a run
  MaxUsed      \* bound: the latest last_accessed_at

ASSUME LedgerAssumption ==
  /\ IsFiniteSet(Entry) /\ Entry \subseteq Nat /\ Rollup \subseteq Nat /\ Entry \cap Rollup = {}
  /\ MaxTaken \in Nat /\ MaxUsed \in Nat
  /\ Threshold \subseteq Nat /\ Keep \subseteq Nat /\ MaxEntries \in Nat \ {0}

VARIABLES
  row,         \* per id: its row
  used,        \* per entry: last_accessed_at, 0 for null
  forgotten,   \* entries with deleted_at
  covers,      \* per rollup: the entries it summarises
  compaction,  \* per compactor: its call in progress
  taken        \* expiries, tombstones and deletions so far

ledgerVars == <<row, used, forgotten, covers, compaction, taken>>

Compaction == [pc     : {"idle", "fetch", "save", "archive"},
               keep   : Keep \cup {0},   \* keep and count until the fetch
               count  : Nat,
               batch  : SUBSET Entry,    \* entries fetched and not yet archived
               alone  : BOOLEAN]         \* history: no entry was taken away since the count

LedgerTypeOK ==
  /\ row \in [Entry \cup Rollup -> {"none", "active", "expired", "rolled", "erased"}]
  /\ used \in [Entry -> 0 .. MaxUsed]
  /\ forgotten \subseteq Entry
  /\ covers \in [Rollup -> SUBSET Entry]
  /\ compaction \in [Compactor -> Compaction]
  /\ taken \in 0 .. MaxTaken

NoCompaction == [pc |-> "idle", keep |-> 0, count |-> 0, batch |-> {}, alone |-> TRUE]

LedgerInit ==
  /\ row = [i \in Entry \cup Rollup |-> "none"]
  /\ used = [e \in Entry |-> 0]
  /\ forgotten = {}
  /\ covers = [r \in Rollup |-> {}]
  /\ compaction = [c \in Compactor |-> NoCompaction]
  /\ taken = 0

-----------------------------------------------------------------------------
\* archived_at is null and is_rollup is false.
Active == {e \in Entry : row[e] = "active"}

\* An entry is taken away between the count and the fetch of a call.
Disturbed == [d \in Compactor |-> [compaction[d] EXCEPT !.alone = compaction[d].pc # "fetch"]]

Take == taken < MaxTaken /\ taken' = taken + 1

\* The next free id.
Fresh(i, ids) == row[i] = "none" /\ \A j \in ids : row[j] = "none" => i <= j

\* saveLedger, for a session.
SaveEntry(e) ==
  /\ Fresh(e, Entry)
  /\ row' = [row EXCEPT ![e] = "active"]
  /\ UNCHANGED <<used, forgotten, covers, compaction, taken>>

\* updateLastAccessed: a search or a context load has shown some entries (those
\* whose stamp changes).  It is not waited for, and the hosts' clocks are not
\* related.
UseEntries ==
  /\ \E now \in 1 .. MaxUsed :
       \E shown \in SUBSET {e \in Active : used[e] # now} \ {{}} :
         used' = [e \in Entry |-> IF e \in shown THEN now ELSE used[e]]
  /\ UNCHANGED <<row, forgotten, covers, compaction, taken>>

\* softDeleteLedger: a tombstone; the row stays.
ForgetEntry(e) ==
  /\ row[e] \notin {"none", "erased"} /\ Take
  /\ forgotten' = forgotten \cup {e}
  /\ UNCHANGED <<row, used, covers, compaction>>

\* hardDeleteLedger, of an entry or of a rollup.
EraseRow(i) ==
  /\ row[i] \notin {"none", "erased"} /\ Take
  /\ row' = [row EXCEPT ![i] = "erased"]
  /\ compaction' = IF i \in Entry THEN Disturbed ELSE compaction
  /\ UNCHANGED <<used, forgotten, covers>>

\* expireByTTL archives what is older than the cutoff, but no tombstone.
ExpireByTTL ==
  /\ Take
  /\ \E old \in SUBSET (Active \ forgotten) :
       /\ old # {}
       /\ row' = [i \in DOMAIN row |-> IF i \in old THEN "expired" ELSE row[i]]
  /\ compaction' = Disturbed
  /\ UNCHANGED <<used, forgotten, covers>>

-----------------------------------------------------------------------------
(* compactLedgerHandler.                                                   *)

\* Mutant: what is to be kept is taken off before the test of the threshold.
CountLess(c) ==
  /\ compaction[c].pc = "idle"
  /\ \E keep \in Keep :
       compaction' = [compaction EXCEPT ![c] =
         [NoCompaction EXCEPT !.pc = "fetch", !.keep = keep, !.count = Cardinality(Active) - keep]]
  /\ UNCHANGED <<row, used, forgotten, covers, taken>>

\* A named project is counted with its tombstones, getCompactionCandidates
\* counts without them; too few end the call.
CountEntries(c) ==
  /\ compaction[c].pc = "idle"
  /\ \E counted \in {Active, Active \ forgotten}, keep \in Keep, threshold \in Threshold :
       /\ Cardinality(counted) > threshold
       /\ compaction' = [compaction EXCEPT ![c] =
            [NoCompaction EXCEPT !.pc = "fetch", !.keep = keep, !.count = Cardinality(counted)]]
  /\ UNCHANGED <<row, used, forgotten, covers, taken>>

\* Mutant: everything that was counted is compacted.
ToCompactAll(c) == IF compaction[c].count < MaxEntries THEN compaction[c].count ELSE MaxEntries

\* toCompact, as the query gets it.
ToCompact(c) ==
  LET n == compaction[c].count - compaction[c].keep IN IF n < MaxEntries THEN n ELSE MaxEntries

\* last_accessed_at.asc.nullsfirst, then created_at.asc.
UsedBefore(e, f) == used[e] < used[f] \/ (used[e] = used[f] /\ e < f)

\* The first n active entries in that order, and the last n.
LeastUsed(n) == {e \in Active : Cardinality({f \in Active : UsedBefore(f, e)}) < n}
LastUsed(n)  == {e \in Active : Cardinality({f \in Active : UsedBefore(e, f)}) < n}

\* LIMIT is left out for 0, and means no limit for a negative number.
Fetched(c) == IF ToCompact(c) <= 0 THEN Active ELSE LeastUsed(ToCompact(c))

FetchOldest(c) ==
  /\ compaction[c].pc = "fetch"
  /\ compaction' = [compaction EXCEPT ![c] =
       IF Fetched(c) = {} THEN NoCompaction
       ELSE [NoCompaction EXCEPT !.pc = "save", !.batch = Fetched(c)]]
  /\ UNCHANGED <<row, used, forgotten, covers, taken>>

\* The summaries are there: the rollup is inserted.
SaveRollup(c) ==
  /\ compaction[c].pc = "save"
  /\ \E r \in Rollup :
       /\ Fresh(r, Rollup)
       /\ row' = [row EXCEPT ![r] = "active"]
       /\ covers' = [covers EXCEPT ![r] = compaction[c].batch]
  /\ compaction' = [compaction EXCEPT ![c].pc = "archive"]
  /\ UNCHANGED <<used, forgotten, taken>>

\* The originals are archived one by one, by id alone.
ArchiveEntry(c) ==
  /\ compaction[c].pc = "archive"
  /\ \E e \in compaction[c].batch :
       /\ row' = IF row[e] = "erased" THEN row ELSE [row EXCEPT ![e] = "rolled"]
       /\ compaction' = [Disturbed EXCEPT ![c].batch = @ \ {e}]
  /\ UNCHANGED <<used, forgotten, covers, taken>>

EndCompaction(c) ==
  /\ compaction[c].pc = "archive" /\ compaction[c].batch = {}
  /\ compaction' = [compaction EXCEPT ![c] = NoCompaction]
  /\ UNCHANGED <<row, used, forgotten, covers, taken>>

\* Mutant: a rollup that cannot be saved is passed over.
AbortLate(c) ==
  /\ compaction[c].pc # "idle"
  /\ compaction' = IF compaction[c].pc = "save" THEN [compaction EXCEPT ![c].pc = "archive"]
                   ELSE [compaction EXCEPT ![c] = NoCompaction]
  /\ UNCHANGED <<row, used, forgotten, covers, taken>>

\* The LLM or the storage fails, or the process dies.
AbortCompaction(c) ==
  /\ compaction[c].pc # "idle"
  /\ compaction' = [compaction EXCEPT ![c] = NoCompaction]
  /\ UNCHANGED <<row, used, forgotten, covers, taken>>

LedgerNext ==
  \/ \E e \in Entry : SaveEntry(e) \/ ForgetEntry(e)
  \/ \E i \in Entry \cup Rollup : EraseRow(i)
  \/ UseEntries \/ ExpireByTTL
  \/ \E c \in Compactor : \/ CountEntries(c) \/ FetchOldest(c) \/ SaveRollup(c)
                          \/ ArchiveEntry(c) \/ EndCompaction(c) \/ AbortCompaction(c)

LedgerSpec == LedgerInit /\ [][LedgerNext]_ledgerVars

-----------------------------------------------------------------------------
(* Properties.                                                             *)

\* An entry that compaction has archived is summarised by a rollup that was
\* saved: whatever failed between the steps, and whoever else compacted,
\* expired or forgot the same entries.
ArchivedIsCovered ==
  \A e \in Entry : row[e] = "rolled" => \E r \in Rollup : row[r] # "none" /\ e \in covers[r]

Fetches(c) == compaction[c].pc = "fetch" /\ compaction'[c].pc = "save"

\* Entries are saved, used and tombstoned between the count and the fetch, and
\* several calls run: still a call from which nobody took an entry away spares
\* the keep_recent entries that were used last, if it counted more than those.
\* If it counted no more, the limit is none, and it spares nothing.
SparesLastUsed ==
  [][\A c \in Compactor : Fetches(c) /\ compaction[c].alone =>
       LET m == compaction[c] IN
       /\ m.keep < m.count  => compaction'[c].batch \cap LastUsed(m.keep) = {}
       /\ m.keep >= m.count => compaction'[c].batch = Active]_ledgerVars

\* "Always keep the N most recent entries untouched" (docs/COMPACTION.md): refuted
\* by an old entry that is used while a new one is not.
KeepsNewest ==
  [][\A c \in Compactor : Fetches(c) =>
       \A e \in compaction'[c].batch :
         Cardinality({f \in Active : f > e}) >= compaction[c].keep]_ledgerVars
=============================================================================
