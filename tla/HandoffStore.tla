---------------------------- MODULE HandoffStore ----------------------------
(***************************************************************************)
(* The session handoff of one project: saveHandoff, deleteHandoff and      *)
(* loadContext of the SQLite backend (src/src/storage/sqlite.ts), and the  *)
(* handlers that save, merge, revert and patch it                          *)
(* (src/src/tools/ledgerHandlers.ts, src/src/utils/crdtMerge.ts).          *)
(*                                                                         *)
(* One action is what happens between two awaits.  A handoff is its list   *)
(* of todos, as a set; the other list fields are merged by the same        *)
(* function.  Version 0 stands for "none": no expected_version was passed, *)
(* or no handoff was loaded.                                               *)
(***************************************************************************)
EXTENDS Naturals

CONSTANTS
  Agent,             \* agents that call the tools
  Role,              \* roles a handoff is kept for
  Global,            \* the role used when a call names none
  Item,              \* todos
  MaxMergeAttempts,  \* MAX_MERGE_ATTEMPTS
  MaxCalls,          \* bound: calls that save
  MaxIncidents       \* bound: crashes, lost snapshots, background saves, and
                     \* calls that forget the handoffs

ASSUME HandoffAssumption ==
  /\ Global \in Role
  /\ MaxMergeAttempts \in Nat
  /\ MaxCalls \in Nat /\ MaxIncidents \in Nat

VARIABLES
  rows,      \* session_handoffs, by role
  lives,     \* history: how often the project was forgotten so far
  history,   \* session_handoffs_history
  patches,   \* background saves that were prepared and not yet carried out
  session,   \* per agent: what it was shown, and the call in progress
  calls,     \* calls so far that save
  incidents  \* incidents so far

vars == <<rows, lives, history, patches, session, calls, incidents>>

\* A copy of a handoff: the row itself, what an agent was shown or told, or a
\* snapshot.  `life` tells handoffs of one role apart that were forgotten in
\* between.  An agent that was told the version of a merged save, and the
\* snapshot of one, hold the todos that were submitted: they are not exact.
Copy == [life : Nat, role : Role, version : Nat, todos : SUBSET Item, exact : BOOLEAN]

SameVersion(c, d) == c.life = d.life /\ c.role = d.role /\ c.version = d.version

NoCopy(r) == [life |-> 0, role |-> r, version |-> 0, todos |-> {}, exact |-> FALSE]

Place == {"idle", "revert", "save", "force", "check", "base", "current",
          "snapshot", "refused"}

\* `asked` is the expected_version of the call, `expected` the one of the save
\* in progress, `held` the life it was read in.  `good` tells (history) whether
\* what every merge of the call took for the version asked for was that version.
Session == [pc : Place, view : Copy, asked : Nat, expected : Nat, held : Nat,
            merge : BOOLEAN, role : Role, todos : SUBSET Item, base : SUBSET Item,
            good : BOOLEAN, write : SUBSET Item, tries : 0 .. MaxMergeAttempts]

TypeOK ==
  /\ rows \in [Role -> Copy]
  /\ lives \in Nat
  /\ history \subseteq Copy
  /\ patches \subseteq Copy
  /\ session \in [Agent -> Session]
  /\ calls \in 0 .. MaxCalls
  /\ incidents \in 0 .. MaxIncidents

Fresh(view) == [pc |-> "idle", view |-> view, asked |-> 0, expected |-> 0, held |-> 0,
                merge |-> FALSE, role |-> view.role, todos |-> {}, base |-> {},
                good |-> TRUE, write |-> {}, tries |-> 0]

Init ==
  /\ rows = [r \in Role |-> NoCopy(r)]
  /\ lives = 0
  /\ history = {}
  /\ patches = {}
  /\ session = [a \in Agent |-> Fresh(NoCopy(Global))]
  /\ calls = 0
  /\ incidents = 0

-----------------------------------------------------------------------------
At(a, place) == session[a].pc = place

Goto(a, s) == session' = [session EXCEPT ![a] = s]

Incident == incidents < MaxIncidents /\ incidents' = incidents + 1

NewCall == calls < MaxCalls /\ calls' = calls + 1

Exists(r) == rows[r].version # 0

\* Mutant: what only the current handoff adds is left out.
MergeIncoming(b, i, c) == (b \ ((b \ i) \cup (b \ c))) \cup (i \ b)

\* mergeArray: the base without what either side removed, and what either added.
MergeArray(b, i, c) == (b \ ((b \ i) \cup (b \ c))) \cup (i \ b) \cup (c \ b)

\* Mutant: an update keeps the version.
SavedInPlace(row, todos) == [row EXCEPT !.todos = todos]

\* The row after an UPDATE.
Saved(row, todos) == [row EXCEPT !.todos = todos, !.version = @ + 1]

Created(r, todos) ==
  [life |-> lives, role |-> r, version |-> 1, todos |-> todos, exact |-> TRUE]

-----------------------------------------------------------------------------
(* The tools, up to their first save.                                      *)

\* session_load_context: the agent is shown the row.  A due morning briefing
\* prepares a background save of it, without its role.
LoadContext(a) ==
  /\ At(a, "idle")
  /\ \E r \in Role :
       /\ Goto(a, Fresh(rows[r]))
       /\ \/ UNCHANGED <<patches, incidents>>
          \/ Exists(r) /\ Incident /\ patches' = patches \cup {rows[r]}
  /\ UNCHANGED <<rows, lives, history, calls>>

\* session_save_handoff: the agent submits todos of its own, with or without
\* the version it was given.
BeginSave(a) ==
  /\ At(a, "idle") /\ NewCall
  /\ \E todos \in SUBSET Item, asked \in {0, session[a].view.version}, merge \in BOOLEAN :
       Goto(a, [Fresh(session[a].view) EXCEPT
                  !.pc = "save", !.asked = asked, !.expected = asked,
                  !.held = session[a].view.life, !.merge = merge,
                  !.todos = todos, !.write = todos])
  /\ UNCHANGED <<rows, lives, history, patches, incidents>>

\* memory_checkout: the snapshot, with the role it was saved for, then the
\* version of the global handoff.
BeginCheckout(a) ==
  /\ At(a, "idle") /\ NewCall
  /\ \E h \in history :
       Goto(a, [Fresh(NoCopy(h.role)) EXCEPT
                  !.pc = "revert", !.todos = h.todos, !.write = h.todos])
  /\ UNCHANGED <<rows, lives, history, patches, incidents>>

CheckoutVersion(a) ==
  /\ At(a, "revert")
  /\ Goto(a, [session[a] EXCEPT !.pc = "save", !.expected = rows[Global].version,
                                !.held = rows[Global].life])
  /\ UNCHANGED <<rows, lives, history, patches, calls, incidents>>

-----------------------------------------------------------------------------
(* saveHandoff.                                                            *)

\* A call of which only the submitted todos matter any more.
Submitted(s) == [Fresh(s.view) EXCEPT !.role = s.role, !.todos = s.todos]

\* The row is stored; the handler goes on to its snapshot.
Store(a, new) ==
  /\ rows' = [rows EXCEPT ![new.role] = new]
  /\ Goto(a, [Submitted(session[a]) EXCEPT !.pc = "snapshot", !.expected = new.version,
                                           !.held = new.life, !.tries = session[a].tries])

\* The first statement: an INSERT without an expected version, else an UPDATE
\* of exactly that version.
Save(a) ==
  LET s == session[a] IN
  /\ At(a, "save")
  /\ \/ /\ s.expected = 0 /\ ~Exists(s.role)
        /\ Store(a, Created(s.role, s.write))
     \/ /\ s.expected # 0 /\ rows[s.role].version = s.expected
        /\ Store(a, Saved(rows[s.role], s.write))
     \/ /\ rows[s.role].version # s.expected
        /\ Goto(a, [s EXCEPT !.pc = IF s.expected = 0 THEN "force" ELSE "check"])
        /\ UNCHANGED rows
  /\ UNCHANGED <<lives, history, patches, calls, incidents>>

\* UNIQUE constraint: an UPDATE of whatever is there.  If the row was deleted
\* meanwhile it updates nothing, and is reported as updated all the same.
ForceUpdate(a) ==
  LET s == session[a] IN
  /\ At(a, "force")
  /\ \/ /\ Exists(s.role)
        /\ Store(a, Saved(rows[s.role], s.write))
     \/ /\ ~Exists(s.role)
        /\ Goto(a, [Submitted(s) EXCEPT !.pc = "snapshot"])
        /\ UNCHANGED rows
  /\ UNCHANGED <<lives, history, patches, calls, incidents>>

\* Mutant: one attempt more.
MayMergeOnceMore(s) == s.tries <= MaxMergeAttempts

MayMerge(s) == s.tries < MaxMergeAttempts

\* No row had the version: a conflict, or a row that is gone and is created.
Check(a) ==
  LET s == session[a] IN
  /\ At(a, "check")
  /\ Goto(a, IF ~Exists(s.role) THEN [s EXCEPT !.pc = "save", !.expected = 0]
             ELSE IF s.merge /\ MayMerge(s) THEN [s EXCEPT !.pc = "base"]
             ELSE [s EXCEPT !.pc = "refused"])
  /\ UNCHANGED <<rows, lives, history, patches, calls, incidents>>

-----------------------------------------------------------------------------
(* The merge loop of session_save_handoff.                                 *)

\* getHandoffAtVersion: any snapshot of the project with that version.
Bases(s) == {h \in history : h.version = s.asked}

FetchBase(a) ==
  LET s == session[a] IN
  /\ At(a, "base")
  /\ \/ \E h \in Bases(s) :
          Goto(a, [s EXCEPT !.pc = "current", !.base = h.todos,
                            !.good = @ /\ h.exact /\ SameVersion(h, s.view)])
     \/ /\ Bases(s) = {}
        /\ Goto(a, [s EXCEPT !.pc = "current", !.base = {}])
  /\ UNCHANGED <<rows, lives, history, patches, calls, incidents>>

\* Mutant: the retry expects the version the agent asked for.
RetryAsAsked(s) == s.asked

RetryVersion(s) == rows[s.role].version

\* The current handoff is loaded and merged with the submitted one; without
\* one the loop is left, and the call ends as a conflict.
FetchCurrent(a) ==
  LET s == session[a] IN
  /\ At(a, "current")
  /\ Goto(a, IF ~Exists(s.role) THEN [s EXCEPT !.pc = "refused"]
             ELSE [s EXCEPT !.pc = "save", !.tries = @ + 1,
                            !.expected = RetryVersion(s), !.held = rows[s.role].life,
                            !.base = {},
                            !.write = MergeArray(s.base, s.todos, rows[s.role].todos)])
  /\ UNCHANGED <<rows, lives, history, patches, calls, incidents>>

-----------------------------------------------------------------------------
(* The end of a call.                                                      *)

\* What the agent holds after a successful call: the new version, and the todos
\* it submitted itself.
Told(s) ==
  IF s.expected = 0 THEN NoCopy(s.role)
  ELSE [life |-> s.held, role |-> s.role, version |-> s.expected, todos |-> s.todos,
        exact |-> s.tries = 0]

\* The snapshot of what was submitted; a save that wrote nothing has no
\* version and counts as version 1.
SaveSnapshot(a) ==
  LET s == session[a] IN
  /\ At(a, "snapshot")
  /\ history' = history \cup {IF s.expected = 0
                              THEN [NoCopy(s.role) EXCEPT !.version = 1, !.todos = s.todos]
                              ELSE Told(s)}
  /\ Goto(a, Fresh(Told(s)))
  /\ UNCHANGED <<rows, lives, patches, calls, incidents>>

\* The snapshot fails, which is not fatal.
SnapshotFails(a) ==
  /\ At(a, "snapshot") /\ Incident
  /\ Goto(a, Fresh(Told(session[a])))
  /\ UNCHANGED <<rows, lives, history, patches, calls>>

\* The call is reported as a conflict; the agent keeps what it holds.
Refused(a) ==
  /\ At(a, "refused")
  /\ Goto(a, Fresh(session[a].view))
  /\ UNCHANGED <<rows, lives, history, patches, calls, incidents>>

-----------------------------------------------------------------------------
(* The surroundings.                                                       *)

\* The host dies; a new session knows nothing.
Crash(a) ==
  /\ Incident
  /\ Goto(a, Fresh(NoCopy(Global)))
  /\ UNCHANGED <<rows, lives, history, patches, calls>>

\* deleteHandoff, by knowledge_forget or the dashboard: every role's row.  The
\* snapshots stay.
Forget ==
  /\ Incident
  /\ lives' = lives + 1
  /\ rows' = [r \in Role |-> NoCopy(r)]
  /\ UNCHANGED <<history, patches, session, calls>>

\* A background save is carried out on the global handoff, without a snapshot.
\* Where the row is gone it is tried again as an INSERT, and then as an UPDATE of
\* whatever was created meanwhile.
Patch(p) ==
  /\ \/ /\ Exists(Global) /\ p.version \in {0, rows[Global].version}
        /\ rows' = [rows EXCEPT ![Global] = Saved(@, p.todos)]
        /\ patches' = patches \ {p}
     \/ /\ ~Exists(Global) /\ p.version = 0
        /\ rows' = [rows EXCEPT ![Global] = Created(Global, p.todos)]
        /\ patches' = patches \ {p}
     \/ /\ ~Exists(Global) /\ p.version # 0
        /\ patches' = (patches \ {p}) \cup {[p EXCEPT !.version = 0]}
        /\ UNCHANGED rows
  /\ UNCHANGED <<lives, history, session, calls, incidents>>

\* It meets a conflict or an error, which is ignored, or its host is gone.
PatchLost(p) ==
  /\ patches' = patches \ {p}
  /\ UNCHANGED <<rows, lives, history, session, calls, incidents>>

Call(a) ==
  \/ LoadContext(a) \/ BeginSave(a) \/ BeginCheckout(a) \/ CheckoutVersion(a)
  \/ Save(a) \/ ForceUpdate(a) \/ Check(a) \/ FetchBase(a) \/ FetchCurrent(a)
  \/ SaveSnapshot(a) \/ SnapshotFails(a) \/ Refused(a)

Next ==
  \/ \E a \in Agent : Call(a) \/ Crash(a)
  \/ Forget
  \/ \E p \in patches : Patch(p) \/ PatchLost(p)

Spec == Init /\ [][Next]_vars

-----------------------------------------------------------------------------
Copies ==
  history \cup {rows[r] : r \in Role} \cup {session[a].view : a \in Agent}

\* A version identifies a handoff for as long as the project is not forgotten:
\* the row, what agents were shown of it, and its snapshot agree, however
\* saves, forced saves, reverts, patches and crashes interleave.  Copies of a
\* merged save excepted, which is what NothingClobbered is about.
VersionsIdentify ==
  \A c, d \in Copies : c.exact /\ d.exact /\ SameVersion(c, d) => c = d

\* A call gives up its merge only if other saves really got in between: one
\* before each of its attempts and one after the last.
GivesUpOnlyUnderContention ==
  \A a \in Agent :
    LET s == session[a] IN
    At(a, "refused") /\ s.merge /\ s.tries = MaxMergeAttempts
      /\ rows[s.role].life = s.view.life
    => rows[s.role].version > s.asked + MaxMergeAttempts \/ ~Exists(s.role)

\* a's save overwrites the handoff of its role on the strength of a version.
Overwrites(a) ==
  /\ At(a, "save") /\ session[a].asked # 0 /\ session[a].expected # 0
  /\ session'[a].pc = "snapshot"

\* The todos such a save makes disappear although a was never shown them.
Clobbered(a) ==
  LET r == session[a].role IN (rows[r].todos \ rows'[r].todos) \ session[a].view.todos

\* A versioned save, merged or not, erases nothing its agent was not shown, and
\* drops nothing its agent adds, while saves of others, forced saves, reverts
\* and patches interleave; provided the agent holds the handoff of its version,
\* not of a life that was forgotten, and the base is good.
SavesKeepBoth ==
  [][\A a \in Agent :
       LET s == session[a] IN
       Overwrites(a) /\ s.view.exact /\ s.held = s.view.life /\ s.held = rows[s.role].life
         /\ s.good
       => /\ Clobbered(a) = {}
          /\ s.todos \ s.view.todos \subseteq rows'[s.role].todos]_vars

\* "This prevents silent state clobber in parallel agent teams"
\* (src/docs/COMPACTION.md:123): a save with an expected version never erases a
\* todo its agent was not shown.
NothingClobbered == [][\A a \in Agent : Overwrites(a) => Clobbered(a) = {}]_vars
=============================================================================
