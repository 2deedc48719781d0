------------------------- MODULE HandoffStoreProofs -------------------------
(***************************************************************************)
(* Proofs about HandoffStore, for any agents, roles, todos and bounds.     *)
(*                                                                         *)
(* The argument: in one life of the project a row only changes to a higher *)
(* version (Grows).  Hence what is known of a version stays true of it     *)
(* (KnownOK), and what a call read stays a lower bound (SessionOK).        *)
(***************************************************************************)
EXTENDS HandoffStore, TLAPS

\* The predicates of the invariant name the rows and the lives they are about,
\* so that they can be compared before and after a step.
Within(c, rs, n) ==
  /\ c.life <= n
  /\ c.life = n => rs[c.role].version # 0 /\ c.version <= rs[c.role].version

RowsOK(rs, n) ==
  \A r \in Role :
    /\ rs[r].role = r
    /\ rs[r].exact <=> rs[r].version # 0
    /\ rs[r].version # 0 => rs[r].life = n

Grows(rs, n, rs2, n2) ==
  /\ n <= n2
  /\ n2 = n => \A r \in Role : rs2[r] = rs[r] \/ rs2[r].version > rs[r].version

\* The copies of handoffs that are held outside the rows.
Known ==
  history \cup {session[a].view : a \in Agent}
          \cup {Told(session[a]) : a \in {b \in Agent : At(b, "snapshot")}}

AgreesWithRow(c, rs, n) ==
  /\ c.version # 0
  /\ Within(c, rs, n)
  /\ SameVersion(c, rs[c.role]) => c.todos = rs[c.role].todos

KnownOK(K, rs, n) ==
  /\ \A c \in K : c.exact => AgreesWithRow(c, rs, n)
  /\ \A c, d \in K : c.exact /\ d.exact /\ SameVersion(c, d) => c.todos = d.todos

\* What the call in progress holds: the todos to write, and what it asked for.
CallOK(s) ==
  /\ s.pc = "revert" => s.asked = 0 /\ ~s.merge
  /\ s.pc \in {"save", "force", "check", "base", "current", "refused"} /\ s.asked # 0
     => s.asked = s.view.version /\ s.role = s.view.role
  /\ s.pc \in {"revert", "save", "force", "check"} /\ s.tries = 0 => s.write = s.todos
  /\ s.pc = "save" /\ s.asked # 0 /\ s.expected # 0 /\ s.tries = 0
     => s.expected = s.asked /\ s.held = s.view.life
  /\ s.pc \notin {"idle", "snapshot"} /\ s.merge /\ s.expected # 0 => s.asked # 0
  /\ s.pc \in {"check", "base", "current", "refused"} => s.expected # 0
  /\ s.pc \in {"base", "current"} => s.merge /\ s.tries < MaxMergeAttempts
  /\ s.pc = "current" /\ s.good /\ s.view.exact => s.base \in {s.view.todos, {}}

\* The version a versioned save expects was seen in the life it remembers.
ExpectedOK(s, rs, n) ==
  s.pc = "save" /\ s.asked # 0 /\ s.expected # 0
  => /\ s.view.life <= s.held /\ s.held <= n
     /\ s.held = n => rs[s.role].version # 0 /\ s.expected <= rs[s.role].version

\* Every attempt was preceded by a save of somebody else.
CountOK(s, rs) ==
  s.asked # 0 /\ rs[s.role].version # 0 /\ rs[s.role].life = s.view.life
  => /\ s.pc = "save" /\ s.expected # 0 => s.asked + s.tries <= s.expected
     /\ \/ s.pc \in {"check", "base", "current"}
        \/ s.pc = "refused" /\ s.merge /\ s.tries = MaxMergeAttempts
        => s.asked + s.tries < rs[s.role].version

\* A merge in progress started from the row it is about to replace.
MergedOK(s, rs, n) ==
  /\ s.pc = "save" /\ s.asked # 0 /\ s.expected # 0 /\ s.tries # 0
  /\ s.held = n /\ s.expected = rs[s.role].version
  => \E b \in SUBSET Item :
       /\ s.good /\ s.view.exact => b \in {s.view.todos, {}}
       /\ s.write = MergeArray(b, s.todos, rs[s.role].todos)

SessionOK(s, rs, n) ==
  /\ s.view.version # 0 => Within(s.view, rs, n)
  /\ s.pc = "snapshot" /\ s.expected # 0 => Within(Told(s), rs, n)
  /\ CallOK(s)
  /\ ExpectedOK(s, rs, n)
  /\ CountOK(s, rs)
  /\ MergedOK(s, rs, n)

Inv ==
  /\ TypeOK
  /\ RowsOK(rows, lives)
  /\ KnownOK(Known, rows, lives)
  /\ \A a \in Agent : SessionOK(session[a], rows, lives)
-----------------------------------------------------------------------------
(* Types.                                                                  *)

\* No handoff is a copy too, and never an exact one.
LEMMA CopyTypes ==
  ASSUME NEW r \in Role
  PROVE  /\ NoCopy(r) \in Copy
         /\ NoCopy(r).role = r /\ NoCopy(r).version = 0 /\ ~NoCopy(r).exact
         /\ NoCopy(r).life = 0
BY DEF NoCopy, Copy

\* What a fresh session starts from has its type.
LEMMA Initial ==
  /\ 0 \in Nat /\ 0 \in 0 .. MaxMergeAttempts /\ {} \in SUBSET Item
  /\ TRUE \in BOOLEAN /\ FALSE \in BOOLEAN
  /\ {"idle", "revert", "save", "force", "check", "base", "current", "snapshot",
      "refused"} \subseteq Place
BY HandoffAssumption DEF Place

\* A fresh session has its type and has no call in progress.
LEMMA FreshType ==
  ASSUME NEW v \in Copy
  PROVE  LET s == Fresh(v) IN
         /\ s \in Session
         /\ s.pc = "idle" /\ s.view = v /\ s.asked = 0 /\ s.expected = 0
         /\ s.merge = FALSE /\ s.tries = 0 /\ s.role = v.role
<1>1. v.role \in Role
  BY DEF Copy
<1> QED BY <1>1, Initial, ZenonT(120) DEF Fresh, Session

\* What an agent is told is a copy.
LEMMA ToldType ==
  ASSUME NEW s \in Session
  PROVE  Told(s) \in Copy
<1>1. /\ s.role \in Role /\ s.held \in Nat /\ s.expected \in Nat
      /\ s.todos \in SUBSET Item /\ (s.tries = 0) \in BOOLEAN
  BY DEF Session
<1>2. CASE s.expected = 0
  BY <1>1, <1>2, CopyTypes DEF Told
<1>3. CASE s.expected # 0
  BY <1>1, <1>3, ZenonT(60) DEF Told, Copy
<1> QED BY <1>2, <1>3

\* A call of which only the submitted todos matter keeps view, role and todos.
LEMMA SubmittedType ==
  ASSUME NEW s \in Session
  PROVE  LET t == Submitted(s) IN
         /\ t \in Session /\ t.view = s.view /\ t.asked = 0 /\ t.expected = 0
         /\ t.role = s.role /\ t.todos = s.todos
<1> DEFINE f == Fresh(s.view)
<1>1. s.view \in Copy /\ s.role \in Role /\ s.todos \in SUBSET Item
  BY DEF Session
<1>2. f \in Session /\ f.view = s.view /\ f.asked = 0 /\ f.expected = 0
  BY <1>1, FreshType
<1> HIDE DEF f
<1>3. LET t == [f EXCEPT !.role = s.role, !.todos = s.todos] IN
      /\ t \in Session /\ t.view = s.view /\ t.asked = 0 /\ t.expected = 0
      /\ t.role = s.role /\ t.todos = s.todos
  BY <1>1, <1>2, ZenonT(120) DEF Session
<1> QED BY <1>3 DEF Submitted, f

\* An UPDATE keeps everything of a row but its todos and its version.
LEMMA SavedType ==
  ASSUME NEW row \in Copy, NEW todos \in SUBSET Item
  PROVE  LET new == Saved(row, todos) IN
         /\ new \in Copy
         /\ new.life = row.life /\ new.role = row.role /\ new.version = row.version + 1
         /\ new.todos = todos /\ new.exact = row.exact
<1>1. row.version + 1 \in Nat
  BY DEF Copy
<1> QED BY <1>1, ZenonT(60) DEF Saved, Copy

\* An INSERT starts at version 1.
LEMMA CreatedType ==
  ASSUME NEW r \in Role, NEW todos \in SUBSET Item, lives \in Nat
  PROVE  LET new == Created(r, todos) IN
         /\ new \in Copy
         /\ new.life = lives /\ new.role = r /\ new.version = 1
         /\ new.todos = todos /\ new.exact
<1>1. 1 \in Nat
  OBVIOUS
<1> QED BY <1>1, ZenonT(60) DEF Created, Copy

\* A merge of todos is a set of todos.
LEMMA MergeType ==
  ASSUME NEW b \in SUBSET Item, NEW i \in SUBSET Item, NEW c \in SUBSET Item
  PROVE  MergeArray(b, i, c) \in SUBSET Item
BY DEF MergeArray

\* A session step keeps the types when the agent's new session has its type.
LEMMA GotoType ==
  ASSUME session \in [Agent -> Session], NEW a \in Agent, NEW s \in Session, Goto(a, s)
  PROVE  session' \in [Agent -> Session]
BY DEF Goto
-----------------------------------------------------------------------------
(* What rows that only grow keep true.                                     *)

\* The rows of a step and of what they grow into.
Steps(rs, n, rs2, n2) ==
  /\ rs \in [Role -> Copy] /\ rs2 \in [Role -> Copy] /\ n \in Nat /\ n2 \in Nat
  /\ RowsOK(rs, n) /\ RowsOK(rs2, n2)
  /\ Grows(rs, n, rs2, n2)

\* A copy of the row itself.
IsRow(c, rs, n) ==
  LET row == rs[c.role] IN
  row.version # 0 /\ c.life = n /\ c.version = row.version /\ c.todos = row.todos

\* A version that was no later than its row stays so.
LEMMA WithinKept ==
  ASSUME NEW rs, NEW n, NEW rs2, NEW n2, Steps(rs, n, rs2, n2),
         NEW c \in Copy, Within(c, rs, n)
  PROVE  Within(c, rs2, n2)
<1> DEFINE row == rs[c.role]
           row2 == rs2[c.role]
<1>1. /\ c.role \in Role /\ c.version \in Nat /\ c.life \in Nat /\ n \in Nat /\ n2 \in Nat
      /\ row.version \in Nat /\ row2.version \in Nat
  BY DEF Steps, Copy
<1>2. /\ c.life <= n /\ n <= n2
      /\ c.life = n => row.version # 0 /\ c.version <= row.version
      /\ n2 = n => row2 = row \/ row2.version > row.version
  BY <1>1 DEF Within, Steps, Grows
<1>3. row2 = row => row2.version = row.version
  OBVIOUS
<1> HIDE DEF row, row2
<1>4. c.life <= n2 /\ (c.life = n2 => row2.version # 0 /\ c.version <= row2.version)
  BY <1>1, <1>2, <1>3
<1> QED BY <1>4 DEF Within, row, row2

\* A copy that agreed with its row goes on to agree with it.
LEMMA AgreementKept ==
  ASSUME NEW rs, NEW n, NEW rs2, NEW n2, Steps(rs, n, rs2, n2),
         NEW c \in Copy, AgreesWithRow(c, rs, n)
  PROVE  AgreesWithRow(c, rs2, n2)
<1> DEFINE row == rs[c.role]
           row2 == rs2[c.role]
<1>1. /\ c.role \in Role /\ c.version \in Nat /\ c.life \in Nat /\ n \in Nat /\ n2 \in Nat
      /\ row.version \in Nat /\ row2.version \in Nat
  BY DEF Steps, Copy
<1>2. /\ c.version # 0 /\ c.life <= n /\ n <= n2
      /\ c.life = n => row.version # 0 /\ c.version <= row.version
      /\ n2 = n => row2 = row \/ row2.version > row.version
      /\ row2.version # 0 => row2.life = n2
  BY <1>1 DEF AgreesWithRow, Within, Steps, Grows, RowsOK
<1>3. Within(c, rs2, n2)
  BY WithinKept DEF AgreesWithRow
<1>4. ASSUME SameVersion(c, row2)
      PROVE  c.todos = row2.todos
  <2>1. c.life = row2.life /\ c.version = row2.version
    BY <1>4 DEF SameVersion
  <2> HIDE DEF row, row2
  <2>2. row2 = row
    BY <1>1, <1>2, <2>1
  <2>3. SameVersion(c, row)
    BY <1>4, <2>2
  <2> QED BY <2>2, <2>3 DEF AgreesWithRow, row
<1> QED BY <1>2, <1>3, <1>4 DEF AgreesWithRow

\* A copy of the row agrees with it, and with whatever else does.
LEMMA RowAgrees ==
  ASSUME NEW rs \in [Role -> Copy], NEW n \in Nat, RowsOK(rs, n),
         NEW c \in Copy, IsRow(c, rs, n)
  PROVE  /\ AgreesWithRow(c, rs, n)
         /\ \A d : AgreesWithRow(d, rs, n) /\ (SameVersion(c, d) \/ SameVersion(d, c))
                   => d.todos = c.todos
<1> DEFINE row == rs[c.role]
<1>1. /\ row.role = c.role /\ row.life = n /\ row.version # 0 /\ row.version \in Nat
      /\ c.life = n /\ c.version = row.version /\ c.todos = row.todos
  BY DEF IsRow, RowsOK, Copy
<1>2. AgreesWithRow(c, rs, n)
  BY <1>1 DEF AgreesWithRow, Within
<1>3. ASSUME NEW d, AgreesWithRow(d, rs, n), SameVersion(c, d) \/ SameVersion(d, c)
      PROVE  d.todos = c.todos
  <2>1. d.life = c.life /\ d.role = c.role /\ d.version = c.version
    BY <1>3 DEF SameVersion
  <2>2. SameVersion(d, rs[d.role])
    BY <2>1, <1>1 DEF SameVersion
  <2> QED BY <2>1, <2>2, <1>1, <1>3 DEF AgreesWithRow
<1> QED BY <1>2, <1>3

\* What is known stays known when all that is new is copies of rows.
LEMMA KnownKept ==
  ASSUME NEW rs, NEW n, NEW rs2, NEW n2, Steps(rs, n, rs2, n2),
         NEW K \in SUBSET Copy, NEW K2 \in SUBSET Copy, KnownOK(K, rs, n),
         \A c \in K2 : c.exact => c \in K \/ IsRow(c, rs2, n2)
  PROVE  KnownOK(K2, rs2, n2)
<1>1. rs2 \in [Role -> Copy] /\ n2 \in Nat /\ RowsOK(rs2, n2)
  BY DEF Steps
<1>2. ASSUME NEW c \in K2, c.exact
      PROVE  AgreesWithRow(c, rs2, n2)
  <2>1. CASE c \in K
    BY <1>2, <2>1, AgreementKept DEF KnownOK
  <2>2. CASE IsRow(c, rs2, n2)
    BY <2>2, <1>1, RowAgrees
  <2> QED BY <1>2, <2>1, <2>2
<1>3. ASSUME NEW c \in K2, NEW d \in K2, c.exact, d.exact, SameVersion(c, d)
      PROVE  c.todos = d.todos
  <2>1. AgreesWithRow(c, rs2, n2) /\ AgreesWithRow(d, rs2, n2)
    BY <1>2, <1>3
  <2>2. CASE c \in K /\ d \in K
    BY <1>3, <2>2 DEF KnownOK
  <2>3. CASE IsRow(c, rs2, n2)
    BY <1>1, <1>3, <2>1, <2>3, RowAgrees
  <2>4. CASE IsRow(d, rs2, n2)
    BY <1>1, <1>3, <2>1, <2>4, RowAgrees
  <2> QED BY <1>3, <2>2, <2>3, <2>4
<1> QED BY <1>2, <1>3 DEF KnownOK
\* What a session holds stays true of it when others save.
LEMMA SessionKept ==
  ASSUME NEW rs, NEW n, NEW rs2, NEW n2, Steps(rs, n, rs2, n2),
         NEW s \in Session, SessionOK(s, rs, n)
  PROVE  SessionOK(s, rs2, n2)
<1> DEFINE row == rs[s.role]
           row2 == rs2[s.role]
<1>1. /\ s.role \in Role /\ s.view \in Copy /\ s.view.life \in Nat /\ s.view.version \in Nat
      /\ s.asked \in Nat /\ s.expected \in Nat /\ s.held \in Nat /\ s.tries \in Nat
      /\ s.view.role \in Role
  BY HandoffAssumption DEF Session, Copy
<1>2. /\ n \in Nat /\ n2 \in Nat /\ n <= n2
      /\ row.version \in Nat /\ row2.version \in Nat
      /\ row.version # 0 => row.life = n
      /\ row2.version # 0 => row2.life = n2
      /\ n2 = n => row2 = row \/ row2.version > row.version
  BY <1>1 DEF Steps, Copy, RowsOK, Grows
<1>3. row2 = row => row2.version = row.version
  OBVIOUS
<1>4. CallOK(s) /\ ExpectedOK(s, rs, n) /\ CountOK(s, rs) /\ MergedOK(s, rs, n)
  BY DEF SessionOK
<1>5. s.view.version # 0 => Within(s.view, rs2, n2)
  BY <1>1, WithinKept DEF SessionOK
<1>6. s.pc = "snapshot" /\ s.expected # 0 => Within(Told(s), rs2, n2)
  BY ToldType, WithinKept DEF SessionOK
<1>7. ExpectedOK(s, rs2, n2)
  <2>1. SUFFICES ASSUME s.pc = "save" /\ s.asked # 0 /\ s.expected # 0
                 PROVE  /\ s.view.life <= s.held /\ s.held <= n2
                        /\ s.held = n2 => row2.version # 0 /\ s.expected <= row2.version
    BY DEF ExpectedOK
  <2>2. /\ s.view.life <= s.held /\ s.held <= n
        /\ s.held = n => row.version # 0 /\ s.expected <= row.version
    BY <1>4, <2>1 DEF ExpectedOK
  <2> HIDE DEF row, row2
  <2> QED BY <1>1, <1>2, <1>3, <2>2
<1>8. CountOK(s, rs2)
  <2>1. SUFFICES ASSUME s.asked # 0, row2.version # 0, row2.life = s.view.life,
                        s.pc \in {"save", "check", "base", "current", "refused"}
                 PROVE  /\ s.pc = "save" /\ s.expected # 0 => s.asked + s.tries <= s.expected
                        /\ \/ s.pc \in {"check", "base", "current"}
                           \/ s.pc = "refused" /\ s.merge /\ s.tries = MaxMergeAttempts
                           => s.asked + s.tries < row2.version
    BY DEF CountOK
  <2>2. s.asked = s.view.version /\ s.role = s.view.role
    BY <1>4, <2>1 DEF CallOK
  <2>3. s.view.life <= n /\ (s.view.life = n => row.version # 0)
    BY <2>1, <2>2 DEF SessionOK, Within
  <2>4. row.version # 0 /\ row.life = s.view.life /\ row.version <= row2.version
    <3> HIDE DEF row, row2
    <3> QED BY <1>1, <1>2, <1>3, <2>1, <2>3
  <2>5. /\ s.pc = "save" /\ s.expected # 0 => s.asked + s.tries <= s.expected
        /\ \/ s.pc \in {"check", "base", "current"}
           \/ s.pc = "refused" /\ s.merge /\ s.tries = MaxMergeAttempts
           => s.asked + s.tries < row.version
    BY <1>4, <2>1, <2>4 DEF CountOK
  <2> HIDE DEF row, row2
  <2> QED BY <1>1, <1>2, <2>4, <2>5
<1>9. MergedOK(s, rs2, n2)
  <2>1. SUFFICES ASSUME s.pc = "save", s.asked # 0, s.expected # 0, s.tries # 0,
                        s.held = n2, s.expected = row2.version
                 PROVE  \E b \in SUBSET Item :
                          /\ s.good /\ s.view.exact => b \in {s.view.todos, {}}
                          /\ s.write = MergeArray(b, s.todos, row2.todos)
    BY DEF MergedOK
  <2>2. s.held <= n /\ (s.held = n => s.expected <= row.version)
    BY <1>4, <2>1 DEF ExpectedOK
  <2>3. s.held = n /\ row2 = row
    <3> HIDE DEF row, row2
    <3> QED BY <1>1, <1>2, <2>1, <2>2
  <2> QED BY <1>4, <2>1, <2>3 DEF MergedOK
<1> QED BY <1>4, <1>5, <1>6, <1>7, <1>8, <1>9 DEF SessionOK

\* A session without a call only has a view to answer for.
LEMMA FreshOK ==
  ASSUME NEW v \in Copy, NEW rs, NEW n, v.version # 0 => Within(v, rs, n)
  PROVE  SessionOK(Fresh(v), rs, n)
BY FreshType DEF SessionOK, CallOK, ExpectedOK, CountOK, MergedOK

-----------------------------------------------------------------------------
(* Steps.                                                                  *)

\* What is known after a step of an agent was known, or is in its new session
\* or in the history.
LEMMA KnownAfter ==
  ASSUME session \in [Agent -> Session], NEW a \in Agent, NEW s,
         session' = [session EXCEPT ![a] = s]
  PROVE  \A c \in Known' : \/ c \in history' \/ c \in Known
                           \/ c = s.view
                           \/ s.pc = "snapshot" /\ c = Told(s)
<1>1. \A b \in Agent : session'[b] = IF b = a THEN s ELSE session[b]
  OBVIOUS
<1>2. SUFFICES ASSUME NEW c \in Known'
               PROVE  \/ c \in history' \/ c \in Known
                      \/ c = s.view
                      \/ s.pc = "snapshot" /\ c = Told(s)
  OBVIOUS
<1>3. CASE c \in history'
  BY <1>3
<1>4. ASSUME NEW b \in Agent, c = session'[b].view
      PROVE  c \in Known \/ c = s.view
  BY <1>1, <1>4 DEF Known
<1>5. ASSUME NEW b \in Agent, session'[b].pc = "snapshot", c = Told(session'[b])
      PROVE  c \in Known \/ (s.pc = "snapshot" /\ c = Told(s))
  BY <1>1, <1>5 DEF Known, At
<1> QED BY <1>2, <1>3, <1>4, <1>5 DEF Known, At

\* All that is known are copies.
LEMMA KnownType ==
  ASSUME TypeOK
  PROVE  Known \in SUBSET Copy /\ (TypeOK' => Known' \in SUBSET Copy)
<1>1. \A s \in Session : s.view \in Copy /\ Told(s) \in Copy
  BY ToldType DEF Session
<1>2. Known \in SUBSET Copy
  BY <1>1 DEF Known, TypeOK
<1>3. ASSUME TypeOK'
      PROVE  Known' \in SUBSET Copy
  BY <1>1, <1>3 DEF Known, TypeOK
<1> QED BY <1>2, <1>3

\* A step of a call preserves the invariant when the rows grow, what the agent
\* at work learns is a copy of a row, and its new session is as it should be.
LEMMA CallStep ==
  ASSUME Inv, TypeOK', NEW a \in Agent, NEW s \in Session, Goto(a, s),
         Steps(rows, lives, rows', lives'),
         SessionOK(s, rows', lives'),
         \A c \in history' : c.exact => c \in Known,
         s.view.exact => s.view \in Known \/ IsRow(s.view, rows', lives'),
         s.pc = "snapshot" /\ Told(s).exact => IsRow(Told(s), rows', lives')
  PROVE  Inv'
<1>1. session' = [session EXCEPT ![a] = s] /\ session \in [Agent -> Session]
  BY DEF Goto, Inv, TypeOK
<1>2. RowsOK(rows', lives')
  BY DEF Steps
<1>3. KnownOK(Known', rows', lives')
  <2>1. \A c \in Known' : c.exact => c \in Known \/ IsRow(c, rows', lives')
    BY <1>1, KnownAfter
  <2>2. Known \in SUBSET Copy /\ Known' \in SUBSET Copy
    BY KnownType DEF Inv
  <2> QED BY <2>1, <2>2, KnownKept DEF Inv
<1>4. ASSUME NEW b \in Agent
      PROVE  SessionOK(session'[b], rows', lives')
  <2>1. CASE b = a
    BY <1>1, <2>1
  <2>2. CASE b # a
    <3>1. session'[b] = session[b] /\ session[b] \in Session
      BY <1>1, <2>2
    <3> QED BY <3>1, SessionKept DEF Inv
  <2> QED BY <2>1, <2>2
<1> QED BY <1>2, <1>3, <1>4 DEF Inv
\* Rows that stay as they are do not shrink.
LEMMA Unchanged ==
  ASSUME Inv, rows' = rows, lives' = lives
  PROVE  Steps(rows, lives, rows', lives')
BY DEF Steps, Grows, Inv, TypeOK

\* The counters of the bounds stay within them.
LEMMA Bounds ==
  ASSUME TypeOK
  PROVE  /\ NewCall \/ calls' = calls => calls' \in 0 .. MaxCalls
         /\ Incident \/ incidents' = incidents => incidents' \in 0 .. MaxIncidents
BY HandoffAssumption DEF TypeOK, NewCall, Incident

\* A step of a call that leaves the rows alone.
LEMMA QuietStep ==
  ASSUME Inv, NEW a \in Agent, NEW s \in Session, Goto(a, s),
         rows' = rows, lives' = lives, history' = history, patches' \in SUBSET Copy,
         NewCall \/ calls' = calls, Incident \/ incidents' = incidents,
         SessionOK(s, rows, lives),
         s.view.exact => s.view \in Known \/ IsRow(s.view, rows, lives),
         s.pc = "snapshot" => ~Told(s).exact
  PROVE  Inv'
<1>1. TypeOK'
  <2>1. session' \in [Agent -> Session]
    BY GotoType DEF Inv, TypeOK
  <2>2. calls' \in 0 .. MaxCalls /\ incidents' \in 0 .. MaxIncidents
    BY Bounds DEF Inv
  <2> QED BY <2>1, <2>2 DEF Inv, TypeOK
<1>2. Steps(rows, lives, rows', lives')
  BY Unchanged
<1>3. \A c \in history' : c.exact => c \in Known
  BY DEF Known
<1> QED BY <1>1, <1>2, <1>3, CallStep

\* What an agent is shown is a copy of a row, or of nothing.
LEMMA RowFacts ==
  ASSUME Inv, NEW r \in Role
  PROVE  /\ rows[r] \in Copy /\ rows[r].role = r
         /\ rows[r].exact => IsRow(rows[r], rows, lives)
         /\ rows[r].version # 0 => Within(rows[r], rows, lives)
BY DEF Inv, TypeOK, RowsOK, IsRow, Within, Copy

\* session_load_context shows an agent a copy of a row.
LEMMA LoadContextStep ==
  ASSUME Inv, NEW a \in Agent, LoadContext(a)
  PROVE  Inv'
<1>1. PICK r \in Role : /\ Goto(a, Fresh(rows[r]))
                        /\ \/ UNCHANGED <<patches, incidents>>
                           \/ Exists(r) /\ Incident /\ patches' = patches \cup {rows[r]}
  BY DEF LoadContext
<1> DEFINE s == Fresh(rows[r])
<1>2. rows[r] \in Copy
  BY RowFacts
<1>3. s \in Session /\ s.view = rows[r] /\ s.pc = "idle"
  BY <1>2, FreshType
<1>4. SessionOK(s, rows, lives)
  BY <1>2, RowFacts, FreshOK
<1>5. patches' \in SUBSET Copy /\ (Incident \/ incidents' = incidents)
  BY <1>1, <1>2 DEF Inv, TypeOK
<1>6. /\ rows' = rows /\ lives' = lives /\ history' = history /\ calls' = calls
  BY DEF LoadContext
<1>7. s.view.exact => IsRow(s.view, rows, lives)
  BY <1>3, RowFacts
<1> HIDE DEF s
<1>8. Goto(a, s)
  BY <1>1 DEF s
<1> QED BY <1>3, <1>4, <1>5, <1>6, <1>7, <1>8, QuietStep

\* What is known of an agent at work.
LEMMA AgentFacts ==
  ASSUME Inv, NEW a \in Agent
  PROVE  LET s == session[a] IN
         /\ s \in Session /\ SessionOK(s, rows, lives) /\ CallOK(s)
         /\ s.view \in Copy /\ s.view \in Known
         /\ s.view.version \in Nat /\ s.view.life \in Nat /\ s.view.role \in Role
         /\ s.asked \in Nat /\ s.expected \in Nat /\ s.held \in Nat /\ s.role \in Role
         /\ s.tries \in 0 .. MaxMergeAttempts
         /\ s.todos \in SUBSET Item /\ s.base \in SUBSET Item /\ s.write \in SUBSET Item
         /\ s.merge \in BOOLEAN /\ s.good \in BOOLEAN
<1> DEFINE s == session[a]
<1>1. s \in Session
  BY DEF Inv, TypeOK
<1>2. /\ s.view \in Copy
      /\ s.asked \in Nat /\ s.expected \in Nat /\ s.held \in Nat /\ s.role \in Role
      /\ s.tries \in 0 .. MaxMergeAttempts
      /\ s.todos \in SUBSET Item /\ s.base \in SUBSET Item /\ s.write \in SUBSET Item
      /\ s.merge \in BOOLEAN /\ s.good \in BOOLEAN
  BY <1>1 DEF Session
<1>3. s.view.version \in Nat /\ s.view.life \in Nat /\ s.view.role \in Role
  BY <1>2 DEF Copy
<1>4. s.view \in Known
  BY DEF Known
<1>5. SessionOK(s, rows, lives) /\ CallOK(s)
  BY DEF Inv, SessionOK
<1> QED BY <1>1, <1>2, <1>3, <1>4, <1>5

\* After a refusal the agent holds what it held.
LEMMA RefusedStep ==
  ASSUME Inv, NEW a \in Agent, Refused(a)
  PROVE  Inv'
<1> DEFINE s == Fresh(session[a].view)
<1>1. session[a].view \in Copy /\ session[a].view \in Known
  BY AgentFacts
<1>2. s \in Session /\ s.view = session[a].view /\ s.pc = "idle"
  BY <1>1, FreshType
<1>3. SessionOK(s, rows, lives)
  BY <1>1, FreshOK, AgentFacts DEF SessionOK
<1>4. /\ Goto(a, s) /\ rows' = rows /\ lives' = lives /\ history' = history
      /\ patches' \in SUBSET Copy /\ calls' = calls /\ incidents' = incidents
  BY DEF Refused, Inv, TypeOK
<1> HIDE DEF s
<1> QED BY <1>1, <1>2, <1>3, <1>4, QuietStep

\* A new session knows nothing.
LEMMA CrashStep ==
  ASSUME Inv, NEW a \in Agent, Crash(a)
  PROVE  Inv'
<1> DEFINE s == Fresh(NoCopy(Global))
<1>1. NoCopy(Global) \in Copy /\ NoCopy(Global).version = 0 /\ ~NoCopy(Global).exact
  BY CopyTypes, HandoffAssumption
<1>2. s \in Session /\ s.view = NoCopy(Global) /\ s.pc = "idle"
  BY <1>1, FreshType
<1>3. SessionOK(s, rows, lives)
  BY <1>1, FreshOK
<1>4. /\ Goto(a, s) /\ rows' = rows /\ lives' = lives /\ history' = history
      /\ patches' \in SUBSET Copy /\ calls' = calls /\ Incident
  BY DEF Crash, Inv, TypeOK
<1> HIDE DEF s
<1> QED BY <1>1, <1>2, <1>3, <1>4, QuietStep
\* The end of a successful call: the agent holds what it was told.
LEMMA ToldFacts ==
  ASSUME Inv, NEW a \in Agent, At(a, "snapshot")
  PROVE  LET t == Told(session[a]) IN
         /\ t \in Copy /\ t \in Known
         /\ t.version # 0 => Within(t, rows, lives)
<1> DEFINE s == session[a]
           t == Told(s)
<1>1. s \in Session /\ SessionOK(s, rows, lives) /\ s.role \in Role
  BY AgentFacts
<1>2. t \in Copy /\ t \in Known
  BY <1>1, ToldType DEF Known
<1>3. s.expected = 0 => t.version = 0
  BY <1>1, CopyTypes DEF Told
<1>4. s.expected # 0 => Within(t, rows, lives)
  BY <1>1 DEF SessionOK, At
<1> QED BY <1>2, <1>3, <1>4

\* Without its snapshot a call still ends with what the agent was told.
LEMMA SnapshotFailsStep ==
  ASSUME Inv, NEW a \in Agent, SnapshotFails(a)
  PROVE  Inv'
<1> DEFINE t == Told(session[a])
           s == Fresh(t)
<1>1. t \in Copy /\ t \in Known /\ (t.version # 0 => Within(t, rows, lives))
  BY ToldFacts DEF SnapshotFails
<1>2. s \in Session /\ s.view = t /\ s.pc = "idle"
  BY <1>1, FreshType
<1>3. SessionOK(s, rows, lives)
  BY <1>1, FreshOK
<1>4. /\ Goto(a, s) /\ rows' = rows /\ lives' = lives /\ history' = history
      /\ patches' \in SUBSET Copy /\ calls' = calls /\ Incident
  BY DEF SnapshotFails, Inv, TypeOK
<1> HIDE DEF s, t
<1> QED BY <1>1, <1>2, <1>3, <1>4, QuietStep

\* A snapshot is what the agent was told, or is not exact.
LEMMA SaveSnapshotStep ==
  ASSUME Inv, NEW a \in Agent, SaveSnapshot(a)
  PROVE  Inv'
<1> DEFINE t == Told(session[a])
           s == Fresh(t)
           r == session[a].role
           empty == [NoCopy(r) EXCEPT !.version = 1, !.todos = session[a].todos]
<1>1. t \in Copy /\ t \in Known /\ (t.version # 0 => Within(t, rows, lives))
  BY ToldFacts DEF SaveSnapshot
<1>2. s \in Session /\ s.view = t /\ s.pc = "idle"
  BY <1>1, FreshType
<1>3. SessionOK(s, rows, lives)
  BY <1>1, FreshOK
<1>4. /\ Goto(a, s) /\ rows' = rows /\ lives' = lives
      /\ history' = history \cup {IF session[a].expected = 0 THEN empty ELSE t}
      /\ patches' = patches /\ calls' = calls /\ incidents' = incidents
  BY DEF SaveSnapshot
<1>5. r \in Role /\ session[a].todos \in SUBSET Item
  BY AgentFacts
<1>6. empty \in Copy /\ ~empty.exact
  BY <1>5, CopyTypes, ZenonT(60) DEF NoCopy, Copy
<1>7. TypeOK'
  BY <1>1, <1>2, <1>4, <1>6, GotoType DEF Inv, TypeOK
<1>8. \A c \in history' : c.exact => c \in Known
  BY <1>1, <1>4, <1>6 DEF Known
<1>9. Steps(rows, lives, rows', lives')
  BY <1>4, Unchanged
<1> HIDE DEF s, t
<1> QED BY <1>1, <1>2, <1>3, <1>4, <1>7, <1>8, <1>9, CallStep

\* session_save_handoff asks for the version the agent holds, or for none.
LEMMA BeginSaveStep ==
  ASSUME Inv, NEW a \in Agent, BeginSave(a)
  PROVE  Inv'
<1> DEFINE v == session[a].view
<1>1. /\ v \in Copy /\ v \in Known /\ v.version \in Nat /\ v.life \in Nat
      /\ v.role \in Role /\ (v.version # 0 => Within(v, rows, lives))
  BY AgentFacts DEF SessionOK
<1>2. PICK todos \in SUBSET Item, asked \in {0, v.version}, merge \in BOOLEAN :
        Goto(a, [Fresh(v) EXCEPT
                   !.pc = "save", !.asked = asked, !.expected = asked,
                   !.held = v.life, !.merge = merge,
                   !.todos = todos, !.write = todos])
  BY DEF BeginSave
<1> DEFINE f == Fresh(v)
           s == [f EXCEPT
                   !.pc = "save", !.asked = asked, !.expected = asked,
                   !.held = v.life, !.merge = merge,
                   !.todos = todos, !.write = todos]
<1>3. asked \in Nat
  BY <1>1
<1>4. Goto(a, s)
  BY <1>2
<1>5. f \in Session /\ f.view = v /\ f.tries = 0 /\ f.role = v.role
  BY <1>1, FreshType
<1> HIDE DEF f, v
<1>6. /\ s \in Session /\ s.view = v /\ s.pc = "save" /\ s.asked = asked
      /\ s.expected = asked /\ s.held = v.life /\ s.merge = merge /\ s.todos = todos
      /\ s.write = todos /\ s.tries = 0 /\ s.role = v.role
  BY <1>1, <1>3, <1>5, Initial, ZenonT(120) DEF Session
<1> HIDE DEF s
<1>7. SessionOK(s, rows, lives)
  <2>1. CallOK(s)
    BY <1>6 DEF CallOK
  <2>2. ExpectedOK(s, rows, lives)
    BY <1>1, <1>6 DEF ExpectedOK, Within
  <2>3. CountOK(s, rows)
    BY <1>3, <1>6 DEF CountOK
  <2> QED BY <1>1, <1>6, <2>1, <2>2, <2>3 DEF SessionOK, MergedOK
<1>8. /\ rows' = rows /\ lives' = lives /\ history' = history
      /\ patches' \in SUBSET Copy /\ NewCall /\ incidents' = incidents
  BY DEF BeginSave, Inv, TypeOK
<1> QED BY <1>1, <1>4, <1>6, <1>7, <1>8, QuietStep

\* memory_checkout writes what it found, for an agent that holds nothing.
LEMMA BeginCheckoutStep ==
  ASSUME Inv, NEW a \in Agent, BeginCheckout(a)
  PROVE  Inv'
<1>1. PICK h \in history :
        Goto(a, [Fresh(NoCopy(h.role)) EXCEPT
                   !.pc = "revert", !.todos = h.todos, !.write = h.todos])
  BY DEF BeginCheckout
<1> DEFINE v == NoCopy(h.role)
           f == Fresh(v)
           s == [f EXCEPT !.pc = "revert", !.todos = h.todos, !.write = h.todos]
<1>2. h.role \in Role /\ h.todos \in SUBSET Item
  BY DEF Inv, TypeOK, Copy
<1>3. v \in Copy /\ v.version = 0 /\ ~v.exact
  BY <1>2, CopyTypes
<1>4. Goto(a, s)
  BY <1>1
<1>5. f \in Session /\ f.view = v /\ f.asked = 0 /\ f.merge = FALSE
  BY <1>3, FreshType
<1> HIDE DEF f, v
<1>6. /\ s \in Session /\ s.view = v /\ s.pc = "revert" /\ s.asked = 0
      /\ s.todos = h.todos /\ s.write = h.todos /\ s.merge = FALSE
  BY <1>2, <1>5, Initial, ZenonT(120) DEF Session
<1> HIDE DEF s
<1>7. SessionOK(s, rows, lives)
  BY <1>3, <1>6 DEF SessionOK, CallOK, ExpectedOK, CountOK, MergedOK
<1>8. /\ rows' = rows /\ lives' = lives /\ history' = history
      /\ patches' \in SUBSET Copy /\ NewCall /\ incidents' = incidents
  BY DEF BeginCheckout, Inv, TypeOK
<1> QED BY <1>3, <1>4, <1>6, <1>7, <1>8, QuietStep
\* memory_checkout asks for no version of its own.
LEMMA CheckoutVersionStep ==
  ASSUME Inv, NEW a \in Agent, CheckoutVersion(a)
  PROVE  Inv'
<1> DEFINE o == session[a]
           row == rows[Global]
           s == [o EXCEPT !.pc = "save", !.expected = row.version, !.held = row.life]
<1>1. /\ o \in Session /\ CallOK(o) /\ SessionOK(o, rows, lives) /\ o.pc = "revert"
      /\ o.view \in Known
  BY AgentFacts DEF CheckoutVersion, At
<1>2. row.version \in Nat /\ row.life \in Nat
  BY RowFacts, HandoffAssumption DEF Copy
<1>3. /\ Goto(a, s) /\ rows' = rows /\ lives' = lives /\ history' = history
      /\ patches' \in SUBSET Copy /\ calls' = calls /\ incidents' = incidents
  BY DEF CheckoutVersion, Inv, TypeOK
<1> HIDE DEF o, row
<1>4. /\ s \in Session /\ s.view = o.view /\ s.pc = "save" /\ s.asked = o.asked
      /\ s.todos = o.todos /\ s.write = o.write /\ s.merge = o.merge /\ s.tries = o.tries
  BY <1>1, <1>2, Initial, ZenonT(120) DEF Session
<1> HIDE DEF s
<1>5. o.asked = 0 /\ ~o.merge /\ (o.tries = 0 => o.write = o.todos)
  BY <1>1 DEF CallOK
<1>6. SessionOK(s, rows, lives)
  BY <1>1, <1>4, <1>5 DEF SessionOK, CallOK, ExpectedOK, CountOK, MergedOK
<1> QED BY <1>1, <1>3, <1>4, <1>6, QuietStep

\* A conflict, a merge or a new INSERT after an UPDATE of nothing.
LEMMA CheckStep ==
  ASSUME Inv, NEW a \in Agent, Check(a)
  PROVE  Inv'
<1> DEFINE o == session[a]
           gone == [o EXCEPT !.pc = "save", !.expected = 0]
           base == [o EXCEPT !.pc = "base"]
           refused == [o EXCEPT !.pc = "refused"]
           s == IF ~Exists(o.role) THEN gone
                ELSE IF o.merge /\ MayMerge(o) THEN base
                ELSE refused
<1>1. /\ o \in Session /\ CallOK(o) /\ SessionOK(o, rows, lives) /\ o.pc = "check"
      /\ o.view \in Known /\ o.tries \in 0 .. MaxMergeAttempts
  BY AgentFacts DEF Check, At
<1>2. /\ Goto(a, s) /\ rows' = rows /\ lives' = lives /\ history' = history
      /\ patches' \in SUBSET Copy /\ calls' = calls /\ incidents' = incidents
  BY DEF Check, Inv, TypeOK
<1>3. s = gone \/ (s = base /\ o.merge /\ o.tries < MaxMergeAttempts) \/ s = refused
  BY DEF MayMerge
<1> HIDE DEF o
<1>4. /\ gone \in Session /\ gone.pc = "save" /\ gone.expected = 0
      /\ gone.view = o.view /\ gone.asked = o.asked /\ gone.role = o.role
      /\ gone.todos = o.todos /\ gone.write = o.write
      /\ gone.merge = o.merge /\ gone.tries = o.tries
  BY <1>1, Initial, ZenonT(120) DEF Session
<1>5. ASSUME NEW pc \in {"base", "refused"}
      PROVE  LET t == [o EXCEPT !.pc = pc] IN
             /\ t \in Session /\ t.pc = pc /\ t.expected = o.expected /\ t.held = o.held
             /\ t.view = o.view /\ t.asked = o.asked /\ t.role = o.role
             /\ t.merge = o.merge /\ t.tries = o.tries
  BY <1>1, Initial, ZenonT(120) DEF Session
<1> HIDE DEF gone, base, refused, s
<1>6. CASE s = gone
  <2>1. SessionOK(s, rows, lives)
    BY <1>1, <1>4, <1>6 DEF SessionOK, CallOK, ExpectedOK, CountOK, MergedOK
  <2> QED BY <1>1, <1>2, <1>4, <1>6, <2>1, QuietStep
<1>7. CASE s = base /\ o.merge /\ o.tries < MaxMergeAttempts
  <2>1. /\ base \in Session /\ base.pc = "base" /\ base.expected = o.expected
        /\ base.view = o.view /\ base.asked = o.asked /\ base.role = o.role
        /\ base.merge = o.merge /\ base.tries = o.tries
    BY <1>5 DEF base
  <2>2. SessionOK(s, rows, lives)
    BY <1>1, <1>7, <2>1 DEF SessionOK, CallOK, ExpectedOK, CountOK, MergedOK
  <2> QED BY <1>1, <1>2, <1>7, <2>1, <2>2, QuietStep
<1>8. CASE s = refused
  <2>1. /\ refused \in Session /\ refused.pc = "refused" /\ refused.expected = o.expected
        /\ refused.view = o.view /\ refused.asked = o.asked /\ refused.role = o.role
        /\ refused.merge = o.merge /\ refused.tries = o.tries
    BY <1>5 DEF refused
  <2>2. SessionOK(s, rows, lives)
    BY <1>1, <1>8, <2>1 DEF SessionOK, CallOK, ExpectedOK, CountOK, MergedOK
  <2> QED BY <1>1, <1>2, <1>8, <2>1, <2>2, QuietStep
<1> QED BY <1>3, <1>6, <1>7, <1>8
\* A good base is what the agent was shown.
LEMMA FetchBaseStep ==
  ASSUME Inv, NEW a \in Agent, FetchBase(a)
  PROVE  Inv'
<1> DEFINE o == session[a]
           With(todos, good) == [o EXCEPT !.pc = "current", !.base = todos, !.good = good]
<1>1. /\ o \in Session /\ CallOK(o) /\ SessionOK(o, rows, lives) /\ o.pc = "base"
      /\ o.view \in Known /\ o.good \in BOOLEAN /\ o.view \in Copy
  BY AgentFacts DEF FetchBase, At
<1>2. /\ rows' = rows /\ lives' = lives /\ history' = history
      /\ patches' \in SUBSET Copy /\ calls' = calls /\ incidents' = incidents
  BY DEF FetchBase, Inv, TypeOK
<1>3. \E todos \in SUBSET Item, good \in BOOLEAN :
        /\ Goto(a, With(todos, good))
        /\ good /\ o.view.exact => todos \in {o.view.todos, {}}
  <2>1. CASE \E h \in Bases(o) :
               Goto(a, [o EXCEPT !.pc = "current", !.base = h.todos,
                                 !.good = @ /\ h.exact /\ SameVersion(h, o.view)])
    <3>1. PICK h \in Bases(o) :
                 Goto(a, [o EXCEPT !.pc = "current", !.base = h.todos,
                                   !.good = @ /\ h.exact /\ SameVersion(h, o.view)])
      BY <2>1
    <3> DEFINE good == o.good /\ h.exact /\ SameVersion(h, o.view)
    <3>2. h \in history /\ h \in Known /\ h.exact \in BOOLEAN /\ h.todos \in SUBSET Item
      BY DEF Bases, Known, Inv, TypeOK, Copy
    <3>3. good \in BOOLEAN
      BY <1>1, <3>2 DEF SameVersion
    <3>4. good /\ o.view.exact => h.todos = o.view.todos
      BY <1>1, <3>2 DEF Inv, KnownOK
    <3>5. Goto(a, With(h.todos, good))
      BY <3>1
    <3> HIDE DEF good, With
    <3> QED BY <3>2, <3>3, <3>4, <3>5
  <2>2. CASE Goto(a, [o EXCEPT !.pc = "current", !.base = {}])
    <3>1. [o EXCEPT !.pc = "current", !.base = {}] = With({}, o.good)
      BY <1>1, ZenonT(60) DEF Session
    <3>2. Goto(a, With({}, o.good))
      BY <2>2, <3>1
    <3> HIDE DEF With
    <3> QED BY <1>1, <3>2
  <2> QED BY <2>1, <2>2 DEF FetchBase
<1>4. PICK todos \in SUBSET Item, good \in BOOLEAN :
        /\ Goto(a, With(todos, good))
        /\ good /\ o.view.exact => todos \in {o.view.todos, {}}
  BY <1>3
<1> DEFINE s == With(todos, good)
<1> HIDE DEF o
<1>5. /\ s \in Session /\ s.pc = "current" /\ s.expected = o.expected
      /\ s.base = todos /\ s.good = good /\ s.view = o.view /\ s.asked = o.asked
      /\ s.role = o.role /\ s.merge = o.merge /\ s.tries = o.tries
  BY <1>1, Initial, ZenonT(120) DEF Session
<1>6. Goto(a, s)
  BY <1>4
<1> HIDE DEF s
<1>7. SessionOK(s, rows, lives)
  BY <1>1, <1>4, <1>5 DEF SessionOK, CallOK, ExpectedOK, CountOK, MergedOK
<1> QED BY <1>1, <1>2, <1>5, <1>6, <1>7, QuietStep

\* A retry expects the version of the row it merged.
LEMMA FetchCurrentStep ==
  ASSUME Inv, NEW a \in Agent, FetchCurrent(a)
  PROVE  Inv'
<1> DEFINE o == session[a]
           row == rows[o.role]
           merged == MergeArray(o.base, o.todos, row.todos)
           refused == [o EXCEPT !.pc = "refused"]
           again == [o EXCEPT !.pc = "save", !.tries = @ + 1, !.expected = row.version,
                              !.held = row.life, !.base = {}, !.write = merged]
           s == IF row.version = 0 THEN refused ELSE again
<1>1. /\ o \in Session /\ CallOK(o) /\ SessionOK(o, rows, lives) /\ o.pc = "current"
      /\ o.view \in Known /\ o.tries \in 0 .. MaxMergeAttempts /\ o.role \in Role
      /\ o.base \in SUBSET Item /\ o.todos \in SUBSET Item
      /\ o.asked \in Nat /\ o.expected \in Nat /\ o.view.life \in Nat
  BY AgentFacts DEF FetchCurrent, At
<1>2. /\ row.version \in Nat /\ row.life \in Nat /\ row.todos \in SUBSET Item
      /\ row.version # 0 => row.life = lives
  BY <1>1, RowFacts DEF Copy, Inv, RowsOK
<1>3. /\ rows' = rows /\ lives' = lives /\ history' = history /\ Goto(a, s)
      /\ patches' \in SUBSET Copy /\ calls' = calls /\ incidents' = incidents
  BY DEF FetchCurrent, Exists, RetryVersion, Inv, TypeOK
<1>4. /\ o.expected # 0 /\ o.merge /\ o.tries < MaxMergeAttempts /\ o.asked # 0
      /\ o.asked = o.view.version /\ o.role = o.view.role
      /\ o.good /\ o.view.exact => o.base \in {o.view.todos, {}}
  BY <1>1 DEF CallOK
<1>5. o.tries + 1 \in 0 .. MaxMergeAttempts /\ o.tries + 1 # 0 /\ o.tries # MaxMergeAttempts
  BY <1>1, <1>4, HandoffAssumption
<1>6. merged \in SUBSET Item
  BY <1>1, <1>2, MergeType
<1>7. o.view.life <= lives
  BY <1>1, <1>4 DEF SessionOK, Within
<1>8. row.version # 0 /\ row.life = o.view.life => o.asked + o.tries < row.version
  BY <1>1, <1>4 DEF SessionOK, CountOK
<1>9. lives \in Nat
  BY DEF Inv, TypeOK
<1>10. CASE row.version = 0
  <2> HIDE DEF o
  <2>1. /\ refused \in Session /\ refused.pc = "refused" /\ refused.expected = o.expected
        /\ refused.view = o.view /\ refused.asked = o.asked /\ refused.role = o.role
        /\ refused.merge = o.merge /\ refused.tries = o.tries
    BY <1>1, Initial, ZenonT(120) DEF Session
  <2>2. s = refused
    BY <1>10
  <2> HIDE DEF s, refused
  <2>3. SessionOK(s, rows, lives)
    BY <1>1, <1>4, <1>5, <2>1, <2>2 DEF SessionOK, CallOK, ExpectedOK, CountOK, MergedOK
  <2> QED BY <1>1, <1>3, <2>1, <2>2, <2>3, QuietStep
<1>11. CASE row.version # 0
  <2>1. s = again
    BY <1>11
  <2> HIDE DEF o, row, merged
  <2>2. /\ again \in Session /\ again.pc = "save" /\ again.expected = row.version
        /\ again.held = row.life /\ again.write = merged /\ again.tries = o.tries + 1
        /\ again.view = o.view /\ again.asked = o.asked /\ again.role = o.role
        /\ again.merge = o.merge /\ again.todos = o.todos /\ again.good = o.good
    BY <1>1, <1>2, <1>5, <1>6, Initial, ZenonT(120) DEF Session
  <2> HIDE DEF s, again
  <2>3. CallOK(s)
    BY <1>4, <1>5, <2>1, <2>2 DEF CallOK
  <2>4. ExpectedOK(s, rows, lives)
    BY <1>2, <1>7, <1>9, <1>11, <2>1, <2>2 DEF ExpectedOK, row
  <2>5. CountOK(s, rows)
    <3>1. row.version # 0 /\ row.life = o.view.life => o.asked + (o.tries + 1) <= row.version
      BY <1>1, <1>2, <1>8
    <3> QED BY <2>1, <2>2, <3>1 DEF CountOK, row
  <2>6. MergedOK(s, rows, lives)
    BY <1>1, <1>4, <2>1, <2>2 DEF MergedOK, merged, row
  <2>7. SessionOK(s, rows, lives)
    BY <1>1, <2>1, <2>2, <2>3, <2>4, <2>5, <2>6 DEF SessionOK
  <2> QED BY <1>1, <1>3, <2>1, <2>2, <2>7, QuietStep
<1> QED BY <1>10, <1>11
-----------------------------------------------------------------------------
(* Steps that write rows.                                                  *)

\* Rows of which one gets a higher version in the current life only grow.
LEMMA RowGrows ==
  ASSUME Inv, NEW new \in Copy, rows' = [rows EXCEPT ![new.role] = new], lives' = lives,
         new.life = lives, new.exact, new.version > rows[new.role].version
  PROVE  Steps(rows, lives, rows', lives')
<1>1. /\ new.role \in Role /\ new.version \in Nat /\ rows[new.role].version \in Nat
      /\ rows \in [Role -> Copy] /\ lives \in Nat /\ RowsOK(rows, lives)
  BY DEF Inv, TypeOK, Copy
<1>2. rows' \in [Role -> Copy] /\ new.version # 0
  BY <1>1
<1>3. RowsOK(rows', lives')
  BY <1>1, <1>2 DEF RowsOK
<1>4. Grows(rows, lives, rows', lives')
  BY <1>1 DEF Grows
<1> QED BY <1>1, <1>2, <1>3, <1>4 DEF Steps

\* A stored row is told to the agent that stored it.
LEMMA StoreStep ==
  ASSUME Inv, NEW a \in Agent, session[a].pc \in {"save", "force"},
         NEW new \in Copy, Store(a, new),
         new.role = session[a].role, new.life = lives, new.exact,
         new.version > rows[new.role].version, new.todos = session[a].write,
         UNCHANGED <<lives, history, patches, calls, incidents>>
  PROVE  Inv'
<1> DEFINE o == session[a]
           f == Submitted(o)
           s == [f EXCEPT !.pc = "snapshot", !.expected = new.version,
                          !.held = new.life, !.tries = o.tries]
<1>1. /\ o \in Session /\ CallOK(o) /\ SessionOK(o, rows, lives)
      /\ o.view \in Known /\ o.view \in Copy /\ o.tries \in 0 .. MaxMergeAttempts
      /\ o.pc \in {"save", "force"}
  BY AgentFacts
<1>2. /\ new.version \in Nat /\ new.life \in Nat /\ new.role \in Role /\ new.version # 0
      /\ rows[new.role].version \in Nat
  BY DEF Copy, Inv, TypeOK
<1>3. Goto(a, s) /\ rows' = [rows EXCEPT ![new.role] = new] /\ lives' = lives
  BY DEF Store
<1>4. Steps(rows, lives, rows', lives')
  BY <1>3, RowGrows
<1>5. f \in Session /\ f.view = o.view /\ f.asked = 0 /\ f.todos = o.todos /\ f.role = o.role
  BY <1>1, SubmittedType
<1>6. rows'[new.role] = new /\ new.role = o.role /\ new.todos = o.write /\ new.life = lives'
  BY <1>2, <1>3 DEF Inv, TypeOK
<1>7. o.tries = 0 => o.write = o.todos
  BY <1>1 DEF CallOK
<1>8. o.view.version # 0 => Within(o.view, rows', lives')
  BY <1>1, <1>4, WithinKept DEF SessionOK
<1> HIDE DEF f, o
<1>9. /\ s \in Session /\ s.pc = "snapshot" /\ s.expected = new.version
      /\ s.held = new.life /\ s.tries = o.tries /\ s.view = o.view /\ s.asked = 0
      /\ s.todos = o.todos /\ s.role = o.role
  BY <1>1, <1>2, <1>5, Initial, ZenonT(120) DEF Session
<1> HIDE DEF s
<1>10. /\ Told(s).life = new.life /\ Told(s).role = new.role
       /\ Told(s).version = new.version /\ Told(s).todos = o.todos
       /\ Told(s).exact <=> o.tries = 0
  BY <1>2, <1>6, <1>9 DEF Told
<1>11. Within(Told(s), rows', lives')
  <2>1. new.life <= lives' /\ new.version <= new.version
    BY <1>2, <1>6
  <2> QED BY <1>2, <1>6, <1>10, <2>1 DEF Within
<1>12. SessionOK(s, rows', lives')
  BY <1>8, <1>9, <1>11 DEF SessionOK, CallOK, ExpectedOK, CountOK, MergedOK
<1>13. Told(s).exact => IsRow(Told(s), rows', lives')
  BY <1>2, <1>6, <1>7, <1>10 DEF IsRow
<1>14. TypeOK'
  BY <1>2, <1>3, <1>9, GotoType DEF Inv, TypeOK
<1>15. \A c \in history' : c.exact => c \in Known
  BY DEF Known
<1> QED BY <1>1, <1>3, <1>4, <1>9, <1>12, <1>13, <1>14, <1>15, CallStep

\* An UPDATE of a row that exists.
LEMMA UpdateStep ==
  ASSUME Inv, NEW a \in Agent, session[a].pc \in {"save", "force"},
         Exists(session[a].role), Store(a, Saved(rows[session[a].role], session[a].write)),
         UNCHANGED <<lives, history, patches, calls, incidents>>
  PROVE  Inv'
<1> DEFINE o == session[a]
           row == rows[o.role]
           new == Saved(row, o.write)
<1>1. o.role \in Role /\ o.write \in SUBSET Item /\ lives \in Nat
  BY AgentFacts DEF Inv, TypeOK
<1>2. /\ row \in Copy /\ row.role = o.role /\ row.life = lives /\ row.exact
      /\ row.version \in Nat
  BY <1>1, RowFacts DEF IsRow, Exists, Inv, RowsOK, Copy
<1>3. Store(a, new)
  OBVIOUS
<1> HIDE DEF o, row
<1>4. /\ new \in Copy /\ new.life = lives /\ new.role = o.role
      /\ new.version = row.version + 1 /\ new.todos = o.write
  BY <1>1, <1>2, SavedType
<1>5. new.exact
  BY <1>1, <1>2, SavedType, Zenon
<1> USE DEF o, row
<1>6. new.version > rows[new.role].version
  BY <1>2, <1>4
<1> HIDE DEF new
<1> QED BY <1>3, <1>4, <1>5, <1>6, StoreStep

\* An INSERT where no row exists.
LEMMA CreateStep ==
  ASSUME Inv, NEW a \in Agent, session[a].pc = "save",
         ~Exists(session[a].role), Store(a, Created(session[a].role, session[a].write)),
         UNCHANGED <<lives, history, patches, calls, incidents>>
  PROVE  Inv'
<1> DEFINE o == session[a]
           new == Created(o.role, o.write)
<1>1. o.role \in Role /\ o.write \in SUBSET Item /\ lives \in Nat
  BY AgentFacts DEF Inv, TypeOK
<1>2. rows[o.role] \in Copy /\ rows[o.role].version = 0
  BY <1>1, RowFacts DEF Exists
<1>3. Store(a, new)
  OBVIOUS
<1> HIDE DEF o
<1>4. /\ new \in Copy /\ new.life = lives /\ new.role = o.role
      /\ new.version = 1 /\ new.todos = o.write
  BY <1>1, <1>2, CreatedType
<1>5. new.exact
  BY <1>1, <1>2, CreatedType, Zenon
<1>6. new.version > rows[new.role].version
  BY <1>2, <1>4
<1> USE DEF o
<1> HIDE DEF new
<1> QED BY <1>3, <1>4, <1>5, <1>6, StoreStep
\* saveHandoff's first statement.
LEMMA SaveStep ==
  ASSUME Inv, NEW a \in Agent, Save(a)
  PROVE  Inv'
<1> DEFINE o == session[a]
           row == rows[o.role]
<1>1. o.pc = "save" /\ UNCHANGED <<lives, history, patches, calls, incidents>>
  BY DEF Save, At
<1>2. CASE o.expected = 0 /\ ~Exists(o.role) /\ Store(a, Created(o.role, o.write))
  BY <1>1, <1>2, CreateStep
<1>3. CASE o.expected # 0 /\ row.version = o.expected /\ Store(a, Saved(row, o.write))
  BY <1>1, <1>3, UpdateStep DEF Exists
<1>4. ASSUME row.version # o.expected, rows' = rows,
             Goto(a, [o EXCEPT !.pc = IF o.expected = 0 THEN "force" ELSE "check"])
      PROVE  Inv'
  <2> DEFINE pc == IF o.expected = 0 THEN "force" ELSE "check"
             s == [o EXCEPT !.pc = pc]
  <2>1. /\ o \in Session /\ CallOK(o) /\ SessionOK(o, rows, lives) /\ o.view \in Known
        /\ o.expected \in Nat /\ o.asked \in Nat /\ o.held \in Nat /\ o.tries \in Nat
        /\ o.view.life \in Nat /\ o.role \in Role
    BY AgentFacts, HandoffAssumption
  <2>2. /\ row.version \in Nat /\ lives \in Nat
        /\ row.version # 0 => row.life = lives
    BY <2>1, RowFacts DEF Copy, Inv, TypeOK, RowsOK
  <2>3. o.asked # 0 /\ o.expected # 0 /\ row.version # 0 /\ row.life = o.view.life
        => o.asked + o.tries < row.version
    <3>1. SUFFICES ASSUME o.asked # 0, o.expected # 0, row.version # 0,
                          row.life = o.view.life
                   PROVE  o.asked + o.tries < row.version
      OBVIOUS
    <3>2. o.asked + o.tries <= o.expected
      BY <1>1, <2>1, <3>1 DEF SessionOK, CountOK
    <3>3. /\ o.view.life <= o.held /\ o.held <= lives
          /\ o.held = lives => o.expected <= row.version
      BY <1>1, <2>1, <3>1 DEF SessionOK, ExpectedOK
    <3> HIDE DEF o, row
    <3> QED BY <1>4, <2>1, <2>2, <3>1, <3>2, <3>3
  <2>4. Goto(a, s) /\ patches' \in SUBSET Copy
    BY <1>1, <1>4 DEF Inv, TypeOK
  <2>5. pc \in Place /\ pc \in {"force", "check"} /\ (pc = "check" => o.expected # 0)
    BY Initial
  <2> HIDE DEF o, pc
  <2>6. /\ s \in Session /\ s.pc = pc /\ s.expected = o.expected /\ s.held = o.held
        /\ s.view = o.view /\ s.asked = o.asked /\ s.role = o.role
        /\ s.merge = o.merge /\ s.tries = o.tries
        /\ s.todos = o.todos /\ s.write = o.write
    BY <2>1, <2>5, ZenonT(120) DEF Session
  <2> HIDE DEF s
  <2>7. CallOK(s)
    BY <1>1, <2>1, <2>5, <2>6 DEF CallOK
  <2>8. CountOK(s, rows)
    BY <2>3, <2>5, <2>6 DEF CountOK, row
  <2>9. SessionOK(s, rows, lives)
    BY <2>1, <2>5, <2>6, <2>7, <2>8 DEF SessionOK, ExpectedOK, MergedOK
  <2>10. s.view.exact => s.view \in Known
    BY <2>1, <2>6
  <2>11. s.pc # "snapshot"
    BY <2>5, <2>6
  <2> QED BY <1>1, <1>4, <2>4, <2>6, <2>9, <2>10, <2>11, QuietStep
<1> QED BY <1>1, <1>2, <1>3, <1>4 DEF Save

\* The UPDATE after the UNIQUE constraint was violated.
LEMMA ForceUpdateStep ==
  ASSUME Inv, NEW a \in Agent, ForceUpdate(a)
  PROVE  Inv'
<1> DEFINE o == session[a]
           f == Submitted(o)
           s == [f EXCEPT !.pc = "snapshot"]
<1>1. o.pc = "force" /\ UNCHANGED <<lives, history, patches, calls, incidents>>
  BY DEF ForceUpdate, At
<1>2. CASE Exists(o.role) /\ Store(a, Saved(rows[o.role], o.write))
  BY <1>1, <1>2, UpdateStep
<1>3. /\ o \in Session /\ SessionOK(o, rows, lives) /\ o.view \in Known
      /\ o.view.version # 0 => Within(o.view, rows, lives)
  BY AgentFacts DEF SessionOK
<1>4. f \in Session /\ f.view = o.view /\ f.asked = 0 /\ f.expected = 0
  BY <1>3, SubmittedType
<1>5. patches' \in SUBSET Copy
  BY <1>1 DEF Inv, TypeOK
<1>6. \/ Exists(o.role) /\ Store(a, Saved(rows[o.role], o.write))
      \/ rows' = rows /\ Goto(a, s)
  BY DEF ForceUpdate
<1> HIDE DEF f
<1>7. /\ s \in Session /\ s.pc = "snapshot" /\ s.view = o.view /\ s.asked = 0
      /\ s.expected = 0
  BY <1>4, Initial, ZenonT(120) DEF Session
<1> HIDE DEF s
<1>8. ~Told(s).exact
  <2>1. s.role \in Role
    BY <1>7 DEF Session
  <2> QED BY <1>7, <2>1, CopyTypes DEF Told
<1>9. SessionOK(s, rows, lives)
  BY <1>3, <1>7 DEF SessionOK, CallOK, ExpectedOK, CountOK, MergedOK
<1>10. s.view.exact => s.view \in Known
  BY <1>3, <1>7
<1>11. CASE rows' = rows /\ Goto(a, s)
  BY <1>1, <1>5, <1>7, <1>8, <1>9, <1>10, <1>11, QuietStep
<1> QED BY <1>2, <1>6, <1>11

\* Steps that no call makes.
LEMMA OutsideStep ==
  ASSUME Inv, TypeOK', Steps(rows, lives, rows', lives'),
         session' = session, history' = history
  PROVE  Inv'
<1>1. Known' = Known /\ Known \in SUBSET Copy
  BY KnownType DEF Known, At, Inv
<1>2. KnownOK(Known', rows', lives')
  BY <1>1, KnownKept DEF Inv
<1>3. ASSUME NEW a \in Agent
      PROVE  SessionOK(session'[a], rows', lives')
  BY AgentFacts, SessionKept
<1> QED BY <1>2, <1>3 DEF Inv, Steps

\* After deleteHandoff nothing is known of the new life.
LEMMA ForgetStep ==
  ASSUME Inv, Forget
  PROVE  Inv'
<1>1. /\ lives' = lives + 1 /\ rows' = [r \in Role |-> NoCopy(r)] /\ lives \in Nat
      /\ rows \in [Role -> Copy] /\ RowsOK(rows, lives)
      /\ UNCHANGED <<history, patches, session, calls>> /\ Incident
  BY DEF Forget, Inv, TypeOK
<1>2. rows' \in [Role -> Copy] /\ RowsOK(rows', lives')
  BY <1>1, CopyTypes DEF RowsOK
<1>3. lives' \in Nat /\ Grows(rows, lives, rows', lives')
  BY <1>1 DEF Grows
<1>4. TypeOK'
  BY <1>1, <1>2, <1>3, Bounds DEF Inv, TypeOK
<1> QED BY <1>1, <1>2, <1>3, <1>4, OutsideStep DEF Steps

\* A background save writes the global row like any other.
LEMMA PatchStep ==
  ASSUME Inv, NEW p \in patches, Patch(p)
  PROVE  Inv'
<1> DEFINE row == rows[Global]
           created == Created(Global, p.todos)
           saved == Saved(row, p.todos)
           again == [p EXCEPT !.version = 0]
<1>1. UNCHANGED <<lives, history, session, calls, incidents>>
  BY DEF Patch
<1>2. /\ Global \in Role /\ p \in Copy /\ p.todos \in SUBSET Item /\ lives \in Nat
      /\ rows \in [Role -> Copy] /\ row \in Copy /\ row.role = Global /\ row.version \in Nat
  BY HandoffAssumption, RowFacts DEF Inv, TypeOK, Copy
<1>3. CASE Exists(Global) /\ rows' = [rows EXCEPT ![Global] = saved]
           /\ patches' = patches \ {p}
  <2>1. /\ saved \in Copy /\ saved.life = row.life /\ saved.role = Global
        /\ saved.version = row.version + 1 /\ saved.exact = row.exact
    BY <1>2, SavedType
  <2>2. row.life = lives /\ row.exact
    BY <1>2, <1>3, RowFacts DEF Exists, Inv, RowsOK
  <2>3. rows' = [rows EXCEPT ![saved.role] = saved]
    BY <1>3, <2>1
  <2>4. saved.version > rows[saved.role].version
    BY <1>2, <2>1
  <2>5. saved.exact
    BY <2>1, <2>2, Zenon
  <2> HIDE DEF saved
  <2>6. Steps(rows, lives, rows', lives')
    BY <1>1, <2>1, <2>2, <2>3, <2>4, <2>5, RowGrows
  <2>7. TypeOK'
    BY <1>1, <1>3, <2>6 DEF Steps, Inv, TypeOK
  <2> QED BY <1>1, <2>6, <2>7, OutsideStep
<1>4. CASE ~Exists(Global) /\ rows' = [rows EXCEPT ![Global] = created]
           /\ patches' = patches \ {p}
  <2>1. /\ created \in Copy /\ created.life = lives /\ created.role = Global
        /\ created.version = 1 /\ created.exact
    BY <1>2, CreatedType
  <2>2. created.version > rows[created.role].version
    BY <1>4, <2>1 DEF Exists
  <2>3. rows' = [rows EXCEPT ![created.role] = created]
    BY <1>4, <2>1
  <2> HIDE DEF created
  <2>4. Steps(rows, lives, rows', lives')
    BY <1>1, <2>1, <2>2, <2>3, RowGrows
  <2>5. TypeOK'
    BY <1>1, <1>4, <2>4 DEF Steps, Inv, TypeOK
  <2> QED BY <1>1, <2>4, <2>5, OutsideStep
<1>5. CASE rows' = rows /\ patches' = (patches \ {p}) \cup {again}
  <2>1. again \in Copy
    BY <1>2, ZenonT(60) DEF Copy
  <2>2. TypeOK'
    BY <1>1, <1>5, <2>1 DEF Inv, TypeOK
  <2> QED BY <1>1, <1>5, <2>2, Unchanged, OutsideStep
<1> QED BY <1>3, <1>4, <1>5 DEF Patch

\* A background save that is lost changes nothing but itself.
LEMMA PatchLostStep ==
  ASSUME Inv, NEW p \in patches, PatchLost(p)
  PROVE  Inv'
<1>1. /\ patches' = patches \ {p}
      /\ UNCHANGED <<rows, lives, history, session, calls, incidents>>
  BY DEF PatchLost
<1>2. TypeOK'
  BY <1>1 DEF Inv, TypeOK
<1> QED BY <1>1, <1>2, Unchanged, OutsideStep

-----------------------------------------------------------------------------
(* The invariant, and what follows from it.                                *)

\* The invariant holds before the first call.
LEMMA InitInv == Init => Inv
<1> SUFFICES ASSUME Init
             PROVE  Inv
  OBVIOUS
<1> DEFINE v == NoCopy(Global)
<1>1. v \in Copy /\ ~v.exact /\ v.version = 0
  BY CopyTypes, HandoffAssumption
<1>2. \A a \in Agent : session[a] = Fresh(v)
  BY DEF Init
<1>3. Fresh(v) \in Session /\ Fresh(v).view = v /\ Fresh(v).pc = "idle"
  BY <1>1, FreshType
<1>4. rows \in [Role -> Copy] /\ RowsOK(rows, lives)
  BY CopyTypes DEF Init, RowsOK
<1>5. TypeOK
  BY <1>3, <1>4, HandoffAssumption DEF Init, TypeOK
<1>6. \A c \in Known : ~c.exact
  BY <1>1, <1>2, <1>3 DEF Known, At, Init
<1>7. KnownOK(Known, rows, lives)
  BY <1>6 DEF KnownOK
<1>8. SessionOK(Fresh(v), rows, lives)
  BY <1>1, FreshOK
<1> QED BY <1>2, <1>4, <1>5, <1>7, <1>8 DEF Inv

\* Every step preserves the invariant.
LEMMA NextInv == Inv /\ [Next]_vars => Inv'
<1> SUFFICES ASSUME Inv, [Next]_vars
             PROVE  Inv'
  OBVIOUS
<1>1. ASSUME NEW a \in Agent, Call(a)
      PROVE  Inv'
  <2>1. CASE LoadContext(a)
    BY <2>1, LoadContextStep
  <2>2. CASE BeginSave(a)
    BY <2>2, BeginSaveStep
  <2>3. CASE BeginCheckout(a)
    BY <2>3, BeginCheckoutStep
  <2>4. CASE CheckoutVersion(a)
    BY <2>4, CheckoutVersionStep
  <2>5. CASE Save(a)
    BY <2>5, SaveStep
  <2>6. CASE ForceUpdate(a)
    BY <2>6, ForceUpdateStep
  <2>7. CASE Check(a)
    BY <2>7, CheckStep
  <2>8. CASE FetchBase(a)
    BY <2>8, FetchBaseStep
  <2>9. CASE FetchCurrent(a)
    BY <2>9, FetchCurrentStep
  <2>10. CASE SaveSnapshot(a)
    BY <2>10, SaveSnapshotStep
  <2>11. CASE SnapshotFails(a)
    BY <2>11, SnapshotFailsStep
  <2>12. CASE Refused(a)
    BY <2>12, RefusedStep
  <2> QED BY <1>1, <2>1, <2>2, <2>3, <2>4, <2>5, <2>6, <2>7, <2>8, <2>9, <2>10,
             <2>11, <2>12 DEF Call
<1>2. ASSUME NEW a \in Agent, Crash(a)
      PROVE  Inv'
  BY <1>2, CrashStep
<1>3. CASE Forget
  BY <1>3, ForgetStep
<1>4. ASSUME NEW p \in patches, Patch(p) \/ PatchLost(p)
      PROVE  Inv'
  BY <1>4, PatchStep, PatchLostStep
<1>5. CASE UNCHANGED vars
  <2>1. /\ rows' = rows /\ lives' = lives /\ session' = session /\ history' = history
        /\ patches' = patches /\ calls' = calls /\ incidents' = incidents
    BY <1>5 DEF vars
  <2>2. Steps(rows, lives, rows', lives') /\ TypeOK'
    BY <2>1, Unchanged DEF Inv, TypeOK
  <2> QED BY <2>1, <2>2, OutsideStep
<1> QED BY <1>1, <1>2, <1>3, <1>4, <1>5 DEF Next

\* Inv is an invariant: copies of rows stay true, and calls remember right.
THEOREM Invariance == Spec => []Inv
BY InitInv, NextInv, PTL DEF Spec

\* Rows, snapshots and sessions have their types.
THEOREM TypeCorrect == Spec => []TypeOK
<1>1. Inv => TypeOK
  BY DEF Inv
<1> QED BY <1>1, Invariance, PTL

\* The row, what agents were shown and the snapshots of one version agree, for
\* any agents, roles and todos (saveHandoff's version column, sqlite.ts).
THEOREM VersionsAreContents == Spec => []VersionsIdentify
<1>1. ASSUME Inv
      PROVE  VersionsIdentify
  <2>1. SUFFICES ASSUME NEW c \in Copies, NEW d \in Copies, c.exact, d.exact,
                        SameVersion(c, d)
                 PROVE  c = d
    BY DEF VersionsIdentify
  <2>2. /\ lives \in Nat /\ RowsOK(rows, lives) /\ rows \in [Role -> Copy]
        /\ Known \in SUBSET Copy
        /\ KnownOK(Known, rows, lives)
    BY <1>1, KnownType DEF Inv, TypeOK
  <2>3. ASSUME NEW e \in Copies, e.exact
        PROVE  e \in Copy /\ (e \in Known \/ IsRow(e, rows, lives))
    <3>1. CASE e \in Known
      BY <2>2, <3>1
    <3>2. CASE \E r \in Role : e = rows[r]
      BY <1>1, <2>3, <3>2, RowFacts
    <3> QED BY <3>1, <3>2 DEF Copies, Known
  <2>4. ASSUME NEW e \in Copies, e.exact
        PROVE  AgreesWithRow(e, rows, lives)
    BY <2>2, <2>3, <2>4, RowAgrees DEF KnownOK
  <2>5. c.todos = d.todos
    <3>1. CASE c \in Known /\ d \in Known
      BY <2>1, <2>2, <3>1 DEF KnownOK
    <3>2. CASE IsRow(c, rows, lives)
      BY <2>1, <2>2, <2>3, <2>4, <3>2, RowAgrees
    <3>3. CASE IsRow(d, rows, lives)
      BY <2>1, <2>2, <2>3, <2>4, <3>3, RowAgrees
    <3> QED BY <2>1, <2>3, <3>1, <3>2, <3>3
  <2>6. /\ c \in Copy /\ d \in Copy /\ c.life = d.life /\ c.role = d.role
        /\ c.version = d.version
    BY <2>1, <2>3 DEF SameVersion
  <2>7. c.exact = d.exact
    BY <2>1, <2>6, Zenon DEF Copy
  <2>8. \A e \in Copy : e = [life |-> e.life, role |-> e.role, version |-> e.version,
                             todos |-> e.todos, exact |-> e.exact]
    BY DEF Copy
  <2> QED BY <2>5, <2>6, <2>7, <2>8, Zenon
<1> QED BY <1>1, Invariance, PTL

\* The merge loop gives up only after MaxMergeAttempts + 1 saves of others.
THEOREM GivingUpIsContention == Spec => []GivesUpOnlyUnderContention
<1>1. ASSUME Inv
      PROVE  GivesUpOnlyUnderContention
  <2>1. SUFFICES ASSUME NEW a \in Agent, At(a, "refused"), session[a].merge,
                        session[a].tries = MaxMergeAttempts,
                        rows[session[a].role].life = session[a].view.life,
                        Exists(session[a].role)
                 PROVE  rows[session[a].role].version > session[a].asked + MaxMergeAttempts
    BY DEF GivesUpOnlyUnderContention
  <2> DEFINE s == session[a]
  <2>2. /\ SessionOK(s, rows, lives) /\ s.asked \in Nat /\ s.role \in Role
        /\ rows[s.role].version \in Nat
    BY <1>1, AgentFacts, RowFacts DEF Copy
  <2>3. s.asked # 0
    BY <2>1, <2>2 DEF SessionOK, CallOK, At
  <2>4. s.asked + MaxMergeAttempts < rows[s.role].version
    BY <2>1, <2>2, <2>3 DEF SessionOK, CountOK, At, Exists
  <2> QED BY <2>2, <2>4, HandoffAssumption
<1> QED BY <1>1, Invariance, PTL
-----------------------------------------------------------------------------
(* What a versioned save writes.                                           *)

\* The three-way merge keeps what either side kept or added.
LEMMA MergeKeeps ==
  ASSUME NEW b \in SUBSET Item, NEW i \in SUBSET Item, NEW c \in SUBSET Item
  PROVE  /\ c \ b \subseteq MergeArray(b, i, c)
         /\ i \ b \subseteq MergeArray(b, i, c)
         /\ b \cap i \cap c \subseteq MergeArray(b, i, c)
BY DEF MergeArray

\* Only the versioned update ends a versioned save successfully.
LEMMA OnlySaveOverwrites ==
  ASSUME Inv, [Next]_vars, NEW a \in Agent, Overwrites(a)
  PROVE  /\ rows[session[a].role].version = session[a].expected
         /\ rows' = [rows EXCEPT ![session[a].role] =
                       Saved(rows[session[a].role], session[a].write)]
<1> DEFINE o == session[a]
           done == /\ rows[o.role].version = o.expected
                   /\ rows' = [rows EXCEPT ![o.role] = Saved(rows[o.role], o.write)]
<1>1. /\ o.pc = "save" /\ o.asked # 0 /\ o.expected # 0 /\ session'[a].pc = "snapshot"
      /\ session' # session
  BY DEF Overwrites, At
<1>2. ASSUME NEW b \in Agent, NEW s, Goto(b, s)
      PROVE  session'[a] = IF b = a THEN s ELSE o
  BY <1>2 DEF Goto, Inv, TypeOK
<1>3. CASE Save(a)
  <2>1. CASE o.expected # 0 /\ rows[o.role].version = o.expected
             /\ Store(a, Saved(rows[o.role], o.write))
    <3>1. Saved(rows[o.role], o.write).role = o.role
      BY AgentFacts, RowFacts, SavedType
    <3> QED BY <2>1, <3>1 DEF Store
  <2>2. ASSUME Goto(a, [o EXCEPT !.pc = IF o.expected = 0 THEN "force" ELSE "check"])
        PROVE  FALSE
    <3>1. o \in Session
      BY AgentFacts
    <3>2. \A pc : [o EXCEPT !.pc = pc].pc = pc
      BY <3>1, Zenon DEF Session
    <3>3. session'[a].pc = IF o.expected = 0 THEN "force" ELSE "check"
      BY <1>2, <2>2, <3>2
    <3> QED BY <1>1, <3>3
  <2> QED BY <1>1, <1>3, <2>1, <2>2 DEF Save
<1>4. CASE LoadContext(a) \/ BeginSave(a) \/ BeginCheckout(a) \/ CheckoutVersion(a)
           \/ ForceUpdate(a) \/ Check(a) \/ FetchBase(a) \/ FetchCurrent(a)
           \/ SaveSnapshot(a) \/ SnapshotFails(a) \/ Refused(a)
  BY <1>1, <1>4 DEF At, LoadContext, BeginSave, BeginCheckout, CheckoutVersion,
     ForceUpdate, Check, FetchBase, FetchCurrent, SaveSnapshot, SnapshotFails, Refused
<1>5. CASE Crash(a)
  <2>1. session'[a] = Fresh(NoCopy(Global))
    BY <1>2, <1>5 DEF Crash
  <2> QED BY <1>1, <2>1, CopyTypes, FreshType, HandoffAssumption
<1>6. ASSUME NEW b \in Agent, b # a, Call(b) \/ Crash(b)
      PROVE  FALSE
  <2>1. \E s : Goto(b, s)
    BY <1>6 DEF Call, LoadContext, BeginSave, BeginCheckout, CheckoutVersion, Save, Store,
       ForceUpdate, Check, FetchBase, FetchCurrent, SaveSnapshot, SnapshotFails, Refused, Crash
  <2> QED BY <1>1, <1>2, <1>6, <2>1
<1>7. CASE Forget \/ (\E p \in patches : Patch(p) \/ PatchLost(p)) \/ UNCHANGED vars
  BY <1>1, <1>7 DEF Forget, Patch, PatchLost, vars
<1> QED BY <1>3, <1>4, <1>5, <1>6, <1>7 DEF Next, Call

\* A versioned save erases no todo its agent was not shown and drops none its
\* agent adds, through any number of merges (session_save_handoff's merge loop,
\* ledgerHandlers.ts), provided its copy is exact and its base good.
THEOREM BothSidesKept == Spec => SavesKeepBoth
<1>1. ASSUME Inv, [Next]_vars
      PROVE  \A a \in Agent :
               LET s == session[a] IN
               Overwrites(a) /\ s.view.exact /\ s.held = s.view.life
                 /\ s.held = rows[s.role].life /\ s.good
               => /\ Clobbered(a) = {}
                  /\ s.todos \ s.view.todos \subseteq rows'[s.role].todos
  <2>1. SUFFICES ASSUME NEW a \in Agent, Overwrites(a), session[a].view.exact,
                        session[a].held = session[a].view.life,
                        session[a].held = rows[session[a].role].life,
                        session[a].good
                 PROVE  /\ (rows[session[a].role].todos \ rows'[session[a].role].todos)
                             \ session[a].view.todos = {}
                        /\ session[a].todos \ session[a].view.todos
                             \subseteq rows'[session[a].role].todos
    BY DEF Clobbered
  <2> DEFINE s == session[a]
             row == rows[s.role]
  <2>2. /\ SessionOK(s, rows, lives) /\ CallOK(s) /\ s.view \in Known
        /\ s.role \in Role /\ s.write \in SUBSET Item /\ s.todos \in SUBSET Item
        /\ s.pc = "save" /\ s.asked # 0 /\ s.expected # 0
    BY <1>1, <2>1, AgentFacts DEF Overwrites, At
  <2>3. row.version = s.expected /\ rows' = [rows EXCEPT ![s.role] = Saved(row, s.write)]
    BY <1>1, <2>1, OnlySaveOverwrites
  <2>4. row \in Copy /\ row.role = s.role /\ row.life = lives /\ row.todos \in SUBSET Item
    BY <1>1, <2>2, <2>3, RowFacts DEF Copy, Inv, RowsOK
  <2>5. rows'[s.role].todos = s.write
    BY <1>1, <2>2, <2>3, <2>4, SavedType DEF Inv, TypeOK
  <2>6. s.asked = s.view.version /\ s.role = s.view.role
    BY <2>2 DEF CallOK
  <2>7. CASE s.tries = 0
    <3>1. s.write = s.todos /\ s.expected = s.asked
      BY <2>2, <2>7 DEF CallOK
    <3>2. SameVersion(s.view, rows[s.view.role])
      BY <2>1, <2>3, <2>4, <2>6, <3>1 DEF SameVersion
    <3>3. s.view.todos = row.todos
      BY <1>1, <2>1, <2>2, <2>6, <3>2 DEF Inv, KnownOK, AgreesWithRow
    <3> HIDE DEF s, row
    <3> QED BY <2>5, <3>1, <3>3 DEF s, row
  <2>8. CASE s.tries # 0
    <3>1. PICK b \in SUBSET Item :
                 /\ b \in {s.view.todos, {}}
                 /\ s.write = MergeArray(b, s.todos, row.todos)
      BY <2>1, <2>2, <2>3, <2>4, <2>8 DEF SessionOK, MergedOK
    <3>2. row.todos \ b \subseteq s.write /\ s.todos \ b \subseteq s.write
      BY <2>2, <2>4, <3>1, MergeKeeps
    <3> QED BY <2>5, <3>1, <3>2
  <2> QED BY <2>7, <2>8
<1> QED BY <1>1, Invariance, PTL DEF SavesKeepBoth, Spec
=============================================================================
