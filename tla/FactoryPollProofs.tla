--------------------------- MODULE FactoryPollProofs ---------------------------
(***************************************************************************)
(* No announced pipeline waits out the idle interval, for any number of    *)
(* windows and pipelines and any times.                                    *)
(*                                                                         *)
(* The argument.  While an announced pipeline is PENDING the idle interval *)
(* is zero: its wake reset it, and every scan that began after the wake    *)
(* finds it.  A scan can only miss it when it is promoted between the two  *)
(* listings, and such a scan began with an idle interval of zero, so that  *)
(* even an "empty" result waits a single base interval.                    *)
(***************************************************************************)
EXTENDS FactoryPoll, TLAPS

Announced(j) == job[j].woken /\ Active(j)

\* The handler's steps come in order.
Handled ==
  \A j \in Job : /\ job[j].woken => job[j].authorised
                 /\ job[j].status = "none" => ~job[j].authorised

\* A pipeline announced and not yet promoted keeps the idle interval at zero.
Restless ==
  \A j \in Job : job[j].woken /\ job[j].status = "PENDING" => sched.idle = 0

\* What a scan on the current wake_version knows of an announced pipeline.
Seen ==
  \A p \in Proc : Scanning(tick[p]) =>
    /\ tick[p].wake <= sched.wake
    /\ tick[p].wake = sched.wake => \A j \in Job : Announced(j) =>
         /\ job[j].status = "PENDING" => tick[p].idle = 0
         /\ At(p, "list") /\ job[j].status = "RUNNING" =>
              j \in tick[p].found \/ tick[p].idle = 0
         /\ At(p, "finish") => \/ j \in tick[p].found
                               \/ tick[p].idle = 0 /\ job[j].status = "RUNNING"

IInv == PollTypeOK /\ Handled /\ Restless /\ Seen /\ PromptDiscovery

-----------------------------------------------------------------------------
(* Times.                                                                  *)

\* The longest wait is a time, and no shorter than the base interval.
LEMMA LongestIsTime == Longest \in Nat /\ Base <= Longest /\ Base \in Nat
BY TimesAssumption DEF Longest, MaxOf

\* The wait after a scan is a time, and a base interval after a busy one or
\* when the interval had been zero.
LEMMA DelayBounds ==
  ASSUME NEW t \in Tick, NEW candidates
  PROVE  /\ Delay(t, candidates) \in 0 .. Longest
         /\ candidates # {} \/ t.idle = 0 => Delay(t, candidates) = Base
<1>1. t.idle \in 0 .. Longest
  BY DEF Tick
<1> QED BY <1>1, LongestIsTime DEF Delay, MinOf, MaxOf

\* Time spent only shortens a wait.
LEMMA LessBounds ==
  ASSUME NEW a \in 0 .. Longest, NEW b \in Nat
  PROVE  Less(a, b) \in 0 .. Longest /\ Less(a, b) <= a
BY LongestIsTime DEF Less

\* The schedule after a scan.
LEMMA FinishedFields ==
  ASSUME sched \in Schedule, NEW t \in Tick, NEW candidates \in SUBSET Job,
         NEW delay \in 0 .. Longest, NEW idle \in 0 .. Longest
  PROVE  LET s == AfterScan(t, candidates, delay, idle) IN
         /\ s \in Schedule
         /\ s.wake = sched.wake /\ s.snapshot = candidates
         /\ s.due <= delay
         /\ s.idle = idle \/ s.idle = 0
         /\ s.wake # t.wake => s.due = 0 /\ s.idle = 0
<1>1. Less(delay, t.age) \in 0 .. Longest /\ Less(delay, t.age) <= delay
  <2>1. t.age \in Nat
    BY LongestIsTime DEF Tick
  <2> QED BY <2>1, LessBounds
<1> DEFINE due == IF sched.wake = t.wake THEN Less(delay, t.age) ELSE 0
           wait == IF sched.wake = t.wake THEN idle ELSE 0
<1>2. due \in 0 .. Longest /\ due <= delay /\ wait \in 0 .. Longest
  BY <1>1, LongestIsTime
<1>3. AfterScan(t, candidates, delay, idle) =
        [sched EXCEPT !.token = NoOne, !.left = 0, !.snapshot = candidates,
                      !.due = due, !.idle = wait]
  BY DEF AfterScan
<1>4. 0 \in 0 .. LeaseTime
  BY TimesAssumption
<1>5. sched.wake = t.wake \/ (due = 0 /\ wait = 0)
  OBVIOUS
<1>6. wait = idle \/ wait = 0
  OBVIOUS
<1> HIDE DEF due, wait
<1> QED BY <1>2, <1>3, <1>4, <1>5, <1>6 DEF Schedule

-----------------------------------------------------------------------------
(* Steps that leave schedule and pipelines alone, but for the lease.       *)

\* One window's tick becomes t; of the schedule only the lease changes.
LEMMA TickMoves ==
  ASSUME IInv, NEW p \in Proc, NEW t \in Tick,
         tick' = [tick EXCEPT ![p] = t],
         sched' \in Schedule, sched'.due = sched.due, sched'.idle = sched.idle,
         sched'.wake = sched.wake, sched'.snapshot = sched.snapshot,
         job' = job, faults' \in 0 .. MaxFaults,
         Scanning(t) =>
           /\ t.wake <= sched.wake
           /\ t.wake = sched.wake => \A j \in Job : Announced(j) =>
                /\ job[j].status = "PENDING" => t.idle = 0
                /\ t.pc = "list" /\ job[j].status = "RUNNING" => j \in t.found \/ t.idle = 0
                /\ t.pc = "finish" => \/ j \in t.found
                                      \/ t.idle = 0 /\ job[j].status = "RUNNING"
  PROVE  IInv'
<1>1. tick' \in [Proc -> Tick] /\ tick'[p] = t /\ \A q \in Proc : q # p => tick'[q] = tick[q]
  BY DEF IInv, PollTypeOK
<1>2. PollTypeOK' /\ Handled' /\ Restless'
  BY <1>1 DEF IInv, PollTypeOK, Handled, Restless
<1>3. PromptDiscovery'
  BY DEF IInv, PromptDiscovery, Active
<1>4. Seen'
  BY <1>1 DEF IInv, Seen, At, Announced, Active, Scanning
<1> QED BY <1>2, <1>3, <1>4 DEF IInv

\* A free tick is a tick and does not scan.
LEMMA FreeType == Free \in Tick /\ ~Scanning(Free)
BY LongestIsTime DEF Free, Tick, Scanning

\* A tick that only has candidates or a job.
LEMMA FreeWith ==
  ASSUME NEW place \in {"follow", "work", "step"}, NEW found \in SUBSET Job
  PROVE  LET t == [Free EXCEPT !.pc = place, !.found = found] IN
         t \in Tick /\ ~Scanning(t) /\ t.found = found
<1> DEFINE t == [Free EXCEPT !.pc = place, !.found = found]
<1>1. t.pc = place /\ t.found = found
  BY DEF Free
<1>2. t \in Tick
  BY FreeType DEF Tick
<1> QED BY <1>1, <1>2 DEF Scanning

-----------------------------------------------------------------------------
(* The steps.                                                              *)

\* Claiming the poll, and becoming a follower.
LEMMA ClaimKeeps ==
  ASSUME IInv, NEW p \in Proc, ClaimPoll(p)
  PROVE  IInv'
<1>1. sched \in Schedule /\ job' = job /\ faults' = faults /\ faults \in 0 .. MaxFaults
  BY DEF IInv, PollTypeOK, ClaimPoll
<1>2. CASE sched.left = 0 /\ sched.due = 0
  <2> DEFINE t == [Free EXCEPT !.pc = "scan", !.wake = sched.wake, !.idle = sched.idle]
  <2>1. t \in Tick /\ t.pc = "scan" /\ t.wake = sched.wake /\ t.idle = sched.idle
    <3>1. sched.wake \in Nat /\ sched.idle \in 0 .. Longest
      BY <1>1 DEF Schedule
    <3>2. ASSUME NEW n \in Nat, NEW i \in 0 .. Longest
          PROVE  LET u == [Free EXCEPT !.pc = "scan", !.wake = n, !.idle = i] IN
                 u \in Tick /\ u.pc = "scan" /\ u.wake = n /\ u.idle = i
      <4> DEFINE u == [Free EXCEPT !.pc = "scan", !.wake = n, !.idle = i]
      <4>1. u.pc = "scan" /\ u.wake = n /\ u.idle = i
        BY DEF Free
      <4>2. u \in Tick
        BY <3>2, FreeType DEF Tick
      <4> QED BY <4>1, <4>2
    <3> QED BY <3>1, <3>2
  <2>2. tick' = [tick EXCEPT ![p] = t]
        /\ sched' = [sched EXCEPT !.token = p, !.left = LeaseTime]
    BY <1>2 DEF ClaimPoll
  <2>3. sched' \in Schedule /\ sched'.due = sched.due /\ sched'.idle = sched.idle
        /\ sched'.wake = sched.wake /\ sched'.snapshot = sched.snapshot
    <3>1. LeaseTime \in 0 .. LeaseTime
      BY TimesAssumption
    <3> QED BY <1>1, <2>2, <3>1 DEF Schedule
  <2>4. sched.wake \in Nat
    BY <1>1 DEF Schedule
  <2> HIDE DEF t
  <2>5. \A j \in Job : Announced(j) /\ job[j].status = "PENDING" => t.idle = 0
    BY <2>1 DEF IInv, Restless, Announced
  <2>6. t.wake <= sched.wake /\ t.pc # "list" /\ t.pc # "finish"
    BY <2>1, <2>4
  <2> QED BY <1>1, <2>1, <2>2, <2>3, <2>5, <2>6, TickMoves
<1>3. CASE ~(sched.left = 0 /\ sched.due = 0)
  <2> DEFINE t == [Free EXCEPT !.pc = "follow"]
  <2>1. t \in Tick /\ ~Scanning(t)
    <3>1. t.pc = "follow"
      BY DEF Free
    <3> QED BY <3>1, FreeType DEF Tick, Scanning
  <2>2. tick' = [tick EXCEPT ![p] = t] /\ sched' = sched
    BY <1>3 DEF ClaimPoll
  <2> HIDE DEF t
  <2> QED BY <1>1, <2>1, <2>2, TickMoves
<1> QED BY <1>2, <1>3

\* Reading the snapshot.
LEMMA FollowKeeps ==
  ASSUME IInv, NEW p \in Proc, Follow(p)
  PROVE  IInv'
<1> DEFINE t == IF sched.snapshot = {} THEN Free
                ELSE [Free EXCEPT !.pc = "work", !.found = sched.snapshot]
<1>1. sched \in Schedule /\ UNCHANGED <<sched, job, faults>> /\ faults \in 0 .. MaxFaults
      /\ tick' = [tick EXCEPT ![p] = t]
  BY DEF IInv, PollTypeOK, Follow
<1>2. t \in Tick /\ ~Scanning(t)
  <2>1. sched.snapshot \in SUBSET Job
    BY <1>1 DEF Schedule
  <2> QED BY <2>1, FreeType, FreeWith
<1> HIDE DEF t
<1> QED BY <1>1, <1>2, TickMoves

\* The two listings.
LEMMA ListKeeps ==
  ASSUME IInv, NEW p \in Proc, ListRunning(p) \/ ListPending(p)
  PROVE  IInv'
<1>1. /\ sched \in Schedule /\ UNCHANGED <<sched, job, faults>> /\ faults \in 0 .. MaxFaults
      /\ tick[p] \in Tick /\ Scanning(tick[p])
  BY DEF IInv, PollTypeOK, ListRunning, ListPending, Scanning, At
<1>2. /\ tick[p].wake <= sched.wake
      /\ tick[p].wake = sched.wake => \A j \in Job : Announced(j) =>
           /\ job[j].status = "PENDING" => tick[p].idle = 0
           /\ At(p, "list") /\ job[j].status = "RUNNING" =>
                j \in tick[p].found \/ tick[p].idle = 0
  BY <1>1 DEF IInv, Seen
<1>3. ASSUME ListRunning(p) PROVE IInv'
  <2> DEFINE t == [tick[p] EXCEPT !.pc = "list", !.found = Listed("RUNNING")]
  <2>1. tick' = [tick EXCEPT ![p] = t]
    BY <1>3 DEF ListRunning, IInv, PollTypeOK
  <2>2. t \in Tick /\ t.pc = "list" /\ t.wake = tick[p].wake /\ t.idle = tick[p].idle
        /\ t.found = Listed("RUNNING")
    <3>1. Listed("RUNNING") \in SUBSET Job
      BY DEF Listed
    <3> QED BY <1>1, <3>1 DEF Tick
  <2> HIDE DEF t
  <2>3. \A j \in Job : job[j].status = "RUNNING" => j \in t.found
    BY <2>2 DEF Listed
  <2> QED BY <1>1, <1>2, <2>1, <2>2, <2>3, TickMoves
<1>4. ASSUME ListPending(p) PROVE IInv'
  <2> DEFINE t == [tick[p] EXCEPT !.pc = "finish", !.found = Both(p)]
  <2>1. tick' = [tick EXCEPT ![p] = t] /\ At(p, "list")
    BY <1>4 DEF ListPending, IInv, PollTypeOK
  <2>2. t \in Tick /\ t.pc = "finish" /\ t.wake = tick[p].wake /\ t.idle = tick[p].idle
        /\ t.found = tick[p].found \cup Listed("PENDING")
    <3>1. Both(p) \in SUBSET Job
      BY <1>1 DEF Listed, Both, Tick
    <3> QED BY <1>1, <3>1 DEF Tick, Both
  <2> HIDE DEF t
  <2>3. \A j \in Job : job[j].status = "PENDING" => j \in t.found
    BY <2>2 DEF Listed
  <2>4. \A j \in Job : Announced(j) => job[j].status \in {"PENDING", "RUNNING"}
    BY DEF Announced, Active
  <2> QED BY <1>1, <1>2, <2>1, <2>2, <2>3, <2>4, TickMoves
<1> QED BY <1>3, <1>4

\* The end of a scan, stored, fenced off, failed or lost.
LEMMA FinishKeeps ==
  ASSUME IInv, NEW p \in Proc, FinishScan(p) \/ ScanFails(p) \/ FinishLost(p)
  PROVE  IInv'
<1>1. /\ sched \in Schedule /\ job' = job
      /\ tick[p] \in Tick /\ Scanning(tick[p])
  BY DEF IInv, PollTypeOK, FinishScan, ScanFails, FinishLost, Scanning, At
<1>2. faults' \in 0 .. MaxFaults
  <2>1. faults' = faults \/ (faults < MaxFaults /\ faults' = faults + 1)
    BY DEF FinishScan, ScanFails, FinishLost, Fault
  <2> QED BY <2>1, BoundsAssumption DEF IInv, PollTypeOK
<1> DEFINE candidates == {j \in tick[p].found : job[j].authorised}
           delay      == Delay(tick[p], candidates)
           idle       == IF candidates = {} THEN delay ELSE 0
<1>3. candidates \in SUBSET Job /\ delay \in 0 .. Longest /\ idle \in 0 .. Longest
      /\ sched.snapshot \in SUBSET Job
  <2>1. candidates \in SUBSET Job /\ sched.snapshot \in SUBSET Job
    BY <1>1 DEF Tick, Schedule
  <2>2. delay \in 0 .. Longest
    BY <1>1, DelayBounds
  <2> QED BY <2>1, <2>2, LongestIsTime
<1>4. PICK found \in SUBSET Job : tick' = [tick EXCEPT ![p] = [Free EXCEPT !.pc = "work", !.found = found]]
  BY <1>3 DEF FinishScan, ScanFails, FinishLost
<1>5. CASE /\ sched'.due = sched.due /\ sched'.idle = sched.idle /\ sched'.wake = sched.wake
           /\ sched'.snapshot = sched.snapshot /\ sched' \in Schedule
  BY <1>1, <1>2, <1>4, <1>5, FreeWith, TickMoves
<1>6. \A q \in Proc : Scanning(tick'[q]) => tick'[q] = tick[q]
  BY <1>4, FreeWith DEF IInv, PollTypeOK
<1>7. tick' \in [Proc -> Tick]
  BY <1>4, FreeWith DEF IInv, PollTypeOK
<1>8. ASSUME sched' \in Schedule, sched'.wake = sched.wake,
             Restless', PromptDiscovery'
      PROVE  IInv'
  <2>1. PollTypeOK' /\ Handled'
    BY <1>1, <1>2, <1>7, <1>8 DEF IInv, PollTypeOK, Handled
  <2>2. Seen'
    BY <1>1, <1>6, <1>8 DEF IInv, Seen, At, Announced, Active
  <2> QED BY <1>8, <2>1, <2>2 DEF IInv
<1>9. CASE FinishScan(p) /\ sched' = AfterScan(tick[p], candidates, delay, idle)
  <2>1. /\ sched' \in Schedule /\ sched'.wake = sched.wake /\ sched'.snapshot = candidates
        /\ sched'.due <= delay /\ (sched'.idle = idle \/ sched'.idle = 0)
        /\ sched.wake # tick[p].wake => sched'.due = 0 /\ sched'.idle = 0
    <3> HIDE DEF candidates, delay, idle
    <3> QED BY <1>1, <1>3, <1>9, FinishedFields
  <2>2. \A j \in Job : tick[p].wake = sched.wake /\ Announced(j) =>
          \/ j \in candidates
          \/ tick[p].idle = 0 /\ job[j].status = "RUNNING"
    BY <1>1, <1>9 DEF FinishScan, IInv, Seen, Handled, Announced
  <2>3. candidates # {} \/ tick[p].idle = 0 => delay = Base
    BY <1>1, DelayBounds
  <2>4. candidates # {} => idle = 0
    OBVIOUS
  <2>5. sched'.due \in Nat /\ delay \in Nat /\ Base \in Nat
    BY <1>3, <2>1, LongestIsTime DEF Schedule
  <2> HIDE DEF candidates, delay, idle
  <2>6. Restless'
    <3>1. SUFFICES ASSUME NEW j \in Job, job[j].woken, job[j].status = "PENDING"
                   PROVE  sched'.idle = 0
      BY <1>1 DEF Restless
    <3>2. Announced(j)
      BY <3>1 DEF Announced, Active
    <3>3. CASE tick[p].wake = sched.wake
      BY <2>1, <2>2, <2>4, <3>1, <3>2, <3>3
    <3> QED BY <2>1, <3>3
  <2>7. PromptDiscovery'
    <3>1. SUFFICES ASSUME NEW j \in Job, Announced(j), j \notin candidates
                   PROVE  sched'.due <= Base
      BY <1>1, <2>1 DEF PromptDiscovery, Announced, Active
    <3>2. CASE tick[p].wake = sched.wake
      <4>1. delay = Base
        BY <2>2, <2>3, <3>1, <3>2
      <4> QED BY <2>1, <4>1
    <3>3. CASE tick[p].wake # sched.wake
      BY <2>1, <2>5, <3>3, LongestIsTime
    <3> QED BY <3>2, <3>3
  <2> QED BY <1>8, <2>1, <2>6, <2>7
<1>10. CASE ScanFails(p) /\ sched' = AfterScan(tick[p], sched.snapshot, Base, 0)
  <2>0. Base \in 0 .. Longest /\ 0 \in 0 .. Longest
    BY LongestIsTime
  <2>1. /\ sched' \in Schedule /\ sched'.wake = sched.wake
        /\ sched'.due <= Base /\ sched'.idle = 0
    BY <1>1, <1>3, <1>10, <2>0, FinishedFields
  <2>2. Restless' /\ PromptDiscovery'
    BY <1>1, <2>1 DEF Restless, PromptDiscovery
  <2> QED BY <1>8, <2>1, <2>2
<1>11. CASE FinishLost(p) \/ sched' = sched
  <2>1. sched' = sched \/ sched' = [sched EXCEPT !.token = IF @ = p THEN NoOne ELSE @]
    BY <1>11 DEF FinishLost
  <2>2. /\ sched'.due = sched.due /\ sched'.idle = sched.idle /\ sched'.wake = sched.wake
        /\ sched'.snapshot = sched.snapshot /\ sched' \in Schedule
    BY <1>1, <2>1 DEF Schedule
  <2> QED BY <1>5, <2>2
<1> QED BY <1>9, <1>10, <1>11 DEF FinishScan, ScanFails

\* Pipelines move on: nobody becomes announced or PENDING again, and the ticks
\* that scan stay as they are.
LEMMA JobsMove ==
  ASSUME IInv,
         job' \in [Job -> Pipeline], tick' \in [Proc -> Tick], faults' \in 0 .. MaxFaults,
         \A q \in Proc : Scanning(tick'[q]) => tick'[q] = tick[q],
         sched' \in Schedule, sched'.due = sched.due, sched'.idle = sched.idle,
         sched'.wake = sched.wake, sched'.snapshot = sched.snapshot,
         \A j \in Job :
           /\ job'[j].woken = job[j].woken
           /\ job[j].authorised => job'[j].authorised
           /\ job'[j].status = "none" => job[j].status = "none" /\ job'[j].authorised = job[j].authorised
           /\ job[j].woken => \/ job'[j].status = job[j].status
                              \/ Active(j) /\ job'[j].status \in {"RUNNING", "ended"}
  PROVE  IInv'
<1>1. PollTypeOK' /\ Handled'
  BY DEF IInv, PollTypeOK, Handled
<1>2. \A j \in Job : job'[j].woken /\ job'[j].status \in {"PENDING", "RUNNING"} =>
        /\ Announced(j)
        /\ job'[j].status = "PENDING" => job[j].status = "PENDING"
        /\ job[j].status = "RUNNING" => job'[j].status = "RUNNING"
  BY DEF Announced, Active
<1>3. Restless' /\ PromptDiscovery'
  BY <1>2 DEF IInv, Restless, PromptDiscovery, Active, Announced
<1>4. Seen'
  <2>1. SUFFICES ASSUME NEW p \in Proc, Scanning(tick'[p])
                 PROVE  /\ tick'[p].wake <= sched.wake
                        /\ tick'[p].wake = sched.wake => \A j \in Job : Announced(j)' =>
                             /\ job'[j].status = "PENDING" => tick'[p].idle = 0
                             /\ tick'[p].pc = "list" /\ job'[j].status = "RUNNING" =>
                                  j \in tick'[p].found \/ tick'[p].idle = 0
                             /\ tick'[p].pc = "finish" =>
                                  \/ j \in tick'[p].found
                                  \/ tick'[p].idle = 0 /\ job'[j].status = "RUNNING"
    BY DEF Seen, At
  <2>2. tick'[p] = tick[p]
    BY <2>1
  <2>3. \A j \in Job : Announced(j)' => job'[j].woken /\ job'[j].status \in {"PENDING", "RUNNING"}
    BY DEF Announced, Active
  <2>4. \A j \in Job : Announced(j) => job[j].status \in {"PENDING", "RUNNING"}
    BY DEF Announced, Active
  <2> QED BY <1>2, <2>1, <2>2, <2>3, <2>4 DEF IInv, Seen, At
<1> QED BY <1>1, <1>3, <1>4 DEF IInv

\* Submission up to the wake.
LEMMA SubmitKeeps ==
  ASSUME IInv, NEW j \in Job, Submit(j) \/ Register(j) \/ RegisterFails(j)
  PROVE  IInv'
<1>1. /\ UNCHANGED <<sched, tick>>
      /\ faults' = faults \/ (faults < MaxFaults /\ faults' = faults + 1)
      /\ \/ job[j].status = "none" /\ job' = [job EXCEPT ![j].status = "PENDING"]
         \/ /\ job[j].status = "PENDING" /\ ~job[j].authorised
            /\ \/ job' = [job EXCEPT ![j].authorised = TRUE]
               \/ job' = [job EXCEPT ![j].status = "ended"]
  BY DEF Submit, Register, RegisterFails, Fault
<1>2. faults' \in 0 .. MaxFaults
  BY <1>1, BoundsAssumption DEF IInv, PollTypeOK
<1>3. job \in [Job -> Pipeline] /\ ~job[j].woken
  BY <1>1 DEF IInv, PollTypeOK, Handled
<1>4. /\ job' \in [Job -> Pipeline]
      /\ \A i \in Job : i # j => job'[i] = job[i]
      /\ job'[j].woken = job[j].woken
      /\ job[j].authorised => job'[j].authorised
      /\ job'[j].status # "none"
  <2>1. CASE job' = [job EXCEPT ![j].status = "PENDING"]
    BY <1>3, <2>1 DEF Pipeline
  <2>2. CASE job' = [job EXCEPT ![j].authorised = TRUE] /\ job[j].status = "PENDING"
    BY <1>3, <2>2 DEF Pipeline
  <2>3. CASE job' = [job EXCEPT ![j].status = "ended"]
    BY <1>3, <2>3 DEF Pipeline
  <2> QED BY <1>1, <2>1, <2>2, <2>3
<1>5. sched \in Schedule /\ tick \in [Proc -> Tick]
  BY DEF IInv, PollTypeOK
<1> QED BY <1>1, <1>2, <1>3, <1>4, <1>5, JobsMove

\* The wake: every scan in progress is outdated by it.
LEMMA WakeKeeps ==
  ASSUME IInv, NEW j \in Job, Wake(j)
  PROVE  IInv'
<1>1. /\ sched' = [sched EXCEPT !.due = 0, !.idle = 0, !.wake = @ + 1]
      /\ job' = [job EXCEPT ![j].woken = TRUE]
      /\ job[j].authorised /\ UNCHANGED <<tick, faults>>
  BY DEF Wake, Woken
<1>2. sched \in Schedule /\ job \in [Job -> Pipeline] /\ 0 \in 0 .. Longest
  BY LongestIsTime DEF IInv, PollTypeOK
<1>3. /\ sched' \in Schedule /\ sched'.due = 0 /\ sched'.idle = 0
      /\ sched'.wake = sched.wake + 1 /\ sched.wake \in Nat
  <2>1. ASSUME NEW n \in Nat
        PROVE  LET u == [sched EXCEPT !.due = 0, !.idle = 0, !.wake = n] IN
               u \in Schedule /\ u.due = 0 /\ u.idle = 0 /\ u.wake = n
    BY <1>2 DEF Schedule
  <2>2. sched.wake \in Nat /\ sched.wake + 1 \in Nat
    BY <1>2 DEF Schedule
  <2>3. sched' = [sched EXCEPT !.due = 0, !.idle = 0, !.wake = sched.wake + 1]
    BY <1>1
  <2> QED BY <2>1, <2>2, <2>3
<1>4. job' \in [Job -> Pipeline]
  BY <1>1, <1>2 DEF Pipeline
<1>5. \A i \in Job : job'[i].status = job[i].status /\ job'[i].authorised = job[i].authorised
                     /\ (job'[i].woken => job[i].woken \/ i = j)
  BY <1>1, <1>2 DEF Pipeline
<1>6. PollTypeOK' /\ Handled'
  BY <1>1, <1>3, <1>4, <1>5 DEF IInv, PollTypeOK, Handled
<1>7. Restless' /\ PromptDiscovery'
  BY <1>3, LongestIsTime DEF Restless, PromptDiscovery
<1>8. Seen'
  <2>1. SUFFICES ASSUME NEW p \in Proc, Scanning(tick[p])
                 PROVE  tick[p].wake <= sched'.wake /\ tick[p].wake # sched'.wake
    BY <1>1 DEF Seen
  <2>2. tick[p].wake <= sched.wake /\ tick[p].wake \in Nat
    BY <2>1 DEF IInv, Seen, PollTypeOK, Tick
  <2> QED BY <1>3, <2>2
<1> QED BY <1>6, <1>7, <1>8 DEF IInv

\* Execution.
LEMMA WorkKeeps ==
  ASSUME IInv, NEW p \in Proc, Pick(p) \/ EndStep(p)
  PROVE  IInv'
<1>1. /\ UNCHANGED <<sched, faults>> /\ sched \in Schedule /\ faults \in 0 .. MaxFaults
      /\ job \in [Job -> Pipeline] /\ tick \in [Proc -> Tick] /\ tick[p] \in Tick
  BY DEF IInv, PollTypeOK, Pick, EndStep
<1>2. ASSUME NEW t \in Tick, ~Scanning(t), tick' = [tick EXCEPT ![p] = t]
      PROVE  /\ tick' \in [Proc -> Tick]
             /\ \A q \in Proc : Scanning(tick'[q]) => tick'[q] = tick[q]
  BY <1>1, <1>2
<1>3. CASE Pick(p)
  <2>1. CASE job' = job /\ tick' = [tick EXCEPT ![p] = Free]
    BY <1>1, <1>2, <2>1, FreeType, JobsMove DEF IInv, Handled
  <2>2. ASSUME NEW j \in Claimable(p), NEW s \in {"RUNNING", "ended"},
               job' = [job EXCEPT ![j].status = s],
               NEW t \in Tick, ~Scanning(t), tick' = [tick EXCEPT ![p] = t]
        PROVE  IInv'
    <3>1. j \in Job /\ Active(j)
      BY <1>1 DEF Claimable, Tick
    <3>2. job' \in [Job -> Pipeline]
      BY <1>1, <2>2, <3>1 DEF Pipeline
    <3>3. \A i \in Job : i # j => job'[i] = job[i]
      BY <1>1, <2>2, <3>1
    <3>4. job'[j].woken = job[j].woken /\ job'[j].authorised = job[j].authorised
          /\ job'[j].status = s
      BY <1>1, <2>2, <3>1 DEF Pipeline
    <3> QED BY <1>1, <1>2, <2>2, <3>1, <3>2, <3>3, <3>4, JobsMove
  <2>3. \A j \in Claimable(p) : {j} \in SUBSET Job
    BY <1>1 DEF Claimable, Tick
  <2> QED BY <1>3, <2>1, <2>2, <2>3, FreeType, FreeWith DEF Pick
<1>4. CASE EndStep(p)
  <2>1. PICK j \in Job : job' = [job EXCEPT ![j].left = Less(@, 1),
                          ![j].status = IF job[j].left = 1 THEN "ended" ELSE @]
    BY <1>1, <1>4 DEF EndStep, Tick
  <2>2. tick' = [tick EXCEPT ![p] = Free]
    BY <1>4 DEF EndStep
  <2>3. Less(job[j].left, 1) \in 0 .. Steps
    BY <1>1, BoundsAssumption DEF Pipeline, Less
  <2>4. /\ job' \in [Job -> Pipeline]
        /\ \A i \in Job : i # j => job'[i] = job[i]
        /\ job'[j].woken = job[j].woken /\ job'[j].authorised = job[j].authorised
        /\ job'[j].status = job[j].status \/ job'[j].status = "ended"
    BY ZenonT(120), <1>1, <2>1, <2>3 DEF Pipeline
  <2>5. job[j].woken => job[j].status # "none"
    BY DEF IInv, Handled
  <2>6. job[j].status \in {"none", "PENDING", "RUNNING", "ended"}
    BY <1>1 DEF Pipeline
  <2> QED BY <1>1, <1>2, <2>2, <2>4, <2>5, <2>6, FreeType, JobsMove DEF Active
<1> QED BY <1>3, <1>4

\* Time: waits get shorter, the scans older.
LEMMA TimeKeeps ==
  ASSUME IInv, Time
  PROVE  IInv'
<1>1. /\ sched \in Schedule /\ tick \in [Proc -> Tick] /\ UNCHANGED <<job, faults>>
      /\ PollTypeOK
  BY DEF IInv, PollTypeOK, Time
<1>2. /\ sched' \in Schedule /\ sched'.idle = sched.idle /\ sched'.wake = sched.wake
      /\ sched'.snapshot = sched.snapshot /\ sched'.due <= sched.due
      /\ sched.due \in Nat /\ sched'.due \in Nat
  <2> DEFINE due  == Less(sched.due, 1)
             left == IF sched.token = NoOne THEN Less(sched.left, 1) ELSE sched.left
  <2>1. due \in 0 .. Longest /\ due <= sched.due /\ sched.due \in Nat
    <3>1. sched.due \in 0 .. Longest
      BY <1>1 DEF Schedule
    <3> QED BY <3>1, LongestIsTime DEF Less
  <2>2. left \in 0 .. LeaseTime
    BY <1>1, TimesAssumption DEF Schedule, Less
  <2>3. sched' = [sched EXCEPT !.due = due, !.left = left]
    BY DEF Time
  <2>4. ASSUME NEW d \in 0 .. Longest, NEW l \in 0 .. LeaseTime
        PROVE  LET u == [sched EXCEPT !.due = d, !.left = l] IN
               /\ u \in Schedule /\ u.idle = sched.idle /\ u.wake = sched.wake
               /\ u.snapshot = sched.snapshot /\ u.due = d
    BY <1>1 DEF Schedule
  <2> HIDE DEF due, left
  <2>5. due \in Nat
    BY <2>1, LongestIsTime
  <2> QED BY <2>1, <2>2, <2>3, <2>4, <2>5
<1>3. ASSUME NEW q \in Proc
      PROVE  /\ tick'[q] \in Tick /\ tick'[q].pc = tick[q].pc /\ tick'[q].wake = tick[q].wake
             /\ tick'[q].idle = tick[q].idle /\ tick'[q].found = tick[q].found
  <2>1. MinOf(tick[q].age + 1, Longest) \in 0 .. Longest
    BY <1>1, LongestIsTime DEF Tick, MinOf
  <2>2. tick'[q] = [tick[q] EXCEPT !.age = MinOf(@ + 1, Longest)] \/ tick'[q] = tick[q]
    BY DEF Time
  <2>3. ASSUME NEW t \in Tick, NEW a \in 0 .. Longest
        PROVE  LET u == [t EXCEPT !.age = a] IN
               u \in Tick /\ u.pc = t.pc /\ u.wake = t.wake /\ u.idle = t.idle /\ u.found = t.found
    BY DEF Tick
  <2>4. tick[q] \in Tick
    BY <1>1
  <2>5. CASE tick'[q] = [tick[q] EXCEPT !.age = MinOf(tick[q].age + 1, Longest)]
    <3> HIDE DEF MinOf
    <3> QED BY <2>1, <2>3, <2>4, <2>5
  <2> QED BY <2>2, <2>4, <2>5
<1>4. tick' \in [Proc -> Tick]
  BY <1>3 DEF Time
<1>5. PollTypeOK' /\ Handled' /\ Restless'
  BY <1>1, <1>2, <1>4 DEF IInv, PollTypeOK, Handled, Restless
<1>6. PromptDiscovery'
  BY <1>1, <1>2, LongestIsTime DEF IInv, PromptDiscovery, Active
<1>7. Seen'
  BY <1>1, <1>2, <1>3 DEF IInv, Seen, Scanning, At, Announced, Active
<1> QED BY <1>5, <1>6, <1>7 DEF IInv

\* The lease runs out on a window that stalls.
LEMMA StallKeeps ==
  ASSUME IInv, Stall
  PROVE  IInv'
<1>1. /\ sched \in Schedule /\ tick \in [Proc -> Tick] /\ job \in [Job -> Pipeline]
      /\ UNCHANGED <<job, tick>> /\ sched' = [sched EXCEPT !.left = 0]
  BY DEF IInv, PollTypeOK, Stall
<1>2. faults' \in 0 .. MaxFaults
  BY BoundsAssumption DEF IInv, PollTypeOK, Stall, Fault
<1>3. 0 \in 0 .. LeaseTime
  BY TimesAssumption
<1>4. /\ sched' \in Schedule /\ sched'.due = sched.due /\ sched'.idle = sched.idle
      /\ sched'.wake = sched.wake /\ sched'.snapshot = sched.snapshot
  BY <1>1, <1>3 DEF Schedule
<1> QED BY <1>1, <1>2, <1>4, JobsMove DEF IInv, Handled

\* A window dies.
LEMMA CrashKeeps ==
  ASSUME IInv, NEW p \in Proc, Crash(p)
  PROVE  IInv'
<1>1. /\ sched \in Schedule /\ tick \in [Proc -> Tick] /\ job \in [Job -> Pipeline]
      /\ tick' = [tick EXCEPT ![p] = Free]
  BY DEF IInv, PollTypeOK, Crash
<1>2. faults' \in 0 .. MaxFaults
  BY BoundsAssumption DEF IInv, PollTypeOK, Crash, Fault
<1>3. /\ sched' \in Schedule /\ sched'.due = sched.due /\ sched'.idle = sched.idle
      /\ sched'.wake = sched.wake /\ sched'.snapshot = sched.snapshot
  <2>1. sched' = sched \/ sched' = [sched EXCEPT !.token = NoOne]
    BY <1>1 DEF Crash, Schedule
  <2> QED BY <1>1, <2>1 DEF Schedule
<1>4. tick' \in [Proc -> Tick] /\ \A q \in Proc : Scanning(tick'[q]) => tick'[q] = tick[q]
  BY <1>1, FreeType
<1>5. ASSUME NEW j \in Job
      PROVE  /\ job'[j] \in Pipeline /\ job'[j].woken = job[j].woken
             /\ job'[j].authorised = job[j].authorised /\ job'[j].status = job[j].status
  <2>1. job'[j] = job[j] \/ job'[j] = [job[j] EXCEPT !.orphaned = TRUE]
    BY DEF Crash
  <2>2. job[j] \in Pipeline
    BY <1>1
  <2> QED BY <2>1, <2>2 DEF Pipeline
<1>6. job' \in [Job -> Pipeline]
  BY <1>5 DEF Crash
<1> QED BY <1>2, <1>3, <1>4, <1>5, <1>6, JobsMove DEF IInv, Handled

-----------------------------------------------------------------------------
(* The theorems.                                                           *)

\* The invariant holds initially.
LEMMA InitInv == PollInit => IInv
<1> SUFFICES ASSUME PollInit PROVE IInv
  OBVIOUS
<1>1. sched \in Schedule
  BY LongestIsTime, TimesAssumption DEF PollInit, Schedule
<1>2. job \in [Job -> Pipeline]
  BY BoundsAssumption DEF PollInit, Pipeline
<1>3. tick \in [Proc -> Tick] /\ faults \in 0 .. MaxFaults
  BY FreeType, BoundsAssumption DEF PollInit
<1>4. Handled /\ Restless /\ PromptDiscovery
  BY DEF PollInit, Handled, Restless, PromptDiscovery, Active
<1>5. Seen
  BY FreeType DEF PollInit, Seen
<1> QED BY <1>1, <1>2, <1>3, <1>4, <1>5 DEF IInv, PollTypeOK

\* Every step preserves the invariant.
LEMMA StepInv == IInv /\ [PollNext]_pollVars => IInv'
<1> SUFFICES ASSUME IInv, [PollNext]_pollVars PROVE IInv'
  OBVIOUS
<1>1. CASE UNCHANGED pollVars
  BY <1>1 DEF pollVars, IInv, PollTypeOK, Handled, Restless, Seen, PromptDiscovery,
              Active, Announced, At, Scanning
<1>2. ASSUME NEW p \in Proc, PollStep(p) PROVE IInv'
  BY <1>2, ClaimKeeps, FollowKeeps, ListKeeps, FinishKeeps, WorkKeeps DEF PollStep
<1>3. ASSUME NEW p \in Proc, ScanFails(p) \/ FinishLost(p) PROVE IInv'
  BY <1>3, FinishKeeps
<1>4. ASSUME NEW p \in Proc, Crash(p) PROVE IInv'
  BY <1>4, CrashKeeps
<1>5. ASSUME NEW j \in Job, Handler(j) PROVE IInv'
  BY <1>5, SubmitKeeps, WakeKeeps DEF Handler
<1>6. ASSUME Time \/ Stall PROVE IInv'
  BY <1>6, TimeKeeps, StallKeeps
<1> QED BY <1>1, <1>2, <1>3, <1>4, <1>5, <1>6 DEF PollNext

\* The invariant holds in every reachable state.
THEOREM InvariantHolds == PollSpec => []IInv
BY InitInv, StepInv, PTL DEF PollSpec

\* Schedule, pipelines and ticks have their types in every reachable state.
THEOREM TypeCorrect == PollSpec => []PollTypeOK
<1>1. IInv => PollTypeOK
  BY DEF IInv
<1> QED BY <1>1, InvariantHolds, PTL

\* No wake is lost: an announced pipeline that no window knows of is polled for
\* within one base interval, for any number of windows, pipelines and faults.
THEOREM NoWakeIsLost == PollSpec => []PromptDiscovery
<1>1. IInv => PromptDiscovery
  BY DEF IInv
<1> QED BY <1>1, InvariantHolds, PTL
=============================================================================
