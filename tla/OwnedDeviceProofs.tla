--------------------------- MODULE OwnedDeviceProofs ---------------------------
(***************************************************************************)
(* Proofs about OwnedDevice, for any processes and any number of jobs:     *)
(* while an operation runs in the provider nothing else uses the device.   *)
(*                                                                         *)
(* The argument: an operation that may still run (it is claimed, its       *)
(* execution is on the way, or its job may yet send it) is the one that    *)
(* the active marker names.  The marker is overwritten or cleared only     *)
(* after its operation was proved harmless, and what is harmless stays so. *)
(***************************************************************************)
EXTENDS OwnedDevice, TLAPS

\* Its job may still send the execution.
MayExecute(o) == job[o].phase \in {"marked", "register"} /\ ~job[o].stopped

Quiet(o) == <<"execute", o>> \notin inflight /\ ~MayExecute(o)

\* It does not run and never will.
Harmless(o) ==
  \/ provider[o] \in {"finished", "withdrawn"}
  \/ provider[o] \in {"unknown", "registered"} /\ Quiet(o)

Leased == \A p \in Proc : call[p] # "idle" => lease = p

\* The lease is kept as long as a job of the call runs.
Homes ==
  \A j \in Job : Running(j) => /\ job[j].home \in Proc
                               /\ call[job[j].home] \in {"held", "generate"}

OneUnstopped ==
  \A j, k \in Job : Running(j) /\ Running(k) /\ ~job[j].stopped /\ ~job[k].stopped => j = k

MarkedUnstopped == \A j \in Job : job[j].phase = "marked" => ~job[j].stopped

\* Nothing was sent for the job, and nobody asks for it.
Unsent(j) ==
  /\ provider[j] = "unknown"
  /\ \A r \in {"register", "execute", "cancel"} : <<r, j>> \notin inflight
  /\ \A x \in Proc \cup Job : watch[x].on # j

\* Before its operation nobody knows of a job, and before its marker no marker
\* names it.
Unseen == \A j \in Job : job[j].phase \in {"new", "probe", "admit", "marked"} => Unsent(j)

Unnamed ==
  \A j \in Job : job[j].phase \in {"new", "probe", "admit"} =>
    marker.job # j /\ job[j].own = "none"

\* The marker tells whether its job has sent anything.
MarkerTells ==
  marker.job # NoJob =>
    /\ marker.started => job[marker.job].phase \in {"register", "read", "over", "settled"}
    /\ ~marker.started => job[marker.job].phase \in {"marked", "settled"} /\ Unsent(marker.job)

MarkerNames == marker.started \/ marker.active => marker.job # NoJob

\* An execution is sent only after the registration.
Registered == \A j \in Job : <<"execute", j>> \in inflight => provider[j] # "unknown"

WatchNames ==
  \A x \in Proc \cup Job :
    IF watch[x].at = "no" THEN watch[x] = NoWatch ELSE watch[x].on # NoJob

\* A recovery, and the probe of a job that was not stopped, observe the marker's
\* operation.
WatchCalls == \A p \in Proc : watch[p].at # "no" => call[p] = "recover" /\ watch[p].on = marker.job

WatchJobs ==
  \A j \in Job : watch[j].at # "no" =>
    IF Probing(j) THEN job[j].stopped \/ watch[j].on = marker.job
    ELSE /\ watch[j].on = j /\ job[j].phase \in {"register", "read", "over"}
         /\ job[j].stopped \/ job[j].phase = "over"

\* An admitted job has the device to itself, and so has a call that uses it.
AdmitClear ==
  \A k \in Job : job[k].phase = "admit" /\ ~job[k].stopped => \A o \in Job : o # k => Harmless(o)

UseAnswered == \A p \in Proc : call[p] = "generate" => Answered(p)

UseClear == \A p \in Proc : call[p] \in {"generate", "answer"} => \A o \in Job : Harmless(o)

MarkerGuards == \A o \in Job : ~Harmless(o) => marker.active /\ marker.job = o

Shape == /\ DeviceTypeOK /\ Leased /\ Homes /\ OneUnstopped /\ MarkedUnstopped /\ Unseen /\ Unnamed
         /\ MarkerTells
         /\ MarkerNames /\ Registered /\ WatchNames /\ WatchCalls /\ WatchJobs /\ UseAnswered

IInv == Shape /\ AdmitClear /\ UseClear /\ MarkerGuards

-----------------------------------------------------------------------------
(* Types.                                                                  *)

Phases == {"new", "probe", "admit", "marked", "register", "read", "over", "settled"}

\* A job with another phase or flag is a job.
LEMMA JobFields ==
  ASSUME NEW m \in JobState, NEW phase \in Phases, NEW b \in BOOLEAN
  PROVE  /\ [m EXCEPT !.phase = phase] \in JobState
         /\ [m EXCEPT !.phase = phase, !.tried = b] \in JobState
         /\ [m EXCEPT !.phase = phase, !.own = "active"] \in JobState
         /\ [m EXCEPT !.stopped = b] \in JobState
         /\ [m EXCEPT !.tried = b] \in JobState
         /\ [m EXCEPT !.own = "finished"] \in JobState
  BY DEF JobState, Phases

\* A new job is a job, and so is one that starts.
LEMMA NewJobType == /\ NewJob \in JobState
                    /\ \A p \in Proc : [NewJob EXCEPT !.home = p, !.phase = "probe"] \in JobState
  BY DEF NewJob, JobState

\* The invariant holds initially: no operation exists.
LEMMA InitInv == DeviceInit => IInv
<1> SUFFICES ASSUME DeviceInit PROVE IInv
  OBVIOUS
<1>1. DeviceTypeOK
  BY DeviceAssumption, NewJobType DEF DeviceInit, DeviceTypeOK, NoWatch
<1>2. /\ marker = [job |-> NoJob, started |-> FALSE, active |-> FALSE] /\ inflight = {}
      /\ \A p \in Proc : call[p] = "idle"
      /\ \A j \in Job : job[j].phase = "new" /\ provider[j] = "unknown"
      /\ \A x \in Proc \cup Job : watch[x] = NoWatch
  BY DEF DeviceInit, NewJob
<1>3. Leased /\ Homes /\ OneUnstopped /\ MarkedUnstopped /\ MarkerTells /\ MarkerNames
  BY <1>2 DEF Leased, Homes, OneUnstopped, MarkedUnstopped, MarkerTells, MarkerNames, Running
<1>4. Unseen /\ Unnamed /\ Registered /\ WatchNames /\ WatchCalls /\ WatchJobs
  <2>1. \A j \in Job : Unsent(j)
    BY <1>2, DeviceAssumption DEF Unsent, NoWatch
  <2>2. \A j \in Job : job[j].own = "none" /\ marker.job # j
    BY <1>2, DeviceAssumption DEF DeviceInit, NewJob
  <2>3. QED
    BY <1>2, <2>1, <2>2 DEF Unseen, Unnamed, Registered, WatchNames, WatchCalls, WatchJobs, NoWatch
<1>5. \A o \in Job : Harmless(o)
  BY <1>2 DEF Harmless, Quiet, MayExecute
<1>6. UseAnswered /\ UseClear /\ AdmitClear /\ MarkerGuards
  BY <1>2, <1>5 DEF UseAnswered, UseClear, AdmitClear, MarkerGuards
<1>7. QED
  BY <1>1, <1>3, <1>4, <1>6 DEF IInv, Shape

-----------------------------------------------------------------------------
(* The call.                                                               *)

\* The lease is free, so no call uses the device.
LEMMA AcquireInv ==
  ASSUME IInv, NEW p \in Proc, Acquire(p)
  PROVE  IInv'
<1> USE DeviceAssumption DEF IInv, Shape
<1>1. /\ call[p] = "idle" /\ lease = NoProc
      /\ lease' = p
      /\ call' \in {[call EXCEPT ![p] = "ordinary"], [call EXCEPT ![p] = "recover"]}
      /\ UNCHANGED <<marker, job, watch, provider, inflight>>
  BY DEF Acquire, DeviceTypeOK
<1>2. /\ OneUnstopped' /\ MarkedUnstopped' /\ Unseen' /\ Unnamed' /\ MarkerTells'
  BY <1>1
     DEF OneUnstopped, MarkedUnstopped, Unseen, Unnamed, MarkerTells, Running, Unsent, NoWatch
<1>3. /\ MarkerNames' /\ Registered' /\ WatchNames' /\ WatchJobs'
  BY <1>1 DEF MarkerNames, Registered, WatchNames, WatchJobs, NoWatch, Probing
<1>4. /\ AdmitClear' /\ MarkerGuards'
  BY <1>1 DEF AdmitClear, MarkerGuards, Harmless, Quiet, MayExecute
<1>5. DeviceTypeOK'
  BY <1>1 DEF DeviceTypeOK
<1>6. Leased'
  BY <1>1 DEF DeviceTypeOK, Leased
<1>7. Homes'
  BY <1>1 DEF DeviceTypeOK, Homes, Running
<1>8. WatchCalls'
  BY <1>1 DEF DeviceTypeOK, WatchCalls, NoWatch
<1>9. UseAnswered'
  BY <1>1 DEF DeviceTypeOK, UseAnswered, Answered, Running
<1>10. UseClear'
  BY <1>1 DEF DeviceTypeOK, UseClear, Harmless, Quiet, MayExecute
<1>11. QED
  BY <1>2, <1>3, <1>4, <1>5, <1>6, <1>7, <1>8, <1>9, <1>10

\* No marker is active, so every operation is harmless.
LEMMA OrdinaryStartsInv ==
  ASSUME IInv, NEW p \in Proc, OrdinaryStarts(p)
  PROVE  IInv'
<1> USE DeviceAssumption DEF IInv, Shape
<1>1. /\ call[p] = "ordinary" /\ ~marker.active
      /\ call' = [call EXCEPT ![p] = "answer"]
      /\ UNCHANGED <<lease, marker, job, watch, provider, inflight>>
  BY DEF OrdinaryStarts, DeviceTypeOK
<1>2. /\ OneUnstopped' /\ MarkedUnstopped' /\ Unseen' /\ Unnamed' /\ MarkerTells'
  BY <1>1
     DEF OneUnstopped, MarkedUnstopped, Unseen, Unnamed, MarkerTells, Running, Unsent, NoWatch
<1>3. /\ MarkerNames' /\ Registered' /\ WatchNames' /\ WatchJobs'
  BY <1>1 DEF MarkerNames, Registered, WatchNames, WatchJobs, NoWatch, Probing
<1>4. /\ AdmitClear' /\ MarkerGuards'
  BY <1>1 DEF AdmitClear, MarkerGuards, Harmless, Quiet, MayExecute
<1>5. DeviceTypeOK'
  BY <1>1 DEF DeviceTypeOK
<1>6. Leased'
  BY <1>1 DEF DeviceTypeOK, Leased
<1>7. Homes'
  BY <1>1 DEF DeviceTypeOK, Homes, Running
<1>8. WatchCalls'
  BY <1>1 DEF DeviceTypeOK, WatchCalls, NoWatch
<1>9. UseAnswered'
  BY <1>1 DEF DeviceTypeOK, UseAnswered, Answered, Running
<1>10. UseClear'
  <2>1. \A o \in Job : Harmless(o)
    BY <1>1 DEF MarkerGuards
  <2>2. \A o \in Job : Harmless(o)'
    BY <1>1, <2>1 DEF Harmless, Quiet, MayExecute
  <2>3. QED
    BY <2>2 DEF UseClear
<1>11. QED
  BY <1>2, <1>3, <1>4, <1>5, <1>6, <1>7, <1>8, <1>9, <1>10

\* A refused call has no jobs.
LEMMA RefusedInv ==
  ASSUME IInv, NEW p \in Proc, Refused(p)
  PROVE  IInv'
<1> USE DeviceAssumption DEF IInv, Shape
<1>1. /\ call[p] = "ordinary"
      /\ call' = [call EXCEPT ![p] = "idle"]
      /\ lease' = NoProc
      /\ UNCHANGED <<marker, job, watch, provider, inflight>>
  BY DEF Refused, DeviceTypeOK
<1>2. /\ OneUnstopped' /\ MarkedUnstopped' /\ Unseen' /\ Unnamed' /\ MarkerTells'
  BY <1>1
     DEF OneUnstopped, MarkedUnstopped, Unseen, Unnamed, MarkerTells, Running, Unsent, NoWatch
<1>3. /\ MarkerNames' /\ Registered' /\ WatchNames' /\ WatchJobs'
  BY <1>1 DEF MarkerNames, Registered, WatchNames, WatchJobs, NoWatch, Probing
<1>4. /\ AdmitClear' /\ MarkerGuards'
  BY <1>1 DEF AdmitClear, MarkerGuards, Harmless, Quiet, MayExecute
<1>5. DeviceTypeOK'
  BY <1>1 DEF DeviceTypeOK
<1>6. Leased'
  BY <1>1 DEF DeviceTypeOK, Leased
<1>7. Homes'
  BY <1>1 DEF DeviceTypeOK, Homes, Running
<1>8. WatchCalls'
  BY <1>1 DEF DeviceTypeOK, WatchCalls, NoWatch
<1>9. UseAnswered'
  BY <1>1 DEF DeviceTypeOK, UseAnswered, Answered, Running
<1>10. UseClear'
  BY <1>1 DEF DeviceTypeOK, UseClear, Harmless, Quiet, MayExecute
<1>11. QED
  BY <1>2, <1>3, <1>4, <1>5, <1>6, <1>7, <1>8, <1>9, <1>10

\* A recovery observes the operation the marker names.
LEMMA RecoverWatchesInv ==
  ASSUME IInv, NEW p \in Proc, Recover(p), marker.active /\ marker.started
  PROVE  IInv'
<1> USE DeviceAssumption DEF IInv, Shape
<1>1. /\ call[p] = "recover" /\ watch[p] = NoWatch
      /\ marker.job \in Job /\ marker.started
      /\ watch' = [watch EXCEPT ![p] = [at |-> "status", on |-> marker.job]]
      /\ UNCHANGED <<lease, marker, call, job, provider, inflight>>
  BY DEF Recover, Watch, MarkerNames, DeviceTypeOK
<1>2. /\ Leased' /\ Homes' /\ OneUnstopped' /\ MarkedUnstopped' /\ Unnamed'
  BY <1>1 DEF Leased, Homes, OneUnstopped, MarkedUnstopped, Unnamed, Running
<1>3. /\ MarkerNames' /\ Registered' /\ UseAnswered'
  BY <1>1 DEF MarkerNames, Registered, UseAnswered, Answered, Running
<1>4. /\ AdmitClear' /\ UseClear' /\ MarkerGuards'
  BY <1>1 DEF AdmitClear, UseClear, MarkerGuards, Harmless, Quiet, MayExecute
<1>5. DeviceTypeOK'
  BY <1>1 DEF DeviceTypeOK, NoWatch
<1>6. Unseen'
  BY <1>1 DEF DeviceTypeOK, Unseen, Unsent, MarkerTells, NoWatch
<1>7. MarkerTells'
  BY <1>1 DEF DeviceTypeOK, MarkerTells, Unsent, NoWatch
<1>8. WatchNames'
  BY <1>1 DEF DeviceTypeOK, WatchNames, NoWatch
<1>9. WatchCalls'
  BY <1>1 DEF DeviceTypeOK, WatchCalls, NoWatch
<1>10. WatchJobs'
  BY <1>1 DEF DeviceTypeOK, WatchJobs, Probing, NoWatch
<1>11. QED
  BY <1>2, <1>3, <1>4, <1>5, <1>6, <1>7, <1>8, <1>9, <1>10

\* A marker without an operation is cleared: nothing was sent for its job.
LEMMA RecoverHoldsInv ==
  ASSUME IInv, NEW p \in Proc, Recover(p), ~(marker.active /\ marker.started)
  PROVE  IInv'
<1> USE DeviceAssumption DEF IInv, Shape
<1>1. /\ call[p] = "recover" /\ watch[p] = NoWatch
      /\ marker' = [marker EXCEPT !.active = FALSE]
      /\ call' = [call EXCEPT ![p] = "held"]
      /\ UNCHANGED <<lease, job, watch, provider, inflight>>
  BY DEF Recover, DeviceTypeOK
<1>2. /\ OneUnstopped' /\ MarkedUnstopped' /\ Unseen' /\ Registered'
      /\ WatchNames'
  BY <1>1
     DEF OneUnstopped, MarkedUnstopped, Unseen, Registered, WatchNames, Running, Unsent, NoWatch
<1>3. AdmitClear'
  BY <1>1 DEF AdmitClear, Harmless, Quiet, MayExecute
<1>4. DeviceTypeOK'
  BY <1>1 DEF DeviceTypeOK
<1>5. Leased'
  BY <1>1 DEF DeviceTypeOK, Leased
<1>6. Homes'
  BY <1>1 DEF DeviceTypeOK, Homes, Running
<1>7. Unnamed'
  BY <1>1 DEF DeviceTypeOK, Unnamed
<1>8. MarkerTells'
  BY <1>1 DEF DeviceTypeOK, MarkerTells, Unsent, NoWatch
<1>9. MarkerNames'
  BY <1>1 DEF DeviceTypeOK, MarkerNames
<1>10. WatchCalls'
  BY <1>1 DEF DeviceTypeOK, WatchCalls, NoWatch
<1>11. WatchJobs'
  BY <1>1 DEF DeviceTypeOK, WatchJobs, Probing, NoWatch
<1>12. UseAnswered'
  BY <1>1 DEF DeviceTypeOK, UseAnswered, Answered, Running
<1>13. UseClear'
  BY <1>1 DEF DeviceTypeOK, UseClear, Harmless, Quiet, MayExecute
<1>14. MarkerGuards'
  <2>1. \A j \in Job : ~Running(j)
    BY <1>1 DEF Leased, Homes, DeviceTypeOK
  <2>2. \A o \in Job : Harmless(o)
    BY <1>1, <2>1 DEF MarkerGuards, MarkerTells, Unsent, Harmless, Quiet, MayExecute, Running, DeviceTypeOK
  <2>3. QED
    BY <1>1, <2>2 DEF MarkerGuards, Harmless, Quiet, MayExecute
<1>15. QED
  BY <1>2, <1>3, <1>4, <1>5, <1>6, <1>7, <1>8, <1>9, <1>10, <1>11, <1>12, <1>13, <1>14

\* No marker is active and every job was answered.
LEMMA UseInv ==
  ASSUME IInv, NEW p \in Proc, Use(p)
  PROVE  IInv'
<1> USE DeviceAssumption DEF IInv, Shape
<1>1. /\ call[p] = "held" /\ Answered(p) /\ ~marker.active
      /\ call' = [call EXCEPT ![p] = "generate"]
      /\ UNCHANGED <<lease, marker, job, watch, provider, inflight>>
  BY DEF Use, DeviceTypeOK
<1>2. /\ OneUnstopped' /\ MarkedUnstopped' /\ Unseen' /\ Unnamed' /\ MarkerTells'
  BY <1>1
     DEF OneUnstopped, MarkedUnstopped, Unseen, Unnamed, MarkerTells, Running, Unsent, NoWatch
<1>3. /\ MarkerNames' /\ Registered' /\ WatchNames' /\ WatchJobs'
  BY <1>1 DEF MarkerNames, Registered, WatchNames, WatchJobs, NoWatch, Probing
<1>4. /\ AdmitClear' /\ MarkerGuards'
  BY <1>1 DEF AdmitClear, MarkerGuards, Harmless, Quiet, MayExecute
<1>5. DeviceTypeOK'
  BY <1>1 DEF DeviceTypeOK
<1>6. Leased'
  BY <1>1 DEF DeviceTypeOK, Leased
<1>7. Homes'
  BY <1>1 DEF DeviceTypeOK, Homes, Running
<1>8. WatchCalls'
  BY <1>1 DEF DeviceTypeOK, WatchCalls, NoWatch
<1>9. UseAnswered'
  BY <1>1 DEF DeviceTypeOK, UseAnswered, Answered, Running
<1>10. UseClear'
  <2>1. \A o \in Job : Harmless(o)
    BY <1>1 DEF MarkerGuards
  <2>2. \A o \in Job : Harmless(o)'
    BY <1>1, <2>1 DEF Harmless, Quiet, MayExecute
  <2>3. QED
    BY <2>2 DEF UseClear
<1>11. QED
  BY <1>2, <1>3, <1>4, <1>5, <1>6, <1>7, <1>8, <1>9, <1>10

\* The call has its lease still.
LEMMA EndUseInv ==
  ASSUME IInv, NEW p \in Proc, EndUse(p)
  PROVE  IInv'
<1> USE DeviceAssumption DEF IInv, Shape
<1>1. /\ call[p] = "generate"
      /\ call' = [call EXCEPT ![p] = "held"]
      /\ UNCHANGED <<lease, marker, job, watch, provider, inflight>>
  BY DEF EndUse, DeviceTypeOK
<1>2. /\ OneUnstopped' /\ MarkedUnstopped' /\ Unseen' /\ Unnamed' /\ MarkerTells'
  BY <1>1
     DEF OneUnstopped, MarkedUnstopped, Unseen, Unnamed, MarkerTells, Running, Unsent, NoWatch
<1>3. /\ MarkerNames' /\ Registered' /\ WatchNames' /\ WatchJobs'
  BY <1>1 DEF MarkerNames, Registered, WatchNames, WatchJobs, NoWatch, Probing
<1>4. /\ AdmitClear' /\ MarkerGuards'
  BY <1>1 DEF AdmitClear, MarkerGuards, Harmless, Quiet, MayExecute
<1>5. DeviceTypeOK'
  BY <1>1 DEF DeviceTypeOK
<1>6. Leased'
  BY <1>1 DEF DeviceTypeOK, Leased
<1>7. Homes'
  BY <1>1 DEF DeviceTypeOK, Homes, Running
<1>8. WatchCalls'
  BY <1>1 DEF DeviceTypeOK, WatchCalls, NoWatch
<1>9. UseAnswered'
  BY <1>1 DEF DeviceTypeOK, UseAnswered, Answered, Running
<1>10. UseClear'
  BY <1>1 DEF DeviceTypeOK, UseClear, Harmless, Quiet, MayExecute
<1>11. QED
  BY <1>2, <1>3, <1>4, <1>5, <1>6, <1>7, <1>8, <1>9, <1>10

\* All jobs of the call are settled, so none may send its execution.
LEMMA ReleaseInv ==
  ASSUME IInv, NEW p \in Proc, Release(p)
  PROVE  IInv'
<1> USE DeviceAssumption DEF IInv, Shape
<1>1. /\ call[p] = "answer" \/ (call[p] = "held" /\ Settled(p))
      /\ call' = [call EXCEPT ![p] = "idle"]
      /\ lease' = NoProc
      /\ UNCHANGED <<marker, job, watch, provider, inflight>>
  BY DEF Release, Settled, DeviceTypeOK
<1>2. /\ OneUnstopped' /\ MarkedUnstopped' /\ Unseen' /\ Unnamed' /\ MarkerTells'
  BY <1>1
     DEF OneUnstopped, MarkedUnstopped, Unseen, Unnamed, MarkerTells, Running, Unsent, NoWatch
<1>3. /\ MarkerNames' /\ Registered' /\ WatchNames' /\ WatchJobs'
  BY <1>1 DEF MarkerNames, Registered, WatchNames, WatchJobs, NoWatch, Probing
<1>4. /\ AdmitClear' /\ MarkerGuards'
  BY <1>1 DEF AdmitClear, MarkerGuards, Harmless, Quiet, MayExecute
<1>5. DeviceTypeOK'
  BY <1>1 DEF DeviceTypeOK
<1>6. Leased'
  BY <1>1 DEF DeviceTypeOK, Leased
<1>7. Homes'
  BY <1>1 DEF DeviceTypeOK, Homes, Running, Settled, Leased
<1>8. WatchCalls'
  BY <1>1 DEF DeviceTypeOK, WatchCalls, NoWatch
<1>9. UseAnswered'
  BY <1>1 DEF DeviceTypeOK, UseAnswered, Answered, Running
<1>10. UseClear'
  BY <1>1 DEF DeviceTypeOK, UseClear, Harmless, Quiet, MayExecute
<1>11. QED
  BY <1>2, <1>3, <1>4, <1>5, <1>6, <1>7, <1>8, <1>9, <1>10

\* What was sent stays under the marker; the jobs of the call send no more.
LEMMA CrashCallInv ==
  ASSUME IInv, NEW p \in Proc, CrashCall(p)
  PROVE  IInv'
<1> USE DeviceAssumption DEF IInv, Shape
<1>1. /\ call[p] # "idle" /\ call' = [call EXCEPT ![p] = "idle"]
      /\ lease' = NoProc
      /\ call' = [call EXCEPT ![p] = "idle"]
      /\ job' = [j \in Job |-> IF job[j].home = p THEN [job[j] EXCEPT !.phase = "settled"] ELSE job[j]]
      /\ watch' = [x \in Proc \cup Job |->
                   IF x = p \/ (x \in Job /\ job[x].home = p) THEN NoWatch ELSE watch[x]]
      /\ UNCHANGED <<marker, provider, inflight>>
  BY DEF CrashCall, Leased, DeviceTypeOK
<1>2. /\ MarkerNames' /\ Registered'
  BY <1>1 DEF MarkerNames, Registered
<1>3. \A o \in Job : Harmless(o) => Harmless(o)'
  BY <1>1 DEF DeviceTypeOK, JobState, Harmless, Quiet, MayExecute
<1>4. DeviceTypeOK'
  BY <1>1, JobFields DEF DeviceTypeOK, Phases, NoWatch
<1>5. Leased'
  BY <1>1 DEF DeviceTypeOK, JobState, Leased
<1>6. Homes'
  BY <1>1 DEF DeviceTypeOK, JobState, Homes, Running
<1>7. OneUnstopped'
  BY <1>1 DEF DeviceTypeOK, JobState, OneUnstopped, Running
<1>8. MarkedUnstopped'
  BY <1>1 DEF DeviceTypeOK, JobState, MarkedUnstopped
<1>9. Unseen'
  BY <1>1 DEF DeviceTypeOK, JobState, Unseen, Unsent, NoWatch
<1>10. Unnamed'
  BY <1>1 DEF DeviceTypeOK, JobState, Unnamed
<1>11. MarkerTells'
  BY <1>1 DEF DeviceTypeOK, JobState, MarkerTells, Unsent, NoWatch
<1>12. WatchNames'
  BY <1>1 DEF DeviceTypeOK, JobState, WatchNames, NoWatch
<1>13. WatchCalls'
  BY <1>1 DEF DeviceTypeOK, JobState, WatchCalls, NoWatch
<1>14. WatchJobs'
  BY <1>1 DEF DeviceTypeOK, JobState, WatchJobs, Probing, NoWatch
<1>15. UseAnswered'
  BY <1>1 DEF DeviceTypeOK, JobState, UseAnswered, Answered, Running
<1>16. AdmitClear'
  BY <1>1, <1>3 DEF DeviceTypeOK, JobState, AdmitClear
<1>17. UseClear'
  BY <1>1, <1>3 DEF DeviceTypeOK, JobState, UseClear
<1>18. MarkerGuards'
  BY <1>1, <1>3 DEF DeviceTypeOK, JobState, MarkerGuards
<1>19. QED
  BY <1>2, <1>3, <1>4, <1>5, <1>6, <1>7, <1>8, <1>9, <1>10, <1>11, <1>12, <1>13, <1>14,
     <1>15, <1>16, <1>17, <1>18

-----------------------------------------------------------------------------
(* The job.                                                                *)

\* The other jobs of the call were stopped.
LEMMA StartJobInv ==
  ASSUME IInv, NEW p \in Proc, NEW j \in Job, StartJob(p, j)
  PROVE  IInv'
<1> USE DeviceAssumption DEF IInv, Shape
<1>1. /\ call[p] = "held" /\ Answered(p) /\ job[j] = NewJob
      /\ job' = [job EXCEPT ![j] = [NewJob EXCEPT !.home = p, !.phase = "probe"]]
      /\ UNCHANGED <<lease, marker, call, watch, provider, inflight>>
  BY DEF StartJob, DeviceTypeOK
<1>2. /\ Leased' /\ MarkerNames' /\ Registered' /\ WatchNames' /\ WatchCalls'
  BY <1>1 DEF Leased, MarkerNames, Registered, WatchNames, WatchCalls, NoWatch
<1>3. \A o \in Job : Harmless(o) => Harmless(o)'
  BY <1>1 DEF DeviceTypeOK, JobState, Harmless, Quiet, MayExecute
<1>4. DeviceTypeOK'
  BY <1>1, JobFields, NewJobType DEF DeviceTypeOK, Phases
<1>5. Homes'
  BY <1>1 DEF DeviceTypeOK, JobState, Homes, Running
<1>6. OneUnstopped'
  <2>1. \A k \in Job : Running(k) => job[k].stopped
    BY <1>1 DEF Homes, Leased, Answered
  <2>2. \A k \in Job \ {j} : job'[k] = job[k]
    BY <1>1
  <2>3. QED
    BY <1>1, <2>1, <2>2 DEF OneUnstopped, Running
<1>7. MarkedUnstopped'
  BY <1>1 DEF DeviceTypeOK, JobState, MarkedUnstopped
<1>8. Unseen'
  BY <1>1 DEF DeviceTypeOK, JobState, Unseen, Unsent, NewJob
<1>9. Unnamed'
  BY <1>1 DEF DeviceTypeOK, JobState, Unnamed, NewJob
<1>10. MarkerTells'
  BY <1>1 DEF DeviceTypeOK, JobState, MarkerTells, Unnamed, Unsent, NewJob
<1>11. WatchJobs'
  BY <1>1 DEF DeviceTypeOK, JobState, WatchJobs, Probing, NewJob
<1>12. UseAnswered'
  BY <1>1 DEF DeviceTypeOK, JobState, UseAnswered, Answered, Running
<1>13. AdmitClear'
  BY <1>1, <1>3 DEF DeviceTypeOK, JobState, AdmitClear
<1>14. UseClear'
  BY <1>1, <1>3 DEF DeviceTypeOK, JobState, UseClear
<1>15. MarkerGuards'
  BY <1>1, <1>3 DEF DeviceTypeOK, JobState, MarkerGuards
<1>16. QED
  BY <1>2, <1>3, <1>4, <1>5, <1>6, <1>7, <1>8, <1>9, <1>10, <1>11, <1>12, <1>13, <1>14,
     <1>15

\* A probe observes the operation the marker names.
LEMMA ProbeWatchesInv ==
  ASSUME IInv, NEW j \in Job, Probe(j), marker.active /\ marker.started
  PROVE  IInv'
<1> USE DeviceAssumption DEF IInv, Shape
<1>1. /\ job[j].phase = "probe" /\ watch[j] = NoWatch
      /\ marker.job \in Job /\ marker.started
      /\ watch' = [watch EXCEPT ![j] = [at |-> "status", on |-> marker.job]]
      /\ UNCHANGED <<lease, marker, call, job, provider, inflight>>
  BY DEF Probe, Watch, MarkerNames, DeviceTypeOK
<1>2. /\ Leased' /\ Homes' /\ OneUnstopped' /\ MarkedUnstopped' /\ Unnamed'
  BY <1>1 DEF Leased, Homes, OneUnstopped, MarkedUnstopped, Unnamed, Running
<1>3. /\ MarkerNames' /\ Registered' /\ UseAnswered'
  BY <1>1 DEF MarkerNames, Registered, UseAnswered, Answered, Running
<1>4. /\ AdmitClear' /\ UseClear' /\ MarkerGuards'
  BY <1>1 DEF AdmitClear, UseClear, MarkerGuards, Harmless, Quiet, MayExecute
<1>5. DeviceTypeOK'
  BY <1>1 DEF DeviceTypeOK, NoWatch
<1>6. Unseen'
  BY <1>1 DEF DeviceTypeOK, Unseen, Unsent, MarkerTells, NoWatch
<1>7. MarkerTells'
  BY <1>1 DEF DeviceTypeOK, MarkerTells, Unsent, NoWatch
<1>8. WatchNames'
  BY <1>1 DEF DeviceTypeOK, WatchNames, NoWatch
<1>9. WatchCalls'
  BY <1>1 DEF DeviceTypeOK, WatchCalls, NoWatch
<1>10. WatchJobs'
  BY <1>1 DEF DeviceTypeOK, WatchJobs, Probing, NoWatch
<1>11. QED
  BY <1>2, <1>3, <1>4, <1>5, <1>6, <1>7, <1>8, <1>9, <1>10

\* Without an active operation the new job is alone.
LEMMA ProbeAdmitsInv ==
  ASSUME IInv, NEW j \in Job, Probe(j), ~(marker.active /\ marker.started)
  PROVE  IInv'
<1> USE DeviceAssumption DEF IInv, Shape
<1>1. /\ job[j].phase = "probe" /\ watch[j] = NoWatch
      /\ job' = [job EXCEPT ![j].phase = "admit"]
      /\ UNCHANGED <<lease, marker, call, watch, provider, inflight>>
  BY DEF Probe, Phase, DeviceTypeOK
<1>2. /\ Leased' /\ MarkerNames' /\ Registered' /\ WatchNames' /\ WatchCalls'
  BY <1>1 DEF Leased, MarkerNames, Registered, WatchNames, WatchCalls, NoWatch
<1>3. \A o \in Job : Harmless(o) => Harmless(o)'
  BY <1>1 DEF DeviceTypeOK, JobState, Harmless, Quiet, MayExecute
<1>4. DeviceTypeOK'
  BY <1>1, JobFields DEF DeviceTypeOK, Phases
<1>5. Homes'
  BY <1>1 DEF DeviceTypeOK, JobState, Homes, Running
<1>6. OneUnstopped'
  BY <1>1 DEF DeviceTypeOK, JobState, OneUnstopped, Running
<1>7. MarkedUnstopped'
  BY <1>1 DEF DeviceTypeOK, JobState, MarkedUnstopped
<1>8. Unseen'
  BY <1>1 DEF DeviceTypeOK, JobState, Unseen, Unsent, NoWatch
<1>9. Unnamed'
  BY <1>1 DEF DeviceTypeOK, JobState, Unnamed
<1>10. MarkerTells'
  BY <1>1 DEF DeviceTypeOK, JobState, MarkerTells, Unsent, NoWatch
<1>11. WatchJobs'
  BY <1>1 DEF DeviceTypeOK, JobState, WatchJobs, Probing, NoWatch
<1>12. UseAnswered'
  BY <1>1 DEF DeviceTypeOK, JobState, UseAnswered, Answered, Running
<1>13. AdmitClear'
  <2>1. ASSUME ~job[j].stopped, NEW o \in Job, o # j PROVE Harmless(o)
    <3>1. CASE ~marker.active \/ marker.job # o
      BY <3>1 DEF MarkerGuards
    <3>2. CASE marker.job = o /\ ~marker.started
      <4>1. job[o].phase \in {"marked", "settled"} /\ Unsent(o)
        BY <3>2 DEF MarkerTells
      <4>2. ~MayExecute(o)
        BY <1>1, <2>1, <4>1 DEF OneUnstopped, Running, MayExecute
      <4>3. QED
        BY <4>1, <4>2 DEF Harmless, Quiet, Unsent
    <3>3. QED
      BY <3>1, <3>2
  <2>2. \A k \in Job \ {j} : job'[k] = job[k]
    BY <1>1
  <2>3. job'[j].stopped = job[j].stopped
    BY <1>1 DEF DeviceTypeOK, JobState
  <2>4. QED
    BY <1>3, <2>1, <2>2, <2>3 DEF AdmitClear
<1>14. UseClear'
  BY <1>1, <1>3 DEF DeviceTypeOK, JobState, UseClear
<1>15. MarkerGuards'
  BY <1>1, <1>3 DEF DeviceTypeOK, JobState, MarkerGuards
<1>16. QED
  BY <1>2, <1>3, <1>4, <1>5, <1>6, <1>7, <1>8, <1>9, <1>10, <1>11, <1>12, <1>13, <1>14,
     <1>15

\* The marker may name the new job: every other operation is harmless.
LEMMA AdmitInv ==
  ASSUME IInv, NEW j \in Job, Admit(j)
  PROVE  IInv'
<1> USE DeviceAssumption DEF IInv, Shape
<1>1. /\ job[j].phase = "admit" /\ ~job[j].stopped
      /\ marker' = [job |-> j, started |-> FALSE, active |-> TRUE]
      /\ job' = [job EXCEPT ![j].phase = "marked", ![j].own = "active"]
      /\ UNCHANGED <<lease, call, watch, provider, inflight>>
  BY DEF Admit, DeviceTypeOK
<1>2. /\ Leased' /\ Registered' /\ WatchNames'
  BY <1>1 DEF Leased, Registered, WatchNames, NoWatch
<1>3. \A o \in Job : o # j /\ Harmless(o) => Harmless(o)'
  BY <1>1 DEF DeviceTypeOK, JobState, Harmless, Quiet, MayExecute
<1>4. DeviceTypeOK'
  BY <1>1, JobFields DEF DeviceTypeOK, Phases
<1>5. Homes'
  BY <1>1 DEF DeviceTypeOK, JobState, Homes, Running
<1>6. OneUnstopped'
  BY <1>1 DEF DeviceTypeOK, JobState, OneUnstopped, Running
<1>7. MarkedUnstopped'
  BY <1>1 DEF DeviceTypeOK, JobState, MarkedUnstopped
<1>8. Unseen'
  BY <1>1 DEF DeviceTypeOK, JobState, Unseen, Unsent
<1>9. Unnamed'
  BY <1>1 DEF DeviceTypeOK, JobState, Unnamed
<1>10. MarkerTells'
  BY <1>1 DEF DeviceTypeOK, JobState, MarkerTells, Unseen, Unnamed, Unsent
<1>11. MarkerNames'
  BY <1>1 DEF DeviceTypeOK, JobState, MarkerNames
<1>12. WatchCalls'
  <2>1. \A p \in Proc : call[p] # "recover"
    BY <1>1 DEF Homes, Leased, Running
  <2>2. QED
    BY <1>1, <2>1 DEF WatchCalls
<1>13. WatchJobs'
  <2>1. watch[j].at = "no" /\ watch' = watch
    BY <1>1 DEF WatchJobs, Probing
  <2>2. \A k \in Job \ {j} : job'[k] = job[k]
    BY <1>1 DEF DeviceTypeOK
  <2>3. Running(j)
    BY <1>1 DEF Running
  <2>4. \A k \in Job \ {j} : Probing(k) => job[k].stopped
    BY <1>1, <2>3 DEF OneUnstopped, Running, Probing
  <2>5. QED
    BY <2>1, <2>2, <2>4 DEF WatchJobs, Probing
<1>14. UseAnswered'
  BY <1>1 DEF DeviceTypeOK, JobState, UseAnswered, Answered, Running
<1>15. AdmitClear'
  <2>1. \A k \in Job \ {j} : job'[k] = job[k]
    BY <1>1 DEF DeviceTypeOK
  <2>2. \A k \in Job \ {j} : job[k].phase = "admit" => job[k].stopped
    BY <1>1 DEF OneUnstopped, Running
  <2>3. job'[j].phase = "marked"
    BY <1>1 DEF DeviceTypeOK, JobState
  <2>4. QED
    BY <2>1, <2>2, <2>3 DEF AdmitClear
<1>16. UseClear'
  <2>1. \A p \in Proc : call[p] \notin {"generate", "answer"}
    BY <1>1 DEF Homes, Leased, UseAnswered, Answered, Running
  <2>2. QED
    BY <1>1, <2>1 DEF UseClear
<1>17. MarkerGuards'
  <2>1. \A o \in Job : o # j => Harmless(o)
    BY <1>1 DEF AdmitClear
  <2>2. QED
    BY <1>1, <1>3, <2>1 DEF MarkerGuards
<1>18. QED
  BY <1>2, <1>3, <1>4, <1>5, <1>6, <1>7, <1>8, <1>9, <1>10, <1>11, <1>12, <1>13, <1>14,
     <1>15, <1>16, <1>17

\* The registration is sent under the marker.
LEMMA DispatchInv ==
  ASSUME IInv, NEW j \in Job, Dispatch(j)
  PROVE  IInv'
<1> USE DeviceAssumption DEF IInv, Shape
<1>1. /\ job[j].phase = "marked" /\ ~job[j].stopped
      /\ marker' = [job |-> j, started |-> TRUE, active |-> TRUE]
      /\ job' = [job EXCEPT ![j].phase = "register"]
      /\ inflight' = inflight \cup {<<"register", j>>}
      /\ UNCHANGED <<lease, call, watch, provider>>
  BY DEF Dispatch, Phase, Send, MarkedUnstopped, DeviceTypeOK
<1>2. /\ Leased' /\ WatchNames'
  BY <1>1 DEF Leased, WatchNames, NoWatch
<1>3. \A o \in Job : Harmless(o) => Harmless(o)'
  BY <1>1 DEF DeviceTypeOK, JobState, Harmless, Quiet, MayExecute
<1>4. DeviceTypeOK'
  <2>1. <<"register", j>> \in {"register", "execute", "cancel"} \X Job
    OBVIOUS
  <2>2. job' \in [Job -> JobState]
    BY <1>1, JobFields DEF DeviceTypeOK, Phases
  <2>3. QED
    BY <1>1, <2>1, <2>2 DEF DeviceTypeOK
<1>5. Homes'
  BY <1>1 DEF DeviceTypeOK, JobState, Homes, Running
<1>6. OneUnstopped'
  BY <1>1 DEF DeviceTypeOK, JobState, OneUnstopped, Running
<1>7. MarkedUnstopped'
  BY <1>1 DEF DeviceTypeOK, JobState, MarkedUnstopped
<1>8. Unseen'
  BY <1>1 DEF DeviceTypeOK, JobState, Unseen, Unsent
<1>9. Unnamed'
  BY <1>1 DEF DeviceTypeOK, JobState, Unnamed
<1>10. MarkerTells'
  BY <1>1 DEF DeviceTypeOK, JobState, MarkerTells, Unseen, Unnamed, Unsent
<1>11. MarkerNames'
  BY <1>1 DEF DeviceTypeOK, JobState, MarkerNames
<1>12. Registered'
  BY <1>1 DEF DeviceTypeOK, JobState, Registered
<1>13. WatchCalls'
  <2>1. \A p \in Proc : call[p] # "recover"
    BY <1>1 DEF Homes, Leased, Running
  <2>2. QED
    BY <1>1, <2>1 DEF WatchCalls
<1>14. WatchJobs'
  <2>1. watch[j].at = "no" /\ watch' = watch
    BY <1>1 DEF WatchJobs, Probing
  <2>2. \A k \in Job \ {j} : job'[k] = job[k]
    BY <1>1 DEF DeviceTypeOK
  <2>3. Running(j)
    BY <1>1 DEF Running
  <2>4. \A k \in Job \ {j} : Probing(k) => job[k].stopped
    BY <1>1, <2>3 DEF OneUnstopped, Running, Probing
  <2>5. QED
    BY <2>1, <2>2, <2>4 DEF WatchJobs, Probing
<1>15. UseAnswered'
  BY <1>1 DEF DeviceTypeOK, JobState, UseAnswered, Answered, Running
<1>16. AdmitClear'
  BY <1>1, <1>3 DEF DeviceTypeOK, JobState, AdmitClear
<1>17. UseClear'
  <2>1. \A p \in Proc : call[p] \notin {"generate", "answer"}
    BY <1>1 DEF Homes, Leased, UseAnswered, Answered, Running
  <2>2. QED
    BY <1>1, <2>1 DEF UseClear
<1>18. MarkerGuards'
  <2>1. \A o \in Job : o # j => Harmless(o)
    <3>1. ~Harmless(j)
      BY <1>1 DEF Unseen, Unsent, Harmless, Quiet, MayExecute
    <3>2. QED
      BY <3>1 DEF MarkerGuards
  <2>2. QED
    BY <1>1, <1>3, <2>1 DEF MarkerGuards
<1>19. QED
  BY <1>2, <1>3, <1>4, <1>5, <1>6, <1>7, <1>8, <1>9, <1>10, <1>11, <1>12, <1>13, <1>14,
     <1>15, <1>16, <1>17, <1>18

\* The execution is sent under the marker, by a job that is not stopped.
LEMMA ExecuteInv ==
  ASSUME IInv, NEW j \in Job, Execute(j)
  PROVE  IInv'
<1> USE DeviceAssumption DEF IInv, Shape
<1>1. /\ job[j].phase = "register" /\ ~job[j].stopped /\ provider[j] # "unknown"
      /\ job' = [job EXCEPT ![j].phase = "read"]
      /\ inflight' = inflight \cup {<<"execute", j>>}
      /\ UNCHANGED <<lease, marker, call, watch, provider>>
  BY DEF Execute, Phase, Send, DeviceTypeOK
<1>2. /\ Leased' /\ MarkerNames' /\ WatchNames' /\ WatchCalls'
  BY <1>1 DEF Leased, MarkerNames, WatchNames, WatchCalls, NoWatch
<1>3. \A o \in Job : Harmless(o) => Harmless(o)'
  BY <1>1 DEF DeviceTypeOK, JobState, Harmless, Quiet, MayExecute
<1>4. DeviceTypeOK'
  <2>1. <<"execute", j>> \in {"register", "execute", "cancel"} \X Job
    OBVIOUS
  <2>2. job' \in [Job -> JobState]
    BY <1>1, JobFields DEF DeviceTypeOK, Phases
  <2>3. QED
    BY <1>1, <2>1, <2>2 DEF DeviceTypeOK
<1>5. Homes'
  BY <1>1 DEF DeviceTypeOK, JobState, Homes, Running
<1>6. OneUnstopped'
  BY <1>1 DEF DeviceTypeOK, JobState, OneUnstopped, Running
<1>7. MarkedUnstopped'
  BY <1>1 DEF DeviceTypeOK, JobState, MarkedUnstopped
<1>8. Unseen'
  BY <1>1 DEF DeviceTypeOK, JobState, Unseen, Unsent, NoWatch
<1>9. Unnamed'
  BY <1>1 DEF DeviceTypeOK, JobState, Unnamed
<1>10. MarkerTells'
  BY <1>1 DEF DeviceTypeOK, JobState, MarkerTells, Unsent, NoWatch
<1>11. Registered'
  BY <1>1 DEF DeviceTypeOK, JobState, Registered
<1>12. WatchJobs'
  BY <1>1 DEF DeviceTypeOK, JobState, WatchJobs, Probing, NoWatch
<1>13. UseAnswered'
  BY <1>1 DEF DeviceTypeOK, JobState, UseAnswered, Answered, Running
<1>14. AdmitClear'
  BY <1>1, <1>3 DEF DeviceTypeOK, JobState, AdmitClear
<1>15. UseClear'
  BY <1>1, <1>3 DEF DeviceTypeOK, JobState, UseClear
<1>16. MarkerGuards'
  BY <1>1, <1>3 DEF DeviceTypeOK, JobState, MarkerGuards
<1>17. QED
  BY <1>2, <1>3, <1>4, <1>5, <1>6, <1>7, <1>8, <1>9, <1>10, <1>11, <1>12, <1>13, <1>14,
     <1>15, <1>16

\* A job whose action is over sends no execution.
LEMMA EndActionInv ==
  ASSUME IInv, NEW j \in Job, EndAction(j)
  PROVE  IInv'
<1> USE DeviceAssumption DEF IInv, Shape
<1>1. /\ job[j].phase \in {"admit", "register", "read"}
      /\ job[j].phase = "admit" => job[j].stopped
      /\ job' = [job EXCEPT ![j].phase = "over", ![j].tried = FALSE]
      /\ UNCHANGED <<lease, marker, call, watch, provider, inflight>>
  BY DEF EndAction, Over, DeviceTypeOK
<1>2. /\ Leased' /\ MarkerNames' /\ Registered' /\ WatchNames' /\ WatchCalls'
  BY <1>1 DEF Leased, MarkerNames, Registered, WatchNames, WatchCalls, NoWatch
<1>3. \A o \in Job : Harmless(o) => Harmless(o)'
  BY <1>1 DEF DeviceTypeOK, JobState, Harmless, Quiet, MayExecute
<1>4. DeviceTypeOK'
  BY <1>1, JobFields DEF DeviceTypeOK, Phases
<1>5. Homes'
  BY <1>1 DEF DeviceTypeOK, JobState, Homes, Running
<1>6. OneUnstopped'
  BY <1>1 DEF DeviceTypeOK, JobState, OneUnstopped, Running
<1>7. MarkedUnstopped'
  BY <1>1 DEF DeviceTypeOK, JobState, MarkedUnstopped
<1>8. Unseen'
  BY <1>1 DEF DeviceTypeOK, JobState, Unseen, Unsent, NoWatch
<1>9. Unnamed'
  BY <1>1 DEF DeviceTypeOK, JobState, Unnamed
<1>10. MarkerTells'
  BY <1>1 DEF DeviceTypeOK, JobState, MarkerTells, Unsent, NoWatch
<1>11. WatchJobs'
  BY <1>1 DEF DeviceTypeOK, JobState, WatchJobs, Probing, NoWatch
<1>12. UseAnswered'
  BY <1>1 DEF DeviceTypeOK, JobState, UseAnswered, Answered, Running
<1>13. AdmitClear'
  BY <1>1, <1>3 DEF DeviceTypeOK, JobState, AdmitClear
<1>14. UseClear'
  BY <1>1, <1>3 DEF DeviceTypeOK, JobState, UseClear
<1>15. MarkerGuards'
  BY <1>1, <1>3 DEF DeviceTypeOK, JobState, MarkerGuards
<1>16. QED
  BY <1>2, <1>3, <1>4, <1>5, <1>6, <1>7, <1>8, <1>9, <1>10, <1>11, <1>12, <1>13, <1>14,
     <1>15

\* A job that is stopped sends none either.
LEMMA StopJobInv ==
  ASSUME IInv, NEW j \in Job, StopJob(j)
  PROVE  IInv'
<1> USE DeviceAssumption DEF IInv, Shape
<1>1. /\ job[j].phase \in {"probe", "admit", "register", "read"}
      /\ job' = [job EXCEPT ![j].stopped = TRUE]
      /\ inflight' = IF job[j].phase = "read" THEN inflight \cup {<<"cancel", j>>} ELSE inflight
      /\ UNCHANGED <<lease, marker, call, watch, provider>>
  BY DEF StopJob, Send, DeviceTypeOK
<1>2. /\ Leased' /\ MarkerNames' /\ WatchNames' /\ WatchCalls'
  BY <1>1 DEF Leased, MarkerNames, WatchNames, WatchCalls, NoWatch
<1>3. \A o \in Job : Harmless(o) => Harmless(o)'
  BY <1>1 DEF DeviceTypeOK, JobState, Harmless, Quiet, MayExecute
<1>4. DeviceTypeOK'
  <2>1. <<"cancel", j>> \in {"register", "execute", "cancel"} \X Job
    OBVIOUS
  <2>2. job' \in [Job -> JobState]
    BY <1>1, JobFields DEF DeviceTypeOK, Phases
  <2>3. QED
    BY <1>1, <2>1, <2>2 DEF DeviceTypeOK
<1>5. Homes'
  BY <1>1 DEF DeviceTypeOK, JobState, Homes, Running
<1>6. OneUnstopped'
  BY <1>1 DEF DeviceTypeOK, JobState, OneUnstopped, Running
<1>7. MarkedUnstopped'
  BY <1>1 DEF DeviceTypeOK, JobState, MarkedUnstopped
<1>8. Unseen'
  BY <1>1 DEF DeviceTypeOK, JobState, Unseen, Unsent, NoWatch
<1>9. Unnamed'
  BY <1>1 DEF DeviceTypeOK, JobState, Unnamed
<1>10. MarkerTells'
  BY <1>1 DEF DeviceTypeOK, JobState, MarkerTells, Unsent, NoWatch
<1>11. Registered'
  BY <1>1 DEF DeviceTypeOK, JobState, Registered
<1>12. WatchJobs'
  BY <1>1 DEF DeviceTypeOK, JobState, WatchJobs, Probing, NoWatch
<1>13. UseAnswered'
  BY <1>1 DEF DeviceTypeOK, JobState, UseAnswered, Answered, Running
<1>14. AdmitClear'
  BY <1>1, <1>3 DEF DeviceTypeOK, JobState, AdmitClear
<1>15. UseClear'
  BY <1>1, <1>3 DEF DeviceTypeOK, JobState, UseClear
<1>16. MarkerGuards'
  BY <1>1, <1>3 DEF DeviceTypeOK, JobState, MarkerGuards
<1>17. QED
  BY <1>2, <1>3, <1>4, <1>5, <1>6, <1>7, <1>8, <1>9, <1>10, <1>11, <1>12, <1>13, <1>14,
     <1>15, <1>16

\* A cleanup observes its own operation.
LEMMA CleanupInv ==
  ASSUME IInv, NEW j \in Job, Cleanup(j)
  PROVE  IInv'
<1> USE DeviceAssumption DEF IInv, Shape
<1>1. /\ job[j].phase \in {"register", "read", "over"} /\ (job[j].stopped \/ job[j].phase = "over")
      /\ watch[j] = NoWatch
      /\ watch' = [watch EXCEPT ![j] = [at |-> "status", on |-> j]]
      /\ UNCHANGED <<lease, marker, call, job, provider, inflight>>
  BY DEF Cleanup, Watch, Running, Unnamed, MarkedUnstopped, JobState, DeviceTypeOK
<1>2. /\ Leased' /\ Homes' /\ OneUnstopped' /\ MarkedUnstopped' /\ Unnamed'
  BY <1>1 DEF Leased, Homes, OneUnstopped, MarkedUnstopped, Unnamed, Running
<1>3. /\ MarkerNames' /\ Registered' /\ UseAnswered'
  BY <1>1 DEF MarkerNames, Registered, UseAnswered, Answered, Running
<1>4. /\ AdmitClear' /\ UseClear' /\ MarkerGuards'
  BY <1>1 DEF AdmitClear, UseClear, MarkerGuards, Harmless, Quiet, MayExecute
<1>5. DeviceTypeOK'
  BY <1>1 DEF DeviceTypeOK, NoWatch
<1>6. Unseen'
  BY <1>1 DEF DeviceTypeOK, Unseen, Unsent
<1>7. MarkerTells'
  BY <1>1 DEF DeviceTypeOK, MarkerTells, Unsent
<1>8. WatchNames'
  BY <1>1 DEF DeviceTypeOK, WatchNames, NoWatch
<1>9. WatchCalls'
  BY <1>1 DEF DeviceTypeOK, WatchCalls, NoWatch
<1>10. WatchJobs'
  BY <1>1 DEF DeviceTypeOK, WatchJobs, Probing, NoWatch
<1>11. QED
  BY <1>2, <1>3, <1>4, <1>5, <1>6, <1>7, <1>8, <1>9, <1>10

\* A job that settles leaves its operation under the marker.
LEMMA SettleInv ==
  ASSUME IInv, NEW j \in Job, Settle(j)
  PROVE  IInv'
<1> USE DeviceAssumption DEF IInv, Shape
<1>1. /\ job[j].phase = "over" /\ watch[j] = NoWatch
      /\ job' = [job EXCEPT ![j].phase = "settled"]
      /\ UNCHANGED <<lease, marker, call, watch, provider, inflight>>
  BY DEF Settle, Phase, DeviceTypeOK
<1>2. /\ Leased' /\ MarkerNames' /\ Registered' /\ WatchNames' /\ WatchCalls'
  BY <1>1 DEF Leased, MarkerNames, Registered, WatchNames, WatchCalls, NoWatch
<1>3. \A o \in Job : Harmless(o) => Harmless(o)'
  BY <1>1 DEF DeviceTypeOK, JobState, Harmless, Quiet, MayExecute
<1>4. DeviceTypeOK'
  BY <1>1, JobFields DEF DeviceTypeOK, Phases
<1>5. Homes'
  BY <1>1 DEF DeviceTypeOK, JobState, Homes, Running
<1>6. OneUnstopped'
  BY <1>1 DEF DeviceTypeOK, JobState, OneUnstopped, Running
<1>7. MarkedUnstopped'
  BY <1>1 DEF DeviceTypeOK, JobState, MarkedUnstopped
<1>8. Unseen'
  BY <1>1 DEF DeviceTypeOK, JobState, Unseen, Unsent, NoWatch
<1>9. Unnamed'
  BY <1>1 DEF DeviceTypeOK, JobState, Unnamed
<1>10. MarkerTells'
  BY <1>1 DEF DeviceTypeOK, JobState, MarkerTells, Unsent, NoWatch
<1>11. WatchJobs'
  BY <1>1 DEF DeviceTypeOK, JobState, WatchJobs, Probing, NoWatch
<1>12. UseAnswered'
  BY <1>1 DEF DeviceTypeOK, JobState, UseAnswered, Answered, Running
<1>13. AdmitClear'
  BY <1>1, <1>3 DEF DeviceTypeOK, JobState, AdmitClear
<1>14. UseClear'
  BY <1>1, <1>3 DEF DeviceTypeOK, JobState, UseClear
<1>15. MarkerGuards'
  BY <1>1, <1>3 DEF DeviceTypeOK, JobState, MarkerGuards
<1>16. QED
  BY <1>2, <1>3, <1>4, <1>5, <1>6, <1>7, <1>8, <1>9, <1>10, <1>11, <1>12, <1>13, <1>14,
     <1>15

-----------------------------------------------------------------------------
(* The provider.                                                           *)

\* An operation that finished is harmless.
LEMMA FinishInv ==
  ASSUME IInv, NEW j \in Job, Finish(j)
  PROVE  IInv'
<1> USE DeviceAssumption DEF IInv, Shape
<1>1. /\ provider[j] = "claimed"
      /\ provider' = [provider EXCEPT ![j] = "finished"]
      /\ UNCHANGED <<lease, marker, call, job, watch, inflight>>
  BY DEF Finish, DeviceTypeOK
<1>2. /\ Leased' /\ Homes' /\ OneUnstopped' /\ MarkedUnstopped' /\ Unnamed'
  BY <1>1 DEF Leased, Homes, OneUnstopped, MarkedUnstopped, Unnamed, Running
<1>3. /\ MarkerNames' /\ WatchNames' /\ WatchCalls' /\ WatchJobs' /\ UseAnswered'
  BY <1>1 DEF MarkerNames, WatchNames, WatchCalls, WatchJobs, UseAnswered, NoWatch, Probing,
          Answered, Running
<1>4. \A o \in Job : Harmless(o) => Harmless(o)'
  BY <1>1 DEF DeviceTypeOK, JobState, Harmless, Quiet, MayExecute
<1>5. DeviceTypeOK'
  BY <1>1 DEF DeviceTypeOK
<1>6. Unseen'
  BY <1>1 DEF DeviceTypeOK, Unseen, Unsent, NoWatch
<1>7. MarkerTells'
  BY <1>1 DEF DeviceTypeOK, MarkerTells, Unsent, NoWatch
<1>8. Registered'
  BY <1>1 DEF DeviceTypeOK, Registered
<1>9. AdmitClear'
  BY <1>1, <1>4 DEF DeviceTypeOK, JobState, AdmitClear
<1>10. UseClear'
  BY <1>1, <1>4 DEF DeviceTypeOK, JobState, UseClear
<1>11. MarkerGuards'
  BY <1>1, <1>4 DEF DeviceTypeOK, JobState, MarkerGuards
<1>12. QED
  BY <1>2, <1>3, <1>4, <1>5, <1>6, <1>7, <1>8, <1>9, <1>10, <1>11

\* A registration makes nothing harmful.
LEMMA DeliverRegisterInv ==
  ASSUME IInv, NEW j \in Job, Deliver("register", j)
  PROVE  IInv'
<1> USE DeviceAssumption DEF IInv, Shape
<1>1. /\ <<"register", j>> \in inflight
      /\ inflight' = inflight \ {<<"register", j>>}
      /\ provider' = [provider EXCEPT ![j] = IF @ = "unknown" THEN "registered" ELSE @]
      /\ UNCHANGED <<lease, marker, call, job, watch>>
  BY DEF Deliver, DeviceTypeOK
<1>2. /\ Leased' /\ Homes' /\ OneUnstopped' /\ MarkedUnstopped' /\ Unnamed'
  BY <1>1 DEF Leased, Homes, OneUnstopped, MarkedUnstopped, Unnamed, Running
<1>3. /\ MarkerNames' /\ WatchNames' /\ WatchCalls' /\ WatchJobs' /\ UseAnswered'
  BY <1>1 DEF MarkerNames, WatchNames, WatchCalls, WatchJobs, UseAnswered, NoWatch, Probing,
          Answered, Running
<1>4. \A o \in Job : Harmless(o) => Harmless(o)'
  BY <1>1 DEF DeviceTypeOK, JobState, Harmless, Quiet, MayExecute
<1>5. DeviceTypeOK'
  BY <1>1 DEF DeviceTypeOK
<1>6. Unseen'
  BY <1>1 DEF DeviceTypeOK, Unseen, Unsent, NoWatch
<1>7. MarkerTells'
  BY <1>1 DEF DeviceTypeOK, MarkerTells, Unsent, NoWatch
<1>8. Registered'
  BY <1>1 DEF DeviceTypeOK, Registered
<1>9. AdmitClear'
  BY <1>1, <1>4 DEF DeviceTypeOK, JobState, AdmitClear
<1>10. UseClear'
  BY <1>1, <1>4 DEF DeviceTypeOK, JobState, UseClear
<1>11. MarkerGuards'
  BY <1>1, <1>4 DEF DeviceTypeOK, JobState, MarkerGuards
<1>12. QED
  BY <1>2, <1>3, <1>4, <1>5, <1>6, <1>7, <1>8, <1>9, <1>10, <1>11

\* Only the operation the marker names can be claimed.
LEMMA DeliverExecuteInv ==
  ASSUME IInv, NEW j \in Job, Deliver("execute", j)
  PROVE  IInv'
<1> USE DeviceAssumption DEF IInv, Shape
<1>1. /\ <<"execute", j>> \in inflight
      /\ inflight' = inflight \ {<<"execute", j>>}
      /\ provider' = [provider EXCEPT ![j] = IF @ = "registered" THEN "claimed" ELSE @]
      /\ UNCHANGED <<lease, marker, call, job, watch>>
  BY DEF Deliver, DeviceTypeOK
<1>2. /\ Leased' /\ Homes' /\ OneUnstopped' /\ MarkedUnstopped' /\ Unnamed'
  BY <1>1 DEF Leased, Homes, OneUnstopped, MarkedUnstopped, Unnamed, Running
<1>3. /\ MarkerNames' /\ WatchNames' /\ WatchCalls' /\ WatchJobs' /\ UseAnswered'
  BY <1>1 DEF MarkerNames, WatchNames, WatchCalls, WatchJobs, UseAnswered, NoWatch, Probing,
          Answered, Running
<1>4. \A o \in Job : Harmless(o) => Harmless(o)'
  BY <1>1 DEF DeviceTypeOK, JobState, Harmless, Quiet, MayExecute
<1>5. DeviceTypeOK'
  BY <1>1 DEF DeviceTypeOK
<1>6. Unseen'
  BY <1>1 DEF DeviceTypeOK, Unseen, Unsent, NoWatch
<1>7. MarkerTells'
  BY <1>1 DEF DeviceTypeOK, MarkerTells, Unsent, NoWatch
<1>8. Registered'
  BY <1>1 DEF DeviceTypeOK, Registered
<1>9. AdmitClear'
  BY <1>1, <1>4 DEF DeviceTypeOK, JobState, AdmitClear
<1>10. UseClear'
  BY <1>1, <1>4 DEF DeviceTypeOK, JobState, UseClear
<1>11. MarkerGuards'
  BY <1>1, <1>4 DEF DeviceTypeOK, JobState, MarkerGuards
<1>12. QED
  BY <1>2, <1>3, <1>4, <1>5, <1>6, <1>7, <1>8, <1>9, <1>10, <1>11

\* A late cancel only withdraws.
LEMMA DeliverCancelInv ==
  ASSUME IInv, NEW j \in Job, Deliver("cancel", j)
  PROVE  IInv'
<1> USE DeviceAssumption DEF IInv, Shape
<1>1. /\ <<"cancel", j>> \in inflight
      /\ inflight' = inflight \ {<<"cancel", j>>}
      /\ provider' = provider \/ (provider[j] \in {"unknown", "registered"}
                                 /\ provider' = [provider EXCEPT ![j] = "withdrawn"])
      /\ UNCHANGED <<lease, marker, call, job, watch>>
  BY DEF Deliver, Cancelled, DeviceTypeOK
<1>2. /\ Leased' /\ Homes' /\ OneUnstopped' /\ MarkedUnstopped' /\ Unnamed'
  BY <1>1 DEF Leased, Homes, OneUnstopped, MarkedUnstopped, Unnamed, Running
<1>3. /\ MarkerNames' /\ WatchNames' /\ WatchCalls' /\ WatchJobs' /\ UseAnswered'
  BY <1>1 DEF MarkerNames, WatchNames, WatchCalls, WatchJobs, UseAnswered, NoWatch, Probing,
          Answered, Running
<1>4. \A o \in Job : Harmless(o) => Harmless(o)'
  BY <1>1 DEF DeviceTypeOK, JobState, Harmless, Quiet, MayExecute
<1>5. DeviceTypeOK'
  BY <1>1 DEF DeviceTypeOK
<1>6. Unseen'
  BY <1>1 DEF DeviceTypeOK, Unseen, Unsent, NoWatch
<1>7. MarkerTells'
  BY <1>1 DEF DeviceTypeOK, MarkerTells, Unsent, NoWatch
<1>8. Registered'
  BY <1>1 DEF DeviceTypeOK, Registered
<1>9. AdmitClear'
  BY <1>1, <1>4 DEF DeviceTypeOK, JobState, AdmitClear
<1>10. UseClear'
  BY <1>1, <1>4 DEF DeviceTypeOK, JobState, UseClear
<1>11. MarkerGuards'
  BY <1>1, <1>4 DEF DeviceTypeOK, JobState, MarkerGuards
<1>12. QED
  BY <1>2, <1>3, <1>4, <1>5, <1>6, <1>7, <1>8, <1>9, <1>10, <1>11

-----------------------------------------------------------------------------
(* observeOwned.                                                           *)

\* A cancel withdraws what was not claimed.
Withdrawn(o) ==
  \/ provider' = provider
  \/ /\ provider[o] \in {"unknown", "registered"}
     /\ provider' = [provider EXCEPT ![o] = "withdrawn"]

\* An answer that proves the operation harmless.
Proof(x) ==
  /\ Proved(x) /\ Withdrawn(watch[x].on) /\ UNCHANGED inflight
  /\ provider'[watch[x].on] \in {"unknown", "finished", "withdrawn"}

NoProof(x) ==
  /\ NotProved(x) /\ UNCHANGED provider
  /\ inflight' \in {inflight, inflight \cup {<<"cancel", watch[x].on>>}}

\* An observation ends with a proof or without one, or goes on to the cancel.
LEMMA AskCases ==
  ASSUME IInv, NEW x \in Proc \cup Job, WatchStep(x)
  PROVE  /\ watch[x].at # "no" /\ watch[x].on \in Job
         /\ \/ Proof(x) \/ NoProof(x)
            \/ /\ watch' = [watch EXCEPT ![x].at = "cancel"]
               /\ UNCHANGED <<lease, marker, call, job, provider, inflight>>
<1> USE DeviceAssumption DEF IInv, Shape
<1>1. watch[x].at # "no" /\ watch[x].on \in Job
  BY DEF WatchStep, AskStatus, AskCancel, AskFails, WatchNames, DeviceTypeOK
<1>2. CASE AskStatus(x)
  BY <1>1, <1>2 DEF AskStatus, Proof, NoProof, Withdrawn
<1>3. CASE AskCancel(x)
  <2>1. Cancelled(watch[x].on) /\ UNCHANGED inflight
    BY <1>3 DEF AskCancel
  <2>2. CASE provider[watch[x].on] = "claimed"
    BY <1>1, <1>3, <2>1, <2>2 DEF AskCancel, NoProof, Cancelled
  <2>3. CASE provider[watch[x].on] # "claimed"
    <3>1. /\ Withdrawn(watch[x].on)
          /\ provider'[watch[x].on] \in {"unknown", "finished", "withdrawn"}
      BY <1>1, <2>1, <2>3 DEF Withdrawn, Cancelled, DeviceTypeOK
    <3>2. QED
      BY <1>1, <1>3, <2>1, <2>3, <3>1 DEF AskCancel, Proof
  <2>4. QED
    BY <2>2, <2>3
<1>4. CASE AskFails(x)
  BY <1>1, <1>4 DEF AskFails, NoProof, Send
<1>5. QED
  BY <1>1, <1>2, <1>3, <1>4 DEF WatchStep

\* It goes on.
LEMMA AskMoreInv ==
  ASSUME IInv, NEW x \in Proc \cup Job, watch[x].at # "no" /\ watch[x].on \in Job,
         watch' = [watch EXCEPT ![x].at = "cancel"],
         UNCHANGED <<lease, marker, call, job, provider, inflight>>
  PROVE  IInv'
<1> USE DeviceAssumption DEF IInv, Shape
<1>1. /\ watch[x].at # "no" /\ watch[x].on \in Job
      /\ watch' = [watch EXCEPT ![x].at = "cancel"]
      /\ UNCHANGED <<lease, marker, call, job, provider, inflight>>
  BY DEF DeviceTypeOK
<1>2. /\ Leased' /\ Homes' /\ OneUnstopped' /\ MarkedUnstopped' /\ Unnamed'
  BY <1>1 DEF Leased, Homes, OneUnstopped, MarkedUnstopped, Unnamed, Running
<1>3. /\ MarkerNames' /\ Registered' /\ UseAnswered'
  BY <1>1 DEF MarkerNames, Registered, UseAnswered, Answered, Running
<1>4. /\ AdmitClear' /\ UseClear' /\ MarkerGuards'
  BY <1>1 DEF AdmitClear, UseClear, MarkerGuards, Harmless, Quiet, MayExecute
<1>5. DeviceTypeOK'
  BY <1>1 DEF DeviceTypeOK, NoWatch
<1>6. Unseen'
  BY <1>1 DEF DeviceTypeOK, Unseen, Unsent, NoWatch
<1>7. MarkerTells'
  BY <1>1 DEF DeviceTypeOK, MarkerTells, Unsent, NoWatch
<1>8. WatchNames'
  BY <1>1 DEF DeviceTypeOK, WatchNames, NoWatch
<1>9. WatchCalls'
  BY <1>1 DEF DeviceTypeOK, WatchCalls, NoWatch
<1>10. WatchJobs'
  BY <1>1 DEF DeviceTypeOK, WatchJobs, Probing, NoWatch
<1>11. QED
  BY <1>2, <1>3, <1>4, <1>5, <1>6, <1>7, <1>8, <1>9, <1>10

\* A proof for a recovery: the operation is harmless, and its marker cleared.
LEMMA ProvedCallInv ==
  ASSUME IInv, NEW x \in Proc \cup Job, watch[x].at # "no" /\ watch[x].on \in Job,
         x \in Proc, Proof(x)
  PROVE  IInv'
<1> USE DeviceAssumption DEF IInv, Shape
<1>1. /\ watch[x].at # "no" /\ watch[x].on \in Job
      /\ call[x] = "recover" /\ watch[x].on = marker.job
      /\ watch' = [watch EXCEPT ![x] = NoWatch]
      /\ marker' = [marker EXCEPT !.active = FALSE]
      /\ call' = [call EXCEPT ![x] = "held"]
      /\ Withdrawn(watch[x].on) /\ provider'[watch[x].on] \in {"unknown", "finished", "withdrawn"}
      /\ UNCHANGED <<lease, job, inflight>>
  BY DEF Proof, Proved, Cleared, WatchCalls, DeviceTypeOK
<1>2. /\ OneUnstopped' /\ MarkedUnstopped'
  BY <1>1 DEF OneUnstopped, MarkedUnstopped, Running
<1>3. \A o \in Job : Harmless(o) => Harmless(o)'
  BY <1>1 DEF DeviceTypeOK, JobState, Withdrawn, Harmless, Quiet, MayExecute
<1>4. DeviceTypeOK'
  <2>1. marker' \in [job : Job \cup {NoJob}, started : BOOLEAN, active : BOOLEAN]
    BY <1>1 DEF DeviceTypeOK
  <2>2. QED
    BY <1>1, <2>1 DEF DeviceTypeOK, NoWatch, Withdrawn
<1>5. Leased'
  BY <1>1 DEF DeviceTypeOK, Leased
<1>6. Homes'
  BY <1>1 DEF DeviceTypeOK, Homes, Running
<1>7. Unseen'
  BY <1>1 DEF DeviceTypeOK, JobState, Unseen, Withdrawn, Unsent, NoWatch
<1>8. Unnamed'
  BY <1>1 DEF DeviceTypeOK, Unnamed
<1>9. MarkerTells'
  BY <1>1 DEF DeviceTypeOK, JobState, MarkerTells, Withdrawn, Unsent, NoWatch
<1>10. MarkerNames'
  BY <1>1 DEF DeviceTypeOK, MarkerNames
<1>11. Registered'
  BY <1>1 DEF DeviceTypeOK, JobState, Registered, Withdrawn
<1>12. WatchNames'
  BY <1>1 DEF DeviceTypeOK, WatchNames, NoWatch
<1>13. WatchCalls'
  BY <1>1 DEF DeviceTypeOK, WatchCalls, NoWatch
<1>14. WatchJobs'
  BY <1>1 DEF DeviceTypeOK, WatchJobs, Probing, NoWatch
<1>15. UseAnswered'
  BY <1>1 DEF DeviceTypeOK, UseAnswered, Answered, Running
<1>16. AdmitClear'
  BY <1>1, <1>3 DEF DeviceTypeOK, JobState, AdmitClear
<1>17. UseClear'
  BY <1>1, <1>3 DEF DeviceTypeOK, JobState, UseClear
<1>18. MarkerGuards'
  <2>1. \A j \in Job : ~Running(j)
    BY <1>1 DEF Leased, Homes, DeviceTypeOK
  <2>2. \A o \in Job : o = watch[x].on => Harmless(o)'
    BY <1>1, <2>1 DEF Harmless, Quiet, MayExecute, Running, Registered, Withdrawn, DeviceTypeOK
  <2>3. QED
    BY <1>1, <1>3, <2>2 DEF MarkerGuards
<1>19. QED
  BY <1>2, <1>3, <1>4, <1>5, <1>6, <1>7, <1>8, <1>9, <1>10, <1>11, <1>12, <1>13, <1>14,
     <1>15, <1>16, <1>17, <1>18

\* A proof for a probe: the previous operation is harmless, and the job admitted.
LEMMA ProvedProbeInv ==
  ASSUME IInv, NEW x \in Proc \cup Job, watch[x].at # "no" /\ watch[x].on \in Job,
         x \in Job, Probing(x), Proof(x)
  PROVE  IInv'
<1> USE DeviceAssumption DEF IInv, Shape
<1>1. /\ watch[x].at # "no" /\ watch[x].on \in Job
      /\ x \in Job /\ job[x].phase = "probe"
      /\ watch' = [watch EXCEPT ![x] = NoWatch]
      /\ job' = [job EXCEPT ![x].phase = "admit"]
      /\ Withdrawn(watch[x].on) /\ provider'[watch[x].on] \in {"unknown", "finished", "withdrawn"}
      /\ UNCHANGED <<lease, marker, call, inflight>>
  BY DEF Proof, Proved, Probing, Phase, DeviceTypeOK
<1>2. /\ Leased' /\ MarkerNames'
  BY <1>1 DEF Leased, MarkerNames
<1>3. \A o \in Job : Harmless(o) => Harmless(o)'
  BY <1>1 DEF DeviceTypeOK, JobState, Withdrawn, Harmless, Quiet, MayExecute
<1>4. DeviceTypeOK'
  <2>1. job' \in [Job -> JobState]
    BY <1>1, JobFields DEF DeviceTypeOK, Phases
  <2>2. QED
    BY <1>1, <2>1 DEF DeviceTypeOK, NoWatch, Withdrawn
<1>5. Homes'
  BY <1>1 DEF DeviceTypeOK, JobState, Homes, Running
<1>6. OneUnstopped'
  BY <1>1 DEF DeviceTypeOK, JobState, OneUnstopped, Running
<1>7. MarkedUnstopped'
  BY <1>1 DEF DeviceTypeOK, JobState, MarkedUnstopped
<1>8. Unseen'
  BY <1>1 DEF DeviceTypeOK, JobState, Unseen, Withdrawn, Unsent, NoWatch
<1>9. Unnamed'
  BY <1>1 DEF DeviceTypeOK, JobState, Unnamed
<1>10. MarkerTells'
  BY <1>1 DEF DeviceTypeOK, JobState, MarkerTells, Withdrawn, Unsent, NoWatch
<1>11. Registered'
  BY <1>1 DEF DeviceTypeOK, JobState, Registered, Withdrawn
<1>12. WatchNames'
  BY <1>1 DEF DeviceTypeOK, JobState, WatchNames, NoWatch
<1>13. WatchCalls'
  BY <1>1 DEF DeviceTypeOK, JobState, WatchCalls, NoWatch
<1>14. WatchJobs'
  BY <1>1 DEF DeviceTypeOK, JobState, WatchJobs, Probing, NoWatch
<1>15. UseAnswered'
  BY <1>1 DEF DeviceTypeOK, JobState, UseAnswered, Answered, Running
<1>16. AdmitClear'
  <2>1. \A k \in Job \ {x} : job'[k] = job[k]
    BY <1>1
  <2>2. job'[x].stopped = job[x].stopped /\ Running(x)
    BY <1>1 DEF DeviceTypeOK, JobState, Running
  <2>3. ASSUME ~job[x].stopped PROVE \A o \in Job : o # x => Harmless(o)'
    <3>1. watch[x].on = marker.job
      BY <1>1, <2>3 DEF WatchJobs, Probing
    <3>2. \A o \in Job : o # marker.job => Harmless(o)
      BY DEF MarkerGuards
    <3>3. ~MayExecute(watch[x].on) \/ watch[x].on = x
      BY <1>1, <2>2, <2>3 DEF MayExecute, OneUnstopped, Running
    <3>4. \A o \in Job : o = watch[x].on /\ o # x => Harmless(o)'
      BY <1>1, <2>1, <3>3 DEF Harmless, Quiet, MayExecute, Registered, Withdrawn, DeviceTypeOK
    <3>5. QED
      BY <1>3, <3>1, <3>2, <3>4
  <2>4. QED
    BY <1>3, <2>1, <2>2, <2>3 DEF AdmitClear
<1>17. UseClear'
  BY <1>1, <1>3 DEF DeviceTypeOK, JobState, UseClear
<1>18. MarkerGuards'
  BY <1>1, <1>3 DEF DeviceTypeOK, JobState, MarkerGuards
<1>19. QED
  BY <1>2, <1>3, <1>4, <1>5, <1>6, <1>7, <1>8, <1>9, <1>10, <1>11, <1>12, <1>13, <1>14,
     <1>15, <1>16, <1>17, <1>18

\* A proof for a cleanup: the marker is cleared if it still names the job.
LEMMA ProvedCleanupInv ==
  ASSUME IInv, NEW x \in Proc \cup Job, watch[x].at # "no" /\ watch[x].on \in Job,
         x \in Job, ~Probing(x), Proof(x)
  PROVE  IInv'
<1> USE DeviceAssumption DEF IInv, Shape
<1>1. /\ watch[x].at # "no" /\ watch[x].on \in Job
      /\ x \in Job /\ watch[x].on = x /\ job[x].phase \in {"register", "read", "over"}
      /\ job[x].stopped \/ job[x].phase = "over"
      /\ watch' = [watch EXCEPT ![x] = NoWatch]
      /\ marker' = Cleared(x)
      /\ job' = [job EXCEPT ![x].own = "finished"]
      /\ Withdrawn(x) /\ provider'[x] \in {"unknown", "finished", "withdrawn"}
      /\ UNCHANGED <<lease, call, inflight>>
  BY DEF Proof, Proved, WatchJobs, DeviceTypeOK
<1>2. Leased'
  BY <1>1 DEF Leased
<1>3. \A o \in Job : Harmless(o) => Harmless(o)'
  BY <1>1 DEF DeviceTypeOK, JobState, Withdrawn, Harmless, Quiet, MayExecute
<1>4. DeviceTypeOK'
  <2>1. job' \in [Job -> JobState]
    BY <1>1, JobFields DEF DeviceTypeOK, Phases
  <2>2. marker' \in [job : Job \cup {NoJob}, started : BOOLEAN, active : BOOLEAN]
    BY <1>1 DEF DeviceTypeOK, Cleared
  <2>3. QED
    BY <1>1, <2>1, <2>2 DEF DeviceTypeOK, NoWatch, Withdrawn
<1>5. Homes'
  BY <1>1 DEF DeviceTypeOK, JobState, Homes, Running
<1>6. OneUnstopped'
  BY <1>1 DEF DeviceTypeOK, JobState, OneUnstopped, Running
<1>7. MarkedUnstopped'
  BY <1>1 DEF DeviceTypeOK, JobState, MarkedUnstopped
<1>8. Unseen'
  BY <1>1 DEF DeviceTypeOK, JobState, Unseen, Unsent, Withdrawn, NoWatch, Cleared
<1>9. Unnamed'
  BY <1>1 DEF DeviceTypeOK, JobState, Unnamed, Cleared
<1>10. MarkerTells'
  BY <1>1 DEF DeviceTypeOK, JobState, MarkerTells, Unsent, Withdrawn, NoWatch, Cleared
<1>11. MarkerNames'
  BY <1>1 DEF DeviceTypeOK, MarkerNames, Cleared
<1>12. Registered'
  BY <1>1 DEF DeviceTypeOK, JobState, Registered, Withdrawn
<1>13. WatchNames'
  BY <1>1 DEF DeviceTypeOK, JobState, WatchNames, NoWatch
<1>14. WatchCalls'
  BY <1>1 DEF DeviceTypeOK, WatchCalls, NoWatch, Cleared
<1>15. WatchJobs'
  BY <1>1 DEF DeviceTypeOK, JobState, WatchJobs, Probing, NoWatch, Cleared
<1>16. UseAnswered'
  BY <1>1 DEF DeviceTypeOK, JobState, UseAnswered, Answered, Running
<1>17. AdmitClear'
  BY <1>1, <1>3 DEF DeviceTypeOK, JobState, AdmitClear
<1>18. UseClear'
  BY <1>1, <1>3 DEF DeviceTypeOK, JobState, UseClear
<1>19. MarkerGuards'
  <2>1. Harmless(x)'
    BY <1>1 DEF Harmless, Quiet, MayExecute, Registered, Withdrawn, DeviceTypeOK, JobState
  <2>2. QED
    BY <1>1, <1>3, <2>1 DEF MarkerGuards, Cleared, DeviceTypeOK
<1>20. QED
  BY <1>2, <1>3, <1>4, <1>5, <1>6, <1>7, <1>8, <1>9, <1>10, <1>11, <1>12, <1>13, <1>14,
     <1>15, <1>16, <1>17, <1>18, <1>19

\* No proof for a recovery: the call ends, the marker stays.
LEMMA NoProofCallInv ==
  ASSUME IInv, NEW x \in Proc \cup Job, watch[x].at # "no" /\ watch[x].on \in Job,
         x \in Proc, NoProof(x)
  PROVE  IInv'
<1> USE DeviceAssumption DEF IInv, Shape
<1>1. /\ watch[x].at # "no" /\ watch[x].on \in Job
      /\ call[x] = "recover"
      /\ watch' = [watch EXCEPT ![x] = NoWatch]
      /\ call' = [call EXCEPT ![x] = "idle"]
      /\ lease' = NoProc
      /\ inflight' \in {inflight, inflight \cup {<<"cancel", watch[x].on>>}}
      /\ UNCHANGED <<marker, job, provider>>
  BY DEF NoProof, NotProved, WatchCalls, DeviceTypeOK
<1>2. /\ OneUnstopped' /\ MarkedUnstopped' /\ Unnamed' /\ MarkerNames'
  BY <1>1 DEF OneUnstopped, MarkedUnstopped, Unnamed, MarkerNames, Running
<1>3. \A o \in Job : Harmless(o) => Harmless(o)'
  BY <1>1 DEF DeviceTypeOK, JobState, Harmless, Quiet, MayExecute
<1>4. DeviceTypeOK'
  <2>1. <<"cancel", watch[x].on>> \in {"register", "execute", "cancel"} \X Job
    BY <1>1
  <2>2. QED
    BY <1>1, <2>1 DEF DeviceTypeOK, NoWatch
<1>5. Leased'
  BY <1>1 DEF DeviceTypeOK, Leased
<1>6. Homes'
  BY <1>1 DEF DeviceTypeOK, Homes, Running
<1>7. Unseen'
  BY <1>1 DEF DeviceTypeOK, Unseen, Unsent, NoWatch
<1>8. MarkerTells'
  BY <1>1 DEF DeviceTypeOK, MarkerTells, Unsent, NoWatch
<1>9. Registered'
  BY <1>1 DEF DeviceTypeOK, Registered
<1>10. WatchNames'
  BY <1>1 DEF DeviceTypeOK, WatchNames, NoWatch
<1>11. WatchCalls'
  BY <1>1 DEF DeviceTypeOK, WatchCalls, NoWatch
<1>12. WatchJobs'
  BY <1>1 DEF DeviceTypeOK, WatchJobs, Probing, NoWatch
<1>13. UseAnswered'
  BY <1>1 DEF DeviceTypeOK, UseAnswered, Answered, Running
<1>14. AdmitClear'
  BY <1>1, <1>3 DEF DeviceTypeOK, JobState, AdmitClear
<1>15. UseClear'
  BY <1>1, <1>3 DEF DeviceTypeOK, JobState, UseClear
<1>16. MarkerGuards'
  BY <1>1, <1>3 DEF DeviceTypeOK, JobState, MarkerGuards
<1>17. QED
  BY <1>2, <1>3, <1>4, <1>5, <1>6, <1>7, <1>8, <1>9, <1>10, <1>11, <1>12, <1>13, <1>14,
     <1>15, <1>16

\* No proof for a probe: the job ends before its marker.
LEMMA NoProofProbeInv ==
  ASSUME IInv, NEW x \in Proc \cup Job, watch[x].at # "no" /\ watch[x].on \in Job,
         x \in Job, Probing(x), NoProof(x)
  PROVE  IInv'
<1> USE DeviceAssumption DEF IInv, Shape
<1>1. /\ watch[x].at # "no" /\ watch[x].on \in Job
      /\ x \in Job /\ job[x].phase = "probe"
      /\ watch' = [watch EXCEPT ![x] = NoWatch]
      /\ job' = [job EXCEPT ![x].phase = "over", ![x].tried = FALSE]
      /\ inflight' \in {inflight, inflight \cup {<<"cancel", watch[x].on>>}}
      /\ UNCHANGED <<lease, marker, call, provider>>
  BY DEF NoProof, NotProved, Probing, Over, DeviceTypeOK
<1>2. /\ Leased' /\ MarkerNames'
  BY <1>1 DEF Leased, MarkerNames
<1>3. \A o \in Job : Harmless(o) => Harmless(o)'
  BY <1>1 DEF DeviceTypeOK, JobState, Harmless, Quiet, MayExecute
<1>4. DeviceTypeOK'
  <2>1. <<"cancel", watch[x].on>> \in {"register", "execute", "cancel"} \X Job
    BY <1>1
  <2>2. job' \in [Job -> JobState]
    BY <1>1, JobFields DEF DeviceTypeOK, Phases
  <2>3. QED
    BY <1>1, <2>1, <2>2 DEF DeviceTypeOK, NoWatch
<1>5. Homes'
  BY <1>1 DEF DeviceTypeOK, JobState, Homes, Running
<1>6. OneUnstopped'
  BY <1>1 DEF DeviceTypeOK, JobState, OneUnstopped, Running
<1>7. MarkedUnstopped'
  BY <1>1 DEF DeviceTypeOK, JobState, MarkedUnstopped
<1>8. Unseen'
  BY <1>1 DEF DeviceTypeOK, JobState, Unseen, Unsent, NoWatch
<1>9. Unnamed'
  BY <1>1 DEF DeviceTypeOK, JobState, Unnamed
<1>10. MarkerTells'
  BY <1>1 DEF DeviceTypeOK, JobState, MarkerTells, Unsent, NoWatch
<1>11. Registered'
  BY <1>1 DEF DeviceTypeOK, JobState, Registered
<1>12. WatchNames'
  BY <1>1 DEF DeviceTypeOK, JobState, WatchNames, NoWatch
<1>13. WatchCalls'
  BY <1>1 DEF DeviceTypeOK, JobState, WatchCalls, NoWatch
<1>14. WatchJobs'
  BY <1>1 DEF DeviceTypeOK, JobState, WatchJobs, Probing, NoWatch
<1>15. UseAnswered'
  BY <1>1 DEF DeviceTypeOK, JobState, UseAnswered, Answered, Running
<1>16. AdmitClear'
  BY <1>1, <1>3 DEF DeviceTypeOK, JobState, AdmitClear
<1>17. UseClear'
  BY <1>1, <1>3 DEF DeviceTypeOK, JobState, UseClear
<1>18. MarkerGuards'
  BY <1>1, <1>3 DEF DeviceTypeOK, JobState, MarkerGuards
<1>19. QED
  BY <1>2, <1>3, <1>4, <1>5, <1>6, <1>7, <1>8, <1>9, <1>10, <1>11, <1>12, <1>13, <1>14,
     <1>15, <1>16, <1>17, <1>18

\* No proof for a cleanup: the marker stays.
LEMMA NoProofCleanupInv ==
  ASSUME IInv, NEW x \in Proc \cup Job, watch[x].at # "no" /\ watch[x].on \in Job,
         x \in Job, ~Probing(x), NoProof(x)
  PROVE  IInv'
<1> USE DeviceAssumption DEF IInv, Shape
<1>1. /\ watch[x].at # "no" /\ watch[x].on \in Job
      /\ x \in Job
      /\ watch' = [watch EXCEPT ![x] = NoWatch]
      /\ job' = [job EXCEPT ![x].tried = TRUE]
      /\ inflight' \in {inflight, inflight \cup {<<"cancel", watch[x].on>>}}
      /\ UNCHANGED <<lease, marker, call, provider>>
  BY DEF NoProof, NotProved, DeviceTypeOK
<1>2. /\ Leased' /\ MarkerNames'
  BY <1>1 DEF Leased, MarkerNames
<1>3. \A o \in Job : Harmless(o) => Harmless(o)'
  BY <1>1 DEF DeviceTypeOK, JobState, Harmless, Quiet, MayExecute
<1>4. DeviceTypeOK'
  <2>1. <<"cancel", watch[x].on>> \in {"register", "execute", "cancel"} \X Job
    BY <1>1
  <2>2. job' \in [Job -> JobState]
    BY <1>1, JobFields DEF DeviceTypeOK, Phases
  <2>3. QED
    BY <1>1, <2>1, <2>2 DEF DeviceTypeOK, NoWatch
<1>5. Homes'
  BY <1>1 DEF DeviceTypeOK, JobState, Homes, Running
<1>6. OneUnstopped'
  BY <1>1 DEF DeviceTypeOK, JobState, OneUnstopped, Running
<1>7. MarkedUnstopped'
  BY <1>1 DEF DeviceTypeOK, JobState, MarkedUnstopped
<1>8. Unseen'
  BY <1>1 DEF DeviceTypeOK, JobState, Unseen, Unsent, NoWatch
<1>9. Unnamed'
  BY <1>1 DEF DeviceTypeOK, JobState, Unnamed
<1>10. MarkerTells'
  BY <1>1 DEF DeviceTypeOK, JobState, MarkerTells, Unsent, NoWatch
<1>11. Registered'
  BY <1>1 DEF DeviceTypeOK, JobState, Registered
<1>12. WatchNames'
  BY <1>1 DEF DeviceTypeOK, JobState, WatchNames, NoWatch
<1>13. WatchCalls'
  BY <1>1 DEF DeviceTypeOK, JobState, WatchCalls, NoWatch
<1>14. WatchJobs'
  BY <1>1 DEF DeviceTypeOK, JobState, WatchJobs, Probing, NoWatch
<1>15. UseAnswered'
  BY <1>1 DEF DeviceTypeOK, JobState, UseAnswered, Answered, Running
<1>16. AdmitClear'
  BY <1>1, <1>3 DEF DeviceTypeOK, JobState, AdmitClear
<1>17. UseClear'
  BY <1>1, <1>3 DEF DeviceTypeOK, JobState, UseClear
<1>18. MarkerGuards'
  BY <1>1, <1>3 DEF DeviceTypeOK, JobState, MarkerGuards
<1>19. QED
  BY <1>2, <1>3, <1>4, <1>5, <1>6, <1>7, <1>8, <1>9, <1>10, <1>11, <1>12, <1>13, <1>14,
     <1>15, <1>16, <1>17, <1>18

\* Every step of an observation preserves the invariant.
LEMMA WatchStepInv ==
  ASSUME IInv, NEW x \in Proc \cup Job, WatchStep(x)
  PROVE  IInv'
<1>1. CASE Proof(x)
  BY <1>1, AskCases, ProvedCallInv, ProvedProbeInv, ProvedCleanupInv
<1>2. CASE NoProof(x)
  BY <1>2, AskCases, NoProofCallInv, NoProofProbeInv, NoProofCleanupInv
<1>3. QED
  BY <1>1, <1>2, AskCases, AskMoreInv

-----------------------------------------------------------------------------
\* So does every step.
LEMMA NextInv == IInv /\ [DeviceNext]_deviceVars => IInv'
<1> SUFFICES ASSUME IInv, [DeviceNext]_deviceVars PROVE IInv'
  OBVIOUS
<1>1. ASSUME NEW p \in Proc,
             \/ Acquire(p) \/ OrdinaryStarts(p) \/ Refused(p) \/ Recover(p) \/ Use(p)
             \/ EndUse(p) \/ Release(p) \/ CrashCall(p) \/ \E j \in Job : StartJob(p, j)
      PROVE  IInv'
  BY <1>1, AcquireInv, OrdinaryStartsInv, RefusedInv, RecoverWatchesInv, RecoverHoldsInv, UseInv,
     EndUseInv, ReleaseInv, CrashCallInv, StartJobInv
<1>2. ASSUME NEW j \in Job,
             \/ Probe(j) \/ Admit(j) \/ Dispatch(j) \/ Execute(j) \/ EndAction(j)
             \/ StopJob(j) \/ Cleanup(j) \/ Settle(j)
      PROVE  IInv'
  BY <1>2, ProbeWatchesInv, ProbeAdmitsInv, AdmitInv, DispatchInv, ExecuteInv, EndActionInv,
     StopJobInv, CleanupInv, SettleInv
<1>3. ASSUME NEW j \in Job,
             Finish(j) \/ \E r \in {"register", "execute", "cancel"} : Deliver(r, j)
      PROVE  IInv'
  BY <1>3, FinishInv, DeliverRegisterInv, DeliverExecuteInv, DeliverCancelInv
<1>4. ASSUME NEW x \in Proc \cup Job, AskStatus(x) \/ AskCancel(x) \/ AskFails(x)
      PROVE  IInv'
  BY <1>4, WatchStepInv DEF WatchStep
<1>5. CASE UNCHANGED deviceVars
  BY <1>5 DEF deviceVars, IInv, Shape, DeviceTypeOK, Leased, Homes, OneUnstopped, MarkedUnstopped,
     Unseen, Unsent, Unnamed, MarkerTells, MarkerNames, Registered, WatchNames, WatchCalls, WatchJobs,
     UseAnswered, Answered, Running, Probing, AdmitClear, UseClear, MarkerGuards, Harmless, Quiet,
     MayExecute
<1>6. QED
  BY <1>1, <1>2, <1>3, <1>4, <1>5 DEF DeviceNext

\* The invariant holds in every reachable state.
LEMMA Invariant == DeviceSpec => []IInv
  BY InitInv, NextInv, PTL DEF DeviceSpec

\* Type correctness of every reachable state.
THEOREM TypeCorrect == DeviceSpec => []DeviceTypeOK
<1>1. IInv => DeviceTypeOK
  BY DEF IInv, Shape
<1>2. QED
  BY <1>1, Invariant, PTL

\* An operation that runs has the device to itself, and its marker is active:
\* across crashes, early answers, drains that gave up and late requests.
THEOREM DeviceIsExclusive == DeviceSpec => []DeviceExclusive
<1>1. IInv => DeviceExclusive
  BY DEF IInv, UseClear, MarkerGuards, DeviceExclusive, Harmless
<1>2. QED
  BY <1>1, Invariant, PTL
=============================================================================
