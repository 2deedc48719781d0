------------------------------ MODULE OwnedDevice ------------------------------
(***************************************************************************)
(* The local inference device and who may use it: the device lease and its *)
(* quarantine (src/src/utils/omlxProvider.ts), the owned job with its      *)
(* durable marker (src/src/utils/omlxJobControl.ts), the generation and    *)
(* the proof that it stopped (src/src/utils/omlxOwned.ts), and the call    *)
(* that holds the lease around them (runInfer, prismInferHandler.ts).      *)
(*                                                                         *)
(* One provider, one marker file.  A job has one operation, so both have   *)
(* one name.  The provider is outside the repository: it is what the       *)
(* comments of omlxOwned.ts and the tests' synthetic server say of it.     *)
(***************************************************************************)
EXTENDS Naturals

CONSTANTS
  Proc,   \* processes; each makes one call at a time (withInferenceResourceLease)
  Job     \* owned jobs, numbered in the order they start

NoProc == "no process"
NoJob  == 0
ASSUME DeviceAssumption ==
  NoProc \notin Proc /\ Job \subseteq Nat \ {NoJob} /\ Proc \cap Job = {}

VARIABLES
  lease,     \* the process that listens on the lease port
  marker,    \* the marker file
  call,      \* per process: its call
  job,       \* per job: the process it runs in, where it is, whether it was stopped
  watch,     \* per call and job: the observation it waits for
  provider,  \* per operation: what the provider's store says
  inflight   \* requests sent and not yet delivered; never to be, perhaps

deviceVars == <<lease, marker, call, job, watch, provider, inflight>>

JobState == [home    : Proc \cup {NoProc},
             phase   : {"new", "probe", "admit", "marked", "register", "read", "over", "settled"},
             stopped : BOOLEAN,                           \* its signal is aborted
             own     : {"none", "active", "finished"},    \* its own copy of the marker
             tried   : BOOLEAN]                           \* cleaned up since its action ended

DeviceTypeOK ==
  /\ lease \in Proc \cup {NoProc}
  /\ marker \in [job : Job \cup {NoJob}, started : BOOLEAN, active : BOOLEAN]
  /\ call \in [Proc -> {"idle", "ordinary", "recover", "held", "generate", "answer"}]
  /\ job \in [Job -> JobState]
  /\ watch \in [Proc \cup Job -> [at : {"no", "status", "cancel"}, on : Job \cup {NoJob}]]
  /\ provider \in [Job -> {"unknown", "registered", "claimed", "finished", "withdrawn"}]
  /\ inflight \subseteq {"register", "execute", "cancel"} \X Job

NewJob  == [home |-> NoProc, phase |-> "new", stopped |-> FALSE, own |-> "none", tried |-> FALSE]
NoWatch == [at |-> "no", on |-> NoJob]

DeviceInit ==
  /\ lease = NoProc
  /\ marker = [job |-> NoJob, started |-> FALSE, active |-> FALSE]
  /\ call = [p \in Proc |-> "idle"]
  /\ job = [j \in Job |-> NewJob]
  /\ watch = [x \in Proc \cup Job |-> NoWatch]
  /\ provider = [j \in Job |-> "unknown"]
  /\ inflight = {}

-----------------------------------------------------------------------------
Phase(j, phase) == job' = [job EXCEPT ![j].phase = phase]

\* The action threw or returned: the cleanup that follows is a new attempt.
Over(j) == job' = [job EXCEPT ![j].phase = "over", ![j].tried = FALSE]

Watch(x, j) == watch' = [watch EXCEPT ![x] = [at |-> "status", on |-> j]]

Send(request, j) == inflight' = inflight \cup {<<request, j>>}

\* Mutant: the marker is cleared whoever it names.
ClearedBlindly(j) == [marker EXCEPT !.active = FALSE]

\* holds: the file still names this job.
Cleared(j) == IF marker.job = j THEN [marker EXCEPT !.active = FALSE] ELSE marker

Running(j) == job[j].phase \notin {"new", "settled"}

\* guardedOmlxGenerate has answered every generation of the call: it is
\* settled, or it was stopped and still runs.
Answered(p) == \A j \in Job : job[j].home = p /\ Running(j) => job[j].stopped

-----------------------------------------------------------------------------
(* The call: acquireOmlxLease and what it is taken for.                    *)

\* An ordinary Ollama call (withOllamaResourceLease), or an explicit oMLX call.
Acquire(p) ==
  /\ call[p] = "idle" /\ lease = NoProc
  /\ lease' = p
  /\ \E kind \in {"ordinary", "recover"} : call' = [call EXCEPT ![p] = kind]
  /\ UNCHANGED <<marker, job, watch, provider, inflight>>

\* checkInferenceDeviceQuarantine refuses an ordinary call while a job's marker
\* is active.
OrdinaryStarts(p) ==
  /\ call[p] = "ordinary" /\ ~marker.active
  /\ call' = [call EXCEPT ![p] = "answer"]
  /\ UNCHANGED <<lease, marker, job, watch, provider, inflight>>

Refused(p) ==
  /\ call[p] = "ordinary" /\ marker.active
  /\ call' = [call EXCEPT ![p] = "idle"] /\ lease' = NoProc
  /\ UNCHANGED <<marker, job, watch, provider, inflight>>

\* recoverOwnedJob: nothing to recover, a marker without an operation, or an
\* operation to observe.
Recover(p) ==
  /\ call[p] = "recover" /\ watch[p] = NoWatch
  /\ IF marker.active /\ marker.started
     THEN Watch(p, marker.job) /\ UNCHANGED <<marker, call>>
     ELSE /\ marker' = [marker EXCEPT !.active = FALSE]
          /\ call' = [call EXCEPT ![p] = "held"]
          /\ UNCHANGED watch
  /\ UNCHANGED <<lease, job, provider, inflight>>

\* Under the lease the call may use Ollama too: not while a marker is active.
Use(p) ==
  /\ call[p] = "held" /\ Answered(p) /\ ~marker.active
  /\ call' = [call EXCEPT ![p] = "generate"]
  /\ UNCHANGED <<lease, marker, job, watch, provider, inflight>>

EndUse(p) ==
  /\ call[p] = "generate"
  /\ call' = [call EXCEPT ![p] = "held"]
  /\ UNCHANGED <<lease, marker, job, watch, provider, inflight>>

\* The lease waits for the jobs of the call.
Settled(p) == \A j \in Job : job[j].home = p => job[j].phase = "settled"

Release(p) ==
  /\ \/ call[p] = "answer"
     \/ call[p] = "held" /\ Settled(p)
  /\ call' = [call EXCEPT ![p] = "idle"] /\ lease' = NoProc
  /\ UNCHANGED <<marker, job, watch, provider, inflight>>

\* The process dies: the system frees the port, its requests may still arrive.
CrashCall(p) ==
  /\ call[p] # "idle"
  /\ call' = [call EXCEPT ![p] = "idle"]
  /\ lease' = IF lease = p THEN NoProc ELSE lease
  /\ job' = [j \in Job |-> IF job[j].home = p THEN [job[j] EXCEPT !.phase = "settled"] ELSE job[j]]
  /\ watch' = [x \in Proc \cup Job |->
                 IF x = p \/ (x \in Job /\ job[x].home = p) THEN NoWatch ELSE watch[x]]
  /\ UNCHANGED <<marker, provider, inflight>>

-----------------------------------------------------------------------------
(* The job: runOwnedJob, with ownedAction as its work.                     *)

\* Another generation of the call.
StartJob(p, j) ==
  /\ call[p] = "held" /\ Answered(p)
  /\ job[j] = NewJob /\ \A k \in Job : job[k] = NewJob => j <= k
  /\ job' = [job EXCEPT ![j] = [NewJob EXCEPT !.home = p, !.phase = "probe"]]
  /\ UNCHANGED <<lease, marker, call, watch, provider, inflight>>

\* The previous marker is read: an active one is observed.
Probe(j) ==
  /\ job[j].phase = "probe" /\ watch[j] = NoWatch
  /\ IF marker.active /\ marker.started
     THEN Watch(j, marker.job) /\ UNCHANGED job
     ELSE Phase(j, "admit") /\ UNCHANGED watch
  /\ UNCHANGED <<lease, marker, call, provider, inflight>>

\* The marker is durable before anything is sent.
Admit(j) ==
  /\ job[j].phase = "admit" /\ ~job[j].stopped
  /\ marker' = [job |-> j, started |-> FALSE, active |-> TRUE]
  /\ job' = [job EXCEPT ![j].phase = "marked", ![j].own = "active"]
  /\ UNCHANGED <<lease, call, watch, provider, inflight>>

\* providerAction: the marker with the operation, then its registration.
Dispatch(j) ==
  /\ job[j].phase = "marked"
  /\ marker' = [job |-> j, started |-> TRUE, active |-> TRUE]
  /\ Phase(j, "register") /\ Send("register", j)
  /\ UNCHANGED <<lease, call, watch, provider>>

\* The registration is answered: never execute after a cancel.
Execute(j) ==
  /\ job[j].phase = "register" /\ ~job[j].stopped
  /\ <<"register", j>> \notin inflight /\ provider[j] # "unknown"
  /\ Phase(j, "read") /\ Send("execute", j)
  /\ UNCHANGED <<lease, marker, call, watch, provider>>

\* The job was stopped before it wrote its marker, or before the registration
\* was answered; or the answer is a refusal or comes too late; or the stream
\* ends with the terminal, without one, or at its limit.
EndAction(j) ==
  /\ \/ job[j].phase = "admit" /\ job[j].stopped
     \/ job[j].phase \in {"register", "read"}
  /\ Over(j)
  /\ UNCHANGED <<lease, marker, call, watch, provider, inflight>>

\* The deadline, the caller or a contender for memory stops the job; one that
\* reads its stream asks the provider to cancel.
StopJob(j) ==
  /\ job[j].phase \in {"probe", "admit", "register", "read"} /\ ~job[j].stopped
  /\ job' = [job EXCEPT ![j].stopped = TRUE]
  /\ IF job[j].phase = "read" THEN Send("cancel", j) ELSE UNCHANGED inflight
  /\ UNCHANGED <<lease, marker, call, watch, provider>>

\* cleanup, when the job is stopped, when its action is over, and again while
\* it drains.
Cleanup(j) ==
  /\ Running(j) /\ (job[j].stopped \/ job[j].phase = "over")
  /\ job[j].own = "active" /\ watch[j] = NoWatch
  /\ Watch(j, j)
  /\ UNCHANGED <<lease, marker, call, job, provider, inflight>>

\* Mutant: the drain has no budget.
SettleWhenProved(j) ==
  /\ job[j].phase = "over" /\ watch[j] = NoWatch
  /\ job[j].own # "active"
  /\ Phase(j, "settled")
  /\ UNCHANGED <<lease, marker, call, watch, provider, inflight>>

\* Nothing is left to clean up, or the drain has used up its budget.
Settle(j) ==
  /\ job[j].phase = "over" /\ watch[j] = NoWatch
  /\ job[j].own = "active" => job[j].tried
  /\ Phase(j, "settled")
  /\ UNCHANGED <<lease, marker, call, watch, provider, inflight>>

-----------------------------------------------------------------------------
(* observeOwned, for a recovery, for a job's probe and for its cleanup.    *)

Probing(j) == job[j].phase = "probe"

\* What the observer does with a proof.
Proved(x) ==
  /\ watch' = [watch EXCEPT ![x] = NoWatch]
  /\ \/ /\ x \in Proc
        /\ marker' = Cleared(watch[x].on)
        /\ call' = [call EXCEPT ![x] = "held"]
        /\ UNCHANGED job
     \/ /\ x \in Job /\ Probing(x)
        /\ Phase(x, "admit")
        /\ UNCHANGED <<marker, call>>
     \/ /\ x \in Job /\ ~Probing(x)
        /\ marker' = Cleared(x)
        /\ job' = [job EXCEPT ![x].own = "finished"]
        /\ UNCHANGED call
  /\ UNCHANGED lease

\* And without one: the call is refused, the new job too, the cleanup goes on.
NotProved(x) ==
  /\ watch' = [watch EXCEPT ![x] = NoWatch]
  /\ \/ /\ x \in Proc
        /\ call' = [call EXCEPT ![x] = "idle"] /\ lease' = NoProc
        /\ UNCHANGED job
     \/ /\ x \in Job /\ Probing(x)
        /\ Over(x)
        /\ UNCHANGED <<call, lease>>
     \/ /\ x \in Job /\ ~Probing(x)
        /\ job' = [job EXCEPT ![x].tried = TRUE]
        /\ UNCHANGED <<call, lease>>
  /\ UNCHANGED marker

\* A terminal is proof, a claim is not; anything else is asked to be cancelled.
AskStatus(x) ==
  LET o == watch[x].on IN
  /\ watch[x].at = "status"
  /\ \/ provider[o] = "finished" /\ Proved(x)
     \/ provider[o] = "claimed" /\ NotProved(x)
     \/ /\ provider[o] \notin {"finished", "claimed"}
        /\ watch' = [watch EXCEPT ![x].at = "cancel"]
        /\ UNCHANGED <<lease, marker, call, job>>
  /\ UNCHANGED <<provider, inflight>>

\* How the provider answers a cancel: 409 for what it never registered, or a
\* tombstone; a tombstone for what nobody claimed.
Cancelled(o) ==
  \/ provider[o] \in {"unknown", "registered"} /\ provider' = [provider EXCEPT ![o] = "withdrawn"]
  \/ provider[o] # "registered" /\ UNCHANGED provider

AskCancel(x) ==
  LET o == watch[x].on IN
  /\ watch[x].at = "cancel"
  /\ Cancelled(o)
  /\ IF provider[o] = "claimed" THEN NotProved(x) ELSE Proved(x)
  /\ UNCHANGED inflight

\* The request or its answer is lost, or comes too late.
AskFails(x) ==
  /\ watch[x].at # "no"
  /\ IF watch[x].at = "cancel" THEN Send("cancel", watch[x].on) ELSE UNCHANGED inflight
  /\ NotProved(x)
  /\ UNCHANGED provider

-----------------------------------------------------------------------------
(* The provider.                                                           *)

Deliver(request, o) ==
  /\ <<request, o>> \in inflight
  /\ inflight' = inflight \ {<<request, o>>}
  /\ CASE request = "register" ->
            provider' = [provider EXCEPT ![o] = IF @ = "unknown" THEN "registered" ELSE @]
       [] request = "execute" ->
            provider' = [provider EXCEPT ![o] = IF @ = "registered" THEN "claimed" ELSE @]
       [] request = "cancel" -> Cancelled(o)
  /\ UNCHANGED <<lease, marker, call, job, watch>>

\* Mutant: a terminal that the observer does not know.
FinishAsCompleted(o) ==
  /\ provider[o] = "claimed"
  /\ provider' = [provider EXCEPT ![o] = "completed"]
  /\ UNCHANGED <<lease, marker, call, job, watch, inflight>>

\* The operation completes, fails or is cancelled, and the backend has stopped.
Finish(o) ==
  /\ provider[o] = "claimed"
  /\ provider' = [provider EXCEPT ![o] = "finished"]
  /\ UNCHANGED <<lease, marker, call, job, watch, inflight>>

DeviceNext ==
  \/ \E p \in Proc : \/ Acquire(p) \/ OrdinaryStarts(p) \/ Refused(p) \/ Recover(p) \/ Use(p)
                     \/ EndUse(p) \/ Release(p) \/ CrashCall(p)
                     \/ \E j \in Job : StartJob(p, j)
  \/ \E j \in Job : \/ Probe(j) \/ Admit(j) \/ Dispatch(j) \/ Execute(j) \/ EndAction(j)
                    \/ StopJob(j) \/ Cleanup(j) \/ Settle(j)
                    \/ Finish(j) \/ \E r \in {"register", "execute", "cancel"} : Deliver(r, j)
  \/ \E x \in Proc \cup Job : AskStatus(x) \/ AskCancel(x) \/ AskFails(x)

DeviceSpec == DeviceInit /\ [][DeviceNext]_deviceVars

CallStep(p)   == Recover(p) \/ EndUse(p) \/ OrdinaryStarts(p) \/ Refused(p)
ActionStep(j) == Probe(j) \/ Admit(j) \/ Dispatch(j) \/ Execute(j) \/ (job[j].stopped /\ EndAction(j))
WatchStep(x)  == AskStatus(x) \/ AskCancel(x) \/ AskFails(x)

\* Every await of a call ends by itself or by its deadline, a request by its
\* timeout; of what stops or drains a job the deadline comes for certain.  The
\* provider owes nothing: it may never answer, and never finish an operation.
DeviceFairness ==
  /\ \A p \in Proc : WF_deviceVars(CallStep(p)) /\ SF_deviceVars(Release(p))
  /\ \A j \in Job : /\ WF_deviceVars(ActionStep(j)) /\ WF_deviceVars(StopJob(j))
                    /\ WF_deviceVars(Cleanup(j)) /\ SF_deviceVars(Settle(j))
  /\ \A x \in Proc \cup Job : WF_deviceVars(WatchStep(x))

-----------------------------------------------------------------------------
(* Properties.                                                             *)

\* While an operation runs in the provider, its marker is active, no other one
\* runs, and no call uses the device otherwise: whoever crashed, answered early,
\* gave up waiting, or sent a request that arrives late.
DeviceExclusive ==
  \A o \in Job : provider[o] = "claimed" =>
    /\ marker.active /\ marker.job = o
    /\ \A p \in Proc : call[p] \notin {"generate", "answer"}

\* The device is never kept for ever: a call that got the lease gives it back,
\* even if the provider never answers, never finishes or never proves a stop.
LeaseReturned == \A p \in Proc : (lease = p) ~> (lease # p)
=============================================================================
