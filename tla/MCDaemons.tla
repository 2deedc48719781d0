------------------------------ MODULE MCDaemons ------------------------------
(* Components that run for ever beside each other and share no state: a     *)
(* behaviour follows the one that `subject` names, the others stand still.  *)
EXTENDS MetricsSpool, OwnedDevice, HivemindWatchdog, SweepLock

VARIABLE subject

vars == <<subject, spoolVars, deviceVars, watchdogVars, sweepVars>>

Init ==
  /\ subject \in {"spool", "device", "watchdog", "sweep"}
  /\ SpoolInit /\ DeviceInit /\ WatchdogInit /\ SweepInit

Next ==
  /\ UNCHANGED subject
  /\ \/ subject = "spool"    /\ SpoolNext    /\ UNCHANGED <<deviceVars, watchdogVars, sweepVars>>
     \/ subject = "device"   /\ DeviceNext   /\ UNCHANGED <<spoolVars, watchdogVars, sweepVars>>
     \/ subject = "watchdog" /\ WatchdogNext /\ UNCHANGED <<spoolVars, deviceVars, sweepVars>>
     \/ subject = "sweep"    /\ SweepNext    /\ UNCHANGED <<spoolVars, deviceVars, watchdogVars>>

Of(name, A) == subject = name /\ A

Spec ==
  /\ Init /\ [][Next]_vars
  /\ \A p \in Ingester : WF_spoolVars(Of("spool", IngestStep(p)))
  /\ WF_spoolVars(Of("spool", \E q \in Ingester : BeginIngest(q)))
  /\ \A f \in File : WF_spoolVars(Of("spool", AgeFile(f)))
  /\ WF_spoolVars(Of("spool", AgeLock))
  /\ \A p \in Proc : WF_deviceVars(Of("device", CallStep(p))) /\ SF_deviceVars(Of("device", Release(p)))
  /\ \A j \in Job : /\ WF_deviceVars(Of("device", ActionStep(j))) /\ WF_deviceVars(Of("device", StopJob(j)))
                    /\ WF_deviceVars(Of("device", Cleanup(j))) /\ SF_deviceVars(Of("device", Settle(j)))
  /\ \A x \in Proc \cup Job : WF_deviceVars(Of("device", WatchStep(x)))
  /\ \A a \in Agent : WF_watchdogVars(Of("watchdog", Grow(a)))
  /\ \A w \in Watchdog : /\ SF_watchdogVars(Of("watchdog", ListAgents(w)))
                         /\ \A a \in Agent : SF_watchdogVars(Of("watchdog", SweepStep(w, a)))
  /\ \A i \in Node : WF_sweepVars(Of("sweep", SweepTurn(i)))
  /\ WF_sweepVars(Of("sweep", Expire)) /\ WF_sweepVars(Of("sweep", ApplyLate))
=============================================================================
