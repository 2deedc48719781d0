------------------------------ MODULE MCServices ------------------------------
(* Components that share no state: a behaviour follows the one that `subject` *)
(* names, the others stand still.                                             *)
EXTENDS MetricsSpool, LedgerCompaction, VerificationSuite, OwnedDevice, SweepLock, DeviceTrust,
        HivemindWatchdog

VARIABLE subject

Half == <<1, 2>>

vars == <<subject, spoolVars, ledgerVars, suiteVars, deviceVars, sweepVars, trustVars, watchdogVars>>

\* A suite is run only by a behaviour that follows it; the others have an empty one.
Init ==
  /\ subject \in {"spool", "ledger", "suite", "device", "sweep", "trust", "watchdog"}
  /\ SpoolInit /\ LedgerInit /\ DeviceInit /\ SweepInit /\ TrustInit /\ WatchdogInit
  /\ SuiteInit
  /\ subject # "suite" => \A t \in Test : suite[t] = [dep |-> "no", filtered |-> TRUE]

Next ==
  /\ UNCHANGED subject
  /\ \/ subject = "spool"  /\ SpoolNext
        /\ UNCHANGED <<ledgerVars, suiteVars, deviceVars, sweepVars, trustVars, watchdogVars>>
     \/ subject = "ledger" /\ LedgerNext
        /\ UNCHANGED <<spoolVars, suiteVars, deviceVars, sweepVars, trustVars, watchdogVars>>
     \/ subject = "suite"  /\ SuiteNext
        /\ UNCHANGED <<spoolVars, ledgerVars, deviceVars, sweepVars, trustVars, watchdogVars>>
     \/ subject = "device" /\ DeviceNext
        /\ UNCHANGED <<spoolVars, ledgerVars, suiteVars, sweepVars, trustVars, watchdogVars>>
     \/ subject = "sweep"  /\ SweepNext
        /\ UNCHANGED <<spoolVars, ledgerVars, suiteVars, deviceVars, trustVars, watchdogVars>>
     \/ subject = "trust"  /\ TrustNext
        /\ UNCHANGED <<spoolVars, ledgerVars, suiteVars, deviceVars, sweepVars, watchdogVars>>
     \/ subject = "watchdog" /\ WatchdogNext
        /\ UNCHANGED <<spoolVars, ledgerVars, suiteVars, deviceVars, sweepVars, trustVars>>

Spec == Init /\ [][Next]_vars
=============================================================================
