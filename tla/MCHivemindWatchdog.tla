-------------------------- MODULE MCHivemindWatchdog --------------------------
(* The watchdog on its own; all values come from the configuration.          *)
EXTENDS HivemindWatchdog
=============================================================================
