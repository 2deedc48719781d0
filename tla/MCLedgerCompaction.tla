-------------------------- MODULE MCLedgerCompaction --------------------------
(* The ledger on its own; all values come from the configuration.            *)
EXTENDS LedgerCompaction
=============================================================================
