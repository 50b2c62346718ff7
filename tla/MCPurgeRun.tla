----------------------------- MODULE MCPurgeRun -----------------------------
(* Every family of controllers. *)
EXTENDS PurgeRun

AllBuses == {"nvme", "ata", "scsi"}
=============================================================================
