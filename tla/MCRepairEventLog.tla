-------------------------- MODULE MCRepairEventLog --------------------------
(* RepairEventLog on a small instance: two candidate identities and two    *)
(* fencing tokens, so that every identity check has a mismatch to refuse.  *)
EXTENDS RepairEventLog, TLC
=============================================================================
