--------------------------- MODULE MCRepairMachine ---------------------------
(* Two processes, two paths, two checks.                                   *)
EXTENDS RepairMachine

CONSTANTS p, q, a, b, security, limits
=============================================================================
