-------------------------- MODULE MCRepairWorkflow --------------------------
(* RepairWorkflow for TLC: the processes are model values.                 *)
EXTENDS RepairWorkflow, TLC

CONSTANTS a, b, c

Pair   == {a, b}
Triple == {a, b, c}
JustA  == {a}
JustB  == {b}
JustC  == {c}
=============================================================================
