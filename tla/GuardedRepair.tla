---------------------------- MODULE GuardedRepair ----------------------------
(***************************************************************************)
(* What a repair session promises its user, whatever commands are given on *)
(* it and wherever they die: the candidate is executed at most once and    *)
(* before it counts as validated; the commit is published under the repair *)
(* ref only while the approved session is being applied; the session is    *)
(* recorded as applied only at a moment when its commit is there, and goes *)
(* back or closes only when it is not; nothing follows either.             *)
(* RepairWorkflow is shown to implement it.                                *)
(***************************************************************************)
EXTENDS Naturals

VARIABLES
  phase,  \* how far the session is
  runs,   \* how often the candidate was executed
  ref     \* the repair ref: "absent", "ours" or "foreign"

repairVars == <<phase, runs, ref>>

Init == phase = "proposed" /\ runs = 0 /\ ref = "absent"

Moves(from, to) == phase = from /\ phase' = to /\ UNCHANGED <<runs, ref>>

(* A container that was created before the session was closed may run.     *)
Execute == runs = 0 /\ runs' = 1 /\ UNCHANGED <<phase, ref>>

Validate == runs = 1 /\ Moves("proposed", "validated")
Approve == Moves("validated", "approved")
Begin == Moves("approved", "applying")

Publish ==
  /\ phase = "applying"
  /\ ref = "absent" /\ ref' = "ours"
  /\ UNCHANGED <<phase, runs>>

(* An application ends as the ref says when it is read: published, or as   *)
(* before.                                                                 *)
Succeed == ref = "ours" /\ Moves("applying", "applied")
Return == ref # "ours" /\ Moves("applying", "approved")

Close ==
  /\ ref # "ours"
  /\ \E from \in {"proposed", "validated", "approved"} : Moves(from, "closed")

(* Other users of the repository make, move and delete the ref.            *)
Interfere == ref' \in {"absent", "foreign"} /\ UNCHANGED <<phase, runs>>

Next ==
  \/ Execute \/ Validate \/ Approve \/ Begin \/ Publish
  \/ Succeed \/ Return \/ Close \/ Interfere

Spec == Init /\ [][Next]_repairVars
=============================================================================
