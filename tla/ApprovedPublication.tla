------------------------ MODULE ApprovedPublication ------------------------
(***************************************************************************)
(* What publishing one proposal on GitHub promises, whatever its kind:     *)
(* somebody approved it before anything of it could be seen, all of it     *)
(* could be seen before it was reported as published, and neither the      *)
(* approval nor the report ever changes.  CheckPublication and             *)
(* RepairPublication are shown to implement it.                            *)
(***************************************************************************)
CONSTANTS
  Actors,    \* GitHub users that may approve
  Reports,   \* what a final record may name
  None       \* an absent record

VARIABLES
  approval,  \* who approved the proposal
  visible,   \* something of the proposal was visible on GitHub
  whole,     \* all of it was
  result     \* the final record

publicationVars == <<approval, visible, whole, result>>

Init ==
  /\ approval = None
  /\ visible = FALSE
  /\ whole = FALSE
  /\ result = None

Approve ==
  /\ approval = None
  /\ approval' \in Actors
  /\ UNCHANGED <<visible, whole, result>>

Show ==
  /\ approval # None
  /\ visible' = TRUE
  /\ whole' \in {whole, TRUE}
  /\ UNCHANGED <<approval, result>>

Report ==
  /\ whole
  /\ result = None
  /\ result' \in Reports
  /\ UNCHANGED <<approval, visible, whole>>

Next == Approve \/ Show \/ Report

Spec == Init /\ [][Next]_publicationVars
=============================================================================
