------------------------- MODULE GitHubPublication -------------------------
(***************************************************************************)
(* One proposal on its way to GitHub: a check or a repair that is          *)
(* published, or the records of a proposal, file by file.  A behaviour is  *)
(* about one of the three; they share the variables that have the same     *)
(* meaning.  The variables of the other parts are unused.                  *)
(*                                                                         *)
(* A repair is published either without late writes, or by some of the     *)
(* publishers only (Delayed) and with them.                                *)
(***************************************************************************)
EXTENDS Naturals, Sequences, FiniteSets

CONSTANTS Publishers, ActorOf, Delayed, None, Batches, Objects, Pulls, LateBound,
          PowerBound, OfRepair

VARIABLES
  part,                                            \* what the behaviour is about
  approval, result, late, lost, source, permitted, expired, lock, pr,
  checks, exact,
  partial, local, subject, objects, branch, pulls, made, drifted, whole,
  path, records, temp, disk, kept, broken, failures

sharedVars == <<approval, result, late, lost, source, permitted, expired>>
checkVars == <<checks, exact>>
repairVars == <<partial, local, subject, objects, branch, pulls, made, drifted, whole>>
recordVars == <<path, records, temp, disk, kept, broken, failures>>
vars == <<part, lock, pr, sharedVars, checkVars, repairVars, recordVars>>

Checking == INSTANCE CheckPublication
Repairing == INSTANCE RepairPublication
Recording == INSTANCE PublicationRecords WITH Processes <- Publishers, Repair <- OfRepair

ASSUME CheckAssumption == Checking!PublishersAssumption /\ Checking!BoundsAssumption
ASSUME RepairAssumption == Repairing!PublishersAssumption /\ Repairing!BoundsAssumption
ASSUME RecordAssumption ==
  Recording!ProcessesAssumption /\ Recording!ParametersAssumption /\ Recording!FilesAssumption

Unused(variable) == variable = "unused"
NotPublishing ==
  /\ Unused(approval) /\ Unused(result) /\ Unused(late) /\ Unused(lost)
  /\ Unused(source) /\ Unused(permitted) /\ Unused(expired)
NotChecking == Unused(checks) /\ Unused(exact)
NotRepairing ==
  /\ Unused(partial) /\ Unused(local) /\ Unused(subject) /\ Unused(objects) /\ Unused(branch)
  /\ Unused(pulls) /\ Unused(made) /\ Unused(drifted) /\ Unused(whole)
NotRecording ==
  /\ Unused(path) /\ Unused(records) /\ Unused(temp) /\ Unused(disk)
  /\ Unused(kept) /\ Unused(broken) /\ Unused(failures)

Init ==
  \/ part = "check" /\ Checking!Init /\ NotRepairing /\ NotRecording
  \/ part \in {"repair", "delayed"} /\ Repairing!Init /\ NotChecking /\ NotRecording
  \/ part = "records" /\ Recording!Init /\ NotPublishing /\ NotChecking /\ NotRepairing

(* What a step of a part leaves alone.                                     *)
IsCheck == part = "check" /\ UNCHANGED <<part, repairVars, recordVars>>
IsRepair == part = "repair" /\ UNCHANGED <<part, checkVars, recordVars>>
IsDelayed == part = "delayed" /\ UNCHANGED <<part, checkVars, recordVars>>
IsRecords == part = "records" /\ UNCHANGED <<part, sharedVars, checkVars, repairVars>>

(* Restrictions of the repair: no write is late, or few publishers run.    *)
NoneLate == lost' = 0
OnlyDelayed == \A who \in Publishers \ Delayed : pr'[who] = pr[who]

Next ==
  \/ IsCheck /\ Checking!Next
  \/ IsRepair /\ Repairing!Next /\ NoneLate
  \/ IsDelayed /\ Repairing!Next /\ OnlyDelayed
  \/ IsRecords /\ Recording!Next

(* The fairness of CheckPublication and RepairPublication.                 *)
Step(who) ==
  (IsCheck /\ Checking!Step(who)) \/ (IsRepair /\ Repairing!Step(who) /\ NoneLate)
Begin(who) == (IsCheck /\ Checking!Begin(who)) \/ (IsRepair /\ Repairing!Begin(who))
Fault(who) ==
  (part = "check" /\ Checking!Fault(who)) \/ (part = "repair" /\ Repairing!Fault(who))

Spec == Init /\ [][Next]_vars

FairSpec ==
  /\ Spec
  /\ \A who \in Publishers : WF_vars(Step(who)) /\ SF_vars(Begin(who))
  /\ <>[][\A who \in Publishers : ~Fault(who)]_vars

-----------------------------------------------------------------------------
(* What is on GitHub is the proposal, once and in order, however often the *)
(* command was given again; a final record names what was all there; while *)
(* the source is away at most one more thing of a repair appears, and it   *)
(* is not recorded as finished meanwhile.  Where the code relies on an     *)
(* unanswered write being carried out before it reads back, the claim is   *)
(* for behaviours without a late write.                                    *)
PublishedIsProposed ==
  /\ part = "check" =>
       /\ Checking!TypeOK /\ Checking!RecordedWasExact
       /\ lost = 0 => /\ Checking!AtMostOneCheckRun /\ Checking!AnnotationsInOrder
                      /\ Checking!RecordedIsExact
  /\ part = "repair" =>
       /\ Repairing!TypeOK /\ Repairing!BranchHasObjects
       /\ Repairing!AtMostOnePull /\ Repairing!DriftStopsPublication
  /\ part = "delayed" => Repairing!TypeOK /\ Repairing!BranchHasObjects

(* A write is sent by the approver, before the final record; one of a      *)
(* repair only when the local session is applied with the same approval.   *)
WritesAreApproved ==
  /\ part = "check" => Checking!WritesAreApproved
  /\ part = "repair" =>
       /\ Repairing!WritesAreApproved /\ Repairing!PublishedIsApplied
       /\ Repairing!RecoveryHasBranch
  /\ part = "delayed" => Repairing!WritesAreApproved /\ Repairing!PublishedIsApplied

(* Each implements an approved publication.                                *)
Publication == INSTANCE ApprovedPublication WITH
  Actors   <- Checking!Actors,
  Reports  <- Nat,
  approval <- IF part = "records" THEN None ELSE approval,
  result   <- IF part = "records" THEN None ELSE result,
  visible  <- CASE part = "check"   -> checks # <<>>
                [] part = "records" -> FALSE
                [] OTHER            -> made # {},
  whole    <- CASE part = "check"   -> exact # {}
                [] part = "records" -> FALSE
                [] OTHER            -> whole

ImplementsPublication == Publication!Spec

(* When faults have stopped the publication ends, unless somebody else     *)
(* changed what it depends on, the source is away again and again, or a    *)
(* write was late.                                                         *)
PublicationEnds ==
  /\ (part = "check") =>
       <>(Checking!Published \/ Checking!Void \/ lost > 0) \/ []<>(source = "moved")
  /\ (part = "repair") => Repairing!PublicationEnds

(* Whatever a crash, a failed call or a power failure leaves: a record is  *)
(* whole under its name, and the proposal can be recorded and loaded.      *)
RecordsAreWhole ==
  part = "records" =>
    Recording!TypeOK /\ Recording!RecordsAreWhole /\ Recording!NothingIsBroken

(* The files implement records that are written once, in order, and never  *)
(* lost after their directory was synced.                                  *)
Records == INSTANCE WriteOnceRecords WITH
  Names  <- Recording!Names,
  Values <- Recording!Values,
  Needs  <- Recording!Needs,
  Bars   <- Recording!Bars,
  record <- [n \in Recording!Names |->
               IF part # "records" THEN None
               ELSE IF records[n] = None THEN None ELSE records[n].value],
  kept   <- IF part = "records" THEN kept ELSE {}

ImplementsRecords == Records!Spec
=============================================================================
