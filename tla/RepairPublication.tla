------------------------- MODULE RepairPublication -------------------------
(***************************************************************************)
(* Publishing one approved repair on GitHub: the local application, the    *)
(* git objects, the branch, the draft pull request.                        *)
(*                                                                         *)
(* publish_repair and recover_repair run in one process under the lock of  *)
(* the publication record.  Between any two requests the source pull       *)
(* request, the branch, the replacement pull request, the local session    *)
(* and the permissions may be changed by others; the process may die.  As  *)
(* in CheckPublication a write is answered, refused, or left open, and an  *)
(* open one may be carried out after it was read back (late).              *)
(***************************************************************************)
EXTENDS Naturals, Sequences

CONSTANTS
  Publishers,   \* processes that publish this proposal
  ActorOf,      \* the GitHub user whose token a publisher has
  Objects,      \* number of git objects: blobs, then the tree, the commit
  LateBound,    \* bound: how many unanswered writes are carried out late
  Pulls,        \* bound: how many pull requests the branch ever has
  None          \* no process, no record, nobody

Actors == {ActorOf[p] : p \in Publishers}

PublishersAssumption == None \notin Publishers /\ None \notin Actors

BoundsAssumption ==
  Objects \in Nat \ {0} /\ LateBound \in Nat /\ Pulls \in Nat \ {0}

VARIABLES
  approval,   \* approval.json: the actor of the saved approval
  partial,    \* partial-result.json: the branch has been created
  result,     \* result.json: the pull request the final record names
  local,      \* state of the local repair session
  subject,    \* who approved the local session: an actor, or an outsider
  objects,    \* git objects GitHub has
  branch,     \* the repair branch: "absent", "ours" or "foreign"
  pulls,      \* pull requests from that branch, oldest first
  late,       \* unanswered writes GitHub may still carry out
  lost,       \* how many writes have been late so far
  made,       \* what GitHub was made to show: branch, pull (history)
  drifted,    \* what of it appeared since the source moved away (history)
  whole,      \* the branch and the pull request once were both exact (history)
  source,     \* the source pull request: as proposed ("same") or "moved"
  permitted,  \* actors with write permission
  expired,    \* the proposal is past its expiry
  lock,       \* the publisher that holds the publication lock
  pr          \* program counter and locals of every publisher

records == <<approval, partial, result>>
session == <<local, subject>>
remote == <<objects, branch, pulls>>
delivery == <<late, lost>>
history == <<made, drifted, whole>>
world == <<source, permitted, expired>>
vars == <<records, session, remote, delivery, history, world, lock, pr>>

Outsider == "outsider"

(* States of the local session as far as publishing tells them apart;      *)
(* "gone" is an applied session past its retention.                        *)
LocalStates == {"validated", "approved", "applying", "applied", "closed", "gone"}

(* A pull request as created here, changed (closed, edited, made ready)    *)
(* afterwards, or opened by somebody else.                                 *)
PullStates == {"exact", "changed", "foreign"}

(* Program counters; those of the second line send a write.                *)
WritingPcs == {"create_object", "create_branch", "create_pull"}
Pcs == WritingPcs \cup
  {"idle", "principal", "source", "approve", "snapshot", "approve_local", "apply_local",
   "object", "object_lost", "refresh_branch", "branch", "branch_made", "partial",
   "refresh_pull", "find_pull", "find_made", "final_branch", "final_pull",
   "final_source", "record", "recheck"}

Idle == [pc |-> "idle", recover |-> FALSE, object |-> 1, pull |-> None]

At(p, pc) == pr[p].pc = pc

Goto(p, pc) == pr' = [pr EXCEPT ![p].pc = pc] /\ UNCHANGED lock

(* Leaving the locked section, by a return or by an exception.             *)
Return(p) == pr' = [pr EXCEPT ![p] = Idle] /\ lock' = None

(* A check of what was read: on with the next step, or an error.           *)
Require(p, holds, pc) == IF holds THEN Goto(p, pc) ELSE Return(p)

-----------------------------------------------------------------------------
(* GitHub.                                                                 *)

(* The writes; id tells those apart that are under way.                    *)
ObjectWrite(i) == [op |-> "object", object |-> i, id |-> 0]
BranchWrite == [op |-> "branch", object |-> 0, id |-> 0]
PullWrite == [op |-> "pull", object |-> 0, id |-> 0]

CanOpenPull == branch # "absent" /\ ~\E i \in DOMAIN pulls : pulls[i] = "exact"

(* What a write does when it is carried out: git objects are addressed by  *)
(* content, a branch is created only if it is absent, a pull request only  *)
(* if there is a branch and no open pull request from it.                  *)
CarryOut(w) ==
  LET shows == \/ w.op = "branch" /\ branch = "absent"
               \/ w.op = "pull" /\ CanOpenPull /\ Len(pulls) < Pulls
  IN  /\ objects' = IF w.op = "object" THEN objects \cup {w.object} ELSE objects
      /\ branch' = IF w.op = "branch" /\ shows THEN "ours" ELSE branch
      /\ pulls' = IF w.op = "pull" /\ shows THEN Append(pulls, "exact") ELSE pulls
      /\ made' = IF shows THEN made \cup {w.op} ELSE made
      /\ drifted' = IF shows /\ source = "moved" THEN drifted \cup {w.op} ELSE drifted
      /\ whole' = \/ whole
                  \/ branch' = "ours" /\ \E i \in DOMAIN pulls' : pulls'[i] = "exact"

Refused(w) ==
  \/ w.op = "branch" /\ branch # "absent"
  \/ w.op = "pull" /\ ~(CanOpenPull /\ Len(pulls) < Pulls)

(* How a write ends.  "conflict" is the status GitHub gives to a branch or *)
(* a pull request that exists already; "failed" any other clear error.     *)
Endings == {"answered", "unanswered", "dropped", "conflict", "failed", "late"}

Write(w, how) ==
  /\ how = "answered" => ~Refused(w)
  /\ how = "conflict" => Refused(w)
  /\ IF how \in {"answered", "unanswered"} THEN CarryOut(w)
     ELSE UNCHANGED <<remote, history>>
  /\ IF how = "late"
     THEN /\ lost < LateBound
          /\ lost' = lost + 1
          /\ late' = late \cup {[w EXCEPT !.id = lost + 1]}
     ELSE UNCHANGED delivery

Settle ==
  \E w \in late :
    /\ CarryOut(w)
    /\ late' = late \ {w}
    /\ UNCHANGED <<records, session, lost, world, lock, pr>>

-----------------------------------------------------------------------------
(* Everybody else.                                                         *)

(* The source is pushed to or closed, and it is pushed back or reopened,   *)
(* perhaps between two readings, which then cannot tell.                   *)
SourceMoves ==
  /\ source' \in {"same", "moved"} \ {source}
  /\ drifted' = {}
  /\ UNCHANGED <<records, session, remote, delivery, made, whole, permitted, expired, lock, pr>>

PermissionWithdrawn ==
  /\ \E a \in permitted : permitted' = permitted \ {a}
  /\ UNCHANGED <<records, session, remote, delivery, history, source, expired, lock, pr>>

Expire ==
  /\ ~expired /\ expired' = TRUE
  /\ UNCHANGED <<records, session, remote, delivery, history, source, permitted, lock, pr>>

(* Somebody creates the branch or moves it to another commit.              *)
ForeignBranch ==
  /\ branch # "foreign" /\ branch' = "foreign"
  /\ UNCHANGED <<records, session, objects, pulls, delivery, history, world, lock, pr>>

(* Somebody deletes the branch; GitHub closes its open pull request.       *)
BranchDeleted ==
  /\ branch = "ours" /\ branch' = "absent"
  /\ pulls' = [i \in DOMAIN pulls |-> IF pulls[i] = "exact" THEN "changed" ELSE pulls[i]]
  /\ UNCHANGED <<records, session, objects, delivery, history, world, lock, pr>>

PullChanged ==
  /\ \E i \in DOMAIN pulls : pulls[i] = "exact" /\ pulls' = [pulls EXCEPT ![i] = "changed"]
  /\ UNCHANGED <<records, session, objects, branch, delivery, history, world, lock, pr>>

ForeignPull ==
  /\ CanOpenPull /\ Len(pulls) < Pulls
  /\ pulls' = Append(pulls, "foreign")
  /\ UNCHANGED <<records, session, objects, branch, delivery, history, world, lock, pr>>

(* Other commands on the local session: it is approved by an outsider,     *)
(* applied, recovered from a broken application, rejected or cancelled,    *)
(* and removed after its retention.                                        *)
LocalCommand ==
  /\ \/ local = "validated" /\ local' = "approved" /\ subject' = Outsider
     \/ local \in {"approved", "applying"} /\ local' \in {"applied", "closed"} /\ UNCHANGED subject
     \/ local \in {"validated", "approved"} /\ local' = "closed" /\ UNCHANGED subject
     \/ local = "applied" /\ local' = "gone" /\ UNCHANGED subject
  /\ UNCHANGED <<records, remote, delivery, history, world, lock, pr>>

-----------------------------------------------------------------------------
(* publish_repair and recover_repair: authorization.                       *)

(* The lock and the load of the records.  Recovery needs a partial result. *)
Begin(p) ==
  /\ At(p, "idle")
  /\ lock = None
  /\ lock' = p
  /\ \E recover \in IF partial # None \/ result # None THEN BOOLEAN ELSE {FALSE} :
       pr' = [pr EXCEPT ![p] = [Idle EXCEPT !.pc = "principal", !.recover = recover]]
  /\ UNCHANGED <<records, session, remote, delivery, history, world>>

(* _read_principal and _require_saved_approval.                            *)
ReadPrincipal(p) ==
  /\ At(p, "principal")
  /\ Require(p, ActorOf[p] \in permitted /\ approval \in {None, ActorOf[p]},
             IF result # None THEN "recheck" ELSE "source")
  /\ UNCHANGED <<records, session, remote, delivery, history, world>>

(* read_source_pull_request before the approval.                           *)
ReadSource(p) ==
  /\ At(p, "source")
  /\ Require(p, source = "same", IF approval = None THEN "approve" ELSE "snapshot")
  /\ UNCHANGED <<records, session, remote, delivery, history, world>>

(* _approval; the record may be written although the call raises.          *)
SaveApproval(p) ==
  /\ At(p, "approve")
  /\ \/ expired /\ Return(p) /\ UNCHANGED approval
     \/ ~expired /\ approval' = ActorOf[p] /\ (Goto(p, "snapshot") \/ Return(p))
  /\ UNCHANGED <<partial, result, session, remote, delivery, history, world>>

-----------------------------------------------------------------------------
(* _apply_local_repair.                                                    *)

(* Bug: a session approved by somebody else is published as well.          *)
ReadSnapshotOfAnybody(p) ==
  /\ At(p, "snapshot")
  /\ CASE local = "validated" -> Goto(p, "approve_local")
       [] local = "approved" -> Goto(p, "apply_local")
       [] local = "applied" -> Goto(p, "object")
       [] OTHER -> Return(p)
  /\ UNCHANGED <<records, session, remote, delivery, history, world>>

(* Where the snapshot of the local session leads.                          *)
ReadSnapshot(p) ==
  /\ At(p, "snapshot")
  /\ CASE local = "validated" -> Goto(p, "approve_local")
       [] local = "approved" /\ subject = ActorOf[p] -> Goto(p, "apply_local")
       [] local = "applied" /\ subject = ActorOf[p] -> Goto(p, "object")
       [] OTHER -> Return(p)
  /\ UNCHANGED <<records, session, remote, delivery, history, world>>

(* session.approve succeeds, succeeds although it raises, or fails.        *)
ApproveLocal(p) ==
  /\ At(p, "approve_local")
  /\ \/ /\ local = "validated"
        /\ local' = "approved" /\ subject' = ActorOf[p]
        /\ Goto(p, "apply_local") \/ Return(p)
     \/ Return(p) /\ UNCHANGED session
  /\ UNCHANGED <<records, remote, delivery, history, world>>

(* session.apply: applied, or closed by a conflict on the ref, or left in  *)
(* the middle.                                                             *)
ApplyLocal(p) ==
  /\ At(p, "apply_local")
  /\ \/ /\ local = "approved"
        /\ \/ local' = "applied" /\ (Goto(p, "object") \/ Return(p))
           \/ local' \in {"applying", "closed"} /\ Return(p)
     \/ Return(p) /\ UNCHANGED local
  /\ UNCHANGED <<subject, records, remote, delivery, history, world>>

-----------------------------------------------------------------------------
(* _publish_git_objects.                                                   *)

Exists(p) == pr[p].object \in objects

NextObject(p) ==
  /\ pr' = [pr EXCEPT ![p].object = @ + 1,
                      ![p].pc = IF pr[p].object = Objects THEN "refresh_branch" ELSE "object"]
  /\ UNCHANGED lock

(* _blob_exists, _git_object_exists, _commit_exists; first or read back    *)
(* after a write without an answer.                                        *)
ReadObject(p) ==
  /\ pr[p].pc \in {"object", "object_lost"}
  /\ IF Exists(p) THEN NextObject(p) ELSE Require(p, At(p, "object"), "create_object")
  /\ UNCHANGED <<records, session, remote, delivery, history, world>>

(* _ensure_blob, _ensure_tree, _ensure_commit.                             *)
CreateObject(p, how) ==
  /\ At(p, "create_object")
  /\ Write(ObjectWrite(pr[p].object), how)
  /\ CASE how = "answered" -> NextObject(p)
       [] how = "failed"   -> Return(p)
       [] OTHER            -> Goto(p, "object_lost")
  /\ UNCHANGED <<records, session, world>>

-----------------------------------------------------------------------------
(* _ensure_branch, between two readings of the source.                     *)

(* _refresh_source.                                                        *)
RefreshSource(p) ==
  /\ pr[p].pc \in {"refresh_branch", "refresh_pull", "final_source"}
  /\ Require(p, source = "same",
             CASE At(p, "refresh_branch") -> "branch"
               [] At(p, "refresh_pull")   -> "find_pull"
               [] At(p, "final_source")   -> "record")
  /\ UNCHANGED <<records, session, remote, delivery, history, world>>

(* _read_branch, before and after the creation: the branch has to be ours, *)
(* or at first absent.                                                     *)
ReadBranch(p) ==
  /\ pr[p].pc \in {"branch", "branch_made"}
  /\ CASE branch = "ours" -> Goto(p, IF partial = None THEN "partial" ELSE "refresh_pull")
       [] branch = "absent" /\ At(p, "branch") -> Goto(p, "create_branch")
       [] OTHER -> Return(p)
  /\ UNCHANGED <<records, session, remote, delivery, history, world>>

CreateBranch(p, how) ==
  /\ At(p, "create_branch")
  /\ Write(BranchWrite, how)
  /\ IF how = "failed" THEN Return(p) ELSE Goto(p, "branch_made")
  /\ UNCHANGED <<records, session, world>>

(* record_partial_result; written, perhaps, although the call raises.      *)
RecordPartial(p) ==
  /\ At(p, "partial")
  /\ partial' = ActorOf[p]
  /\ Goto(p, "refresh_pull") \/ Return(p)
  /\ UNCHANGED <<approval, result, session, remote, delivery, history, world>>

-----------------------------------------------------------------------------
(* The draft pull request and the final record.                            *)

(* _find_replacement_pull_request, first or after a create that was not    *)
(* answered or refused, and _require_replacement_pull_request.             *)
FindPull(p) ==
  /\ pr[p].pc \in {"find_pull", "find_made"}
  /\ CASE pulls = <<>> -> Require(p, At(p, "find_pull"), "create_pull")
       [] pulls = <<"exact">> ->
            pr' = [pr EXCEPT ![p].pc = "final_branch", ![p].pull = 1] /\ UNCHANGED lock
       [] OTHER -> Return(p)
  /\ UNCHANGED <<records, session, remote, delivery, history, world>>

(* _create_replacement_pull_request.                                       *)
CreatePull(p, how) ==
  /\ At(p, "create_pull")
  /\ Write(PullWrite, how)
  /\ CASE how = "answered" ->
            pr' = [pr EXCEPT ![p].pc = "final_branch", ![p].pull = Len(pulls')] /\ UNCHANGED lock
       [] how = "failed" -> Return(p)
       [] OTHER          -> Goto(p, "find_made")
  /\ UNCHANGED <<records, session, world>>

(* Bug: the branch is not read once more.                                  *)
SkipFinalBranch(p) ==
  /\ At(p, "final_branch")
  /\ Goto(p, "final_pull")
  /\ UNCHANGED <<records, session, remote, delivery, history, world>>

ReadFinalBranch(p) ==
  /\ At(p, "final_branch")
  /\ Require(p, branch = "ours", "final_pull")
  /\ UNCHANGED <<records, session, remote, delivery, history, world>>

(* _read_replacement_pull_request.                                         *)
ReadFinalPull(p) ==
  /\ At(p, "final_pull")
  /\ Require(p, pulls[pr[p].pull] = "exact", "final_source")
  /\ UNCHANGED <<records, session, remote, delivery, history, world>>

(* record_result.                                                          *)
Record(p) ==
  /\ At(p, "record")
  /\ result' = pr[p].pull
  /\ Return(p)
  /\ UNCHANGED <<approval, partial, session, remote, delivery, history, world>>

(* _revalidate_final_repair: only reads.                                   *)
Recheck(p) ==
  /\ At(p, "recheck")
  /\ Return(p)
  /\ UNCHANGED <<records, session, remote, delivery, history, world>>

(* A read or a record fails, the process dies, or the session is gone.     *)
Abort(p) ==
  /\ ~At(p, "idle")
  /\ Return(p)
  /\ UNCHANGED <<records, session, remote, delivery, history, world>>

-----------------------------------------------------------------------------
Init ==
  /\ approval = None /\ partial = None /\ result = None
  /\ local = "validated" /\ subject = None
  /\ objects = {} /\ branch = "absent" /\ pulls = <<>>
  /\ late = {} /\ lost = 0
  /\ made = {} /\ drifted = {} /\ whole = FALSE
  /\ source = "same" /\ permitted = Actors /\ expired = FALSE
  /\ lock = None
  /\ pr = [p \in Publishers |-> Idle]

Step(p) ==
  \/ ReadPrincipal(p) \/ ReadSource(p) \/ SaveApproval(p)
  \/ ReadSnapshot(p) \/ ApproveLocal(p) \/ ApplyLocal(p)
  \/ ReadObject(p) \/ RefreshSource(p) \/ ReadBranch(p) \/ RecordPartial(p)
  \/ FindPull(p) \/ ReadFinalBranch(p) \/ ReadFinalPull(p) \/ Record(p) \/ Recheck(p)
  \/ \E how \in Endings :
       \/ CreateObject(p, how)
       \/ CreateBranch(p, how)
       \/ CreatePull(p, how)

Environment ==
  \/ Settle \/ SourceMoves \/ PermissionWithdrawn \/ Expire
  \/ ForeignBranch \/ BranchDeleted \/ PullChanged \/ ForeignPull \/ LocalCommand

Next ==
  \/ \E p \in Publishers : Begin(p) \/ Step(p) \/ Abort(p)
  \/ Environment

Spec == Init /\ [][Next]_vars

(* Fairness.  Requests have timeouts; the operator gives the command again;*)
(* what fails does so for a while only.                                    *)
Fault(p) ==
  \/ \E how \in {"unanswered", "dropped", "failed", "late"} :
       CreateObject(p, how) \/ CreateBranch(p, how) \/ CreatePull(p, how)
  \/ /\ pr[p].pc \in {"approve", "approve_local", "apply_local", "partial"}
     /\ pr'[p].pc = "idle"
     /\ ~(At(p, "approve") /\ expired)
  \/ Abort(p) /\ ~Step(p)

FairSpec ==
  /\ Spec
  /\ \A p \in Publishers : WF_vars(Step(p)) /\ SF_vars(Begin(p))
  /\ <>[][\A p \in Publishers : ~Fault(p)]_vars

-----------------------------------------------------------------------------
(* Safety.                                                                 *)

TypeOK ==
  /\ approval \in Actors \cup {None} /\ partial \in Actors \cup {None}
  /\ result \in DOMAIN pulls \cup {None}
  /\ local \in LocalStates /\ subject \in Actors \cup {Outsider, None}
  /\ objects \subseteq 1..Objects /\ branch \in {"absent", "ours", "foreign"}
  /\ pulls \in Seq(PullStates) /\ Len(pulls) <= Pulls
  /\ late \subseteq [op : {"object", "branch", "pull"}, object : 0..Objects, id : 1..LateBound]
  /\ lost \in 0..LateBound
  /\ made \subseteq {"branch", "pull"} /\ drifted \subseteq made /\ whole \in BOOLEAN
  /\ source \in {"same", "moved"} /\ permitted \subseteq Actors /\ expired \in BOOLEAN
  /\ lock \in Publishers \cup {None}
  /\ \A p \in Publishers :
       /\ pr[p].pc \in Pcs /\ pr[p].recover \in BOOLEAN
       /\ pr[p].object \in 1..(Objects + 1) /\ pr[p].pull \in DOMAIN pulls \cup {None}
       /\ At(p, "idle") <=> lock # p

(* Nothing of a repair is on GitHub before the local session is applied,   *)
(* and its approval is that of the GitHub user who approved the proposal.  *)
PublishedIsApplied ==
  objects # {} \/ made # {} =>
    /\ local \in {"applied", "gone"}
    /\ approval # None /\ subject = approval

(* The branch is created only when GitHub has every object it refers to.   *)
BranchHasObjects == "branch" \in made => objects = 1..Objects

(* Retries, lost answers, a deleted branch or a closed pull request never  *)
(* lead to a second pull request, as long as no write is late.             *)
AtMostOnePull ==
  \A i, j \in DOMAIN pulls : pulls[i] # "foreign" /\ pulls[j] # "foreign" => i = j

(* While the source is away at most one more thing appears on GitHub: the  *)
(* branch or the pull request that was about to be created.  What appeared *)
(* is not recorded as finished unless the source was as proposed at a      *)
(* later moment, be it that it has come back.                              *)
DriftStopsPublication ==
  /\ \A a, b \in drifted : a = b
  /\ drifted # {} => result = None

(* A write is sent by the approver only, for an applied session, before    *)
(* the final record.                                                       *)
WritesAreApproved ==
  \A p \in Publishers :
    pr[p].pc \in WritingPcs =>
      approval = ActorOf[p] /\ result = None /\ local \in {"applied", "gone"}

(* A recovery goes on only with a branch that was created and approved.    *)
RecoveryHasBranch ==
  \A p \in Publishers : pr[p].recover => "branch" \in made /\ approval = partial

(* publish_repair implements an approved publication.                      *)
Publication == INSTANCE ApprovedPublication
                 WITH visible <- made # {}, Reports <- Nat

ImplementsPublication == Publication!Spec

(* Liveness.  When faults have stopped the repair is published, unless     *)
(* somebody else has changed what it depends on for good or the source is  *)
(* away again and again.                                                   *)
Void ==
  \/ permitted # Actors
  \/ expired /\ approval = None
  \/ local \in {"applying", "closed", "gone"}
  \/ subject \notin {None, approval}
  \/ branch = "foreign"
  \/ branch = "absent" /\ "branch" \in made
  \/ \E i \in DOMAIN pulls : pulls[i] # "exact"

PublicationEnds == <>(result # None \/ Void) \/ []<>(source = "moved")
=============================================================================
