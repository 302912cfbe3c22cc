------------------------- MODULE CheckPublication -------------------------
(***************************************************************************)
(* Publishing one approved Check Run on GitHub.                            *)
(*                                                                         *)
(* publish_check runs in one process under the lock of its publication     *)
(* record: it authorizes the principal and the source pull request, saves  *)
(* an approval, looks for a check run with the external id of the          *)
(* proposal, creates it with the first batch of annotations if there is    *)
(* none, appends the remaining batches one by one, completes the run,      *)
(* reads everything back and saves the final record.  Every request is a   *)
(* step of its own.  A write may be refused, carried out, or end without   *)
(* an answer that tells; then the code reads back instead of repeating it. *)
(* An unanswered write may have been carried out, may never be, or may be  *)
(* carried out later (late).                                               *)
(*                                                                         *)
(* A raised error and a crash are the same here: the lock is released and  *)
(* the locals are lost; the command can be given again.                    *)
(***************************************************************************)
EXTENDS Naturals, Sequences, FiniteSets, SequencesExt

CONSTANTS
  Publishers,   \* processes that run publish_check on this proposal
  ActorOf,      \* the GitHub user whose token a publisher has
  Batches,      \* annotation batches of the proposal (50 annotations each)
  LateBound,    \* bound: how many unanswered writes are carried out late
  None          \* no process, no record

Actors == {ActorOf[p] : p \in Publishers}

PublishersAssumption ==
  /\ None \notin Publishers
  /\ None \notin Actors
  /\ None \notin Nat

BoundsAssumption == Batches \in Nat /\ LateBound \in Nat

VARIABLES
  approval,    \* approval.json: the actor of the saved approval
  result,      \* result.json: the check run the final record names
  checks,      \* the check runs with this external id, oldest first
  late,        \* unanswered writes GitHub may still carry out
  lost,        \* how many writes have been late so far
  exact,       \* check runs that once were complete and exact (history)
  source,      \* the source pull request: as proposed ("same") or "moved"
  permitted,   \* actors with write permission
  expired,     \* the proposal is past its expiry
  lock,        \* the publisher that holds the publication lock
  pr           \* program counter and locals of every publisher

records == <<approval, result>>
remote == <<checks, late, lost, exact>>
world == <<source, permitted, expired>>
vars == <<records, remote, world, lock, pr>>

(* The annotations of the proposal, and those a new check run starts with. *)
Proposed == [b \in 1..Batches |-> b]
First == SubSeq(Proposed, 1, IF Batches = 0 THEN 0 ELSE 1)

(* A check run as GitHub has it, and as a publisher last read it.          *)
CheckRun == [status : {"in_progress", "completed"}, annotations : Seq(1..Batches)]

Complete(c) == c.status = "completed" /\ c.annotations = Proposed

Pcs == {"idle", "principal", "source", "approve", "find", "create",
        "find_created", "compare", "append", "reread_lost", "compare_lost",
        "reread", "compare_appended", "complete", "reread_completed",
        "final", "compare_final", "record", "recheck", "recompare"}

(* The steps that send a write.                                            *)
WritingPcs == {"create", "append", "complete"}

Idle == [pc |-> "idle", check |-> None, status |-> None, count |-> 0, done |-> 0]

At(p, pc) == pr[p].pc = pc

Goto(p, pc) == pr' = [pr EXCEPT ![p].pc = pc]

(* What a publisher keeps of a check run it read: its id, its status, the  *)
(* number of its annotations.  done counts the batches it has seen.        *)
Saw(p, c, pc) ==
  pr' = [pr EXCEPT ![p] = [pc |-> pc, check |-> c, status |-> checks'[c].status,
                           count |-> Len(checks'[c].annotations),
                           done |-> pr[p].done]]

(* Leaving the locked section, by a return or by an exception.             *)
Return(p) ==
  /\ pr' = [pr EXCEPT ![p] = Idle]
  /\ lock' = None

(* A check of what was read: on with the next step, or an error.           *)
Require(p, holds, pc) ==
  IF holds THEN Goto(p, pc) /\ UNCHANGED lock ELSE Return(p)

(* The annotations of check run c, read page by page (two batches each)    *)
(* until there are as many as the check run had when it was read.          *)
Read(c, count) ==
  LET pages == (count + 1) \div 2
      all   == checks[c].annotations
  IN  SubSeq(all, 1, IF 2 * pages < Len(all) THEN 2 * pages ELSE Len(all))

-----------------------------------------------------------------------------
(* GitHub.                                                                 *)

(* What a write does when it is carried out.  Updates append annotations.  *)
Effect(w) ==
  IF w.op = "create" THEN Append(checks, [status |-> "in_progress", annotations |-> First])
  ELSE [checks EXCEPT ![w.check] =
          IF w.op = "append"
          THEN [status |-> "in_progress", annotations |-> Append(@.annotations, w.batch)]
          ELSE [@ EXCEPT !.status = "completed"]]

CarryOut(w) ==
  /\ checks' = Effect(w)
  /\ exact' = exact \cup {c \in DOMAIN checks' : Complete(checks'[c])}

(* How a write ends: answered; carried out, but the answer is lost or      *)
(* malformed; neither; refused with a status that is not ambiguous; or     *)
(* unanswered and still on its way.                                        *)
Endings == {"answered", "unanswered", "dropped", "refused", "late"}

Write(w, how) ==
  /\ IF how \in {"answered", "unanswered"} THEN CarryOut(w)
     ELSE UNCHANGED <<checks, exact>>
  /\ IF how = "late"
     THEN /\ lost < LateBound
          /\ lost' = lost + 1
          /\ late' = late \cup {[w EXCEPT !.id = lost + 1]}
     ELSE UNCHANGED <<lost, late>>

Settle ==
  \E w \in late :
    /\ CarryOut(w)
    /\ late' = late \ {w}
    /\ UNCHANGED <<records, lost, world, lock, pr>>

(* Somebody pushes to the source pull request or closes it, or takes that  *)
(* back; a permission is withdrawn; time passes.                           *)
SourceMoves ==
  /\ source' \in {"same", "moved"} \ {source}
  /\ UNCHANGED <<records, remote, permitted, expired, lock, pr>>

PermissionWithdrawn ==
  /\ \E a \in permitted : permitted' = permitted \ {a}
  /\ UNCHANGED <<records, remote, source, expired, lock, pr>>

Expire ==
  /\ ~expired
  /\ expired' = TRUE
  /\ UNCHANGED <<records, remote, source, permitted, lock, pr>>

-----------------------------------------------------------------------------
(* publish_check: authorization.                                           *)

(* The lock, the recovery and the load of the records.                     *)
Begin(p) ==
  /\ At(p, "idle")
  /\ lock = None
  /\ lock' = p
  /\ Goto(p, "principal")
  /\ UNCHANGED <<records, remote, world>>

(* _read_principal and _require_saved_approval.  A proposal that has its   *)
(* final record is only revalidated.                                       *)
ReadPrincipal(p) ==
  /\ At(p, "principal")
  /\ Require(p, ActorOf[p] \in permitted /\ approval \in {None, ActorOf[p]},
             IF result # None THEN "recheck" ELSE "source")
  /\ UNCHANGED <<records, remote, world>>

(* read_source_pull_request: open, in this repository, as proposed.        *)
ReadSource(p) ==
  /\ At(p, "source")
  /\ Require(p, source = "same", IF approval = None THEN "approve" ELSE "find")
  /\ UNCHANGED <<records, remote, world>>

(* _approval: there is no new approval once the proposal has expired.  The *)
(* record may be written although the call raises.                         *)
SaveApproval(p) ==
  /\ At(p, "approve")
  /\ \/ expired /\ Return(p) /\ UNCHANGED approval
     \/ /\ ~expired
        /\ approval' = ActorOf[p]
        /\ (Goto(p, "find") /\ UNCHANGED lock) \/ Return(p)
  /\ UNCHANGED <<result, remote, world>>

-----------------------------------------------------------------------------
(* publish_check: the check run and its annotations.                       *)

(* Bug: a check run that exists is taken for somebody else's.              *)
FindForeign(p) ==
  /\ pr[p].pc \in {"find", "find_created"}
  /\ UNCHANGED <<records, remote, world>>
  /\ Require(p, At(p, "find") /\ checks = <<>>, "create")

(* Bug: a check run that exists is not looked for.                         *)
FindNothing(p) ==
  /\ pr[p].pc \in {"find", "find_created"}
  /\ UNCHANGED <<records, remote, world>>
  /\ Require(p, At(p, "find"), "create")

(* _find_check_run, first or after a create without an answer: one is      *)
(* taken over, several are a conflict, none after a create is ambiguous.   *)
Find(p) ==
  /\ pr[p].pc \in {"find", "find_created"}
  /\ UNCHANGED <<records, remote, world>>
  /\ IF Len(checks) = 1 THEN Saw(p, 1, "compare") /\ UNCHANGED lock
     ELSE Require(p, At(p, "find") /\ checks = <<>>, "create")

CreateWrite == [op |-> "create", check |-> 0, batch |-> 0, id |-> 0]

(* _create_check_run.                                                      *)
Create(p, how) ==
  /\ At(p, "create")
  /\ Write(CreateWrite, how)
  /\ CASE how = "answered" -> Saw(p, Len(checks'), "compare") /\ UNCHANGED lock
       [] how = "refused"  -> Return(p)
       [] OTHER            -> Goto(p, "find_created") /\ UNCHANGED lock
  /\ UNCHANGED <<records, world>>

(* Where the loop over the batches goes on after `done' of them.           *)
AfterBatches(p, done) ==
  pr' = [pr EXCEPT ![p].done = done,
                   ![p].pc = IF done < Batches THEN "append"
                             ELSE IF pr[p].status = "completed" THEN "final"
                             ELSE "complete"]

(* What is there already has to be a prefix of the proposal, and all of it *)
(* if the run is completed.                                                *)
Compare(p) ==
  /\ At(p, "compare")
  /\ LET got == Read(pr[p].check, pr[p].count)
     IN  IF /\ Len(got) = pr[p].count
            /\ IsPrefix(got, Proposed)
            /\ pr[p].status = "completed" => got = Proposed
         THEN AfterBatches(p, Len(got)) /\ UNCHANGED lock
         ELSE Return(p)
  /\ UNCHANGED <<records, remote, world>>

AppendWrite(p) ==
  [op |-> "append", check |-> pr[p].check, batch |-> pr[p].done + 1, id |-> 0]

(* _append_check_annotations.                                              *)
AppendBatch(p, how) ==
  /\ At(p, "append")
  /\ Write(AppendWrite(p), how)
  /\ CASE how = "answered" -> Goto(p, "reread") /\ UNCHANGED lock
       [] how = "refused"  -> Return(p)
       [] OTHER            -> Goto(p, "reread_lost") /\ UNCHANGED lock
  /\ UNCHANGED <<records, world>>

(* _read_check_run after a batch: once more if its answer was lost.        *)
Reread(p) ==
  /\ pr[p].pc \in {"reread", "reread_lost"}
  /\ UNCHANGED <<records, remote, world, lock>>
  /\ Saw(p, pr[p].check, IF At(p, "reread") THEN "compare_appended" ELSE "compare_lost")

(* After a batch the run holds exactly the batches so far.                 *)
CompareAppended(p) ==
  /\ pr[p].pc \in {"compare_appended", "compare_lost"}
  /\ LET got  == Read(pr[p].check, pr[p].count)
         done == pr[p].done + 1
     IN  IF Len(got) = pr[p].count /\ got = SubSeq(Proposed, 1, done)
         THEN /\ IF At(p, "compare_lost") THEN Goto(p, "reread")
                 ELSE AfterBatches(p, done)
              /\ UNCHANGED lock
         ELSE Return(p)
  /\ UNCHANGED <<records, remote, world>>

-----------------------------------------------------------------------------
(* publish_check: completion.                                              *)

CompleteWrite(p) == [op |-> "complete", check |-> pr[p].check, batch |-> 0, id |-> 0]

(* _complete_check_run.                                                    *)
CompleteRun(p, how) ==
  /\ At(p, "complete")
  /\ Write(CompleteWrite(p), how)
  /\ CASE how = "answered" -> Goto(p, "final") /\ UNCHANGED lock
       [] how = "refused"  -> Return(p)
       [] OTHER            -> Goto(p, "reread_completed") /\ UNCHANGED lock
  /\ UNCHANGED <<records, world>>

RereadCompleted(p) ==
  /\ At(p, "reread_completed")
  /\ Require(p, checks[pr[p].check].status = "completed", "final")
  /\ UNCHANGED <<records, remote, world>>

(* The last reading, of the run and then of its annotations.               *)
ReadFinal(p) ==
  /\ At(p, "final")
  /\ UNCHANGED <<records, remote, world>>
  /\ IF checks[pr[p].check].status = "completed"
     THEN Saw(p, pr[p].check, "compare_final") /\ UNCHANGED lock
     ELSE Return(p)

CompareFinal(p) ==
  /\ At(p, "compare_final")
  /\ LET got == Read(pr[p].check, pr[p].count)
     IN  Require(p, Len(got) = pr[p].count /\ got = Proposed, "record")
  /\ UNCHANGED <<records, remote, world>>

(* record_result; it too may be written although the call raises.          *)
Record(p) ==
  /\ At(p, "record")
  /\ result' = pr[p].check
  /\ Return(p)
  /\ UNCHANGED <<approval, remote, world>>

(* _revalidate_final_check: nothing is written.                            *)
Recheck(p) ==
  /\ At(p, "recheck")
  /\ UNCHANGED <<records, remote, world>>
  /\ IF checks[result].status = "completed"
     THEN Saw(p, result, "recompare") /\ UNCHANGED lock
     ELSE Return(p)

Recompare(p) ==
  /\ At(p, "recompare")
  /\ Return(p)
  /\ UNCHANGED <<records, remote, world>>

(* A read or a record fails, or the process dies.                          *)
Abort(p) ==
  /\ ~At(p, "idle")
  /\ Return(p)
  /\ UNCHANGED <<records, remote, world>>

-----------------------------------------------------------------------------
Init ==
  /\ approval = None /\ result = None
  /\ checks = <<>> /\ late = {} /\ lost = 0 /\ exact = {}
  /\ source = "same" /\ permitted = Actors /\ expired = FALSE
  /\ lock = None
  /\ pr = [p \in Publishers |-> Idle]

Step(p) ==
  \/ ReadPrincipal(p) \/ ReadSource(p) \/ SaveApproval(p) \/ Find(p)
  \/ \E how \in Endings :
       \/ Create(p, how)
       \/ AppendBatch(p, how)
       \/ CompleteRun(p, how)
  \/ Compare(p) \/ Reread(p) \/ CompareAppended(p) \/ RereadCompleted(p)
  \/ ReadFinal(p) \/ CompareFinal(p) \/ Record(p) \/ Recheck(p) \/ Recompare(p)

Environment == Settle \/ SourceMoves \/ PermissionWithdrawn \/ Expire

Next ==
  \/ \E p \in Publishers : Begin(p) \/ Step(p) \/ Abort(p)
  \/ Environment

Spec == Init /\ [][Next]_vars

(* Fairness.  Every request has a timeout, so a publisher goes on; an      *)
(* operator gives the command again; what fails does so for a while only.  *)
Fault(p) ==
  \/ Abort(p) /\ ~Step(p)
  \/ \E how \in Endings \ {"answered"} :
       Create(p, how) \/ AppendBatch(p, how) \/ CompleteRun(p, how)
  \/ SaveApproval(p) /\ At(p, "approve") /\ lock' = None /\ ~expired

FairSpec ==
  /\ Spec
  /\ \A p \in Publishers : WF_vars(Step(p)) /\ SF_vars(Begin(p))
  /\ <>[][\A p \in Publishers : ~Fault(p)]_vars

-----------------------------------------------------------------------------
(* Safety.                                                                 *)

LateWrites == [op : {"create", "append", "complete"}, check : 0..Len(checks),
           batch : 0..Batches, id : 0..LateBound]

TypeOK ==
  /\ approval \in Actors \cup {None}
  /\ result \in DOMAIN checks \cup {None}
  /\ checks \in Seq(CheckRun)
  /\ late \subseteq LateWrites
  /\ lost \in 0..LateBound
  /\ exact \subseteq DOMAIN checks
  /\ source \in {"same", "moved"} /\ permitted \subseteq Actors /\ expired \in BOOLEAN
  /\ lock \in Publishers \cup {None}
  /\ \A p \in Publishers :
       /\ pr[p].pc \in Pcs
       /\ pr[p].check \in DOMAIN checks \cup {None}
       /\ At(p, "idle") <=> lock # p

(* Retries and lost answers never make a second check run for the same     *)
(* external id, as long as an unanswered write has been carried out or     *)
(* not when the code reads back (LateBound = 0).                           *)
AtMostOneCheckRun == Len(checks) <= 1

(* Nor do they repeat, skip or reorder a batch of annotations.             *)
AnnotationsInOrder == \A c \in DOMAIN checks : IsPrefix(checks[c].annotations, Proposed)

(* What the final record names is published completely and stays so.       *)
RecordedIsExact == result # None => Complete(checks[result])

(* Even if writes are carried out late: what the final record names has    *)
(* been complete and exact at some time.                                   *)
RecordedWasExact == result # None => result \in exact

(* A write is sent only by the user whose approval is saved, and none is   *)
(* sent after the final record.                                            *)
WritesAreApproved ==
  \A p \in Publishers :
    pr[p].pc \in WritingPcs => approval = ActorOf[p] /\ result = None

(* publish_check implements an approved publication.                       *)
Publication == INSTANCE ApprovedPublication
                 WITH visible <- checks # <<>>, whole <- exact # {}, Reports <- Nat

ImplementsPublication == Publication!Spec

(* Liveness.  When faults have stopped, somebody finishes the publication, *)
(* unless the source is away again and again, the permission of the        *)
(* approver is gone or the proposal expired before anybody approved it.    *)
Published == result # None

Void ==
  \/ permitted # Actors
  \/ expired /\ approval = None

PublicationEnds == <>(Published \/ Void) \/ []<>(source = "moved")
=============================================================================
