--------------------------- MODULE RepairWorkflow ---------------------------
(***************************************************************************)
(* The safe-repair workflow on one session, run by several processes.      *)
(*                                                                         *)
(* RepoGuard has no server: every command (propose, approve, apply, reject,*)
(* cancel, expire, recover, cleanup) is a process of its own that works on *)
(* the session directory.  What they share is                              *)
(*   - the event chain (snap, lease), appended to under the session flock; *)
(*   - the private payload directory of the session;                       *)
(*   - the Docker daemon, where the validation container lives;            *)
(*   - the repair ref in the user's repository, written by a git child     *)
(*     that inherits the session lock.                                     *)
(*                                                                         *)
(* A process is a program counter with a few locals.  A critical section   *)
(* with one durable effect is one action, guarded by the lock being free;  *)
(* a longer one holds `lock' between its actions, so that a crash can fall *)
(* between any two effects.  A process may crash at any point: its locals  *)
(* are lost, its lock is released by the kernel, its git child lives on.   *)
(*                                                                         *)
(* Timestamps are abstracted.  The code compares whole snapshots to detect *)
(* that the session moved on; between the two readings it compares, every  *)
(* event changes some other field as well, so the comparison keeps its     *)
(* meaning without them.                                                   *)
(***************************************************************************)
EXTENDS Naturals, FiniteSets

CONSTANTS
  Procs,          \* processes, each running one command at a time
  Proposers,      \* those that may run propose
  Deciders,       \* those that may run approve, reject, cancel and expire
  Appliers,       \* those that may run apply
  Maintainers,    \* those that may run recover and cleanup
  None            \* no process, no record

ASSUME RolesAssumption ==
  /\ None \notin Procs
  /\ Proposers \subseteq Procs /\ Deciders \subseteq Procs
  /\ Appliers \subseteq Procs /\ Maintainers \subseteq Procs

VARIABLES
  snap,       \* snapshot of the last event of the chain
  lease,      \* validation lease of the last event, or None
  private,    \* private payload: "whole", "partial" or "gone"
  store,      \* session directory: "present", "remnant" or "removed"
  live,       \* run tokens whose container exists
  requested,  \* run tokens whose creation the daemon may still carry out
  runs,       \* how often a candidate was executed (history)
  ref,        \* the repair ref: "absent", "ours" or "foreign"
  child,      \* processes whose git push child is alive
  lock,       \* the process inside a longer critical section, or None
  refused,    \* event kinds the store refused to append (history)
  pr          \* program counter and locals of every process

chain == <<snap, lease>>
files == <<private, store>>
docker == <<live, requested, runs>>
git == <<ref, child>>
vars == <<chain, files, docker, git, lock, refused, pr>>

(* The candidate identity and the run token of a proposal are named by the *)
(* process that created them.                                              *)
Log == INSTANCE RepairEventLog WITH Candidates <- Procs, Tokens <- Procs

(* An absent record is not a record.                                       *)
ASSUME RecordsAssumption ==
  LET named == Procs \cup {None}
  IN  None \notin [candidate : named, token : Procs, bound : BOOLEAN]
             \cup [candidate : named, success : BOOLEAN]
             \cup [candidate : named]
             \cup Log!Decisions

-----------------------------------------------------------------------------
(* Processes.                                                              *)

Terminal == snap.state \in Log!TerminalStates
Open == ~Terminal

(* Program counters at which a process is inside the session lock ...      *)
HoldingPcs == {"tidy", "tidied", "push", "pushing", "reconcile", "close",
               "sweepLocked", "removing"}

(* ... and those at which it must take it; a call that fails there (lock   *)
(* timeout, I/O error, session removed) continues as OnError says.         *)
OnError ==
  [ checkpoint |-> "fail", begin |-> "fail", intend |-> "fail",
    bind |-> "unregister", bindFailed |-> "fail", dropRun |-> "fail",
    dropIntent |-> "fail", verdict |-> "discard", finish |-> "fail",
    recheck |-> "fail", fail |-> "idle", settle |-> "idle",
    applying |-> "idle", maintain |-> "idle", expire |-> "idle" ]

Pcs == HoldingPcs \cup DOMAIN OnError \cup
       {"idle", "generate", "prepare", "create", "unbound", "run",
        "unregister", "discard", "reclaim", "sweep"}

Locals ==
  [ pc     : Pcs,
    then   : {"idle", "fail"},                 \* where a detour returns to
    seen   : Log!Snapshots \cup {None},        \* snapshot read earlier
    owed   : Log!Leases \cup {None},           \* lease read earlier
    passed : BOOLEAN,                          \* the verdict of the run
    ok     : BOOLEAN,                          \* outcome of the last removal
    kind   : {"applied", "cancelled", "expired", "recovered"},
    mgr    : BOOLEAN ]                         \* holds the manager lock

Idle == [ pc |-> "idle", then |-> "idle", seen |-> None, owed |-> None,
          passed |-> FALSE, ok |-> FALSE, kind |-> "recovered", mgr |-> FALSE ]

To(pc) == [Idle EXCEPT !.pc = pc]
At(p, pc) == pr[p].pc = pc

(* Bug: the session lock is not inherited by the git child.                *)
LockFreeOfParent == lock = None

(* The git child inherits the descriptor that holds the session flock, so  *)
(* the lock stays taken until the child is gone, even if its parent died.  *)
LockFree == lock = None /\ child = {}

ManagerFree == \A p \in Procs : ~pr[p].mgr

(* Continue a process outside the lock.                                    *)
Goto(p, loc) == pr' = [pr EXCEPT ![p] = loc] /\ UNCHANGED lock

(* Bug: the lock is dropped after every durable effect.                    *)
ResumeUnlocked(p, loc) == pr' = [pr EXCEPT ![p] = loc] /\ lock' = None

(* Continue it from inside the lock, which is released unless loc holds it.*)
Resume(p, loc) ==
  /\ pr' = [pr EXCEPT ![p] = loc]
  /\ lock' = IF loc.pc \in HoldingPcs THEN p ELSE None

(* End a call inside the lock without an event.                            *)
Leave(p, loc) == Resume(p, loc) /\ UNCHANGED <<chain, refused>>

(* One session-locked call that finds the session directory.               *)
Enter(p, pc) == At(p, pc) /\ LockFree /\ store = "present"

(* Append an event.  The store refuses an illegal one; the write can fail  *)
(* before the event is published, or after it (unlink, fsync and the cache *)
(* file come later), when the event is durable although the call failed.   *)
Append(p, kind, t, m, good, bad) ==
  \/ /\ Log!EventIsValid(kind, snap, lease, t, m)
     /\ snap' = t
     /\ lease' = m
     /\ Resume(p, good) \/ Resume(p, bad)
     /\ UNCHANGED refused
  \/ Leave(p, bad)
  \/ /\ ~Log!EventIsValid(kind, snap, lease, t, m)
     /\ refused' = refused \cup {kind}
     /\ Resume(p, bad)
     /\ UNCHANGED chain

-----------------------------------------------------------------------------
(* Closing a session: the terminal event, the removal of the private       *)
(* payload and the event that records its outcome are three steps.         *)

Fail(s) == [s EXCEPT !.state = "FAILED", !.failure = TRUE, !.cleanup_pending = TRUE]

Decided(s, state) ==
  [s EXCEPT !.state = state,
            !.decision = [state |-> state, candidate |-> s.candidate],
            !.cleanup_pending = TRUE]

(* Close with nothing left to remove but the payload.                      *)
PersistTerminal(p, kind, t, bad) == Append(p, kind, t, None, To("tidy"), bad)

(* Bug: closing a session forgets the container it owes.                   *)
CloseForgettingLease(p, kind, t) == PersistTerminal(p, kind, t, Idle)

(* Close; a session that still owes a container keeps the lease, and the   *)
(* container is removed outside the lock before the payload is.            *)
CloseSession(p, kind, t) ==
  IF lease = None
  THEN PersistTerminal(p, kind, t, Idle)
  ELSE Append(p, kind, t, lease,
              [To("sweep") EXCEPT !.seen = t, !.owed = lease], Idle)

(* Bug: a failed removal is reported as done.                              *)
CleanupPrivateBlindly(p) ==
  /\ At(p, "tidy")
  /\ private' \in {"gone", "partial", private}
  /\ Resume(p, [pr[p] EXCEPT !.pc = "tidied", !.ok = TRUE])
  /\ UNCHANGED <<chain, store, docker, git, refused>>

(* Remove the private payload; it can fail, with or without effect.        *)
CleanupPrivate(p) ==
  /\ At(p, "tidy")
  /\ \/ /\ private' = "gone"
        /\ Resume(p, [pr[p] EXCEPT !.pc = "tidied", !.ok = TRUE])
     \/ /\ private # "gone"
        /\ private' \in {private, "partial"}
        /\ Resume(p, [pr[p] EXCEPT !.pc = "tidied", !.ok = FALSE])
  /\ UNCHANGED <<chain, store, docker, git, refused>>

(* Record the outcome, which also clears a lease whose container is gone.  *)
(* A cleanup that finds nothing left to do records nothing.                *)
RecordCleanup(p) ==
  /\ At(p, "tidied")
  /\ LET ok   == pr[p].ok
         next == IF pr[p].mgr
                 THEN IF ok THEN [To("expire") EXCEPT !.mgr = TRUE] ELSE Idle
                 ELSE [pr[p] EXCEPT !.pc = pr[p].then, !.ok = FALSE]
     IN  IF pr[p].mgr /\ ok /\ ~snap.cleanup_pending /\ lease = None
         THEN Leave(p, next)
         ELSE Append(p, IF ok THEN "cleanup_complete" ELSE "cleanup_pending",
                     [snap EXCEPT !.cleanup_pending = ~ok], None, next, Idle)
  /\ UNCHANGED <<files, docker, git>>

(* Outside the lock: remove the container of the lease a closing process   *)
(* read.  An intent names no container, so there is nothing to remove.     *)
SweepContainer(p) ==
  /\ At(p, "sweep")
  /\ LET owed == pr[p].owed IN
     \/ /\ owed.bound
        /\ live' = live \ {owed.token}
        /\ Goto(p, [pr[p] EXCEPT !.pc = "settle"])
     \/ UNCHANGED live /\ Goto(p, Idle)
  /\ UNCHANGED <<chain, files, requested, runs, git, refused>>

(* Back inside the lock: only if nothing happened in between.              *)
SettleTerminal(p) ==
  /\ Enter(p, "settle")
  /\ Leave(p, IF snap = pr[p].seen /\ lease = pr[p].owed THEN To("tidy") ELSE Idle)
  /\ UNCHANGED <<files, docker, git>>

(* A proposal or a recovery gives up.                                      *)
PersistProposalFailure(p) ==
  /\ Enter(p, "fail")
  /\ IF snap.state \in {"GENERATING", "VALIDATING"}
     THEN CloseSession(p, "failed", Fail(snap))
     ELSE Leave(p, Idle)
  /\ UNCHANGED <<files, docker, git>>

-----------------------------------------------------------------------------
(* Propose: generate a candidate, freeze it, validate it once.             *)

Propose(p) ==
  /\ p \in Proposers
  /\ Enter(p, "idle")
  /\ snap.state = "CREATED"
  /\ LET t == [snap EXCEPT !.state = "GENERATING"]
     IN  Append(p, "generating", t, lease, [To("generate") EXCEPT !.seen = t], Idle)
  /\ UNCHANGED <<files, docker, git>>

(* The provider answers, the patch is checked and the candidate tree built *)
(* in the private directory, all outside the lock.                         *)
Generate(p) ==
  /\ At(p, "generate")
  /\ \/ private # "gone" /\ Goto(p, [pr[p] EXCEPT !.pc = "checkpoint"])
     \/ Goto(p, To("fail"))
  /\ UNCHANGED <<chain, files, docker, git, refused>>

PersistCandidateCheckpoint(p) ==
  /\ Enter(p, "checkpoint")
  /\ \/ snap.state # "GENERATING" /\ Leave(p, Idle)
     \/ /\ snap.state = "GENERATING"
        /\ snap # pr[p].seen \/ snap.candidate # None
        /\ Leave(p, To("fail"))
     \/ /\ snap.state = "GENERATING" /\ snap = pr[p].seen /\ snap.candidate = None
        /\ LET t == [snap EXCEPT !.candidate = p]
           IN  Append(p, "candidate", t, lease,
                      [To("prepare") EXCEPT !.seen = t], To("fail"))
  /\ UNCHANGED <<files, docker, git>>

(* The daemon is probed for the capabilities the policy needs.             *)
PrepareSandbox(p) ==
  /\ At(p, "prepare")
  /\ \/ Goto(p, [pr[p] EXCEPT !.pc = "begin"])
     \/ Goto(p, To("fail"))
  /\ UNCHANGED <<chain, files, docker, git, refused>>

BeginValidation(p) ==
  /\ Enter(p, "begin")
  /\ \/ snap.state # "GENERATING" /\ Leave(p, Idle)
     \/ /\ snap.state = "GENERATING"
        /\ snap # pr[p].seen \/ snap.candidate = None
        /\ Leave(p, To("fail"))
     \/ /\ snap.state = "GENERATING" /\ snap = pr[p].seen /\ snap.candidate # None
        /\ LET t == [snap EXCEPT !.state = "VALIDATING"]
           IN  Append(p, "validating", t, lease,
                      [To("intend") EXCEPT !.seen = t], To("fail"))
  /\ UNCHANGED <<files, docker, git>>

(* The lease of this process's own run.                                    *)
Mine(p, bound) == [candidate |-> pr[p].seen.candidate, token |-> p, bound |-> bound]

(* Register the intent before the container is asked for.                  *)
RegisterIntent(p) ==
  /\ Enter(p, "intend")
  /\ IF /\ snap.state = "VALIDATING"
        /\ snap.candidate = pr[p].seen.candidate
        /\ snap.validation = None
        /\ lease = None
     THEN Append(p, "validation_intent", snap, Mine(p, FALSE),
                 [pr[p] EXCEPT !.pc = "create"], To("fail"))
     ELSE Leave(p, Idle)
  /\ UNCHANGED <<files, docker, git>>

(* docker create.  It succeeds; or reports a container together with an    *)
(* error; or reports no container, and the answer is either the daemon's   *)
(* own (ok: the request is settled) or missing (the request may still be   *)
(* carried out).  A mount check that fails before sends no request at all. *)
CreateContainer(p) ==
  /\ At(p, "create")
  /\ \/ /\ live' = live \cup {p}
        /\ \E pc \in {"bind", "bindFailed"} : Goto(p, [pr[p] EXCEPT !.pc = pc])
        /\ UNCHANGED requested
     \/ /\ live' \in {live, live \cup {p}}
        /\ Goto(p, [pr[p] EXCEPT !.pc = "unbound", !.ok = TRUE, !.then = "fail"])
        /\ UNCHANGED requested
     \/ /\ requested' \in {requested, requested \cup {p}}
        /\ Goto(p, [pr[p] EXCEPT !.pc = "unbound", !.ok = FALSE, !.then = "fail"])
        /\ UNCHANGED live
  /\ UNCHANGED <<chain, files, runs, git, refused>>

(* Look the container up by its name: remove it, or, if the create was     *)
(* answered by the daemon, take its absence for a fact.                    *)
RemoveOrConfirmUnbound(p) ==
  /\ At(p, "unbound")
  /\ \/ /\ p \in live \/ pr[p].ok
        /\ live' = live \ {p}
        /\ Goto(p, [pr[p] EXCEPT !.pc = "dropIntent", !.ok = FALSE])
     \/ UNCHANGED live /\ Goto(p, To(pr[p].then))
  /\ UNCHANGED <<chain, files, requested, runs, git, refused>>

(* Bind the container to the intent, also in a session that was closed in  *)
(* the meantime; the run goes on only if it was not.                       *)
RegisterRun(p) ==
  /\ \/ Enter(p, "bind") \/ Enter(p, "bindFailed")
  /\ LET created  == At(p, "bind")
         rejected == [pr[p] EXCEPT !.pc = "unregister",
                                   !.then = IF created THEN "idle" ELSE "fail"]
         accepted == IF created THEN [pr[p] EXCEPT !.pc = "run"]
                     ELSE [pr[p] EXCEPT !.pc = "discard", !.then = "fail"]
         failed   == IF created THEN [pr[p] EXCEPT !.pc = "unregister", !.then = "fail"]
                     ELSE To("fail")
     IN  IF /\ snap.candidate = pr[p].seen.candidate
            /\ snap.validation = None
            /\ lease = Mine(p, FALSE)
            /\ snap.state \in {"VALIDATING", "CANCELLED", "EXPIRED", "FAILED"}
         THEN Append(p, "validation_run", snap, Mine(p, TRUE),
                     IF snap.state = "VALIDATING" THEN accepted ELSE rejected, failed)
         ELSE Leave(p, rejected)
  /\ UNCHANGED <<files, docker, git>>

(* A registration that was not accepted: remove the container; only then   *)
(* give the lease up.                                                      *)
RemoveUnregistered(p) ==
  /\ At(p, "unregister")
  /\ \/ live' = live \ {p} /\ Goto(p, [pr[p] EXCEPT !.pc = "dropRun"])
     \/ UNCHANGED live /\ Goto(p, To(pr[p].then))
  /\ UNCHANGED <<chain, files, requested, runs, git, refused>>

(* Remove the container without touching the lease.                        *)
DiscardContainer(p) ==
  /\ At(p, "discard")
  /\ live' \in {live, live \ {p}}
  /\ Goto(p, To(pr[p].then))
  /\ UNCHANGED <<chain, files, requested, runs, git, refused>>

ReleaseRun(p) ==
  /\ Enter(p, "dropRun")
  /\ Leave(p, IF lease = None THEN To(pr[p].then)
              ELSE IF /\ lease = Mine(p, TRUE)
                      /\ snap.candidate = pr[p].seen.candidate
                      /\ Terminal
              THEN [To("tidy") EXCEPT !.then = pr[p].then]
              ELSE [pr[p] EXCEPT !.pc = "dropIntent"])
  /\ UNCHANGED <<files, docker, git>>

ReleaseIntent(p) ==
  /\ Enter(p, "dropIntent")
  /\ LET mine == lease = Mine(p, FALSE) /\ snap.candidate = pr[p].seen.candidate
     IN  \/ /\ mine /\ snap.state = "VALIDATING"
            /\ Append(p, "validation_intent_abandoned", snap, None,
                      To(pr[p].then), To("fail"))
         \/ /\ mine /\ Terminal
            /\ Leave(p, [To("tidy") EXCEPT !.then = pr[p].then])
         \/ /\ ~mine \/ (Open /\ snap.state # "VALIDATING")
            /\ Leave(p, To(pr[p].then))
  /\ UNCHANGED <<files, docker, git>>

(* Bug: a container that did not report is started again.                  *)
RunContainerAgain(p) ==
  /\ At(p, "run")
  /\ p \in live
  /\ runs' = runs + 1
  /\ \/ \E passed \in BOOLEAN :
          Goto(p, [pr[p] EXCEPT !.pc = "verdict", !.passed = passed])
     \/ Goto(p, pr[p])
  /\ UNCHANGED <<chain, files, live, requested, git, refused>>

(* Start the container and read its report.  A container that is gone has  *)
(* no report.                                                              *)
RunContainer(p) ==
  /\ At(p, "run")
  /\ \/ /\ p \in live
        /\ runs' = runs + 1
        /\ \/ \E passed \in BOOLEAN :
                Goto(p, [pr[p] EXCEPT !.pc = "verdict", !.passed = passed])
           \/ Goto(p, [pr[p] EXCEPT !.pc = "discard", !.then = "fail"])
     \/ /\ Goto(p, [pr[p] EXCEPT !.pc = "discard", !.then = "fail"])
        /\ UNCHANGED runs
  /\ UNCHANGED <<chain, files, live, requested, git, refused>>

Verdict(p) == [candidate |-> pr[p].seen.candidate, success |-> pr[p].passed]

(* Record the verdict before the container is removed.                     *)
CheckpointResult(p) ==
  /\ Enter(p, "verdict")
  /\ IF /\ snap.state = "VALIDATING"
        /\ snap.candidate = pr[p].seen.candidate
        /\ snap.validation = None
        /\ lease = Mine(p, TRUE)
     THEN Append(p, "validation_result", [snap EXCEPT !.validation = Verdict(p)], lease,
                 [pr[p] EXCEPT !.pc = "reclaim"],
                 [pr[p] EXCEPT !.pc = "discard", !.then = "fail"])
     ELSE Leave(p, [pr[p] EXCEPT !.pc = "discard", !.then = "idle"])
  /\ UNCHANGED <<files, docker, git>>

RemoveContainer(p) ==
  /\ At(p, "reclaim")
  /\ \/ live' = live \ {p} /\ Goto(p, [pr[p] EXCEPT !.pc = "finish", !.ok = TRUE])
     \/ UNCHANGED live /\ Goto(p, [pr[p] EXCEPT !.pc = "finish", !.ok = FALSE])
  /\ UNCHANGED <<chain, files, requested, runs, git, refused>>

FinishValidation(p) ==
  /\ Enter(p, "finish")
  /\ LET own == /\ snap.candidate = pr[p].seen.candidate
                /\ snap.validation = Verdict(p)
                /\ lease = Mine(p, TRUE)
     IN  \/ snap.state # "VALIDATING" /\ Leave(p, Idle)
         \/ snap.state = "VALIDATING" /\ ~own /\ Leave(p, To("fail"))
         \/ /\ snap.state = "VALIDATING" /\ own /\ ~pr[p].ok
            /\ Append(p, "failed", Fail(snap), lease, To("fail"), To("fail"))
         \/ /\ snap.state = "VALIDATING" /\ own /\ pr[p].ok /\ pr[p].passed
            /\ Append(p, "validated", [snap EXCEPT !.state = "VALIDATED"], None,
                      Idle, To("fail"))
         \/ /\ snap.state = "VALIDATING" /\ own /\ pr[p].ok /\ ~pr[p].passed
            /\ PersistTerminal(p, "failed", Fail(snap), To("fail"))
  /\ UNCHANGED <<files, docker, git>>

-----------------------------------------------------------------------------
(* Decisions.                                                              *)

Approve(p) ==
  /\ p \in Deciders
  /\ Enter(p, "idle")
  /\ snap.state = "VALIDATED"
  /\ Append(p, "approved",
            [snap EXCEPT !.state = "APPROVED",
                         !.approval = [candidate |-> snap.candidate]],
            lease, Idle, Idle)
  /\ UNCHANGED <<files, docker, git>>

Reject(p) ==
  /\ p \in Deciders
  /\ Enter(p, "idle")
  /\ snap.state \in {"VALIDATED", "APPROVED"}
  /\ PersistTerminal(p, "rejected", Decided(snap, "REJECTED"), Idle)
  /\ UNCHANGED <<files, docker, git>>

StateOf(kind) == IF kind = "cancelled" THEN "CANCELLED" ELSE "EXPIRED"

(* Cancel or expire an open session.  While it is being applied, what the  *)
(* repository says about the ref comes first.                              *)
Decide(p, kind) ==
  /\ p \in Deciders
  /\ Enter(p, "idle")
  /\ Open
  /\ IF snap.state = "APPLYING"
     THEN Leave(p, [To("reconcile") EXCEPT !.kind = kind])
     ELSE CloseSession(p, kind, Decided(snap, StateOf(kind)))
  /\ UNCHANGED <<files, docker, git>>

(* The ref was found absent: the decision goes on in the same section.     *)
CloseReconciled(p) ==
  /\ At(p, "close")
  /\ CloseSession(p, pr[p].kind, Decided(snap, StateOf(pr[p].kind)))
  /\ UNCHANGED <<files, docker, git>>

-----------------------------------------------------------------------------
(* Apply: publish the candidate commit under the repair ref, absent-only.  *)

Apply(p) ==
  /\ p \in Appliers
  /\ Enter(p, "idle")
  /\ snap.state = "APPROVED"
  /\ private = "whole"
  /\ Append(p, "applying", [snap EXCEPT !.state = "APPLYING"], lease, To("push"), Idle)
  /\ UNCHANGED <<files, docker, git>>

(* Start git push, or find that it cannot or need not be started.          *)
StartPush(p) ==
  /\ At(p, "push")
  /\ \/ /\ ref = "absent"
        /\ child' = child \cup {p}
        /\ Resume(p, To("pushing"))
     \/ /\ Resume(p, [To("reconcile") EXCEPT !.kind = "applied"])
        /\ UNCHANGED child
     \/ Resume(p, Idle) /\ UNCHANGED child
  /\ UNCHANGED <<chain, files, docker, ref, refused>>

(* The git child creates the ref unless it exists, or fails; then it ends. *)
PushChild(p) ==
  /\ p \in child
  /\ child' = child \ {p}
  /\ ref' \in {ref, IF ref = "absent" THEN "ours" ELSE ref}
  /\ UNCHANGED <<chain, files, docker, lock, refused, pr>>

(* The parent waits for the child, or kills it when the time is up.        *)
EndPush(p) ==
  /\ At(p, "pushing")
  /\ child' = child \ {p}
  /\ Resume(p, [To("reconcile") EXCEPT !.kind = "applied"])
  /\ UNCHANGED <<chain, files, docker, ref, refused>>

(* Bug: any ref of that name is taken for the published commit.            *)
ReconcileRefByName(p) ==
  /\ At(p, "reconcile")
  /\ LET restored == [snap EXCEPT !.state = "APPROVED"]
         applied  == [snap EXCEPT !.state = "APPLIED",
                                  !.application = [candidate |-> snap.candidate],
                                  !.cleanup_pending = TRUE]
         deciding == pr[p].kind \in {"cancelled", "expired"}
     IN  \/ Leave(p, Idle)
         \/ /\ ref # "absent"
            /\ PersistTerminal(p, "applied", applied, Idle)
         \/ /\ ref = "absent"
            /\ Append(p, "recovered", restored, lease,
                      IF deciding THEN [pr[p] EXCEPT !.pc = "close"] ELSE Idle, Idle)
  /\ UNCHANGED <<files, docker, git>>

(* Read the ref back, if it can be read, and record what it says.  Under   *)
(* the session lock nobody sees the one without the other.                 *)
ReconcileRef(p) ==
  /\ At(p, "reconcile")
  /\ LET restored == [snap EXCEPT !.state = "APPROVED"]
         applied  == [snap EXCEPT !.state = "APPLIED",
                                  !.application = [candidate |-> snap.candidate],
                                  !.cleanup_pending = TRUE]
         deciding == pr[p].kind \in {"cancelled", "expired"}
     IN  \/ Leave(p, Idle)
         \/ /\ ref = "ours"
            /\ PersistTerminal(p, "applied", applied, Idle)
         \/ /\ ref = "foreign"
            /\ Append(p, "application_conflict", restored, lease, Idle, Idle)
         \/ /\ ref = "absent"
            /\ Append(p, "recovered", restored, lease,
                      IF deciding THEN [pr[p] EXCEPT !.pc = "close"] ELSE Idle, Idle)
  /\ UNCHANGED <<files, docker, git>>

-----------------------------------------------------------------------------
(* Maintenance.                                                            *)

(* Bug: recover() leaves a session that is being validated to its process. *)
RecoverNotValidating(p) ==
  /\ p \in Maintainers
  /\ ManagerFree
  /\ Enter(p, "idle")
  /\ snap.state \in {"GENERATING", "APPLYING"}
  /\ Leave(p, To(IF snap.state = "APPLYING" THEN "applying"
                 ELSE IF snap.candidate # None THEN "recheck" ELSE "fail"))
  /\ UNCHANGED <<files, docker, git>>

(* recover() reads the session and continues according to its state.       *)
Recover(p) ==
  /\ p \in Maintainers
  /\ ManagerFree
  /\ Enter(p, "idle")
  /\ snap.state \in {"GENERATING", "VALIDATING", "APPLYING"}
  /\ Leave(p, To(IF snap.state = "APPLYING" THEN "applying"
                 ELSE IF snap.state = "GENERATING" /\ snap.candidate # None THEN "recheck"
                 ELSE "fail"))
  /\ UNCHANGED <<files, docker, git>>

(* Bug: recover() leaves an application to the process that started it.    *)
RecoverApplyingNever(p) ==
  Enter(p, "applying") /\ Leave(p, Idle) /\ UNCHANGED <<files, docker, git>>

RecoverApplying(p) ==
  /\ Enter(p, "applying")
  /\ Leave(p, IF snap.state = "APPLYING" THEN To("reconcile") ELSE Idle)
  /\ UNCHANGED <<files, docker, git>>

(* A frozen candidate that was never validated gets its one validation.    *)
RecoverCandidate(p) ==
  /\ Enter(p, "recheck")
  /\ Leave(p, IF snap.state # "GENERATING" \/ snap.candidate = None THEN Idle
              ELSE IF private # "whole" THEN To("fail")
              ELSE [To("prepare") EXCEPT !.seen = snap])
  /\ UNCHANGED <<files, docker, git>>

(* cleanup() holds the manager lock for as long as it runs.                *)
Cleanup(p) ==
  /\ p \in Maintainers
  /\ At(p, "idle")
  /\ ManagerFree
  /\ Goto(p, [To("maintain") EXCEPT !.mgr = TRUE])
  /\ UNCHANGED <<chain, files, docker, git, refused>>

(* Bug: cleanup() skips the sessions that owe a container.                 *)
CleanupSessionSkipping(p) ==
  /\ Enter(p, "maintain")
  /\ Leave(p, IF Open \/ lease # None THEN Idle ELSE [To("tidy") EXCEPT !.mgr = TRUE])
  /\ UNCHANGED <<files, docker, git>>

CleanupSession(p) ==
  /\ Enter(p, "maintain")
  /\ Leave(p, IF Open THEN Idle
              ELSE [To(IF lease = None THEN "tidy" ELSE "sweepLocked") EXCEPT !.mgr = TRUE])
  /\ UNCHANGED <<files, docker, git>>

(* Remove the leased container inside the lock; without a container        *)
(* identity, or if that fails, the session stays pending.                  *)
RetryContainer(p) ==
  /\ At(p, "sweepLocked")
  /\ \/ /\ lease.bound
        /\ live' = live \ {lease.token}
        /\ Leave(p, [pr[p] EXCEPT !.pc = "tidy"])
     \/ /\ IF snap.cleanup_pending
           THEN Leave(p, Idle)
           ELSE Append(p, "cleanup_pending", [snap EXCEPT !.cleanup_pending = TRUE],
                       lease, Idle, Idle)
        /\ UNCHANGED live
  /\ UNCHANGED <<files, requested, runs, git>>

(* Past its retention the session directory is deleted, entry by entry,    *)
(* under a lock taken anew.                                                *)
RemoveExpired(p) ==
  /\ At(p, "expire")
  /\ \/ Goto(p, Idle) /\ UNCHANGED <<store, private>>
     \/ /\ LockFree /\ store = "present"
        /\ store' = "remnant"
        /\ private' = "gone"
        /\ Resume(p, [To("removing") EXCEPT !.mgr = TRUE])
  /\ UNCHANGED <<chain, docker, git, refused>>

FinishRemoval(p) ==
  /\ At(p, "removing")
  /\ store' \in {"remnant", "removed"}
  /\ Resume(p, Idle)
  /\ UNCHANGED <<chain, private, docker, git, refused>>

-----------------------------------------------------------------------------
(* Failures and the environment.                                           *)

(* A session-locked call fails before it has any effect.                   *)
CallFails(p) ==
  /\ pr[p].pc \in DOMAIN OnError
  /\ LET pc == OnError[pr[p].pc]
     IN  Goto(p, IF pc \in {"unregister", "discard"}
                 THEN [pr[p] EXCEPT !.pc = pc, !.then = "fail"]
                 ELSE To(pc))
  /\ UNCHANGED <<chain, files, docker, git, refused>>

Crash(p) ==
  /\ ~At(p, "idle")
  /\ pr' = [pr EXCEPT ![p] = Idle]
  /\ lock' = IF lock = p THEN None ELSE lock
  /\ UNCHANGED <<chain, files, docker, git, refused>>

(* The daemon carries out, or drops, a create whose client went away.      *)
DaemonSettles(t) ==
  /\ t \in requested
  /\ requested' = requested \ {t}
  /\ live' \in {live, live \cup {t}}
  /\ UNCHANGED <<chain, files, runs, git, lock, refused, pr>>

(* Somebody else creates, moves or deletes the ref of that name.           *)
ForeignRef ==
  /\ ref' \in {"absent", "foreign"} \ {ref}
  /\ UNCHANGED <<chain, files, docker, child, lock, refused, pr>>

-----------------------------------------------------------------------------
Init ==
  /\ Log!Init
  /\ private = "whole" /\ store = "present"
  /\ live = {} /\ requested = {} /\ runs = 0
  /\ ref = "absent" /\ child = {}
  /\ lock = None
  /\ refused = {}
  /\ pr = [p \in Procs |-> Idle]

Proposal(p) ==
  \/ Propose(p) \/ Generate(p) \/ PersistCandidateCheckpoint(p)
  \/ PrepareSandbox(p) \/ BeginValidation(p)

Validation(p) ==
  \/ RegisterIntent(p) \/ CreateContainer(p) \/ RemoveOrConfirmUnbound(p)
  \/ RegisterRun(p) \/ RemoveUnregistered(p) \/ DiscardContainer(p)
  \/ ReleaseRun(p) \/ ReleaseIntent(p)
  \/ RunContainer(p) \/ CheckpointResult(p) \/ RemoveContainer(p)
  \/ FinishValidation(p)

Closing(p) ==
  \/ PersistProposalFailure(p) \/ SweepContainer(p) \/ SettleTerminal(p)
  \/ CleanupPrivate(p) \/ RecordCleanup(p)

Decision(p) ==
  \/ Approve(p) \/ Reject(p)
  \/ \E kind \in {"cancelled", "expired"} : Decide(p, kind)
  \/ CloseReconciled(p)

Application(p) ==
  \/ Apply(p) \/ StartPush(p) \/ PushChild(p) \/ EndPush(p) \/ ReconcileRef(p)

Maintenance(p) ==
  \/ Recover(p) \/ RecoverApplying(p) \/ RecoverCandidate(p)
  \/ Cleanup(p) \/ CleanupSession(p) \/ RetryContainer(p)
  \/ RemoveExpired(p) \/ FinishRemoval(p)

Next ==
  \/ \E p \in Procs :
       \/ Proposal(p) \/ Validation(p) \/ Closing(p)
       \/ Decision(p) \/ Application(p) \/ Maintenance(p)
       \/ CallFails(p) \/ Crash(p) \/ DaemonSettles(p)
  \/ ForeignRef

Spec == Init /\ [][Next]_vars

(* Fairness.  A process that is alive goes on, and a git child ends: every *)
(* wait in the code has a timeout.  Nothing retries by itself, so progress *)
(* also needs somebody who runs recover and cleanup again and again ...    *)
Step(p) ==
  /\ ~At(p, "idle")
  /\ \/ Proposal(p) \/ Validation(p) \/ Closing(p)
     \/ Decision(p) \/ Application(p) \/ Maintenance(p)

(* ... and faults that do not recur for ever.  (A crash or a failing call  *)
(* that has the effect of a step is that step.)                            *)
Fault(p) ==
  \/ (Crash(p) \/ CallFails(p)) /\ ~Step(p)
  \/ /\ PersistProposalFailure(p) /\ UNCHANGED chain
     /\ snap.state \in {"GENERATING", "VALIDATING"}
  \/ ReconcileRef(p) /\ UNCHANGED chain
  \/ CleanupPrivate(p) /\ private' # "gone"
  \/ /\ RecordCleanup(p) /\ UNCHANGED chain
     /\ pr[p].ok /\ snap.cleanup_pending
  \/ RetryContainer(p) /\ lease.bound /\ UNCHANGED live /\ pr'[p].pc # "tidy"

Fairness ==
  /\ \A p \in Procs : WF_vars(Step(p)) /\ WF_vars(PushChild(p))
  /\ \A p \in Maintainers : SF_vars(Recover(p)) /\ SF_vars(Cleanup(p))
  /\ <>[][\A p \in Procs : ~Fault(p)]_vars

FairSpec == Spec /\ Fairness

-----------------------------------------------------------------------------
(* Safety.                                                                 *)

(* A process is inside a critical section exactly if it is the one that    *)
(* holds the session lock.                                                 *)
ControlOK ==
  /\ lock \in Procs \cup {None}
  /\ pr \in [Procs -> Locals]
  /\ \A p \in Procs : pr[p].pc \in HoldingPcs <=> lock = p

(* The state is well typed and the session lock is held by the process in  *)
(* the critical section, through crashes and failing calls.                *)
TypeOK ==
  /\ Log!TypeOK
  /\ private \in {"whole", "partial", "gone"}
  /\ store \in {"present", "remnant", "removed"}
  /\ live \subseteq Procs /\ requested \subseteq Procs
  /\ runs \in Nat
  /\ ref \in {"absent", "ours", "foreign"}
  /\ child \subseteq Procs
  /\ refused \subseteq Log!Kinds
  /\ ControlOK

(* The workflow never attempts an event that the store refuses: the flows  *)
(* of _repair_workflow and the tables of _repair_store agree, also for the *)
(* late registrations and releases of a closed session.                    *)
NoEventRefused == refused = {}

(* The repair ref is ours only in a session that says so, or that is about *)
(* to find out: no rejected, cancelled, expired, failed or merely approved *)
(* session has published its commit.                                       *)
PublishedIsApplied == ref = "ours" => snap.state \in {"APPLYING", "APPLIED"}

(* While a git push may still publish, the session is APPLYING and nobody  *)
(* else is inside its lock.                                                *)
PublicationIsFenced ==
  \A p \in child : snap.state = "APPLYING" /\ lock \in {p, None}

(* The ref and the session agree, and no push outlives the lock that       *)
(* keeps them so.                                                          *)
PublicationIsSound == PublishedIsApplied /\ PublicationIsFenced

(* Every container that exists, or that the daemon may still create, is    *)
(* named by the lease of the chain: nothing is left behind unrecorded.     *)
NoUntrackedContainer ==
  \A t \in live \cup requested :
    store = "present" /\ lease # None /\ lease.token = t

(* The candidate is executed at most once, whatever is recovered.          *)
AtMostOneRun == runs <= 1

(* A candidate that is validated or further has been executed.             *)
ValidatedWasRun ==
  snap.state \in {"VALIDATED", "APPROVED", "APPLYING", "APPLIED", "REJECTED"} => runs > 0

(* Runs and verdicts go together, through crashes and recoveries of any    *)
(* process: a validated candidate was executed, and only once.             *)
RunsAreAccounted == AtMostOneRun /\ ValidatedWasRun

(* The payload an open session needs is untouched.                         *)
PayloadKeptWhileOpen == Open => private = "whole" /\ store = "present"

(* A session reported as cleaned has neither payload nor container.        *)
CleanIsClean ==
  Terminal /\ ~snap.cleanup_pending =>
    private = "gone" /\ live \cup requested = {} /\ lease = None

(* A session is deleted only when it is closed and clean.                  *)
RemovedIsClean == store # "present" => Terminal /\ ~snap.cleanup_pending

(* Nothing of a session is removed too early, and nothing of a session     *)
(* that says it is clean, or is gone, is left.                             *)
RemovalIsSafe == PayloadKeptWhileOpen /\ CleanIsClean /\ RemovedIsClean

(* What two commands and an independent maintenance must keep together.    *)
WorkflowIsSafe ==
  NoEventRefused /\ PublicationIsSound /\ NoUntrackedContainer /\ RemovalIsSafe

(* Liveness.                                                               *)

(* No proposal stays under way for ever: the process that runs it, or the  *)
(* recovery of its session, closes it or brings it to a validated state.   *)
ProposalEnds ==
  snap.state \in {"GENERATING", "VALIDATING"} ~>
    snap.state \notin {"GENERATING", "VALIDATING"}

(* No application stays undecided: what the repository says of the ref is  *)
(* recorded, although the pushing process may have died at any point.      *)
ApplicationSettles == snap.state = "APPLYING" ~> snap.state # "APPLYING"

(* A closed session is cleaned, or it is left with an intent to which no   *)
(* container was ever bound, which nothing can resolve.                    *)
ClosedIsCleaned ==
  Terminal ~> (~snap.cleanup_pending \/ (lease # None /\ ~lease.bound))

-----------------------------------------------------------------------------
(* What the user can tell of the session: a decision and a failure close   *)
(* it, and nothing before the verdict makes a difference.                  *)
Phase ==
  CASE snap.state \in {"CREATED", "GENERATING", "VALIDATING"} -> "proposed"
    [] snap.state = "VALIDATED" -> "validated"
    [] snap.state = "APPROVED" -> "approved"
    [] snap.state = "APPLYING" -> "applying"
    [] snap.state = "APPLIED" -> "applied"
    [] OTHER -> "closed"

(* The commands, their crashes and their git children together implement a *)
(* guarded repair: whoever reconciles, cancels or recovers, the session    *)
(* ends as the ref says at that moment, and no run, push or verdict that   *)
(* comes late changes a session that has ended.                            *)
Guarded == INSTANCE GuardedRepair WITH phase <- Phase

ImplementsGuardedRepair == Guarded!Spec
=============================================================================
