------------------------ MODULE RepairWorkflowProofs ------------------------
(***************************************************************************)
(* Proofs about RepairWorkflow, for any set of processes and any roles.    *)
(***************************************************************************)
EXTENDS RepairWorkflow, TLAPS

(* What the session lock protects.  A git child that may still publish has *)
(* its parent waiting for it inside the lock, or has lost its parent and   *)
(* keeps the lock itself; whoever is in the apply section, or has just     *)
(* found the ref absent, still reads the state he entered with.            *)
Fence ==
  /\ \A p \in child :
       /\ snap.state = "APPLYING"
       /\ lock = None \/ (lock = p /\ At(p, "pushing"))
  /\ \A p \in Procs :
       /\ pr[p].pc \in {"push", "pushing", "reconcile"} => snap.state = "APPLYING"
       /\ At(p, "close") => snap.state = "APPROVED"

IInv == TypeOK /\ Fence /\ PublishedIsApplied

(* A process that goes on at loc in a session with snapshot s respects the *)
(* second half of Fence, and does not have a child to wait for.            *)
Announced(loc, s) ==
  /\ loc.pc # "pushing"
  /\ loc.pc \in {"push", "reconcile"} => s.state = "APPLYING"
  /\ loc.pc = "close" => s.state = "APPROVED"

-----------------------------------------------------------------------------
(* Locals.                                                                 *)

LEMMA PcsListed ==
  /\ HoldingPcs = {"tidy", "tidied", "push", "pushing", "reconcile", "close",
                   "sweepLocked", "removing"}
  /\ Pcs = {"tidy", "tidied", "push", "pushing", "reconcile", "close",
            "sweepLocked", "removing", "checkpoint", "begin", "intend", "bind",
            "bindFailed", "dropRun", "dropIntent", "verdict", "finish", "recheck",
            "fail", "settle", "applying", "maintain", "expire",
            "idle", "generate", "prepare", "create", "unbound", "run",
            "unregister", "discard", "reclaim", "sweep"}
BY DEF HoldingPcs, Pcs, OnError

(* Continuing at pc with fresh locals.                                     *)
LEMMA ToIsLocal ==
  /\ Idle \in Locals
  /\ \A pc \in Pcs : To(pc) \in Locals /\ To(pc).pc = pc
<1>1. Idle \in Locals
  BY PcsListed DEF Idle, Locals
<1>. QED  BY <1>1 DEF To, Idle, Locals

(* Continuing with locals that differ in a few fields.                     *)
LEMMA WithPc ==
  \A loc \in Locals, pc \in Pcs :
    [loc EXCEPT !.pc = pc] \in Locals /\ [loc EXCEPT !.pc = pc].pc = pc
BY DEF Locals

LEMMA WithPcOk ==
  \A loc \in Locals, pc \in Pcs, ok \in BOOLEAN :
    /\ [loc EXCEPT !.pc = pc, !.ok = ok] \in Locals
    /\ [loc EXCEPT !.pc = pc, !.ok = ok].pc = pc
BY DEF Locals

LEMMA WithPcThen ==
  \A loc \in Locals, pc \in Pcs, then \in {"idle", "fail"} :
    /\ [loc EXCEPT !.pc = pc, !.then = then] \in Locals
    /\ [loc EXCEPT !.pc = pc, !.then = then].pc = pc
BY DEF Locals

LEMMA ToSeen ==
  \A pc \in Pcs, seen \in Log!Snapshots :
    /\ [To(pc) EXCEPT !.seen = seen] \in Locals
    /\ [To(pc) EXCEPT !.seen = seen].pc = pc
<1>. SUFFICES ASSUME NEW pc \in Pcs, NEW seen \in Log!Snapshots
              PROVE  /\ [To(pc) EXCEPT !.seen = seen] \in Locals
                     /\ [To(pc) EXCEPT !.seen = seen].pc = pc
  OBVIOUS
<1>1. To(pc) \in Locals /\ To(pc).pc = pc
  BY ToIsLocal
<1>. QED  BY <1>1 DEF Locals

(* Resuming inside the lock, or leaving it.                                *)
LEMMA ResumeControl ==
  ASSUME ControlOK, NEW p \in Procs, lock \in {None, p},
         NEW loc \in Locals, Resume(p, loc)
  PROVE  /\ ControlOK'
         /\ pr'[p] = loc
         /\ \A q \in Procs \ {p} : pr'[q] = pr[q] /\ pr'[q].pc \notin HoldingPcs
<1>1. pr' = [pr EXCEPT ![p] = loc] /\ lock' \in Procs \cup {None}
  BY DEF Resume
<1>2. pr' \in [Procs -> Locals]
  BY <1>1 DEF ControlOK
<1>3. /\ pr'[p] = loc
      /\ \A q \in Procs \ {p} : pr'[q] = pr[q]
  BY <1>1 DEF ControlOK
<1>4. \A q \in Procs \ {p} : pr[q].pc \notin HoldingPcs
  BY RolesAssumption DEF ControlOK
<1>5. \A q \in Procs : pr'[q].pc \in HoldingPcs <=> lock' = q
  BY <1>3, <1>4, RolesAssumption DEF Resume
<1>. QED  BY <1>1, <1>2, <1>3, <1>4, <1>5 DEF ControlOK

(* Going on outside the lock.                                              *)
LEMMA GotoControl ==
  ASSUME ControlOK, NEW p \in Procs, pr[p].pc \notin HoldingPcs,
         NEW loc \in Locals, loc.pc \notin HoldingPcs, Goto(p, loc)
  PROVE  /\ ControlOK'
         /\ pr'[p] = loc
         /\ \A q \in Procs \ {p} : pr'[q] = pr[q]
         /\ lock' = lock
BY DEF ControlOK, Goto

(* A process that is inside the lock and not waiting for its child knows   *)
(* that there is no child.                                                 *)
LEMMA InsideMeansNoChild ==
  ASSUME TypeOK, Fence, NEW p \in Procs, lock = p \/ LockFree, ~At(p, "pushing")
  PROVE  child = {} /\ lock \in {None, p}
BY RolesAssumption DEF LockFree, Fence, TypeOK, At

(* A step outside the lock disturbs nothing that the lock protects.        *)
LEMMA OutsideStep ==
  ASSUME IInv, NEW p \in Procs, pr[p].pc \notin HoldingPcs,
         NEW loc \in Locals, loc.pc \notin HoldingPcs, Goto(p, loc),
         UNCHANGED <<chain, git>>
  PROVE  ControlOK' /\ Fence' /\ PublishedIsApplied'
<1>1. /\ ControlOK'
      /\ pr'[p] = loc
      /\ \A q \in Procs \ {p} : pr'[q] = pr[q]
      /\ lock' = lock
  BY GotoControl DEF IInv, TypeOK
<1>2. snap' = snap /\ child' = child /\ ref' = ref
  BY DEF chain, git
<1>3. Fence'
  <2>1. ASSUME NEW q \in child'
        PROVE  snap'.state = "APPLYING" /\ (lock' = None \/ (lock' = q /\ pr'[q].pc = "pushing"))
    BY <1>1, <1>2, <2>1, PcsListed DEF IInv, Fence, At, TypeOK
  <2>2. ASSUME NEW q \in Procs
        PROVE  /\ pr'[q].pc \in {"push", "pushing", "reconcile"} => snap'.state = "APPLYING"
               /\ pr'[q].pc = "close" => snap'.state = "APPROVED"
    <3>1. CASE q = p
      BY <1>1, <3>1, PcsListed
    <3>2. CASE q # p
      BY <1>1, <1>2, <3>2 DEF IInv, Fence, At
    <3>. QED  BY <3>1, <3>2
  <2>. QED  BY <2>1, <2>2 DEF Fence, At
<1>. QED  BY <1>1, <1>2, <1>3 DEF IInv, PublishedIsApplied

(* A step inside the lock, by a process without a child.                   *)
LEMMA InsideStep ==
  ASSUME IInv, NEW p \in Procs, lock = p \/ LockFree, ~At(p, "pushing"),
         NEW loc \in Locals, Resume(p, loc), UNCHANGED git,
         Announced(loc, snap'),
         ref = "ours" => snap'.state \in {"APPLYING", "APPLIED"}
  PROVE  ControlOK' /\ Fence' /\ PublishedIsApplied'
<1>1. child = {} /\ lock \in {None, p}
  BY InsideMeansNoChild DEF IInv
<1>2. /\ ControlOK'
      /\ pr'[p] = loc
      /\ \A q \in Procs \ {p} : pr'[q] = pr[q] /\ pr'[q].pc \notin HoldingPcs
  BY <1>1, ResumeControl DEF IInv, TypeOK
<1>3. child' = {} /\ ref' = ref
  BY <1>1 DEF git
<1>4. Fence'
  <2>1. ASSUME NEW q \in Procs
        PROVE  /\ pr'[q].pc \in {"push", "pushing", "reconcile"} => snap'.state = "APPLYING"
               /\ pr'[q].pc = "close" => snap'.state = "APPROVED"
    <3>1. CASE q = p
      BY <1>2, <3>1 DEF Announced
    <3>2. CASE q # p
      BY <1>2, <3>2, PcsListed
    <3>. QED  BY <3>1, <3>2
  <2>. QED  BY <1>3, <2>1 DEF Fence, At
<1>. QED  BY <1>2, <1>3, <1>4 DEF PublishedIsApplied

-----------------------------------------------------------------------------
(* Events.                                                                 *)

(* A snapshot that differs from the last one only where the kind allows it *)
(* is one of the edits of RepairEventLog.                                  *)
LEMMA ValidEventIsEdit ==
  ASSUME Log!TypeOK, NEW kind \in Log!Kinds, NEW t \in Log!Snapshots, NEW m,
         Log!EventIsValid(kind, snap, lease, t, m)
  PROVE  t \in Log!Edits(kind)
<1>1. Log!Changed(snap, t) \subseteq Log!EventSnapshotChanges[kind]
  BY DEF Log!EventIsValid, Log!SnapshotUpdateIsValid, Log!EventSnapshotChanges
<1>2. \A f \in Log!MutableFields : f \in Log!EventSnapshotChanges[kind] \/ t[f] = snap[f]
  BY <1>1 DEF Log!Changed
<1>3. t.state \in Log!States /\ Log!CanTransitionOrSame(snap.state, t.state)
  BY DEF Log!EventIsValid, Log!EventStatePairIsValid, Log!Snapshots
<1>. QED  BY <1>2, <1>3 DEF Log!Edits, Log!Snapshots, Log!Domain, Log!MutableFields

(* An append changes the chain by one legal event or not at all.           *)
LEMMA AppendStep ==
  ASSUME IInv, NEW p \in Procs, lock = p \/ LockFree, ~At(p, "pushing"),
         NEW kind \in Log!Kinds, NEW t, NEW m, NEW good \in Locals, NEW bad \in Locals,
         Log!EventIsValid(kind, snap, lease, t, m) =>
           t \in Log!Snapshots /\ m \in Log!Leases \cup {None},
         Append(p, kind, t, m, good, bad),
         UNCHANGED git,
         Announced(good, t), bad.pc \notin HoldingPcs,
         ref = "ours" => t.state \in {"APPLYING", "APPLIED"}
  PROVE  /\ Log!TypeOK'
         /\ refused' \subseteq Log!Kinds
         /\ [Log!Next]_chain
         /\ ControlOK' /\ Fence' /\ PublishedIsApplied'
<1>1. Announced(bad, snap) /\ Announced(bad, t)
  BY PcsListed DEF Announced
<1>2. ref = "ours" => snap.state \in {"APPLYING", "APPLIED"}
  BY DEF IInv, PublishedIsApplied
<1>3. CASE Log!EventIsValid(kind, snap, lease, t, m) /\ snap' = t /\ lease' = m
           /\ (Resume(p, good) \/ Resume(p, bad)) /\ UNCHANGED refused
  <2>1. t \in Log!Edits(kind)
    BY <1>3, ValidEventIsEdit DEF IInv, TypeOK
  <2>2. Log!Next
    BY <1>3, <2>1 DEF Log!Next, Log!AppendEvent
  <2>3. Log!TypeOK' /\ refused' \subseteq Log!Kinds
    BY <1>3 DEF Log!TypeOK, IInv, TypeOK
  <2>4. ControlOK' /\ Fence' /\ PublishedIsApplied'
    BY <1>1, <1>3, InsideStep
  <2>. QED  BY <2>2, <2>3, <2>4
<1>4. CASE /\ Resume(p, bad) /\ UNCHANGED chain
           /\ refused' \subseteq refused \cup {kind}
  <2>1. ControlOK' /\ Fence' /\ PublishedIsApplied'
    BY <1>1, <1>2, <1>4, InsideStep DEF chain
  <2>. QED  BY <1>4, <2>1 DEF IInv, TypeOK, Log!TypeOK, chain
<1>. QED  BY <1>3, <1>4 DEF Append, Leave

(* Leaving without an event.                                               *)
LEMMA LeaveStep ==
  ASSUME IInv, NEW p \in Procs, lock = p \/ LockFree, ~At(p, "pushing"),
         NEW loc \in Locals, Leave(p, loc), UNCHANGED git, Announced(loc, snap)
  PROVE  /\ Log!TypeOK'
         /\ refused' \subseteq Log!Kinds
         /\ UNCHANGED chain
         /\ ControlOK' /\ Fence' /\ PublishedIsApplied'
<1>1. snap' = snap /\ lease' = lease /\ refused' = refused
  BY DEF Leave, chain
<1>2. ControlOK' /\ Fence' /\ PublishedIsApplied'
  BY <1>1, InsideStep DEF Leave, IInv, PublishedIsApplied
<1>. QED  BY <1>1, <1>2 DEF IInv, TypeOK, Log!TypeOK, Leave

(* Everything but the chain and the process itself stays as it is.         *)
LEMMA KeepsOthers ==
  ASSUME IInv, UNCHANGED <<files, docker, git>>,
         Log!TypeOK', refused' \subseteq Log!Kinds, ControlOK', Fence', PublishedIsApplied'
  PROVE  IInv'
BY DEF IInv, TypeOK, files, docker, git

(* A step outside the lock keeps the invariant if what it does to the      *)
(* containers, the payload and the store is well typed.                    *)
LEMMA OutsideKeeps ==
  ASSUME IInv, NEW p \in Procs, pr[p].pc \notin HoldingPcs,
         NEW loc \in Locals, loc.pc \notin HoldingPcs, Goto(p, loc),
         UNCHANGED <<chain, files, git, refused>>,
         live' \subseteq Procs, requested' \subseteq Procs, runs' \in Nat
  PROVE  IInv' /\ UNCHANGED chain
<1>1. ControlOK' /\ Fence' /\ PublishedIsApplied'
  BY OutsideStep
<1>. QED  BY <1>1 DEF IInv, TypeOK, Log!TypeOK, files, git, chain

LEMMA GotoKeeps ==
  ASSUME IInv, NEW p \in Procs, pr[p].pc \notin HoldingPcs,
         NEW loc \in Locals, loc.pc \notin HoldingPcs, Goto(p, loc),
         UNCHANGED <<chain, files, docker, git, refused>>
  PROVE  IInv' /\ UNCHANGED chain
<1>1. live' \subseteq Procs /\ requested' \subseteq Procs /\ runs' \in Nat
  BY DEF IInv, TypeOK, docker
<1>. QED  BY <1>1, OutsideKeeps

(* Leaving the lock without an event keeps the invariant.                  *)
LEMMA LeaveKeeps ==
  ASSUME IInv, NEW p \in Procs, lock = p \/ LockFree, ~At(p, "pushing"),
         NEW loc \in Locals, Announced(loc, snap), Leave(p, loc),
         UNCHANGED <<files, docker, git>>
  PROVE  IInv' /\ UNCHANGED chain
<1>1. UNCHANGED git
  OBVIOUS
<1>. QED  BY <1>1, LeaveStep, KeepsOthers

(* So does appending an event.                                             *)
LEMMA AppendKeeps ==
  ASSUME IInv, NEW p \in Procs, lock = p \/ LockFree, ~At(p, "pushing"),
         NEW kind \in Log!Kinds, NEW t, NEW m, NEW good \in Locals, NEW bad \in Locals,
         Log!EventIsValid(kind, snap, lease, t, m) =>
           t \in Log!Snapshots /\ m \in Log!Leases \cup {None},
         Append(p, kind, t, m, good, bad),
         UNCHANGED <<files, docker, git>>,
         Announced(good, t), bad.pc \notin HoldingPcs,
         ref = "ours" => t.state \in {"APPLYING", "APPLIED"}
  PROVE  IInv' /\ [Log!Next]_chain
<1>1. UNCHANGED git
  OBVIOUS
<1>. QED  BY <1>1, AppendStep, KeepsOthers

(* What holds of every process, whatever it does next.                     *)
LEMMA Basics ==
  ASSUME IInv, NEW p \in Procs
  PROVE  /\ pr[p] \in Locals /\ pr[p].then \in {"idle", "fail"}
         /\ lease \in Log!Leases \cup {None}
         /\ snap \in Log!Snapshots
BY DEF IInv, TypeOK, ControlOK, Log!TypeOK, Locals

(* The ways out of the lock, and the way to the removal of the payload.    *)
LEMMA Exits ==
  /\ Idle \in Locals /\ Idle.pc = "idle"
  /\ \A pc \in {"idle", "fail"} :
       To(pc) \in Locals /\ To(pc).pc = pc /\ pc \notin HoldingPcs
  /\ "idle" \notin HoldingPcs
  /\ \A then \in {"idle", "fail"} :
       /\ [To("tidy") EXCEPT !.then = then] \in Locals
       /\ [To("tidy") EXCEPT !.then = then].pc = "tidy"
<1>1. /\ Idle \in Locals /\ Idle.pc = "idle" /\ "idle" \notin HoldingPcs
      /\ \A pc \in {"idle", "fail"} :
           To(pc) \in Locals /\ To(pc).pc = pc /\ pc \notin HoldingPcs
      /\ To("tidy") \in Locals /\ To("tidy").pc = "tidy"
  BY ToIsLocal, PcsListed DEF Idle
<1>. QED  BY <1>1 DEF Locals

LEMMA KindsListed ==
  Log!Kinds = {"generating", "candidate", "validating", "validation_intent",
               "validation_intent_abandoned", "validation_run", "validation_result",
               "validated", "approved", "applying", "applied", "rejected", "cancelled",
               "expired", "failed", "application_conflict", "recovered",
               "cleanup_complete", "cleanup_pending"}
BY DEF Log!Kinds, Log!EventStatePairs

(* What PublishedIsApplied means for a session in any other state.         *)
LEMMA NotPublished ==
  ASSUME IInv, snap.state \notin {"APPLYING", "APPLIED"}
  PROVE  ref # "ours"
BY DEF IInv, PublishedIsApplied

(* A process at one of its locked calls satisfies the hypotheses above.    *)
LEMMA Entered ==
  ASSUME NEW p \in Procs, NEW pc, pc # "pushing", Enter(p, pc)
  PROVE  (lock = p \/ LockFree) /\ ~At(p, "pushing") /\ pr[p].pc = pc
BY DEF Enter, At

LEMMA CloseKeeps ==
  ASSUME IInv, NEW p \in Procs, lock = p \/ LockFree, ~At(p, "pushing"),
         NEW kind \in Log!Kinds, NEW t \in Log!Snapshots, CloseSession(p, kind, t),
         UNCHANGED <<files, docker, git>>, ref # "ours"
  PROVE  IInv' /\ [Log!Next]_chain
<1>. DEFINE sweeping == [To("sweep") EXCEPT !.seen = t, !.owed = lease]
<1>1. lease \in Log!Leases \cup {None}
  BY DEF IInv, TypeOK, Log!TypeOK
<1>2. /\ To("tidy") \in Locals /\ Announced(To("tidy"), t)
      /\ Idle \in Locals /\ Idle.pc \notin HoldingPcs
  BY ToIsLocal, PcsListed DEF Announced, Idle
<1>3. sweeping \in Locals /\ Announced(sweeping, t)
  <2>1. To("sweep") \in Locals /\ To("sweep").pc = "sweep"
    BY ToIsLocal, PcsListed
  <2>2. sweeping \in Locals /\ sweeping.pc = "sweep"
    BY <1>1, <2>1 DEF Locals
  <2>. QED  BY <2>2 DEF Announced
<1>. HIDE DEF sweeping
<1>4. CASE Append(p, kind, t, None, To("tidy"), Idle)
  BY <1>2, <1>4, AppendKeeps
<1>5. CASE Append(p, kind, t, lease, sweeping, Idle)
  BY <1>1, <1>2, <1>3, <1>5, AppendKeeps
<1>. QED  BY <1>4, <1>5 DEF CloseSession, PersistTerminal, sweeping

LEMMA SnapshotEdits ==
  ASSUME IInv
  PROVE  /\ snap \in Log!Snapshots
         /\ \A st \in Log!States : [snap EXCEPT !.state = st] \in Log!Snapshots
         /\ \A b \in BOOLEAN : [snap EXCEPT !.cleanup_pending = b] \in Log!Snapshots
         /\ Fail(snap) \in Log!Snapshots
         /\ \A st \in {"REJECTED", "CANCELLED", "EXPIRED"} : Decided(snap, st) \in Log!Snapshots
<1>1. snap \in Log!Snapshots
  BY DEF IInv, TypeOK, Log!TypeOK
<1>2. \A st \in {"REJECTED", "CANCELLED", "EXPIRED"} :
        [state |-> st, candidate |-> snap.candidate] \in Log!Decisions
  BY <1>1 DEF Log!Snapshots, Log!Decisions
<1>. QED  BY <1>1, <1>2 DEF Log!Snapshots, Log!States, Fail, Decided

-----------------------------------------------------------------------------
(* One step per action.                                                    *)

LEMMA ProposalKeeps ==
  ASSUME IInv, NEW p \in Procs, Proposal(p)
  PROVE  IInv' /\ [Log!Next]_chain
<1>1. pr[p] \in Locals /\ lease \in Log!Leases \cup {None}
  BY DEF IInv, TypeOK, ControlOK, Log!TypeOK
<1>2. /\ To("fail") \in Locals /\ Announced(To("fail"), snap) /\ To("fail").pc \notin HoldingPcs
      /\ Idle \in Locals /\ Announced(Idle, snap) /\ Idle.pc \notin HoldingPcs
  BY ToIsLocal, PcsListed DEF Idle, Announced
<1>3. CASE Propose(p)
  <2>. DEFINE t == [snap EXCEPT !.state = "GENERATING"]
              good == [To("generate") EXCEPT !.seen = t]
  <2>1. t \in Log!Snapshots /\ t.state = "GENERATING"
    BY SnapshotEdits DEF Log!States, Log!Snapshots
  <2>3. Append(p, "generating", t, lease, good, Idle) /\ UNCHANGED <<files, docker, git>>
    BY <1>3 DEF Propose
  <2>. HIDE DEF t
  <2>2. good \in Locals /\ Announced(good, t)
    BY <2>1, ToSeen, PcsListed DEF Announced
  <2>4. (lock = p \/ LockFree) /\ ~At(p, "pushing") /\ ref # "ours"
    BY <1>3, Entered, NotPublished DEF Propose
  <2>. HIDE DEF t, good
  <2>. QED  BY <1>1, <1>2, <2>1, <2>2, <2>3, <2>4, AppendKeeps, KindsListed
<1>4. CASE Generate(p)
  <2>1. [pr[p] EXCEPT !.pc = "checkpoint"] \in Locals /\ pr[p].pc \notin HoldingPcs
    BY <1>1, <1>4, WithPc, PcsListed DEF Generate, At
  <2>2. /\ Goto(p, [pr[p] EXCEPT !.pc = "checkpoint"]) \/ Goto(p, To("fail"))
        /\ UNCHANGED <<chain, files, docker, git, refused>>
    BY <1>4 DEF Generate
  <2>3. [pr[p] EXCEPT !.pc = "checkpoint"].pc \notin HoldingPcs
    BY <1>1, WithPc, PcsListed
  <2>. QED  BY <1>2, <2>1, <2>2, <2>3, GotoKeeps
<1>5. CASE PersistCandidateCheckpoint(p)
  <2>. DEFINE t == [snap EXCEPT !.candidate = p]
              good == [To("prepare") EXCEPT !.seen = t]
  <2>1. (lock = p \/ LockFree) /\ ~At(p, "pushing") /\ UNCHANGED <<files, docker, git>>
    BY <1>5, Entered DEF PersistCandidateCheckpoint
  <2>2. CASE Leave(p, Idle) \/ Leave(p, To("fail"))
    BY <1>2, <2>1, <2>2, LeaveKeeps
  <2>3. CASE snap.state = "GENERATING" /\ Append(p, "candidate", t, lease, good, To("fail"))
    <3>1. t \in Log!Snapshots /\ t.state = "GENERATING"
      BY <2>3, SnapshotEdits DEF Log!Snapshots
    <3>. HIDE DEF t
    <3>2. good \in Locals /\ Announced(good, t)
      BY <3>1, ToSeen, PcsListed DEF Announced
    <3>. HIDE DEF t, good
    <3>. QED  BY <1>1, <1>2, <2>1, <2>3, <3>1, <3>2, NotPublished, AppendKeeps, KindsListed
  <2>. QED  BY <1>5, <2>2, <2>3 DEF PersistCandidateCheckpoint
<1>6. CASE PrepareSandbox(p)
  <2>1. [pr[p] EXCEPT !.pc = "begin"] \in Locals /\ pr[p].pc \notin HoldingPcs
    BY <1>1, <1>6, WithPc, PcsListed DEF PrepareSandbox, At
  <2>2. /\ Goto(p, [pr[p] EXCEPT !.pc = "begin"]) \/ Goto(p, To("fail"))
        /\ UNCHANGED <<chain, files, docker, git, refused>>
    BY <1>6 DEF PrepareSandbox
  <2>3. [pr[p] EXCEPT !.pc = "begin"].pc \notin HoldingPcs
    BY <1>1, WithPc, PcsListed
  <2>. QED  BY <1>2, <2>1, <2>2, <2>3, GotoKeeps
<1>7. CASE BeginValidation(p)
  <2>. DEFINE t == [snap EXCEPT !.state = "VALIDATING"]
              good == [To("intend") EXCEPT !.seen = t]
  <2>1. (lock = p \/ LockFree) /\ ~At(p, "pushing") /\ UNCHANGED <<files, docker, git>>
    BY <1>7, Entered DEF BeginValidation
  <2>2. CASE Leave(p, Idle) \/ Leave(p, To("fail"))
    BY <1>2, <2>1, <2>2, LeaveKeeps
  <2>3. CASE snap.state = "GENERATING" /\ Append(p, "validating", t, lease, good, To("fail"))
    <3>1. t \in Log!Snapshots /\ t.state = "VALIDATING"
      BY SnapshotEdits DEF Log!States, Log!Snapshots
    <3>. HIDE DEF t
    <3>2. good \in Locals /\ Announced(good, t)
      BY <3>1, ToSeen, PcsListed DEF Announced
    <3>. HIDE DEF t, good
    <3>. QED  BY <1>1, <1>2, <2>1, <2>3, <3>1, <3>2, NotPublished, AppendKeeps, KindsListed
  <2>. QED  BY <1>7, <2>2, <2>3 DEF BeginValidation
<1>. QED  BY <1>3, <1>4, <1>5, <1>6, <1>7 DEF Proposal
(* A new lease is well typed if the store accepts it.                      *)
LEMMA MineIsLease ==
  ASSUME IInv, NEW p \in Procs, NEW bound \in BOOLEAN,
         snap.candidate = pr[p].seen.candidate, snap.candidate # None
  PROVE  Mine(p, bound) \in Log!Leases
<1>1. snap.candidate \in Procs
  BY Basics DEF Log!Snapshots
<1>. QED  BY <1>1 DEF Mine, Log!Leases

LEMMA RegistrationKeeps ==
  ASSUME IInv, NEW p \in Procs, RegisterIntent(p) \/ RegisterRun(p)
  PROVE  IInv' /\ [Log!Next]_chain
<1>1. CASE RegisterIntent(p)
  <2>. DEFINE good == [pr[p] EXCEPT !.pc = "create"]
  <2>1. (lock = p \/ LockFree) /\ ~At(p, "pushing") /\ UNCHANGED <<files, docker, git>>
    BY <1>1, Entered DEF RegisterIntent
  <2>2. good \in Locals /\ good.pc = "create" /\ "create" \notin HoldingPcs
    BY Basics, WithPc, PcsListed
  <2>3. CASE Leave(p, Idle)
    BY <2>1, <2>3, Exits, PcsListed, LeaveKeeps DEF Announced
  <2>4. CASE /\ snap.state = "VALIDATING" /\ snap.candidate = pr[p].seen.candidate
             /\ Append(p, "validation_intent", snap, Mine(p, FALSE), good, To("fail"))
    <3>1. ASSUME Log!EventIsValid("validation_intent", snap, lease, snap, Mine(p, FALSE))
          PROVE  Mine(p, FALSE) \in Log!Leases
      <4>1. snap.candidate # None
        BY <3>1 DEF Log!EventIsValid, Log!ValidationRunUpdateIsValid, Log!IntentRegistered,
                    Log!LeaseMatches
      <4>. QED  BY <2>4, <4>1, MineIsLease
    <3>. HIDE DEF good
    <3>2. Announced(good, snap)
      BY <2>2, PcsListed DEF Announced
    <3>3. /\ snap \in Log!Snapshots /\ ref # "ours" /\ "validation_intent" \in Log!Kinds
          /\ To("fail") \in Locals /\ To("fail").pc \notin HoldingPcs
      BY <2>4, Basics, Exits, NotPublished, KindsListed
    <3>. QED  BY <2>1, <2>2, <2>4, <3>1, <3>2, <3>3, AppendKeeps
  <2>. QED  BY <1>1, <2>3, <2>4 DEF RegisterIntent
<1>2. CASE RegisterRun(p)
  <2>. DEFINE created == At(p, "bind")
              back == IF created THEN "idle" ELSE "fail"
              rejected == [pr[p] EXCEPT !.pc = "unregister", !.then = back]
              running == [pr[p] EXCEPT !.pc = "run"]
              dropping == [pr[p] EXCEPT !.pc = "discard", !.then = "fail"]
              undoing == [pr[p] EXCEPT !.pc = "unregister", !.then = "fail"]
              good == IF snap.state = "VALIDATING"
                      THEN IF created THEN running ELSE dropping
                      ELSE rejected
              bad == IF created THEN undoing ELSE To("fail")
  <2>1. (lock = p \/ LockFree) /\ ~At(p, "pushing") /\ UNCHANGED <<files, docker, git>>
    BY <1>2, Entered DEF RegisterRun
  <2>2. /\ rejected \in Locals /\ rejected.pc = "unregister"
        /\ running \in Locals /\ running.pc = "run"
        /\ dropping \in Locals /\ dropping.pc = "discard"
        /\ undoing \in Locals /\ undoing.pc = "unregister"
    <3>1. back \in {"idle", "fail"}
      OBVIOUS
    <3>2. pr[p] \in Locals /\ {"unregister", "run", "discard"} \subseteq Pcs
      BY Basics, PcsListed
    <3>. HIDE DEF back
    <3>3. rejected \in Locals /\ rejected.pc = "unregister"
      BY <3>1, <3>2, WithPcThen
    <3>4. running \in Locals /\ running.pc = "run"
      BY <3>2, WithPc
    <3>5. dropping \in Locals /\ dropping.pc = "discard"
      BY <3>2, WithPcThen
    <3>6. undoing \in Locals /\ undoing.pc = "unregister"
      BY <3>2, WithPcThen
    <3>. QED  BY <3>3, <3>4, <3>5, <3>6
  <2>3. \/ Leave(p, rejected)
        \/ /\ snap.candidate = pr[p].seen.candidate
           /\ snap.state \in {"VALIDATING", "CANCELLED", "EXPIRED", "FAILED"}
           /\ Append(p, "validation_run", snap, Mine(p, TRUE), good, bad)
    BY <1>2 DEF RegisterRun
  <2>. HIDE DEF rejected, running, dropping, undoing
  <2>4. /\ good \in Locals /\ good.pc \notin HoldingPcs /\ bad \in Locals /\ bad.pc \notin HoldingPcs
        /\ Announced(good, snap) /\ Announced(rejected, snap)
    BY <2>2, Exits, PcsListed DEF Announced
  <2>5. CASE Leave(p, rejected)
    BY <2>1, <2>2, <2>4, <2>5, LeaveKeeps
  <2>. HIDE DEF good, bad
  <2>6. CASE /\ snap.candidate = pr[p].seen.candidate
             /\ snap.state \in {"VALIDATING", "CANCELLED", "EXPIRED", "FAILED"}
             /\ Append(p, "validation_run", snap, Mine(p, TRUE), good, bad)
    <3>1. ASSUME Log!EventIsValid("validation_run", snap, lease, snap, Mine(p, TRUE))
          PROVE  Mine(p, TRUE) \in Log!Leases
      <4>1. snap.candidate # None
        BY <3>1 DEF Log!EventIsValid, Log!ValidationRunUpdateIsValid, Log!RunBound,
                    Log!LeaseMatches
      <4>. QED  BY <2>6, <4>1, MineIsLease
    <3>2. snap \in Log!Snapshots /\ ref # "ours" /\ "validation_run" \in Log!Kinds
      BY <2>6, Basics, NotPublished, KindsListed
    <3>3. Log!EventIsValid("validation_run", snap, lease, snap, Mine(p, TRUE)) =>
            snap \in Log!Snapshots /\ Mine(p, TRUE) \in Log!Leases \cup {None}
      BY <3>1, <3>2
    <3>4. Append(p, "validation_run", snap, Mine(p, TRUE), good, bad)
      BY <2>6
    <3>. QED  BY <2>1, <2>4, <3>2, <3>3, <3>4, AppendKeeps
  <2>. QED  BY <2>3, <2>5, <2>6
<1>. QED  BY <1>1, <1>2
(* Steps on the containers, all outside the lock.                          *)
LEMMA ContainerStepKeeps ==
  ASSUME IInv, NEW p \in Procs,
         \/ CreateContainer(p) \/ RemoveOrConfirmUnbound(p) \/ RemoveUnregistered(p)
         \/ DiscardContainer(p) \/ RunContainer(p) \/ RemoveContainer(p)
  PROVE  IInv' /\ [Log!Next]_chain
<1>1. pr[p] \in Locals /\ pr[p].then \in {"idle", "fail"}
  BY Basics
<1>2. live \subseteq Procs /\ requested \subseteq Procs /\ runs \in Nat
  BY DEF IInv, TypeOK
<1>3. \A pc \in {"idle", "fail"} : To(pc) \in Locals /\ To(pc).pc \notin HoldingPcs
  BY Exits
<1>4. CASE CreateContainer(p)
  <2>. DEFINE bind == [pr[p] EXCEPT !.pc = "bind"]
              bindFailed == [pr[p] EXCEPT !.pc = "bindFailed"]
              settled == [pr[p] EXCEPT !.pc = "unbound", !.ok = TRUE, !.then = "fail"]
              unsettled == [pr[p] EXCEPT !.pc = "unbound", !.ok = FALSE, !.then = "fail"]
  <2>1. /\ bind \in Locals /\ bind.pc = "bind"
        /\ bindFailed \in Locals /\ bindFailed.pc = "bindFailed"
        /\ settled \in Locals /\ settled.pc = "unbound"
        /\ unsettled \in Locals /\ unsettled.pc = "unbound"
    BY <1>1, PcsListed DEF Locals
  <2>2. /\ \/ Goto(p, bind) \/ Goto(p, bindFailed) \/ Goto(p, settled) \/ Goto(p, unsettled)
        /\ live' \subseteq live \cup {p} /\ requested' \subseteq requested \cup {p}
        /\ UNCHANGED <<chain, files, runs, git, refused>>
        /\ pr[p].pc = "create"
    BY <1>4 DEF CreateContainer, At
  <2>3. live' \subseteq Procs /\ requested' \subseteq Procs /\ runs' \in Nat
    BY <1>2, <2>2
  <2>4. {"create", "bind", "bindFailed", "unbound"} \cap HoldingPcs = {}
    BY PcsListed
  <2>. HIDE DEF bind, bindFailed, settled, unsettled
  <2>. QED  BY <2>1, <2>2, <2>3, <2>4, OutsideKeeps
<1>5. CASE RemoveOrConfirmUnbound(p)
  <2>. DEFINE dropping == [pr[p] EXCEPT !.pc = "dropIntent", !.ok = FALSE]
  <2>1. dropping \in Locals /\ dropping.pc = "dropIntent"
    BY <1>1, WithPcOk, PcsListed
  <2>2. /\ Goto(p, dropping) \/ Goto(p, To(pr[p].then))
        /\ live' \subseteq live /\ UNCHANGED <<chain, files, requested, runs, git, refused>>
        /\ pr[p].pc = "unbound"
    BY <1>5 DEF RemoveOrConfirmUnbound, At
  <2>3. live' \subseteq Procs /\ requested' \subseteq Procs /\ runs' \in Nat
    BY <1>2, <2>2
  <2>4. {"unbound", "dropIntent"} \cap HoldingPcs = {}
    BY PcsListed
  <2>. HIDE DEF dropping
  <2>. QED  BY <1>1, <1>3, <2>1, <2>2, <2>3, <2>4, OutsideKeeps
<1>6. CASE RemoveUnregistered(p)
  <2>. DEFINE dropping == [pr[p] EXCEPT !.pc = "dropRun"]
  <2>1. dropping \in Locals /\ dropping.pc = "dropRun"
    BY <1>1, WithPc, PcsListed
  <2>2. /\ Goto(p, dropping) \/ Goto(p, To(pr[p].then))
        /\ live' \subseteq live /\ UNCHANGED <<chain, files, requested, runs, git, refused>>
        /\ pr[p].pc = "unregister"
    BY <1>6 DEF RemoveUnregistered, At
  <2>3. live' \subseteq Procs /\ requested' \subseteq Procs /\ runs' \in Nat
    BY <1>2, <2>2
  <2>4. {"unregister", "dropRun"} \cap HoldingPcs = {}
    BY PcsListed
  <2>. HIDE DEF dropping
  <2>. QED  BY <1>1, <1>3, <2>1, <2>2, <2>3, <2>4, OutsideKeeps
<1>7. CASE DiscardContainer(p)
  <2>1. /\ Goto(p, To(pr[p].then))
        /\ live' \subseteq live /\ UNCHANGED <<chain, files, requested, runs, git, refused>>
        /\ pr[p].pc = "discard"
    BY <1>7 DEF DiscardContainer, At
  <2>2. live' \subseteq Procs /\ requested' \subseteq Procs /\ runs' \in Nat
    BY <1>2, <2>1
  <2>3. "discard" \notin HoldingPcs
    BY PcsListed
  <2>. QED  BY <1>1, <1>3, <2>1, <2>2, <2>3, OutsideKeeps
<1>8. CASE RunContainer(p)
  <2>. DEFINE reported(passed) == [pr[p] EXCEPT !.pc = "verdict", !.passed = passed]
              dropping == [pr[p] EXCEPT !.pc = "discard", !.then = "fail"]
  <2>1. \A passed \in BOOLEAN : reported(passed) \in Locals /\ reported(passed).pc = "verdict"
    BY <1>1, PcsListed DEF Locals
  <2>2. dropping \in Locals /\ dropping.pc = "discard"
    BY <1>1, WithPcThen, PcsListed
  <2>3. /\ (\E passed \in BOOLEAN : Goto(p, reported(passed))) \/ Goto(p, dropping)
        /\ UNCHANGED <<chain, files, git, refused>>
        /\ pr[p].pc = "run"
    BY <1>8 DEF RunContainer, At
  <2>4. live' \subseteq Procs /\ requested' \subseteq Procs /\ runs' \in Nat
    <3>1. runs' \in {runs, runs + 1} /\ live' = live /\ requested' = requested
      BY <1>8 DEF RunContainer
    <3>. QED  BY <1>2, <3>1
  <2>5. {"run", "verdict", "discard"} \cap HoldingPcs = {}
    BY PcsListed
  <2>. HIDE DEF reported, dropping
  <2>. QED  BY <2>1, <2>2, <2>3, <2>4, <2>5, OutsideKeeps
<1>9. CASE RemoveContainer(p)
  <2>. DEFINE removed == [pr[p] EXCEPT !.pc = "finish", !.ok = TRUE]
              kept == [pr[p] EXCEPT !.pc = "finish", !.ok = FALSE]
  <2>1. removed \in Locals /\ removed.pc = "finish" /\ kept \in Locals /\ kept.pc = "finish"
    BY <1>1, PcsListed DEF Locals
  <2>2. /\ Goto(p, removed) \/ Goto(p, kept)
        /\ live' \subseteq live /\ UNCHANGED <<chain, files, requested, runs, git, refused>>
        /\ pr[p].pc = "reclaim"
    BY <1>9 DEF RemoveContainer, At
  <2>3. live' \subseteq Procs /\ requested' \subseteq Procs /\ runs' \in Nat
    BY <1>2, <2>2
  <2>4. {"reclaim", "finish"} \cap HoldingPcs = {}
    BY PcsListed
  <2>. HIDE DEF removed, kept
  <2>. QED  BY <2>1, <2>2, <2>3, <2>4, OutsideKeeps
<1>. QED  BY <1>4, <1>5, <1>6, <1>7, <1>8, <1>9

(* Giving a lease up.                                                      *)
LEMMA ReleaseKeeps ==
  ASSUME IInv, NEW p \in Procs, ReleaseRun(p) \/ ReleaseIntent(p)
  PROVE  IInv' /\ [Log!Next]_chain
<1>. DEFINE back == To(pr[p].then)
            tidying == [To("tidy") EXCEPT !.then = pr[p].then]
            dropping == [pr[p] EXCEPT !.pc = "dropIntent"]
<1>1. /\ back \in Locals /\ back.pc \notin HoldingPcs
      /\ To("fail") \in Locals /\ To("fail").pc \notin HoldingPcs
      /\ tidying \in Locals /\ tidying.pc = "tidy"
  BY Basics, Exits
<1>2. dropping \in Locals /\ dropping.pc = "dropIntent"
  <2>1. pr[p] \in Locals /\ "dropIntent" \in Pcs
    BY Basics, PcsListed
  <2>. QED  BY <2>1, WithPc
<1>3. /\ (lock = p \/ LockFree) /\ ~At(p, "pushing") /\ UNCHANGED <<files, docker, git>>
      /\ \/ Leave(p, back) \/ Leave(p, tidying) \/ Leave(p, dropping)
         \/ /\ snap.state = "VALIDATING"
            /\ Append(p, "validation_intent_abandoned", snap, None, back, To("fail"))
  BY Entered DEF ReleaseRun, ReleaseIntent
<1>. HIDE DEF back, tidying, dropping
<1>4. Announced(back, snap) /\ Announced(tidying, snap) /\ Announced(dropping, snap)
  BY <1>1, <1>2, PcsListed DEF Announced
<1>5. CASE Leave(p, back) \/ Leave(p, tidying) \/ Leave(p, dropping)
  BY <1>1, <1>2, <1>3, <1>4, <1>5, LeaveKeeps
<1>6. CASE /\ snap.state = "VALIDATING"
           /\ Append(p, "validation_intent_abandoned", snap, None, back, To("fail"))
  <2>1. snap \in Log!Snapshots /\ ref # "ours" /\ "validation_intent_abandoned" \in Log!Kinds
    BY <1>6, Basics, NotPublished, KindsListed
  <2>. QED  BY <1>1, <1>3, <1>4, <1>6, <2>1, AppendKeeps
<1>. QED  BY <1>3, <1>5, <1>6
(* The verdict and what follows from it.                                   *)
LEMMA VerdictKeeps ==
  ASSUME IInv, NEW p \in Procs, CheckpointResult(p) \/ FinishValidation(p)
  PROVE  IInv' /\ [Log!Next]_chain
<1>1. /\ pr[p] \in Locals /\ snap \in Log!Snapshots /\ lease \in Log!Leases \cup {None}
  BY Basics
<1>2. /\ Idle \in Locals /\ Idle.pc \notin HoldingPcs /\ Announced(Idle, snap)
      /\ To("fail") \in Locals /\ To("fail").pc \notin HoldingPcs /\ Announced(To("fail"), snap)
  BY Exits, PcsListed DEF Announced
<1>3. CASE CheckpointResult(p)
  <2>. DEFINE t == [snap EXCEPT !.validation = Verdict(p)]
              good == [pr[p] EXCEPT !.pc = "reclaim"]
              bad == [pr[p] EXCEPT !.pc = "discard", !.then = "fail"]
              late == [pr[p] EXCEPT !.pc = "discard", !.then = "idle"]
  <2>1. (lock = p \/ LockFree) /\ ~At(p, "pushing") /\ UNCHANGED <<files, docker, git>>
    BY <1>3, Entered DEF CheckpointResult
  <2>2. /\ good \in Locals /\ good.pc = "reclaim"
        /\ bad \in Locals /\ bad.pc = "discard"
        /\ late \in Locals /\ late.pc = "discard"
    BY <1>1, PcsListed DEF Locals
  <2>3. \/ Leave(p, late)
        \/ /\ snap.state = "VALIDATING" /\ snap.candidate = pr[p].seen.candidate
           /\ Append(p, "validation_result", t, lease, good, bad)
    BY <1>3 DEF CheckpointResult
  <2>4. ASSUME snap.candidate = pr[p].seen.candidate,
               Log!EventIsValid("validation_result", snap, lease, t, lease)
        PROVE  t \in Log!Snapshots
    <3>1. snap.candidate # None
      BY <2>4 DEF Log!EventIsValid, Log!ValidationRunUpdateIsValid, Log!ResultOfRun,
                  Log!LeaseMatches
    <3>2. snap.candidate \in Procs /\ pr[p].passed \in BOOLEAN
      BY <1>1, <3>1 DEF Log!Snapshots, Locals
    <3>3. Verdict(p) \in Log!Validations
      BY <2>4, <3>2 DEF Verdict, Log!Validations
    <3>. QED  BY <1>1, <3>3 DEF Log!Snapshots
  <2>5. t.state = snap.state
    BY <1>1 DEF Log!Snapshots
  <2>. HIDE DEF t, good, bad, late
  <2>6. Announced(good, t) /\ Announced(late, snap) /\ bad.pc \notin HoldingPcs
    BY <2>2, PcsListed DEF Announced
  <2>7. CASE Leave(p, late)
    BY <2>1, <2>2, <2>6, <2>7, LeaveKeeps
  <2>8. CASE /\ snap.state = "VALIDATING" /\ snap.candidate = pr[p].seen.candidate
             /\ Append(p, "validation_result", t, lease, good, bad)
    <3>1. ref # "ours" /\ "validation_result" \in Log!Kinds
      BY <2>8, NotPublished, KindsListed
    <3>2. Log!EventIsValid("validation_result", snap, lease, t, lease) =>
            t \in Log!Snapshots /\ lease \in Log!Leases \cup {None}
      BY <1>1, <2>4, <2>8
    <3>3. Append(p, "validation_result", t, lease, good, bad)
      BY <2>8
    <3>. QED  BY <2>1, <2>2, <2>6, <3>1, <3>2, <3>3, AppendKeeps
  <2>. QED  BY <2>3, <2>7, <2>8
<1>4. CASE FinishValidation(p)
  <2>. DEFINE t == [snap EXCEPT !.state = "VALIDATED"]
              f == Fail(snap)
  <2>1. (lock = p \/ LockFree) /\ ~At(p, "pushing") /\ UNCHANGED <<files, docker, git>>
    BY <1>4, Entered DEF FinishValidation
  <2>2. t \in Log!Snapshots /\ f \in Log!Snapshots
    BY SnapshotEdits DEF Log!States
  <2>3. /\ To("tidy") \in Locals /\ To("tidy").pc = "tidy"
        /\ {"failed", "validated"} \subseteq Log!Kinds
    BY ToIsLocal, PcsListed, KindsListed
  <2>4. \/ Leave(p, Idle) \/ Leave(p, To("fail"))
        \/ /\ snap.state = "VALIDATING"
           /\ \/ Append(p, "failed", f, lease, To("fail"), To("fail"))
              \/ Append(p, "validated", t, None, Idle, To("fail"))
              \/ Append(p, "failed", f, None, To("tidy"), To("fail"))
    BY <1>4 DEF FinishValidation, PersistTerminal
  <2>. HIDE DEF t, f
  <2>5. /\ Announced(To("fail"), f) /\ Announced(Idle, t) /\ Announced(To("tidy"), f)
    BY <1>2, <2>3, PcsListed DEF Announced
  <2>6. CASE Leave(p, Idle) \/ Leave(p, To("fail"))
    BY <1>2, <2>1, <2>6, LeaveKeeps
  <2>7. snap.state = "VALIDATING" => ref # "ours"
    BY NotPublished
  <2>8. CASE snap.state = "VALIDATING" /\ Append(p, "failed", f, lease, To("fail"), To("fail"))
    BY <1>1, <1>2, <2>1, <2>2, <2>3, <2>5, <2>7, <2>8, AppendKeeps
  <2>9. CASE snap.state = "VALIDATING" /\ Append(p, "validated", t, None, Idle, To("fail"))
    BY <1>1, <1>2, <2>1, <2>2, <2>3, <2>5, <2>7, <2>9, AppendKeeps
  <2>10. CASE snap.state = "VALIDATING" /\ Append(p, "failed", f, None, To("tidy"), To("fail"))
    BY <1>1, <1>2, <2>1, <2>2, <2>3, <2>5, <2>7, <2>10, AppendKeeps
  <2>. QED  BY <2>4, <2>6, <2>8, <2>9, <2>10
<1>. QED  BY <1>3, <1>4

LEMMA ValidationKeeps ==
  ASSUME IInv, NEW p \in Procs, Validation(p)
  PROVE  IInv' /\ [Log!Next]_chain
BY RegistrationKeeps, ContainerStepKeeps, ReleaseKeeps, VerdictKeeps DEF Validation

(* Approving, rejecting, cancelling, expiring.                             *)
LEMMA DecisionKeeps ==
  ASSUME IInv, NEW p \in Procs, Decision(p)
  PROVE  IInv' /\ [Log!Next]_chain
<1>1. /\ pr[p] \in Locals /\ snap \in Log!Snapshots /\ lease \in Log!Leases \cup {None}
  BY Basics
<1>2. /\ Idle \in Locals /\ Idle.pc \notin HoldingPcs /\ Announced(Idle, snap)
      /\ To("tidy") \in Locals /\ To("tidy").pc = "tidy"
      /\ To("reconcile") \in Locals /\ To("reconcile").pc = "reconcile"
  BY Exits, ToIsLocal, PcsListed DEF Announced
<1>3. {"approved", "rejected", "cancelled", "expired"} \subseteq Log!Kinds
  BY KindsListed
<1>4. CASE Approve(p)
  <2>. DEFINE t == [snap EXCEPT !.state = "APPROVED",
                                !.approval = [candidate |-> snap.candidate]]
  <2>1. /\ (lock = p \/ LockFree) /\ ~At(p, "pushing") /\ UNCHANGED <<files, docker, git>>
        /\ snap.state = "VALIDATED" /\ Append(p, "approved", t, lease, Idle, Idle)
    BY <1>4, Entered DEF Approve
  <2>2. ASSUME Log!EventIsValid("approved", snap, lease, t, lease)
        PROVE  t \in Log!Snapshots
    <3>1. t.state = "APPROVED" /\ t.candidate = snap.candidate
      BY <1>1 DEF Log!Snapshots
    <3>2. snap.candidate # None
      BY <2>2, <3>1 DEF Log!EventIsValid, Log!SnapshotShape
    <3>3. [candidate |-> snap.candidate] \in Log!Approvals
      BY <1>1, <3>2 DEF Log!Snapshots, Log!Approvals
    <3>. QED  BY <1>1, <3>3 DEF Log!Snapshots, Log!States
  <2>. HIDE DEF t
  <2>3. ref # "ours" /\ Announced(Idle, t)
    BY <1>2, <2>1, NotPublished, PcsListed DEF Announced
  <2>4. Log!EventIsValid("approved", snap, lease, t, lease) =>
          t \in Log!Snapshots /\ lease \in Log!Leases \cup {None}
    BY <1>1, <2>2
  <2>. QED  BY <1>2, <1>3, <2>1, <2>3, <2>4, AppendKeeps
<1>5. CASE Reject(p)
  <2>. DEFINE t == Decided(snap, "REJECTED")
  <2>1. /\ (lock = p \/ LockFree) /\ ~At(p, "pushing") /\ UNCHANGED <<files, docker, git>>
        /\ snap.state \in {"VALIDATED", "APPROVED"}
        /\ Append(p, "rejected", t, None, To("tidy"), Idle)
    BY <1>5, Entered DEF Reject, PersistTerminal
  <2>2. t \in Log!Snapshots
    BY SnapshotEdits
  <2>. HIDE DEF t
  <2>3. ref # "ours" /\ Announced(To("tidy"), t)
    BY <1>2, <2>1, NotPublished DEF Announced
  <2>. QED  BY <1>2, <1>3, <2>1, <2>2, <2>3, AppendKeeps
<1>6. ASSUME NEW kind \in {"cancelled", "expired"}, Decide(p, kind)
      PROVE  IInv' /\ [Log!Next]_chain
  <2>. DEFINE t == Decided(snap, StateOf(kind))
              loc == [To("reconcile") EXCEPT !.kind = kind]
  <2>1. /\ (lock = p \/ LockFree) /\ ~At(p, "pushing") /\ UNCHANGED <<files, docker, git>>
        /\ snap.state \notin Log!TerminalStates
        /\ \/ snap.state = "APPLYING" /\ Leave(p, loc)
           \/ snap.state # "APPLYING" /\ CloseSession(p, kind, t)
    BY <1>6, Entered DEF Decide, Open, Terminal
  <2>2. t \in Log!Snapshots /\ kind \in Log!Kinds
    BY <1>3, SnapshotEdits DEF StateOf
  <2>3. loc \in Locals /\ loc.pc = "reconcile"
    BY <1>2 DEF Locals
  <2>. HIDE DEF t, loc
  <2>4. CASE snap.state = "APPLYING" /\ Leave(p, loc)
    <3>1. Announced(loc, snap)
      BY <2>3, <2>4 DEF Announced
    <3>. QED  BY <2>1, <2>3, <2>4, <3>1, LeaveKeeps
  <2>5. CASE snap.state # "APPLYING" /\ CloseSession(p, kind, t)
    <3>1. ref # "ours"
      BY <2>1, <2>5, NotPublished DEF Log!TerminalStates
    <3>. QED  BY <2>1, <2>2, <2>5, <3>1, CloseKeeps
  <2>. QED  BY <2>1, <2>4, <2>5
<1>7. CASE CloseReconciled(p)
  <2>1. /\ At(p, "close") /\ lock = p /\ ~At(p, "pushing") /\ snap.state = "APPROVED"
        /\ UNCHANGED <<files, docker, git>>
    BY <1>7, PcsListed DEF CloseReconciled, At, IInv, TypeOK, ControlOK, Fence
  <2>2. CloseSession(p, pr[p].kind, Decided(snap, StateOf(pr[p].kind)))
    BY <1>7 DEF CloseReconciled
  <2>3. ref # "ours" /\ Decided(snap, StateOf(pr[p].kind)) \in Log!Snapshots
    BY <2>1, NotPublished, SnapshotEdits DEF StateOf
  <2>4. pr[p].kind \in Log!Kinds
    BY <1>1, KindsListed DEF Locals
  <2>. QED  BY <2>1, <2>2, <2>3, <2>4, CloseKeeps
<1>. QED  BY <1>4, <1>5, <1>6, <1>7 DEF Decision
(* A step inside the lock that appends nothing and keeps the repository    *)
(* and the containers' types.                                              *)
LEMMA InsideKeeps ==
  ASSUME IInv, NEW p \in Procs, lock = p \/ LockFree, ~At(p, "pushing"),
         NEW loc \in Locals, Resume(p, loc), Announced(loc, snap),
         UNCHANGED <<chain, git, refused>>,
         private' \in {"whole", "partial", "gone"},
         store' \in {"present", "remnant", "removed"},
         live' \subseteq Procs, requested' \subseteq Procs, runs' \in Nat
  PROVE  IInv' /\ UNCHANGED chain
<1>1. snap' = snap /\ lease' = lease /\ refused' = refused /\ child' = child /\ ref' = ref
  BY DEF chain, git
<1>2. ControlOK' /\ Fence' /\ PublishedIsApplied'
  <2>1. UNCHANGED git /\ Announced(loc, snap')
    BY <1>1 DEF git
  <2>2. ref = "ours" => snap'.state \in {"APPLYING", "APPLIED"}
    BY <1>1 DEF IInv, PublishedIsApplied
  <2>. QED  BY <2>1, <2>2, InsideStep
<1>. QED  BY <1>1, <1>2 DEF IInv, TypeOK, Log!TypeOK

(* A process at a step inside the lock holds it.                           *)
LEMMA Holding ==
  ASSUME IInv, NEW p \in Procs, pr[p].pc \in HoldingPcs
  PROVE  lock = p
BY DEF IInv, TypeOK, ControlOK

(* Closing a session and removing its payload.                             *)
LEMMA ClosingKeeps ==
  ASSUME IInv, NEW p \in Procs, Closing(p)
  PROVE  IInv' /\ [Log!Next]_chain
<1>1. /\ pr[p] \in Locals /\ snap \in Log!Snapshots /\ lease \in Log!Leases \cup {None}
      /\ pr[p].then \in {"idle", "fail"}
  BY Basics
<1>2. /\ Idle \in Locals /\ Idle.pc = "idle" /\ Idle.pc \notin HoldingPcs /\ Announced(Idle, snap)
      /\ To("tidy") \in Locals /\ To("tidy").pc = "tidy" /\ Announced(To("tidy"), snap)
      /\ To("expire") \in Locals /\ To("expire").pc = "expire"
  BY Exits, ToIsLocal, PcsListed DEF Announced
<1>3. /\ live \subseteq Procs /\ requested \subseteq Procs /\ runs \in Nat
      /\ private \in {"whole", "partial", "gone"} /\ store \in {"present", "remnant", "removed"}
  BY DEF IInv, TypeOK
<1>4. CASE PersistProposalFailure(p)
  <2>1. /\ (lock = p \/ LockFree) /\ ~At(p, "pushing") /\ UNCHANGED <<files, docker, git>>
        /\ \/ snap.state \in {"GENERATING", "VALIDATING"} /\ CloseSession(p, "failed", Fail(snap))
           \/ Leave(p, Idle)
    BY <1>4, Entered DEF PersistProposalFailure
  <2>2. CASE snap.state \in {"GENERATING", "VALIDATING"} /\ CloseSession(p, "failed", Fail(snap))
    <3>1. ref # "ours" /\ Fail(snap) \in Log!Snapshots /\ "failed" \in Log!Kinds
      BY <2>2, NotPublished, SnapshotEdits, KindsListed
    <3>. QED  BY <2>1, <2>2, <3>1, CloseKeeps
  <2>3. CASE Leave(p, Idle)
    BY <1>2, <2>1, <2>3, LeaveKeeps
  <2>. QED  BY <2>1, <2>2, <2>3
<1>5. CASE SweepContainer(p)
  <2>. DEFINE swept == [pr[p] EXCEPT !.pc = "settle"]
  <2>1. swept \in Locals /\ swept.pc = "settle"
    BY <1>1, PcsListed DEF Locals
  <2>2. /\ Goto(p, swept) \/ Goto(p, Idle)
        /\ live' \subseteq live /\ requested' = requested /\ runs' = runs
        /\ UNCHANGED <<chain, files, git, refused>>
        /\ pr[p].pc = "sweep"
    BY <1>5 DEF SweepContainer, At
  <2>3. live' \subseteq Procs /\ requested' \subseteq Procs /\ runs' \in Nat
    BY <1>3, <2>2
  <2>4. "sweep" \notin HoldingPcs /\ "settle" \notin HoldingPcs
    BY PcsListed
  <2>. HIDE DEF swept
  <2>. QED  BY <1>2, <2>1, <2>2, <2>3, <2>4, OutsideKeeps
<1>6. CASE SettleTerminal(p)
  <2>1. /\ (lock = p \/ LockFree) /\ ~At(p, "pushing") /\ UNCHANGED <<files, docker, git>>
        /\ Leave(p, To("tidy")) \/ Leave(p, Idle)
    BY <1>6, Entered DEF SettleTerminal
  <2>. QED  BY <1>2, <2>1, LeaveKeeps
<1>7. CASE CleanupPrivate(p)
  <2>. DEFINE done(ok) == [pr[p] EXCEPT !.pc = "tidied", !.ok = ok]
  <2>1. \A ok \in BOOLEAN : done(ok) \in Locals /\ done(ok).pc = "tidied"
    BY <1>1, PcsListed DEF Locals
  <2>2. \A ok \in BOOLEAN : Announced(done(ok), snap)
    BY <2>1 DEF Announced
  <2>3. /\ \E ok \in BOOLEAN : Resume(p, done(ok))
        /\ UNCHANGED <<chain, git, refused>>
        /\ private' \in {private, "partial", "gone"}
        /\ live' = live /\ requested' = requested /\ runs' = runs /\ store' = store
        /\ pr[p].pc = "tidy"
    BY <1>7 DEF CleanupPrivate, At, docker
  <2>4. lock = p /\ ~At(p, "pushing")
    BY <2>3, Holding, PcsListed DEF At
  <2>5. /\ private' \in {"whole", "partial", "gone"} /\ store' \in {"present", "remnant", "removed"}
        /\ live' \subseteq Procs /\ requested' \subseteq Procs /\ runs' \in Nat
    BY <1>3, <2>3
  <2>. HIDE DEF done
  <2>. QED  BY <2>1, <2>2, <2>3, <2>4, <2>5, InsideKeeps
<1>8. CASE RecordCleanup(p)
  <2>. DEFINE ok == pr[p].ok
              kind == IF ok THEN "cleanup_complete" ELSE "cleanup_pending"
              t == [snap EXCEPT !.cleanup_pending = ~ok]
              expire == [To("expire") EXCEPT !.mgr = TRUE]
              back == [pr[p] EXCEPT !.pc = pr[p].then, !.ok = FALSE]
              next == IF pr[p].mgr THEN IF ok THEN expire ELSE Idle ELSE back
  <2>1. /\ At(p, "tidied") /\ UNCHANGED <<files, docker, git>>
        /\ Leave(p, next) \/ Append(p, kind, t, None, next, Idle)
    BY <1>8 DEF RecordCleanup
  <2>2. lock = p /\ ~At(p, "pushing")
    BY <2>1, Holding, PcsListed DEF At
  <2>3. /\ t \in Log!Snapshots /\ t.state = snap.state
        /\ kind \in Log!Kinds
    <3>1. ok \in BOOLEAN /\ kind \in Log!Kinds
      BY <1>1, KindsListed DEF Locals
    <3>. HIDE DEF ok, kind
    <3>. DEFINE pending == ~ok
    <3>2. pending \in BOOLEAN
      BY <3>1
    <3>. HIDE DEF pending
    <3>3. /\ [snap EXCEPT !.cleanup_pending = pending] \in Log!Snapshots
          /\ [snap EXCEPT !.cleanup_pending = pending].state = snap.state
      BY <1>1, <3>2 DEF Log!Snapshots
    <3>. QED  BY <3>1, <3>3 DEF pending
  <2>4. expire \in Locals /\ expire.pc = "expire"
    BY <1>2 DEF Locals
  <2>5. back \in Locals /\ back.pc = pr[p].then
    BY <1>1, PcsListed DEF Locals
  <2>. HIDE DEF ok, kind, t, expire, back
  <2>6. next \in Locals /\ next.pc \in {"expire", "idle", "fail"}
    BY <1>1, <1>2, <2>4, <2>5
  <2>. HIDE DEF next
  <2>7. Announced(next, snap) /\ Announced(next, t)
    BY <2>6 DEF Announced
  <2>8. ref = "ours" => t.state \in {"APPLYING", "APPLIED"}
    BY <2>3 DEF IInv, PublishedIsApplied
  <2>9. CASE Leave(p, next)
    BY <2>1, <2>2, <2>6, <2>7, <2>9, LeaveKeeps
  <2>10. CASE Append(p, kind, t, None, next, Idle)
    BY <1>2, <2>1, <2>2, <2>3, <2>6, <2>7, <2>8, <2>10, AppendKeeps
  <2>. QED  BY <2>1, <2>9, <2>10
<1>. QED  BY <1>4, <1>5, <1>6, <1>7, <1>8 DEF Closing
(* Publishing the ref and reading it back.                                 *)
LEMMA ApplicationKeeps ==
  ASSUME IInv, NEW p \in Procs, Application(p)
  PROVE  IInv' /\ [Log!Next]_chain
<1>1. /\ pr[p] \in Locals /\ snap \in Log!Snapshots /\ lease \in Log!Leases \cup {None}
  BY Basics
<1>2. /\ Idle \in Locals /\ Idle.pc = "idle" /\ Idle.pc \notin HoldingPcs
      /\ To("tidy") \in Locals /\ To("tidy").pc = "tidy"
      /\ To("push") \in Locals /\ To("push").pc = "push"
      /\ To("pushing") \in Locals /\ To("pushing").pc = "pushing"
      /\ To("reconcile") \in Locals /\ To("reconcile").pc = "reconcile"
  BY Exits, ToIsLocal, PcsListed
<1>. DEFINE reading == [To("reconcile") EXCEPT !.kind = "applied"]
<1>3. reading \in Locals /\ reading.pc = "reconcile"
  BY <1>2 DEF Locals
<1>4. {"applied", "applying", "application_conflict", "recovered"} \subseteq Log!Kinds
  BY KindsListed
<1>. HIDE DEF reading
<1>5. CASE Apply(p)
  <2>. DEFINE t == [snap EXCEPT !.state = "APPLYING"]
  <2>1. /\ (lock = p \/ LockFree) /\ ~At(p, "pushing") /\ UNCHANGED <<files, docker, git>>
        /\ Append(p, "applying", t, lease, To("push"), Idle)
    BY <1>5, Entered DEF Apply
  <2>2. t \in Log!Snapshots /\ t.state = "APPLYING"
    BY SnapshotEdits DEF Log!States, Log!Snapshots
  <2>. HIDE DEF t
  <2>3. Announced(To("push"), t)
    BY <1>2, <2>2 DEF Announced
  <2>. QED  BY <1>1, <1>2, <1>4, <2>1, <2>2, <2>3, AppendKeeps
<1>6. CASE StartPush(p)
  <2>1. /\ pr[p].pc = "push" /\ UNCHANGED <<chain, files, docker, ref, refused>>
        /\ \/ child' = child \cup {p} /\ Resume(p, To("pushing"))
           \/ child' = child /\ Resume(p, reading)
           \/ child' = child /\ Resume(p, Idle)
    BY <1>6 DEF StartPush, At, reading
  <2>2. /\ lock = p /\ ~At(p, "pushing") /\ snap.state = "APPLYING" /\ child = {}
    BY <2>1, Holding, PcsListed, InsideMeansNoChild DEF At, IInv, Fence
  <2>3. CASE child' = child /\ (Resume(p, reading) \/ Resume(p, Idle))
    <3>1. Announced(reading, snap) /\ Announced(Idle, snap)
      BY <1>2, <1>3, <2>2 DEF Announced
    <3>2. /\ UNCHANGED <<chain, git, refused>>
          /\ private' \in {"whole", "partial", "gone"} /\ store' \in {"present", "remnant", "removed"}
          /\ live' \subseteq Procs /\ requested' \subseteq Procs /\ runs' \in Nat
      BY <2>1, <2>3 DEF IInv, TypeOK, files, docker, git
    <3>. QED  BY <1>2, <1>3, <2>2, <2>3, <3>1, <3>2, InsideKeeps
  <2>4. CASE child' = child \cup {p} /\ Resume(p, To("pushing"))
    <3>1. /\ ControlOK' /\ pr'[p].pc = "pushing" /\ lock' = p
          /\ \A q \in Procs \ {p} : pr'[q].pc \notin HoldingPcs
      BY <1>2, <2>2, <2>4, ResumeControl, PcsListed DEF IInv, TypeOK, Resume
    <3>2. snap' = snap /\ lease' = lease /\ ref' = ref /\ child' = {p} /\ refused' = refused
      BY <2>1, <2>2, <2>4 DEF chain
    <3>3. Fence'
      BY <2>2, <3>1, <3>2, PcsListed DEF Fence, At
    <3>. QED  BY <2>1, <3>1, <3>2, <3>3
              DEF IInv, TypeOK, Log!TypeOK, PublishedIsApplied, files, docker, chain
  <2>. QED  BY <2>1, <2>3, <2>4
<1>7. CASE PushChild(p)
  <2>1. /\ p \in child /\ child' = child \ {p} /\ ref' \in {ref, "ours"}
        /\ snap' = snap /\ lease' = lease /\ lock' = lock /\ pr' = pr /\ refused' = refused
        /\ UNCHANGED <<files, docker>>
    BY <1>7 DEF PushChild, chain
  <2>2. snap.state = "APPLYING"
    BY <2>1 DEF IInv, Fence
  <2>3. Fence'
    BY <2>1 DEF IInv, Fence, At
  <2>4. ControlOK'
    BY <2>1 DEF IInv, TypeOK, ControlOK
  <2>. QED  BY <2>1, <2>2, <2>3, <2>4
            DEF IInv, TypeOK, Log!TypeOK, PublishedIsApplied, files, docker, chain
<1>8. CASE EndPush(p)
  <2>1. /\ pr[p].pc = "pushing" /\ child' = child \ {p} /\ Resume(p, reading)
        /\ snap' = snap /\ lease' = lease /\ ref' = ref /\ refused' = refused
        /\ UNCHANGED <<files, docker>>
    BY <1>8 DEF EndPush, At, reading, chain
  <2>2. lock = p /\ snap.state = "APPLYING"
    BY <2>1, Holding, PcsListed DEF IInv, Fence
  <2>3. child' = {}
    BY <2>1, <2>2, RolesAssumption DEF IInv, Fence, TypeOK
  <2>4. /\ ControlOK' /\ pr'[p].pc = "reconcile"
        /\ \A q \in Procs \ {p} : pr'[q].pc \notin HoldingPcs
    BY <1>3, <2>1, <2>2, ResumeControl DEF IInv, TypeOK
  <2>5. Fence'
    BY <2>1, <2>2, <2>3, <2>4, PcsListed DEF Fence, At
  <2>. QED  BY <2>1, <2>3, <2>4, <2>5
            DEF IInv, TypeOK, Log!TypeOK, PublishedIsApplied, files, docker, chain
<1>9. CASE ReconcileRef(p)
  <2>. DEFINE restored == [snap EXCEPT !.state = "APPROVED"]
              applied == [snap EXCEPT !.state = "APPLIED",
                                      !.application = [candidate |-> snap.candidate],
                                      !.cleanup_pending = TRUE]
              closing == [pr[p] EXCEPT !.pc = "close"]
  <2>1. /\ pr[p].pc = "reconcile" /\ UNCHANGED <<files, docker, git>>
        /\ \/ Leave(p, Idle)
           \/ ref = "ours" /\ Append(p, "applied", applied, None, To("tidy"), Idle)
           \/ ref # "ours" /\ Append(p, "application_conflict", restored, lease, Idle, Idle)
           \/ ref # "ours" /\ Append(p, "recovered", restored, lease, closing, Idle)
           \/ ref # "ours" /\ Append(p, "recovered", restored, lease, Idle, Idle)
    BY <1>9 DEF ReconcileRef, At, PersistTerminal
  <2>2. lock = p /\ ~At(p, "pushing")
    BY <2>1, Holding, PcsListed DEF At
  <2>3. restored \in Log!Snapshots /\ restored.state = "APPROVED"
    BY SnapshotEdits DEF Log!States, Log!Snapshots
  <2>4. ASSUME Log!EventIsValid("applied", snap, lease, applied, None)
        PROVE  applied \in Log!Snapshots
    <3>1. applied.state = "APPLIED" /\ applied.candidate = snap.candidate
      BY <1>1 DEF Log!Snapshots
    <3>2. snap.candidate # None
      BY <2>4, <3>1 DEF Log!EventIsValid, Log!SnapshotShape
    <3>3. [candidate |-> snap.candidate] \in Log!Applications
      BY <1>1, <3>2 DEF Log!Snapshots, Log!Applications
    <3>. QED  BY <1>1, <3>3 DEF Log!Snapshots, Log!States
  <2>5. applied.state = "APPLIED"
    BY <1>1 DEF Log!Snapshots
  <2>6. closing \in Locals /\ closing.pc = "close"
    BY <1>1, PcsListed DEF Locals
  <2>. HIDE DEF restored, applied, closing
  <2>7. /\ Announced(Idle, snap) /\ Announced(Idle, restored)
        /\ Announced(To("tidy"), applied) /\ Announced(closing, restored)
    BY <1>2, <2>3, <2>6 DEF Announced
  <2>8. CASE Leave(p, Idle)
    BY <1>2, <2>1, <2>2, <2>7, <2>8, LeaveKeeps
  <2>9. CASE Append(p, "applied", applied, None, To("tidy"), Idle)
    <3>1. Log!EventIsValid("applied", snap, lease, applied, None) =>
            applied \in Log!Snapshots /\ None \in Log!Leases \cup {None}
      BY <2>4
    <3>. QED  BY <1>2, <1>4, <2>1, <2>2, <2>5, <2>7, <2>9, <3>1, AppendKeeps
  <2>10. CASE ref # "ours" /\ Append(p, "application_conflict", restored, lease, Idle, Idle)
    BY <1>1, <1>2, <1>4, <2>1, <2>2, <2>3, <2>7, <2>10, AppendKeeps
  <2>11. CASE ref # "ours" /\ Append(p, "recovered", restored, lease, closing, Idle)
    BY <1>1, <1>2, <1>4, <2>1, <2>2, <2>3, <2>6, <2>7, <2>11, AppendKeeps
  <2>12. CASE ref # "ours" /\ Append(p, "recovered", restored, lease, Idle, Idle)
    BY <1>1, <1>2, <1>4, <2>1, <2>2, <2>3, <2>7, <2>12, AppendKeeps
  <2>. QED  BY <2>1, <2>8, <2>9, <2>10, <2>11, <2>12
<1>. QED  BY <1>5, <1>6, <1>7, <1>8, <1>9 DEF Application
(* Recovery, cleanup and retention.                                        *)
LEMMA MaintenanceKeeps ==
  ASSUME IInv, NEW p \in Procs, Maintenance(p)
  PROVE  IInv' /\ [Log!Next]_chain
<1>1. /\ pr[p] \in Locals /\ snap \in Log!Snapshots /\ lease \in Log!Leases \cup {None}
  BY Basics
<1>2. /\ Idle \in Locals /\ Idle.pc = "idle" /\ Idle.pc \notin HoldingPcs
      /\ \A pc \in Pcs : To(pc) \in Locals /\ To(pc).pc = pc
  BY Exits, ToIsLocal
<1>3. /\ live \subseteq Procs /\ requested \subseteq Procs /\ runs \in Nat
      /\ private \in {"whole", "partial", "gone"} /\ store \in {"present", "remnant", "removed"}
  BY DEF IInv, TypeOK
<1>4. CASE Recover(p) \/ RecoverApplying(p) \/ RecoverCandidate(p)
  <2>. DEFINE again == [To("prepare") EXCEPT !.seen = snap]
  <2>1. /\ (lock = p \/ LockFree) /\ ~At(p, "pushing") /\ UNCHANGED <<files, docker, git>>
        /\ \/ \E pc \in {"applying", "recheck", "fail"} : Leave(p, To(pc))
           \/ snap.state = "APPLYING" /\ Leave(p, To("reconcile"))
           \/ Leave(p, Idle)
           \/ Leave(p, again)
    BY <1>4, Entered DEF Recover, RecoverApplying, RecoverCandidate
  <2>2. again \in Locals /\ again.pc = "prepare"
    BY <1>1, ToSeen, PcsListed
  <2>3. /\ \A pc \in {"applying", "recheck", "fail"} :
             To(pc) \in Locals /\ Announced(To(pc), snap)
        /\ To("reconcile") \in Locals /\ To("reconcile").pc = "reconcile"
        /\ Announced(Idle, snap)
    BY <1>2, PcsListed DEF Announced
  <2>. HIDE DEF again
  <2>4. Announced(again, snap)
    BY <2>2 DEF Announced
  <2>5. ASSUME NEW pc \in {"applying", "recheck", "fail"}, Leave(p, To(pc))
        PROVE  IInv' /\ UNCHANGED chain
    BY <2>1, <2>3, <2>5, LeaveKeeps
  <2>6. CASE snap.state = "APPLYING" /\ Leave(p, To("reconcile"))
    <3>1. Announced(To("reconcile"), snap)
      BY <2>3, <2>6 DEF Announced
    <3>. QED  BY <2>1, <2>3, <2>6, <3>1, LeaveKeeps
  <2>7. CASE Leave(p, Idle)
    BY <1>2, <2>1, <2>3, <2>7, LeaveKeeps
  <2>8. CASE Leave(p, again)
    BY <2>1, <2>2, <2>4, <2>8, LeaveKeeps
  <2>. QED  BY <2>1, <2>5, <2>6, <2>7, <2>8
<1>5. CASE Cleanup(p)
  <2>. DEFINE managing == [To("maintain") EXCEPT !.mgr = TRUE]
  <2>1. Goto(p, managing) /\ pr[p].pc = "idle" /\ UNCHANGED <<chain, files, docker, git, refused>>
    BY <1>5 DEF Cleanup, At
  <2>2. To("maintain") \in Locals /\ To("maintain").pc = "maintain"
    BY <1>2, PcsListed
  <2>3. managing \in Locals /\ managing.pc = "maintain"
    BY <2>2 DEF Locals
  <2>4. "idle" \notin HoldingPcs /\ "maintain" \notin HoldingPcs
    BY PcsListed
  <2>. HIDE DEF managing
  <2>. QED  BY <2>1, <2>3, <2>4, GotoKeeps
<1>6. CASE CleanupSession(p)
  <2>. DEFINE pc == IF lease = None THEN "tidy" ELSE "sweepLocked"
              managing == [To(pc) EXCEPT !.mgr = TRUE]
  <2>1. /\ (lock = p \/ LockFree) /\ ~At(p, "pushing") /\ UNCHANGED <<files, docker, git>>
        /\ Leave(p, Idle) \/ Leave(p, managing)
    BY <1>6, Entered DEF CleanupSession
  <2>2. pc \in {"tidy", "sweepLocked"} /\ To(pc) \in Locals /\ To(pc).pc = pc
    BY <1>2, PcsListed
  <2>. HIDE DEF pc
  <2>3. managing \in Locals /\ managing.pc = pc
    BY <2>2 DEF Locals
  <2>. HIDE DEF managing
  <2>4. Announced(managing, snap) /\ Announced(Idle, snap)
    BY <1>2, <2>2, <2>3 DEF Announced
  <2>. QED  BY <1>2, <2>1, <2>3, <2>4, LeaveKeeps
<1>7. CASE RetryContainer(p)
  <2>. DEFINE tidying == [pr[p] EXCEPT !.pc = "tidy"]
              t == [snap EXCEPT !.cleanup_pending = TRUE]
  <2>1. /\ pr[p].pc = "sweepLocked" /\ UNCHANGED <<files, requested, runs, git>>
        /\ \/ live' \subseteq live /\ Leave(p, tidying)
           \/ live' = live /\ Leave(p, Idle)
           \/ live' = live /\ Append(p, "cleanup_pending", t, lease, Idle, Idle)
    BY <1>7 DEF RetryContainer, At
  <2>2. lock = p /\ ~At(p, "pushing")
    BY <2>1, Holding, PcsListed DEF At
  <2>3. tidying \in Locals /\ tidying.pc = "tidy"
    BY <1>1, PcsListed DEF Locals
  <2>4. t \in Log!Snapshots /\ t.state = snap.state
    BY <1>1 DEF Log!Snapshots
  <2>. HIDE DEF tidying, t
  <2>5. Announced(tidying, snap) /\ Announced(Idle, snap) /\ Announced(Idle, t)
    BY <1>2, <2>3 DEF Announced
  <2>6. CASE Leave(p, tidying) \/ Leave(p, Idle)
    <3>1. /\ UNCHANGED <<chain, git, refused>>
          /\ private' \in {"whole", "partial", "gone"} /\ store' \in {"present", "remnant", "removed"}
          /\ live' \subseteq Procs /\ requested' \subseteq Procs /\ runs' \in Nat
          /\ Resume(p, tidying) \/ Resume(p, Idle)
      BY <1>3, <2>1, <2>6 DEF Leave, files
    <3>. QED  BY <1>2, <2>2, <2>3, <2>5, <3>1, InsideKeeps
  <2>7. CASE live' = live /\ Append(p, "cleanup_pending", t, lease, Idle, Idle)
    <3>1. UNCHANGED <<files, docker, git>> /\ "cleanup_pending" \in Log!Kinds
      BY <2>1, <2>7, KindsListed DEF docker
    <3>2. ref = "ours" => t.state \in {"APPLYING", "APPLIED"}
      BY <2>4 DEF IInv, PublishedIsApplied
    <3>. QED  BY <1>1, <1>2, <2>2, <2>4, <2>5, <2>7, <3>1, <3>2, AppendKeeps
  <2>. QED  BY <2>1, <2>6, <2>7
<1>8. CASE RemoveExpired(p)
  <2>. DEFINE removing == [To("removing") EXCEPT !.mgr = TRUE]
  <2>1. To("removing") \in Locals /\ To("removing").pc = "removing"
    BY <1>2, PcsListed
  <2>2. removing \in Locals /\ removing.pc = "removing"
    BY <2>1 DEF Locals
  <2>3. /\ pr[p].pc = "expire" /\ UNCHANGED <<chain, docker, git, refused>>
        /\ \/ Goto(p, Idle) /\ UNCHANGED <<store, private>>
           \/ LockFree /\ store' = "remnant" /\ private' = "gone" /\ Resume(p, removing)
    BY <1>8 DEF RemoveExpired, At
  <2>. HIDE DEF removing
  <2>4. CASE Goto(p, Idle) /\ UNCHANGED <<store, private>>
    <3>1. UNCHANGED <<chain, files, docker, git, refused>> /\ pr[p].pc \notin HoldingPcs
      BY <2>3, <2>4, PcsListed DEF files
    <3>. QED  BY <1>2, <2>4, <3>1, GotoKeeps
  <2>5. CASE LockFree /\ store' = "remnant" /\ private' = "gone" /\ Resume(p, removing)
    <3>1. ~At(p, "pushing") /\ Announced(removing, snap)
      BY <2>2, <2>3 DEF At, Announced
    <3>2. /\ UNCHANGED <<chain, git, refused>>
          /\ private' \in {"whole", "partial", "gone"} /\ store' \in {"present", "remnant", "removed"}
          /\ live' \subseteq Procs /\ requested' \subseteq Procs /\ runs' \in Nat
      BY <1>3, <2>3, <2>5 DEF docker
    <3>. QED  BY <2>2, <2>5, <3>1, <3>2, InsideKeeps
  <2>. QED  BY <2>3, <2>4, <2>5
<1>9. CASE FinishRemoval(p)
  <2>1. /\ pr[p].pc = "removing" /\ Resume(p, Idle) /\ UNCHANGED <<chain, git, refused>>
        /\ store' \in {"remnant", "removed"} /\ private' = private
        /\ live' = live /\ requested' = requested /\ runs' = runs
    BY <1>9 DEF FinishRemoval, At, docker
  <2>2. lock = p /\ ~At(p, "pushing") /\ Announced(Idle, snap)
    BY <1>2, <2>1, Holding, PcsListed DEF At, Announced
  <2>3. /\ private' \in {"whole", "partial", "gone"} /\ store' \in {"present", "remnant", "removed"}
        /\ live' \subseteq Procs /\ requested' \subseteq Procs /\ runs' \in Nat
    BY <1>3, <2>1
  <2>. QED  BY <1>2, <2>1, <2>2, <2>3, InsideKeeps
<1>. QED  BY <1>4, <1>5, <1>6, <1>7, <1>8, <1>9 DEF Maintenance

(* Failing calls, crashes, the daemon, and other users of the repository.  *)
LEMMA EnvironmentKeeps ==
  ASSUME IInv, NEW p \in Procs, CallFails(p) \/ Crash(p) \/ DaemonSettles(p)
  PROVE  IInv' /\ [Log!Next]_chain
<1>1. CASE CallFails(p)
  <2>. DEFINE pc == OnError[pr[p].pc]
              undoing == [pr[p] EXCEPT !.pc = pc, !.then = "fail"]
  <2>1. /\ pr[p].pc \in DOMAIN OnError /\ UNCHANGED <<chain, files, docker, git, refused>>
        /\ Goto(p, IF pc \in {"unregister", "discard"} THEN undoing ELSE To(pc))
    BY <1>1 DEF CallFails
  <2>2. pc \in {"fail", "idle", "unregister", "discard"} /\ pr[p].pc \notin HoldingPcs
    BY <2>1, PcsListed DEF OnError
  <2>3. pc \in Pcs /\ pc \notin HoldingPcs
    BY <2>2, PcsListed
  <2>4. To(pc) \in Locals /\ To(pc).pc = pc
    BY <2>3, ToIsLocal
  <2>5. undoing \in Locals /\ undoing.pc = pc
    BY <2>3, Basics, WithPcThen
  <2>. HIDE DEF pc, undoing
  <2>. QED  BY <2>1, <2>2, <2>3, <2>4, <2>5, GotoKeeps
<1>2. CASE Crash(p)
  <2>1. /\ pr' = [pr EXCEPT ![p] = Idle] /\ lock' = IF lock = p THEN None ELSE lock
        /\ snap' = snap /\ child' = child /\ ref' = ref
        /\ UNCHANGED <<chain, files, docker, git, refused>>
    BY <1>2 DEF Crash, chain, git
  <2>2. pr' \in [Procs -> Locals] /\ pr'[p] = Idle /\ \A q \in Procs \ {p} : pr'[q] = pr[q]
    BY <2>1, Exits DEF IInv, TypeOK, ControlOK
  <2>3. ControlOK'
    BY <2>1, <2>2, Exits, RolesAssumption DEF IInv, TypeOK, ControlOK
  <2>4. Fence'
    <3>1. ASSUME NEW q \in child'
          PROVE  snap'.state = "APPLYING" /\ (lock' = None \/ (lock' = q /\ pr'[q].pc = "pushing"))
      BY <2>1, <2>2, <3>1 DEF IInv, Fence, At, TypeOK
    <3>2. ASSUME NEW q \in Procs
          PROVE  /\ pr'[q].pc \in {"push", "pushing", "reconcile"} => snap'.state = "APPLYING"
                 /\ pr'[q].pc = "close" => snap'.state = "APPROVED"
      <4>1. CASE q = p
        BY <2>2, <4>1, Exits
      <4>2. CASE q # p
        BY <2>1, <2>2, <4>2 DEF IInv, Fence, At
      <4>. QED  BY <4>1, <4>2
    <3>. QED  BY <3>1, <3>2 DEF Fence, At
  <2>. QED  BY <2>1, <2>3, <2>4
            DEF IInv, TypeOK, Log!TypeOK, PublishedIsApplied, files, docker, git, chain
<1>3. CASE DaemonSettles(p)
  <2>1. /\ live' \subseteq live \cup {p} /\ requested' \subseteq requested /\ runs' = runs
        /\ snap' = snap /\ lease' = lease /\ lock' = lock /\ refused' = refused /\ pr' = pr
        /\ child' = child /\ ref' = ref /\ private' = private /\ store' = store
    BY <1>3 DEF DaemonSettles, chain, files, git
  <2>2. ControlOK' /\ Fence' /\ PublishedIsApplied'
    BY <2>1 DEF IInv, TypeOK, ControlOK, Fence, At, PublishedIsApplied
  <2>. QED  BY <2>1, <2>2 DEF IInv, TypeOK, Log!TypeOK, chain
<1>. QED  BY <1>1, <1>2, <1>3

LEMMA ForeignRefKeeps ==
  ASSUME IInv, ForeignRef
  PROVE  IInv' /\ UNCHANGED chain
<1>1. /\ ref' \in {"foreign", "absent"}
      /\ snap' = snap /\ lease' = lease /\ lock' = lock /\ refused' = refused /\ pr' = pr
      /\ child' = child /\ UNCHANGED <<files, docker>>
  BY DEF ForeignRef, chain
<1>2. ControlOK' /\ Fence' /\ PublishedIsApplied'
  BY <1>1 DEF IInv, TypeOK, ControlOK, Fence, At, PublishedIsApplied
<1>. QED  BY <1>1, <1>2 DEF IInv, TypeOK, Log!TypeOK, files, docker, chain

-----------------------------------------------------------------------------
(* The workflow satisfies its invariant from the first state on.           *)
LEMMA InitEstablishesIInv == Init => IInv
<1>. SUFFICES ASSUME Init PROVE IInv
  OBVIOUS
<1>1. Log!TypeOK
  BY RolesAssumption
     DEF Init, Log!Init, Log!TypeOK, Log!Created, Log!Snapshots, Log!States
<1>2. ControlOK
  <2>1. /\ pr \in [Procs -> Locals] /\ lock = None
        /\ \A p \in Procs : pr[p] = Idle
    BY Exits DEF Init
  <2>. QED  BY <2>1, Exits, RolesAssumption DEF ControlOK
<1>3. Fence
  <2>1. child = {} /\ \A p \in Procs : pr[p].pc = "idle"
    BY Exits DEF Init
  <2>. QED  BY <2>1 DEF Fence, At
<1>. QED  BY <1>1, <1>2, <1>3 DEF Init, IInv, TypeOK, PublishedIsApplied

(* Every step keeps the invariant, and appends one legal event or none.    *)
LEMMA StepKeeps == IInv /\ [Next]_vars => IInv' /\ [Log!Next]_chain
<1>. SUFFICES ASSUME IInv, [Next]_vars
              PROVE  IInv' /\ [Log!Next]_chain
  OBVIOUS
<1>1. ASSUME NEW p \in Procs,
             \/ Proposal(p) \/ Validation(p) \/ Closing(p)
             \/ Decision(p) \/ Application(p) \/ Maintenance(p)
             \/ CallFails(p) \/ Crash(p) \/ DaemonSettles(p)
      PROVE  IInv' /\ [Log!Next]_chain
  BY <1>1, ProposalKeeps, ValidationKeeps, ClosingKeeps, DecisionKeeps,
     ApplicationKeeps, MaintenanceKeeps, EnvironmentKeeps
<1>2. CASE ForeignRef
  BY <1>2, ForeignRefKeeps
<1>3. CASE UNCHANGED vars
  BY <1>3 DEF vars, chain, files, docker, git, IInv, TypeOK, Log!TypeOK, ControlOK, Fence, At,
              PublishedIsApplied
<1>. QED  BY <1>1, <1>2, <1>3 DEF Next

(* In every state of every execution the state is well typed, the session  *)
(* lock is where the program counters say, a living git child fences the   *)
(* session, and a published ref belongs to an applied session.             *)
THEOREM WorkflowInvariant == Spec => []IInv
BY InitEstablishesIInv, StepKeeps, PTL DEF Spec

(* Type and lock correctness, for any number of concurrent commands,       *)
(* crashes and failing calls.                                              *)
THEOREM WorkflowTypeCorrect == Spec => []TypeOK
BY WorkflowInvariant, PTL DEF IInv

(* A session that was rejected, cancelled, expired, failed or is merely    *)
(* approved has not published its commit.                                  *)
THEOREM PublicationIsRecorded == Spec => []PublishedIsApplied
BY WorkflowInvariant, PTL DEF IInv

(* While a git push may still publish, no other process is inside the      *)
(* session lock and the session is being applied.                          *)
THEOREM PublicationIsAlwaysFenced == Spec => []PublicationIsFenced
<1>1. IInv => PublicationIsFenced
  BY DEF IInv, Fence, PublicationIsFenced
<1>. QED  BY <1>1, WorkflowInvariant, PTL

(* The ref and the session agree, and no push outlives the lock, for any   *)
(* number of processes.                                                    *)
THEOREM PublicationIsAlwaysSound == Spec => []PublicationIsSound
<1>1. PublishedIsApplied /\ PublicationIsFenced => PublicationIsSound
  BY DEF PublicationIsSound
<1>. QED  BY <1>1, PublicationIsRecorded, PublicationIsAlwaysFenced, PTL

-----------------------------------------------------------------------------
(* No container without a lease that names it, one run of the candidate,   *)
(* nothing removed too early, nothing left behind, no event refused.       *)
(*                                                                         *)
(* The argument is about who may do what: one process validates, and it    *)
(* alone creates a container; an unbound lease is given up only by the     *)
(* process that it names; whoever is about to record a cleanup is inside   *)
(* the lock of a closed session that has no container any more.            *)

(* The steps of a process that runs the one validation of the session.     *)
ValidatingPcs == {"intend", "create", "unbound", "bind", "bindFailed", "run", "unregister",
                  "discard", "dropRun", "dropIntent", "verdict", "reclaim", "finish"}
ClosingPcs == {"tidy", "tidied", "sweepLocked", "sweep", "settle", "expire", "removing"}
Validates(p) == pr[p].pc \in ValidatingPcs

NoContainer == live \cup requested = {}
Clean == Terminal /\ ~snap.cleanup_pending
Unbound(p) == lease # None /\ lease.token = p /\ ~lease.bound

(* What a validating process knows of the lease and of its container.      *)
ContainerOK(p) ==
  /\ Validates(p) => /\ snap.state \notin {"CREATED", "GENERATING"}
                     /\ lease # None => lease.token = p
  /\ pr[p].pc \in {"create", "unbound", "bind", "bindFailed"} => Unbound(p)
  /\ pr[p].pc \in {"intend", "create", "dropRun", "dropIntent"} => NoContainer
  /\ pr[p].pc \in {"bind", "bindFailed", "unregister", "run", "verdict", "reclaim", "discard",
                   "finish"} => requested = {}
  /\ At(p, "unbound") /\ pr[p].ok => requested = {}
  /\ At(p, "finish") /\ pr[p].ok => NoContainer

(* What a closing process knows of the session.                            *)
ClosingOK(p) ==
  /\ pr[p].pc \in {"tidy", "tidied"} =>
       /\ Terminal /\ NoContainer
       /\ lease = None \/ lease.bound \/ lease.token = p
  /\ At(p, "tidied") => (pr[p].ok <=> private = "gone")
  /\ At(p, "sweepLocked") => Terminal /\ lease # None
  /\ pr[p].pc \in {"sweep", "settle"} =>
       /\ Terminal /\ pr[p].owed # None
       /\ pr[p].owed.bound => lease \in {pr[p].owed, None}
  /\ At(p, "settle") =>
       /\ pr[p].owed.bound
       /\ lease = pr[p].owed => NoContainer
  /\ pr[p].pc \in {"expire", "removing"} => Clean

(* Before its run the candidate was not executed, after it it was.         *)
RunOK(p) ==
  /\ pr[p].pc \in {"intend", "create", "bind", "run"} => runs = 0
  /\ pr[p].pc \in {"verdict", "reclaim", "finish"} => runs > 0

Own(p) == ContainerOK(p) /\ ClosingOK(p) /\ RunOK(p)

ContainersTracked ==
  /\ \A t \in live \cup requested : lease # None /\ lease.token = t
  /\ live \cap requested = {}
  /\ lease # None /\ lease.bound => requested = {}

OneValidates == \A p, q \in Procs : Validates(p) /\ Validates(q) => p = q

RunsCounted == snap.state \in {"CREATED", "GENERATING"} => runs = 0

(* The inductive invariant; IInv holds beside it.                          *)
JInv ==
  /\ Log!LeaseIsOwed /\ ContainersTracked /\ OneValidates /\ RemovalIsSafe
  /\ RunsAreAccounted /\ RunsCounted
  /\ \A p \in Procs : Own(p)

-----------------------------------------------------------------------------
(* What one event, or none, does to the chain.                             *)

LEMMA EventPairs ==
  ASSUME NEW kind \in Log!Kinds, NEW a, NEW b, Log!EventStatePairIsValid(kind, a, b)
  PROVE
    /\ a \in Log!TerminalStates => b = a
    /\ b \in {"CREATED", "GENERATING"} => a \in {"CREATED", "GENERATING"}
    /\ kind \in {"validation_intent", "validation_intent_abandoned", "validation_result"} =>
         a = "VALIDATING" /\ b = "VALIDATING"
    /\ kind = "validation_run" => a = b
    /\ a = "VALIDATING" /\ b # "VALIDATING" => b \in {"VALIDATED", "CANCELLED", "EXPIRED", "FAILED"}
    /\ b = "VALIDATED" /\ a # b => kind = "validated"
    /\ b \in Log!TerminalStates /\ a # b =>
         kind \in {"applied", "rejected", "cancelled", "expired", "failed"}
BY DEF Log!EventStatePairIsValid, Log!CanTransitionOrSame, Log!CanTransition, Log!Transitions,
       Log!EventStatePairs, Log!Same, Log!Kinds, Log!TerminalStates

LEMMA LeaseStaysOwed ==
  ASSUME Log!TypeOK, Log!LeaseIsOwed, NEW kind \in Log!Kinds, Log!AppendEvent(kind)
  PROVE  Log!LeaseIsOwed'
<1>. SUFFICES ASSUME lease' # None, snap'.state # "VALIDATING"
              PROVE  snap'.state \in {"CANCELLED", "EXPIRED", "FAILED"} /\ snap'.cleanup_pending
  BY DEF Log!LeaseIsOwed
<1>1. /\ Log!ValidationRunUpdateIsValid(kind, snap, snap', lease, lease')
      /\ Log!SnapshotUpdateIsValid(kind, snap, snap')
      /\ Log!EventStatePairIsValid(kind, snap.state, snap'.state)
  BY DEF Log!AppendEvent, Log!EventIsValid
<1>2. CASE kind \in Log!LeaseKinds
  <2>1. kind = "validation_run" /\ lease # None /\ snap'.state = snap.state
    BY <1>1, <1>2, EventPairs
       DEF Log!LeaseKinds, Log!ValidationRunUpdateIsValid, Log!RunBound
  <2>2. snap'.cleanup_pending = snap.cleanup_pending
    BY <1>1, <2>1 DEF Log!SnapshotUpdateIsValid, Log!EventSnapshotChanges, Log!Changed,
                      Log!MutableFields
  <2>. QED  BY <2>1, <2>2 DEF Log!LeaseIsOwed
<1>3. CASE kind \notin Log!LeaseKinds
  <2>1. lease # None /\ kind # "cleanup_complete" /\ snap'.state \in Log!LeaseCarryStates
    BY <1>1, <1>3 DEF Log!ValidationRunUpdateIsValid, Log!LeaseCarried
  <2>2. snap'.state \in {"CANCELLED", "EXPIRED", "FAILED"}
    BY <2>1 DEF Log!LeaseCarryStates
  <2>3. CASE snap'.state # snap.state
    <3>1. kind \in {"applied", "rejected", "cancelled", "expired", "failed"}
      BY <1>1, <2>2, <2>3, EventPairs DEF Log!TerminalStates
    <3>. QED  BY <1>1, <2>2, <3>1 DEF Log!SnapshotUpdateIsValid
  <2>4. CASE snap'.state = snap.state
    <3>1. snap.cleanup_pending
      BY <2>1, <2>2, <2>4 DEF Log!LeaseIsOwed
    <3>2. CASE kind = "cleanup_pending"
      BY <1>1, <2>2, <3>2 DEF Log!SnapshotUpdateIsValid
    <3>3. CASE kind # "cleanup_pending"
      <4>1. kind \notin {"applied", "rejected", "cancelled", "expired", "failed"}
        BY <1>1, <2>2, <2>4
           DEF Log!EventStatePairIsValid, Log!EventStatePairs, Log!Same
      <4>2. snap'.cleanup_pending = snap.cleanup_pending
        BY <1>1, <2>1, <3>3, <4>1, KindsListed
           DEF Log!SnapshotUpdateIsValid, Log!EventSnapshotChanges, Log!Changed, Log!MutableFields
      <4>. QED  BY <2>2, <3>1, <4>2
    <3>. QED  BY <3>2, <3>3
  <2>. QED  BY <2>3, <2>4
<1>. QED  BY <1>2, <1>3

LEMMA ChainStep ==
  ASSUME IInv, Log!LeaseIsOwed, [Log!Next]_chain
  PROVE  /\ Terminal => Terminal' /\ snap'.state = snap.state
         /\ snap'.state \in {"CREATED", "GENERATING"} => snap.state \in {"CREATED", "GENERATING"}
         /\ Terminal /\ lease = None => lease' = None
         /\ lease # None /\ lease' # lease /\ lease' # None =>
              ~lease.bound /\ lease'.bound /\ lease'.token = lease.token
         /\ Log!LeaseIsOwed'
<1>1. CASE UNCHANGED chain
  BY <1>1 DEF chain, Terminal, Log!LeaseIsOwed
<1>2. ASSUME NEW kind \in Log!Kinds, Log!AppendEvent(kind)
      PROVE  /\ Terminal => Terminal' /\ snap'.state = snap.state
             /\ snap'.state \in {"CREATED", "GENERATING"} => snap.state \in {"CREATED", "GENERATING"}
             /\ Terminal /\ lease = None => lease' = None
             /\ lease # None /\ lease' # lease /\ lease' # None =>
                  ~lease.bound /\ lease'.bound /\ lease'.token = lease.token
             /\ Log!LeaseIsOwed'
  <2>1. /\ Log!ValidationRunUpdateIsValid(kind, snap, snap', lease, lease')
        /\ Log!EventStatePairIsValid(kind, snap.state, snap'.state)
    BY <1>2 DEF Log!AppendEvent, Log!EventIsValid
  <2>2. /\ Terminal => Terminal' /\ snap'.state = snap.state
        /\ snap'.state \in {"CREATED", "GENERATING"} => snap.state \in {"CREATED", "GENERATING"}
    BY <2>1, EventPairs DEF Terminal
  <2>3. ASSUME lease = None, lease' # None PROVE snap.state = "VALIDATING"
    BY <2>1, <2>3, EventPairs
       DEF Log!ValidationRunUpdateIsValid, Log!RunBound, Log!IntentAbandoned, Log!ResultOfRun,
           Log!LeaseCarried, Log!LeaseKinds
  <2>4. ASSUME lease # None, lease' # lease, lease' # None
        PROVE  ~lease.bound /\ lease'.bound /\ lease'.token = lease.token
    BY <2>1, <2>4
       DEF Log!ValidationRunUpdateIsValid, Log!IntentRegistered, Log!RunBound, Log!SameIntent,
           Log!IntentAbandoned, Log!ResultOfRun, Log!LeaseCarried, Log!LeaseKinds
  <2>5. Log!LeaseIsOwed'
    BY <1>2, LeaseStaysOwed DEF IInv, TypeOK
  <2>. QED  BY <2>2, <2>3, <2>4, <2>5 DEF Terminal, Log!TerminalStates
<1>. QED  BY <1>1, <1>2 DEF Log!Next

-----------------------------------------------------------------------------
(* What a step of p must leave as it is for the others ...                 *)
Gentle(p) ==
  /\ \A q \in Procs \ {p} : pr'[q] = pr[q]
  /\ UNCHANGED <<chain, files>> \/ lock = p \/ LockFree
  /\ requested' \subseteq requested \cup (IF At(p, "create") THEN {p} ELSE {})
  /\ live' \subseteq live \cup requested \cup (IF At(p, "create") THEN {p} ELSE {})
  /\ lease # None /\ ~lease.bound /\ lease.token # p => lease' = lease
  /\ lease = None /\ lease' # None => Validates(p)
  /\ Clean => ~snap'.cleanup_pending
  /\ runs' = runs \/ (At(p, "run") /\ runs' = runs + 1)

(* ... and for the session.                                                *)
Sound(p) ==
  /\ Gentle(p)
  /\ Validates(p)' => Validates(p) \/ snap.state = "GENERATING"
  /\ live' \cap requested' = {}
  /\ lease' # lease =>
       /\ lease' # None /\ lease'.bound => requested' = {}
       /\ lease' = None => NoContainer'
  /\ UNCHANGED files \/ (Terminal /\ (private = "gone" => private' = "gone"))
  /\ store' # "present" => store # "present" \/ Clean
  /\ Clean' => Clean \/ (private' = "gone" /\ lease' = None /\ NoContainer')
  /\ snap'.state \in {"VALIDATED", "APPROVED", "APPLYING", "APPLIED", "REJECTED"} =>
       snap.state \in {"VALIDATED", "APPROVED", "APPLYING", "APPLIED", "REJECTED"} \/ runs' > 0

(* What JInv says of a state without a container.                          *)
LEMMA NoneTracked ==
  ASSUME JInv
  PROVE  /\ lease = None => NoContainer
         /\ Clean => private = "gone" /\ NoContainer /\ lease = None
         /\ Open => private = "whole" /\ store = "present"
  BY DEF JInv, ContainersTracked, NoContainer, RemovalIsSafe, PayloadKeptWhileOpen, CleanIsClean,
         Clean, Terminal, Open

LEMMA OthersKeep ==
  ASSUME IInv, JInv, [Log!Next]_chain, NEW p \in Procs, Gentle(p), NEW q \in Procs \ {p}
  PROVE  Own(q)'
<1>1. pr'[q] = pr[q] /\ Own(q)
  BY DEF Gentle, JInv
<1>2. /\ Terminal => Terminal' /\ snap'.state = snap.state
      /\ snap'.state \in {"CREATED", "GENERATING"} => snap.state \in {"CREATED", "GENERATING"}
      /\ Terminal /\ lease = None => lease' = None
      /\ lease # None /\ lease' # lease /\ lease' # None =>
           ~lease.bound /\ lease'.token = lease.token
  BY ChainStep DEF JInv
<1>3. At(p, "create") => Validates(p) /\ Unbound(p)
  BY DEF JInv, Own, ContainerOK, Validates, ValidatingPcs, At
<1>4. ContainerOK(q)'
  <2>1. CASE Validates(q)
    <3>1. ~Validates(p) /\ ~At(p, "create")
      BY <1>3, <2>1 DEF JInv, OneValidates
    <3>2. (NoContainer => NoContainer') /\ (requested = {} => requested' = {})
      BY <3>1 DEF Gentle, NoContainer
    <3>3. Unbound(q) => Unbound(q)'
      BY DEF Gentle, Unbound
    <3>4. lease' # None => lease'.token = q
      BY <1>1, <1>2, <2>1, <3>1 DEF Gentle, Own, ContainerOK
    <3>. QED  BY <1>1, <1>2, <2>1, <3>2, <3>3, <3>4 DEF Own, ContainerOK, Validates, At
  <2>2. CASE ~Validates(q)
    BY <1>1, <2>2 DEF ContainerOK, Validates, ValidatingPcs, At
  <2>. QED  BY <2>1, <2>2
<1>5. ClosingOK(q)'
  <2>1. CASE pr[q].pc \in {"tidy", "tidied", "sweepLocked"}
    <3>1. lock = q
      BY <2>1, PcsListed DEF IInv, TypeOK, ControlOK
    <3>2. UNCHANGED <<chain, files>>
      BY <3>1, RolesAssumption DEF Gentle, LockFree
    <3>3. pr[q].pc \in {"tidy", "tidied"} => ~At(p, "create")
      BY <1>1, <1>3 DEF Own, ClosingOK, Unbound
    <3>4. pr[q].pc \in {"tidy", "tidied"} => NoContainer'
      BY <1>1, <3>3 DEF Own, ClosingOK, Gentle, NoContainer
    <3>. QED  BY <1>1, <1>2, <2>1, <3>2, <3>4 DEF Own, ClosingOK, chain, files, At
  <2>2. CASE pr[q].pc \in {"sweep", "settle"}
    <3>1. /\ Terminal /\ pr[q].owed # None
          /\ pr[q].owed.bound => lease \in {pr[q].owed, None}
          /\ At(q, "settle") => pr[q].owed.bound /\ (lease = pr[q].owed => NoContainer)
      BY <1>1, <2>2 DEF Own, ClosingOK
    <3>2. pr[q].owed.bound => lease' \in {pr[q].owed, None}
      BY <1>2, <3>1
    <3>3. ASSUME At(q, "settle"), lease' = pr[q].owed PROVE NoContainer'
      <4>1. lease = pr[q].owed /\ lease.bound
        BY <1>2, <3>1, <3>3
      <4>. QED  BY <1>3, <3>1, <3>3, <4>1 DEF Gentle, NoContainer, Unbound
    <3>. QED  BY <1>1, <1>2, <2>2, <3>1, <3>2, <3>3 DEF ClosingOK, At
  <2>3. CASE pr[q].pc \in {"expire", "removing"}
    <3>1. Clean
      BY <1>1, <2>3 DEF Own, ClosingOK
    <3>2. Clean'
      BY <1>2, <3>1 DEF Gentle, Clean
    <3>. QED  BY <1>1, <2>3, <3>2 DEF ClosingOK, At
  <2>4. CASE pr[q].pc \notin ClosingPcs
    BY <1>1, <2>4 DEF ClosingOK, At, ClosingPcs
  <2>. QED  BY <2>1, <2>2, <2>3, <2>4 DEF ClosingPcs
<1>6. RunOK(q)'
  BY <1>1 DEF Own, RunOK, Gentle, JInv, OneValidates, Validates, ValidatingPcs, At, IInv, TypeOK
<1>. QED  BY <1>4, <1>5, <1>6 DEF Own

(* A step of p that is sound for the others, and after which p knows what  *)
(* it should, keeps the invariant.                                         *)
LEMMA Concluded ==
  ASSUME IInv, JInv, [Log!Next]_chain, NEW p \in Procs, Sound(p), Own(p)'
  PROVE  JInv'
<1>1. /\ Terminal => Terminal' /\ snap'.state = snap.state
      /\ snap'.state \in {"CREATED", "GENERATING"} => snap.state \in {"CREATED", "GENERATING"}
      /\ Terminal /\ lease = None => lease' = None
      /\ lease # None /\ lease' # lease /\ lease' # None =>
           ~lease.bound /\ lease'.bound /\ lease'.token = lease.token
      /\ Log!LeaseIsOwed'
  BY ChainStep DEF JInv
<1>2. At(p, "create") => Unbound(p)
  BY DEF JInv, Own, ContainerOK, At
<1>3. ContainersTracked'
  <2>1. ASSUME NEW t \in live' \cup requested' PROVE lease' # None /\ lease'.token = t
    <3>1. lease # None /\ lease.token = t
      BY <1>2, <2>1 DEF Sound, Gentle, JInv, ContainersTracked, Unbound
    <3>2. lease' # None
      BY <2>1, <3>1 DEF Sound, NoContainer
    <3>. QED  BY <1>1, <3>1, <3>2
  <2>2. ASSUME lease' # None, lease'.bound PROVE requested' = {}
    <3>1. CASE lease' # lease
      BY <2>2, <3>1 DEF Sound
    <3>2. CASE lease' = lease
      BY <1>2, <2>2, <3>2 DEF Sound, Gentle, JInv, ContainersTracked, Unbound
    <3>. QED  BY <3>1, <3>2
  <2>. QED  BY <2>1, <2>2 DEF ContainersTracked, Sound
<1>4. OneValidates'
  <2>. SUFFICES ASSUME NEW q \in Procs, NEW r \in Procs, Validates(q)', Validates(r)', q # r
                PROVE  FALSE
    BY DEF OneValidates
  <2>1. \A s \in Procs \ {p} : Validates(s)' => Validates(s) /\ snap.state # "GENERATING"
    BY DEF Sound, Gentle, Validates, JInv, Own, ContainerOK
  <2>2. Validates(p)' => Validates(p) \/ snap.state = "GENERATING"
    BY DEF Sound
  <2>. QED  BY <2>1, <2>2 DEF JInv, OneValidates
<1>5. RemovalIsSafe'
  <2>1. PayloadKeptWhileOpen'
    BY <1>1 DEF JInv, RemovalIsSafe, PayloadKeptWhileOpen, Sound, Open, files
  <2>2. ASSUME Clean' PROVE private' = "gone" /\ live' \cup requested' = {} /\ lease' = None
    <3>1. CASE Clean
      <4>1. private = "gone" /\ live \cup requested = {} /\ lease = None
        BY <3>1, NoneTracked DEF NoContainer
      <4>. QED  BY <1>1, <1>2, <3>1, <4>1 DEF Sound, Gentle, Clean, Unbound, files
    <3>2. CASE ~Clean
      BY <2>2, <3>2 DEF Sound, NoContainer
    <3>. QED  BY <3>1, <3>2
  <2>3. ASSUME store' # "present" PROVE Clean'
    <3>1. Clean
      BY <2>3 DEF Sound, JInv, RemovalIsSafe, RemovedIsClean, Clean
    <3>. QED  BY <1>1, <3>1 DEF Sound, Gentle, Clean
  <2>. QED  BY <2>1, <2>2, <2>3 DEF RemovalIsSafe, CleanIsClean, RemovedIsClean, Clean
<1>6. RunsAreAccounted' /\ RunsCounted'
  <2>1. runs \in Nat
    BY DEF IInv, TypeOK
  <2>2. At(p, "run") => runs = 0 /\ snap.state \notin {"CREATED", "GENERATING"}
    BY DEF JInv, Own, RunOK, ContainerOK, Validates, ValidatingPcs, At
  <2>3. runs' = runs \/ (At(p, "run") /\ runs' = runs + 1)
    BY DEF Sound, Gentle
  <2>4. AtMostOneRun'
    BY <2>1, <2>2, <2>3 DEF JInv, RunsAreAccounted, AtMostOneRun
  <2>5. ValidatedWasRun'
    BY <2>1, <2>3 DEF JInv, RunsAreAccounted, ValidatedWasRun, Sound
  <2>6. RunsCounted'
    BY <1>1, <2>2, <2>3 DEF JInv, RunsCounted
  <2>. QED  BY <2>4, <2>5, <2>6 DEF RunsAreAccounted
<1>7. ASSUME NEW q \in Procs PROVE Own(q)'
  <2>1. CASE q = p
    BY <2>1
  <2>2. CASE q # p
    BY <2>2, OthersKeep DEF Sound
  <2>. QED  BY <2>1, <2>2
<1>. QED  BY <1>1, <1>3, <1>4, <1>5, <1>6, <1>7 DEF JInv

-----------------------------------------------------------------------------
(* The shapes of a step.                                                   *)

LEMMA Elsewhere ==
  ASSUME IInv, NEW p \in Procs, NEW loc, pr' = [pr EXCEPT ![p] = loc]
  PROVE  pr'[p] = loc /\ \A q \in Procs \ {p} : pr'[q] = pr[q]
BY DEF IInv, TypeOK, ControlOK

(* A process that neither validates nor closes knows nothing in particular.*)
LEMMA FreeOwn ==
  ASSUME NEW p, pr'[p].pc \notin ValidatingPcs \cup ClosingPcs
  PROVE  Own(p)'
BY DEF Own, ContainerOK, ClosingOK, RunOK, Validates, ValidatingPcs, ClosingPcs, At

(* A step that changes nothing but the process itself.                     *)
LEMMA QuietStep ==
  ASSUME IInv, JInv, NEW p \in Procs, NEW loc, pr' = [pr EXCEPT ![p] = loc],
         UNCHANGED <<chain, files, docker>>,
         loc.pc \in ValidatingPcs => Validates(p) \/ snap.state = "GENERATING"
  PROVE  Sound(p) /\ pr'[p] = loc
<1>1. pr'[p] = loc /\ \A q \in Procs \ {p} : pr'[q] = pr[q]
  BY Elsewhere
<1>2. /\ snap' = snap /\ lease' = lease /\ private' = private /\ store' = store
      /\ live' = live /\ requested' = requested /\ runs' = runs
  BY DEF chain, files, docker
<1>3. Gentle(p)
  BY <1>1, <1>2 DEF Gentle, Clean
<1>. QED  BY <1>1, <1>2, <1>3 DEF Sound, Validates, JInv, ContainersTracked, Clean, Terminal

(* A step after which p neither validates nor closes.                      *)
LEMMA FreeStep ==
  ASSUME IInv, JInv, NEW p \in Procs, NEW loc, pr' = [pr EXCEPT ![p] = loc],
         UNCHANGED <<chain, files, docker>>, loc.pc \notin ValidatingPcs \cup ClosingPcs
  PROVE  Sound(p) /\ Own(p)'
<1>1. Sound(p) /\ pr'[p] = loc
  BY QuietStep
<1>. QED  BY <1>1, FreeOwn

(* A step that does something to the containers.                           *)
LEMMA ContainerStep ==
  ASSUME IInv, JInv, NEW p \in Procs, NEW loc, pr' = [pr EXCEPT ![p] = loc],
         UNCHANGED <<chain, files>>,
         loc.pc \in ValidatingPcs => Validates(p),
         requested' \subseteq requested \cup (IF At(p, "create") THEN {p} ELSE {}),
         live' \subseteq live \cup (IF At(p, "create") THEN {p} ELSE {}),
         live' \cap requested' = {},
         runs' = runs \/ (At(p, "run") /\ runs' = runs + 1)
  PROVE  Sound(p) /\ pr'[p] = loc
<1>1. pr'[p] = loc /\ \A q \in Procs \ {p} : pr'[q] = pr[q]
  BY Elsewhere
<1>2. /\ snap' = snap /\ lease' = lease /\ private' = private /\ store' = store
  BY DEF chain, files
<1>3. Gentle(p)
  BY <1>1, <1>2 DEF Gentle, Clean
<1>. QED  BY <1>1, <1>2, <1>3 DEF Sound, Validates, Clean, Terminal

(* An event that p may append.                                             *)
Permitted(p, t, m) ==
  /\ lease # None /\ ~lease.bound /\ lease.token # p => m = lease
  /\ lease = None /\ m # None => Validates(p)
  /\ m # lease => /\ m # None /\ m.bound => requested = {}
                  /\ m = None => NoContainer
  /\ Clean => ~t.cleanup_pending
  /\ t.state \in Log!TerminalStates /\ ~t.cleanup_pending =>
       Clean \/ (private = "gone" /\ m = None /\ NoContainer)
  /\ t.state \in {"VALIDATED", "APPROVED", "APPLYING", "APPLIED", "REJECTED"} =>
       snap.state \in {"VALIDATED", "APPROVED", "APPLYING", "APPLIED", "REJECTED"} \/ runs > 0

(* The outcomes of an append.                                              *)
LEMMA AppendedStep ==
  ASSUME IInv, JInv, NEW p \in Procs, lock = p \/ LockFree,
         NEW kind, NEW t, NEW m, NEW good, NEW bad, Append(p, kind, t, m, good, bad),
         UNCHANGED <<files, docker>>,
         Log!EventIsValid(kind, snap, lease, t, m) => Permitted(p, t, m),
         good.pc \in ValidatingPcs => Validates(p) \/ snap.state = "GENERATING",
         bad.pc \in ValidatingPcs => Validates(p) \/ snap.state = "GENERATING"
  PROVE  /\ Sound(p)
         /\ \/ /\ Log!EventIsValid(kind, snap, lease, t, m)
               /\ snap' = t /\ lease' = m /\ pr'[p] \in {good, bad}
            \/ UNCHANGED chain /\ pr'[p] = bad
<1>1. CASE /\ Log!EventIsValid(kind, snap, lease, t, m)
           /\ snap' = t /\ lease' = m /\ (Resume(p, good) \/ Resume(p, bad))
  <2>1. pr'[p] \in {good, bad} /\ \A q \in Procs \ {p} : pr'[q] = pr[q]
    BY <1>1, Elsewhere DEF Resume
  <2>2. /\ private' = private /\ store' = store
        /\ live' = live /\ requested' = requested /\ runs' = runs
    BY DEF files, docker
  <2>3. Gentle(p)
    BY <1>1, <2>1, <2>2 DEF Gentle, Permitted
  <2>4. Sound(p)
    BY <1>1, <2>1, <2>2, <2>3
       DEF Sound, Permitted, Validates, JInv, ContainersTracked, Clean, Terminal, NoContainer, files
  <2>. QED  BY <1>1, <2>1, <2>4
<1>2. CASE Resume(p, bad) /\ UNCHANGED chain
  BY <1>2, QuietStep DEF Resume
<1>. QED  BY <1>1, <1>2 DEF Append, Leave

-----------------------------------------------------------------------------
(* Fields of the locals and snapshots the actions build.                   *)

LEMMA Fields ==
  ASSUME IInv, NEW p \in Procs
  PROVE
    /\ Idle.pc = "idle"
    /\ \A pc \in Pcs : To(pc).pc = pc /\ [pr[p] EXCEPT !.pc = pc].pc = pc
    /\ \A pc \in Pcs : \A s : [To(pc) EXCEPT !.seen = s].pc = pc
    /\ \A pc \in Pcs : \A s : [To(pc) EXCEPT !.then = s].pc = pc
    /\ \A pc \in Pcs : \A s : [To(pc) EXCEPT !.mgr = s].pc = pc
    /\ \A pc \in Pcs : \A s : [To(pc) EXCEPT !.kind = s].pc = pc
    /\ \A pc \in Pcs : \A s, l :
         [To(pc) EXCEPT !.seen = s, !.owed = l].pc = pc
         /\ [To(pc) EXCEPT !.seen = s, !.owed = l].owed = l
    /\ \A pc \in Pcs : [pr[p] EXCEPT !.pc = pc].owed = pr[p].owed
    /\ \A pc \in Pcs : \A t : [pr[p] EXCEPT !.pc = pc, !.then = t].pc = pc
    /\ \A pc \in Pcs : \A t : [pr[p] EXCEPT !.pc = pc, !.passed = t].pc = pc
    /\ \A pc \in Pcs : \A b : [pr[p] EXCEPT !.pc = pc, !.ok = b].pc = pc
                          /\ [pr[p] EXCEPT !.pc = pc, !.ok = b].ok = b
    /\ \A pc \in Pcs : \A b, t : [pr[p] EXCEPT !.pc = pc, !.ok = b, !.then = t].pc = pc
                             /\ [pr[p] EXCEPT !.pc = pc, !.ok = b, !.then = t].ok = b
<1>1. pr[p] \in Locals /\ Idle \in Locals /\ Idle.pc = "idle"
  BY Basics, ToIsLocal DEF Idle
<1>2. \A pc \in Pcs : To(pc) \in Locals /\ To(pc).pc = pc
  BY ToIsLocal
<1>3. \A loc \in Locals : \A pc :
        [loc EXCEPT !.pc = pc].pc = pc /\ [loc EXCEPT !.pc = pc].owed = loc.owed
  BY DEF Locals
<1>4. \A loc \in Locals : \A x, y :
        /\ [loc EXCEPT !.seen = x].pc = loc.pc
        /\ [loc EXCEPT !.then = x].pc = loc.pc
        /\ [loc EXCEPT !.mgr = x].pc = loc.pc
        /\ [loc EXCEPT !.kind = x].pc = loc.pc
        /\ [loc EXCEPT !.seen = x, !.owed = y].pc = loc.pc
        /\ [loc EXCEPT !.seen = x, !.owed = y].owed = y
  BY DEF Locals
<1>5. \A loc \in Locals : \A pc, x, y :
        /\ [loc EXCEPT !.pc = pc, !.then = x].pc = pc
        /\ [loc EXCEPT !.pc = pc, !.passed = x].pc = pc
        /\ [loc EXCEPT !.pc = pc, !.ok = x].pc = pc
        /\ [loc EXCEPT !.pc = pc, !.ok = x].ok = x
        /\ [loc EXCEPT !.pc = pc, !.ok = x, !.then = y].pc = pc
        /\ [loc EXCEPT !.pc = pc, !.ok = x, !.then = y].ok = x
  BY DEF Locals
<1>. QED  BY <1>1, <1>2, <1>3, <1>4, <1>5

LEMMA Edited ==
  ASSUME IInv
  PROVE
    /\ \A st : [snap EXCEPT !.state = st].state = st
               /\ [snap EXCEPT !.state = st].cleanup_pending = snap.cleanup_pending
    /\ \A c : [snap EXCEPT !.candidate = c].state = snap.state
    /\ \A v : [snap EXCEPT !.validation = v].state = snap.state
    /\ \A b : [snap EXCEPT !.cleanup_pending = b].state = snap.state
              /\ [snap EXCEPT !.cleanup_pending = b].cleanup_pending = b
    /\ \A st, a : [snap EXCEPT !.state = st, !.approval = a].state = st
    /\ \A st, a, b : [snap EXCEPT !.state = st, !.application = a, !.cleanup_pending = b].state = st
         /\ [snap EXCEPT !.state = st, !.application = a, !.cleanup_pending = b].cleanup_pending = b
    /\ Fail(snap).state = "FAILED" /\ Fail(snap).cleanup_pending
    /\ \A st : Decided(snap, st).state = st /\ Decided(snap, st).cleanup_pending
<1>1. snap \in Log!Snapshots
  BY DEF IInv, TypeOK, Log!TypeOK
<1>. QED  BY <1>1 DEF Log!Snapshots, Fail, Decided

(* A step that is about the repair ref, or about nothing.                  *)
LEMMA Untouched ==
  ASSUME JInv, UNCHANGED <<chain, files, docker, pr>>
  PROVE  JInv'
<1>1. /\ snap' = snap /\ lease' = lease /\ private' = private /\ store' = store
      /\ live' = live /\ requested' = requested /\ runs' = runs /\ pr' = pr
  BY DEF chain, files, docker
<1>2. \A p \in Procs : Own(p)'
  BY <1>1 DEF JInv, Own, ContainerOK, ClosingOK, RunOK, Validates, Unbound, NoContainer, Clean,
              Terminal, At
<1>3. Log!LeaseIsOwed' /\ ContainersTracked' /\ OneValidates'
  BY <1>1 DEF JInv, Log!LeaseIsOwed, ContainersTracked, OneValidates, Validates
<1>4. RemovalIsSafe' /\ RunsAreAccounted' /\ RunsCounted'
  BY <1>1 DEF JInv, RemovalIsSafe, PayloadKeptWhileOpen, CleanIsClean, RemovedIsClean, Open,
              Terminal, RunsAreAccounted, AtMostOneRun, ValidatedWasRun, RunsCounted
<1>. QED  BY <1>2, <1>3, <1>4 DEF JInv

(* What the states mean for the lease.                                     *)
LEMMA Leaseless ==
  ASSUME JInv, snap.state \notin {"VALIDATING", "CANCELLED", "EXPIRED", "FAILED"}
  PROVE  lease = None /\ NoContainer
BY NoneTracked DEF JInv, Log!LeaseIsOwed

(* An event of an open session that keeps the lease.                       *)
LEMMA OpenEvent ==
  ASSUME JInv, Open, NEW p, NEW t, t.state \notin Log!TerminalStates,
         t.state \in {"VALIDATED", "APPROVED", "APPLYING"} =>
           snap.state \in {"VALIDATED", "APPROVED", "APPLYING"}
  PROVE  Permitted(p, t, lease)
BY DEF Permitted, Open, Terminal, Clean, Log!TerminalStates

-----------------------------------------------------------------------------
(* One step per action.                                                    *)

LEMMA ProposalTracks ==
  ASSUME IInv, JInv, [Log!Next]_chain, NEW p \in Procs, Proposal(p)
  PROVE  Sound(p) /\ Own(p)'
<1>. DEFINE free == {"idle", "generate", "checkpoint", "prepare", "begin", "fail"}
<1>1. free \cap (ValidatingPcs \cup ClosingPcs) = {} /\ free \subseteq Pcs
      /\ "intend" \in Pcs \cap ValidatingPcs
  BY PcsListed DEF ValidatingPcs, ClosingPcs
<1>2. pr'[p].pc \in free => Own(p)'
  BY <1>1, FreeOwn
<1>3. CASE Propose(p)
  <2>. DEFINE t == [snap EXCEPT !.state = "GENERATING"]
              good == [To("generate") EXCEPT !.seen = t]
  <2>1. /\ Open /\ t.state = "GENERATING" /\ good.pc = "generate" /\ Idle.pc = "idle"
        /\ Append(p, "generating", t, lease, good, Idle)
        /\ UNCHANGED <<files, docker>> /\ LockFree
    BY <1>1, <1>3, Fields, Edited DEF Propose, Enter, Open, Terminal, Log!TerminalStates
  <2>. HIDE DEF t, good
  <2>2. Permitted(p, t, lease)
    BY <2>1, OpenEvent DEF Log!TerminalStates
  <2>3. Sound(p) /\ pr'[p] \in {good, Idle}
    BY <1>1, <2>1, <2>2, AppendedStep
  <2>. QED  BY <1>2, <2>1, <2>3
<1>4. CASE Generate(p)
  <2>1. UNCHANGED <<chain, files, docker>>
    BY <1>4 DEF Generate
  <2>2. Goto(p, [pr[p] EXCEPT !.pc = "checkpoint"]) \/ Goto(p, To("fail"))
    BY <1>4 DEF Generate
  <2>3. [pr[p] EXCEPT !.pc = "checkpoint"].pc = "checkpoint" /\ To("fail").pc = "fail"
    BY <1>1, Fields
  <2>. QED  BY <1>1, <2>1, <2>2, <2>3, FreeStep DEF Goto
<1>5. CASE PersistCandidateCheckpoint(p)
  <2>1. UNCHANGED <<files, docker>> /\ LockFree
    BY <1>5 DEF PersistCandidateCheckpoint, Enter
  <2>2. CASE Leave(p, Idle) \/ Leave(p, To("fail"))
    BY <1>1, <2>1, <2>2, Fields, FreeStep DEF Leave, Resume
  <2>3. CASE ~(Leave(p, Idle) \/ Leave(p, To("fail")))
    <3>. DEFINE t == [snap EXCEPT !.candidate = p]
                good == [To("prepare") EXCEPT !.seen = t]
    <3>1. /\ Open /\ t.state = "GENERATING" /\ good.pc = "prepare" /\ To("fail").pc = "fail"
          /\ Append(p, "candidate", t, lease, good, To("fail"))
      BY <1>1, <1>5, <2>3, Fields, Edited
         DEF PersistCandidateCheckpoint, Open, Terminal, Log!TerminalStates
    <3>. HIDE DEF t, good
    <3>2. Permitted(p, t, lease)
      BY <3>1, OpenEvent DEF Log!TerminalStates
    <3>3. Sound(p) /\ pr'[p] \in {good, To("fail")}
      BY <1>1, <2>1, <3>1, <3>2, AppendedStep
    <3>. QED  BY <1>2, <3>1, <3>3
  <2>. QED  BY <2>2, <2>3
<1>6. CASE PrepareSandbox(p)
  <2>1. UNCHANGED <<chain, files, docker>>
    BY <1>6 DEF PrepareSandbox
  <2>2. Goto(p, [pr[p] EXCEPT !.pc = "begin"]) \/ Goto(p, To("fail"))
    BY <1>6 DEF PrepareSandbox
  <2>3. [pr[p] EXCEPT !.pc = "begin"].pc = "begin" /\ To("fail").pc = "fail"
    BY <1>1, Fields
  <2>. QED  BY <1>1, <2>1, <2>2, <2>3, FreeStep DEF Goto
<1>7. CASE BeginValidation(p)
  <2>1. UNCHANGED <<files, docker>> /\ LockFree
    BY <1>7 DEF BeginValidation, Enter
  <2>2. CASE Leave(p, Idle) \/ Leave(p, To("fail"))
    BY <1>1, <2>1, <2>2, Fields, FreeStep DEF Leave, Resume
  <2>3. CASE ~(Leave(p, Idle) \/ Leave(p, To("fail")))
    <3>. DEFINE t == [snap EXCEPT !.state = "VALIDATING"]
                good == [To("intend") EXCEPT !.seen = t]
    <3>1. /\ Open /\ snap.state = "GENERATING"
          /\ t.state = "VALIDATING" /\ good.pc = "intend" /\ To("fail").pc = "fail"
          /\ Append(p, "validating", t, lease, good, To("fail"))
      BY <1>1, <1>7, <2>3, Fields, Edited
         DEF BeginValidation, Open, Terminal, Log!TerminalStates
    <3>2. lease = None /\ NoContainer /\ runs = 0
      BY <3>1, Leaseless DEF JInv, RunsCounted
    <3>. HIDE DEF t, good
    <3>3. Permitted(p, t, lease)
      BY <3>1, OpenEvent DEF Log!TerminalStates
    <3>4. /\ Sound(p)
          /\ \/ snap' = t /\ lease' = lease /\ pr'[p] \in {good, To("fail")}
             \/ pr'[p] = To("fail")
      BY <1>1, <2>1, <3>1, <3>3, AppendedStep
    <3>5. CASE pr'[p] = To("fail")
      BY <1>2, <3>1, <3>4, <3>5
    <3>6. CASE pr'[p] = good /\ snap' = t
      BY <2>1, <3>1, <3>2, <3>4, <3>6
         DEF Own, ContainerOK, ClosingOK, RunOK, Validates, ValidatingPcs, At, NoContainer, docker
    <3>. QED  BY <3>4, <3>5, <3>6
  <2>. QED  BY <2>2, <2>3
<1>. QED  BY <1>3, <1>4, <1>5, <1>6, <1>7 DEF Proposal

(* What a validating process that the chain knows can see.                 *)
LEMMA Validating ==
  ASSUME JInv, NEW p \in Procs, Validates(p)
  PROVE  /\ snap.state \notin {"CREATED", "GENERATING"}
         /\ lease # None => lease.token = p
         /\ live \cup requested \subseteq {p} /\ live \cap requested = {}
BY DEF JInv, Own, ContainerOK, ContainersTracked

LEMMA ValidationPcs ==
  /\ ValidatingPcs \subseteq Pcs /\ ValidatingPcs \cap ClosingPcs = {}
  /\ {"idle", "fail", "tidy"} \subseteq Pcs
  /\ {"idle", "fail"} \cap (ValidatingPcs \cup ClosingPcs) = {}
BY PcsListed DEF ValidatingPcs, ClosingPcs

(* Leaving the validation.                                                 *)
LEMMA Detours ==
  ASSUME IInv, NEW p \in Procs
  PROVE  /\ Idle.pc = "idle" /\ To("fail").pc = "fail"
         /\ To(pr[p].then).pc \in {"idle", "fail"}
         /\ [To("tidy") EXCEPT !.then = pr[p].then].pc = "tidy"
BY Fields, Basics, ValidationPcs

LEMMA IntentTracks ==
  ASSUME IInv, JInv, [Log!Next]_chain, NEW p \in Procs, RegisterIntent(p)
  PROVE  Sound(p) /\ Own(p)'
<1>1. /\ At(p, "intend") /\ LockFree /\ UNCHANGED <<files, docker>> /\ Validates(p)
  BY DEF RegisterIntent, Enter, At, Validates, ValidatingPcs
<1>2. NoContainer /\ runs = 0 /\ snap.state \notin {"CREATED", "GENERATING"}
  BY <1>1 DEF JInv, Own, ContainerOK, RunOK, At
<1>3. CASE Leave(p, Idle)
  BY <1>1, <1>3, FreeStep, Detours, ValidationPcs DEF Leave, Resume
<1>4. CASE ~Leave(p, Idle)
  <2>. DEFINE good == [pr[p] EXCEPT !.pc = "create"]
              m == Mine(p, FALSE)
  <2>1. /\ Append(p, "validation_intent", snap, m, good, To("fail"))
        /\ snap.state = "VALIDATING" /\ lease = None
    BY <1>4 DEF RegisterIntent
  <2>2. good.pc = "create" /\ To("fail").pc = "fail"
    BY Fields, Detours, ValidationPcs DEF ValidatingPcs
  <2>3. m.token = p /\ m.bound = FALSE
    BY DEF Mine
  <2>. HIDE DEF good, m
  <2>4. Permitted(p, snap, m)
    BY <1>1, <1>2, <2>1, <2>3 DEF Permitted, Clean, Terminal, Log!TerminalStates
  <2>5. /\ Sound(p)
        /\ \/ /\ Log!EventIsValid("validation_intent", snap, lease, snap, m)
              /\ snap' = snap /\ lease' = m /\ pr'[p] \in {good, To("fail")}
           \/ pr'[p] = To("fail")
    BY <1>1, <2>1, <2>2, <2>4, AppendedStep, ValidationPcs
  <2>6. CASE pr'[p] = To("fail")
    BY <2>2, <2>5, <2>6, FreeOwn, ValidationPcs
  <2>7. CASE /\ Log!EventIsValid("validation_intent", snap, lease, snap, m)
             /\ snap' = snap /\ lease' = m /\ pr'[p] = good
    <3>1. m # None
      BY <2>7 DEF Log!EventIsValid, Log!ValidationRunUpdateIsValid, Log!IntentRegistered
    <3>. QED  BY <1>1, <1>2, <2>1, <2>2, <2>3, <2>5, <2>7, <3>1
         DEF Own, ContainerOK, ClosingOK, RunOK, Validates, ValidatingPcs, At, NoContainer, docker,
             Unbound
  <2>. QED  BY <2>5, <2>6, <2>7
<1>. QED  BY <1>3, <1>4

LEMMA CreateTracks ==
  ASSUME IInv, JInv, NEW p \in Procs, CreateContainer(p)
  PROVE  Sound(p) /\ Own(p)'
<1>1. At(p, "create") /\ UNCHANGED <<chain, files>> /\ runs' = runs /\ Validates(p)
  BY DEF CreateContainer, At, Validates, ValidatingPcs
<1>2. live = {} /\ requested = {} /\ Unbound(p) /\ runs = 0
  BY <1>1 DEF JInv, Own, ContainerOK, RunOK, NoContainer, At
<1>3. snap' = snap /\ lease' = lease
  BY <1>1 DEF chain
<1>4. ASSUME NEW pc \in {"bind", "bindFailed"}, Goto(p, [pr[p] EXCEPT !.pc = pc]),
             live' = live \cup {p}, UNCHANGED requested
      PROVE  Sound(p) /\ Own(p)'
  <2>1. [pr[p] EXCEPT !.pc = pc].pc = pc
    BY Fields, PcsListed
  <2>2. Sound(p) /\ pr'[p].pc = pc
    BY <1>1, <1>2, <1>4, <2>1, ContainerStep DEF Goto
  <2>. QED  BY <1>1, <1>2, <1>3, <1>4, <2>2, Validating
       DEF Own, ContainerOK, ClosingOK, RunOK, Validates, ValidatingPcs, At, Unbound
<1>5. ASSUME NEW ok \in BOOLEAN,
             Goto(p, [pr[p] EXCEPT !.pc = "unbound", !.ok = ok, !.then = "fail"]),
             live' \subseteq live \cup {p}, requested' \subseteq requested \cup {p},
             UNCHANGED live \/ UNCHANGED requested,
             ok => UNCHANGED requested
      PROVE  Sound(p) /\ Own(p)'
  <2>. DEFINE loc == [pr[p] EXCEPT !.pc = "unbound", !.ok = ok, !.then = "fail"]
  <2>1. loc.pc = "unbound" /\ loc.ok = ok
    BY Fields, PcsListed
  <2>. HIDE DEF loc
  <2>2. pr' = [pr EXCEPT ![p] = loc]
    BY <1>5 DEF Goto, loc
  <2>3. Sound(p) /\ pr'[p] = loc
    BY <1>1, <1>2, <1>5, <2>2, ContainerStep
  <2>. QED  BY <1>1, <1>2, <1>3, <1>5, <2>1, <2>3, Validating
       DEF Own, ContainerOK, ClosingOK, RunOK, Validates, ValidatingPcs, At, Unbound
<1>. QED  BY <1>4, <1>5 DEF CreateContainer

LEMMA ConfirmTracks ==
  ASSUME IInv, JInv, NEW p \in Procs, RemoveOrConfirmUnbound(p)
  PROVE  Sound(p) /\ Own(p)'
<1>. DEFINE loc == [pr[p] EXCEPT !.pc = "dropIntent", !.ok = FALSE]
<1>1. At(p, "unbound") /\ UNCHANGED <<chain, files, requested, runs>> /\ Validates(p)
  BY DEF RemoveOrConfirmUnbound, At, Validates, ValidatingPcs
<1>2. snap' = snap /\ lease' = lease
  BY <1>1 DEF chain
<1>3. CASE (p \in live \/ pr[p].ok) /\ live' = live \ {p} /\ Goto(p, loc)
  <2>1. loc.pc = "dropIntent"
    BY Fields, PcsListed
  <2>. HIDE DEF loc
  <2>2. requested = {} /\ NoContainer'
    BY <1>1, <1>3, Validating DEF JInv, Own, ContainerOK, NoContainer, At
  <2>3. Sound(p) /\ pr'[p] = loc
    BY <1>1, <1>3, <2>2, ContainerStep DEF Goto
  <2>. QED  BY <1>1, <1>2, <2>1, <2>2, <2>3, Validating
       DEF Own, ContainerOK, ClosingOK, RunOK, Validates, ValidatingPcs, At
<1>4. CASE UNCHANGED live /\ Goto(p, To(pr[p].then))
  BY <1>1, <1>4, FreeStep, Detours, ValidationPcs DEF Goto, docker
<1>. QED  BY <1>3, <1>4 DEF RemoveOrConfirmUnbound

LEMMA RegisterTracks ==
  ASSUME IInv, JInv, [Log!Next]_chain, NEW p \in Procs, RegisterRun(p)
  PROVE  Sound(p) /\ Own(p)'
<1>1. /\ pr[p].pc \in {"bind", "bindFailed"} /\ LockFree /\ UNCHANGED <<files, docker>>
      /\ Validates(p)
  BY DEF RegisterRun, Enter, At, Validates, ValidatingPcs
<1>2. requested = {} /\ (At(p, "bind") => runs = 0)
  BY <1>1 DEF JInv, Own, ContainerOK, RunOK, At
<1>3. snap.state \notin {"CREATED", "GENERATING"} /\ (lease # None => lease.token = p)
  BY <1>1, Validating
<1>4. ASSUME NEW loc, Sound(p), pr'[p] = loc, snap' = snap, lease' # None => lease'.token = p,
             loc.pc \in {"unregister", "discard", "fail"} \/ (loc.pc = "run" /\ At(p, "bind"))
      PROVE  Own(p)'
  <2>1. requested' = {} /\ runs' = runs
    BY <1>1, <1>2 DEF docker
  <2>2. CASE loc.pc = "fail"
    BY <1>4, <2>2, FreeOwn, ValidationPcs
  <2>3. CASE loc.pc # "fail"
    BY <1>2, <1>3, <1>4, <2>1, <2>3
       DEF Own, ContainerOK, ClosingOK, RunOK, Validates, ValidatingPcs, At
  <2>. QED  BY <2>2, <2>3
<1>. DEFINE created  == At(p, "bind")
            rejected == [pr[p] EXCEPT !.pc = "unregister",
                                      !.then = IF created THEN "idle" ELSE "fail"]
            accepted == IF created THEN [pr[p] EXCEPT !.pc = "run"]
                        ELSE [pr[p] EXCEPT !.pc = "discard", !.then = "fail"]
            failed   == IF created THEN [pr[p] EXCEPT !.pc = "unregister", !.then = "fail"]
                        ELSE To("fail")
            good == IF snap.state = "VALIDATING" THEN accepted ELSE rejected
            m == Mine(p, TRUE)
<1>5. /\ rejected.pc = "unregister"
      /\ accepted.pc = "discard" \/ (accepted.pc = "run" /\ At(p, "bind"))
      /\ failed.pc \in {"unregister", "fail"}
      /\ good.pc \in {"unregister", "discard"} \/ (good.pc = "run" /\ At(p, "bind"))
  <2>1. \A pc \in {"unregister", "discard", "run"} : pc \in Pcs
    BY PcsListed
  <2>. QED  BY <2>1, Fields, Detours
<1>6. m.token = p
  BY DEF Mine
<1>7. \/ Leave(p, rejected)
      \/ Append(p, "validation_run", snap, m, good, failed)
  BY DEF RegisterRun
<1>. HIDE DEF rejected, good, failed, m
<1>8. CASE Leave(p, rejected)
  <2>1. Sound(p) /\ pr'[p] = rejected /\ UNCHANGED chain
    BY <1>1, <1>5, <1>8, QuietStep DEF Leave, Resume
  <2>. QED  BY <1>3, <1>4, <1>5, <2>1 DEF chain
<1>9. CASE Append(p, "validation_run", snap, m, good, failed)
  <2>1. ASSUME Log!EventIsValid("validation_run", snap, lease, snap, m)
        PROVE  Permitted(p, snap, m)
    <3>1. m # None /\ lease # None
      BY <2>1 DEF Log!EventIsValid, Log!ValidationRunUpdateIsValid, Log!RunBound
    <3>. QED  BY <1>2, <1>3, <3>1 DEF Permitted, Clean, Terminal
  <2>2. /\ Sound(p)
        /\ \/ snap' = snap /\ lease' = m /\ pr'[p] \in {good, failed}
           \/ UNCHANGED chain /\ pr'[p] = failed
    BY <1>1, <1>9, <2>1, AppendedStep
  <2>. QED  BY <1>3, <1>4, <1>5, <1>6, <2>2 DEF chain
<1>. QED  BY <1>7, <1>8, <1>9

LEMMA UnregisteredTracks ==
  ASSUME IInv, JInv, NEW p \in Procs, RemoveUnregistered(p)
  PROVE  Sound(p) /\ Own(p)'
<1>. DEFINE loc == [pr[p] EXCEPT !.pc = "dropRun"]
<1>1. At(p, "unregister") /\ UNCHANGED <<chain, files, requested, runs>> /\ Validates(p)
  BY DEF RemoveUnregistered, At, Validates, ValidatingPcs
<1>2. snap' = snap /\ lease' = lease
  BY <1>1 DEF chain
<1>3. CASE live' = live \ {p} /\ Goto(p, loc)
  <2>1. loc.pc = "dropRun"
    BY Fields, PcsListed
  <2>. HIDE DEF loc
  <2>2. requested = {} /\ NoContainer'
    BY <1>1, <1>3, Validating DEF JInv, Own, ContainerOK, NoContainer, At
  <2>3. Sound(p) /\ pr'[p] = loc
    BY <1>1, <1>3, <2>2, ContainerStep DEF Goto
  <2>. QED  BY <1>1, <1>2, <2>1, <2>2, <2>3, Validating
       DEF Own, ContainerOK, ClosingOK, RunOK, Validates, ValidatingPcs, At
<1>4. CASE UNCHANGED live /\ Goto(p, To(pr[p].then))
  BY <1>1, <1>4, FreeStep, Detours, ValidationPcs DEF Goto, docker
<1>. QED  BY <1>3, <1>4 DEF RemoveUnregistered

LEMMA DiscardTracks ==
  ASSUME IInv, JInv, NEW p \in Procs, DiscardContainer(p)
  PROVE  Sound(p) /\ Own(p)'
<1>1. At(p, "discard") /\ UNCHANGED <<chain, files, requested, runs>> /\ live' \subseteq live
      /\ pr' = [pr EXCEPT ![p] = To(pr[p].then)] /\ Validates(p)
  BY DEF DiscardContainer, Goto, At, Validates, ValidatingPcs
<1>2. live' \cap requested' = {}
  BY <1>1 DEF JInv, ContainersTracked
<1>3. Sound(p) /\ pr'[p] = To(pr[p].then)
  BY <1>1, <1>2, ContainerStep
<1>. QED  BY <1>3, FreeOwn, Detours, ValidationPcs

(* Going on to the removal of the payload, from a closed session whose     *)
(* container is gone.                                                      *)
LEMMA TidyStep ==
  ASSUME IInv, JInv, NEW p \in Procs, NEW loc, pr' = [pr EXCEPT ![p] = loc],
         UNCHANGED <<chain, files, docker>>, loc.pc = "tidy", Terminal, NoContainer,
         lease = None \/ lease.bound \/ lease.token = p
  PROVE  Sound(p) /\ Own(p)'
<1>1. Sound(p) /\ pr'[p] = loc
  BY QuietStep, ValidationPcs DEF ValidatingPcs
<1>2. snap' = snap /\ lease' = lease /\ live' = live /\ requested' = requested
  BY DEF chain, docker
<1>. QED  BY <1>1, <1>2
     DEF Own, ContainerOK, ClosingOK, RunOK, Validates, ValidatingPcs, At, NoContainer, Terminal

LEMMA ReleaseRunTracks ==
  ASSUME IInv, JInv, NEW p \in Procs, ReleaseRun(p)
  PROVE  Sound(p) /\ Own(p)'
<1>1. At(p, "dropRun") /\ UNCHANGED <<chain, files, docker>> /\ Validates(p)
  BY DEF ReleaseRun, Enter, Leave, At, Validates, ValidatingPcs
<1>2. NoContainer
  BY <1>1 DEF JInv, Own, ContainerOK, At
<1>3. CASE Leave(p, To(pr[p].then))
  BY <1>1, <1>3, FreeStep, Detours, ValidationPcs DEF Leave, Resume
<1>4. CASE Leave(p, [To("tidy") EXCEPT !.then = pr[p].then]) /\ Terminal
  BY <1>1, <1>2, <1>4, TidyStep, Detours, Validating DEF Leave, Resume
<1>5. CASE Leave(p, [pr[p] EXCEPT !.pc = "dropIntent"])
  <2>. DEFINE loc == [pr[p] EXCEPT !.pc = "dropIntent"]
  <2>1. loc.pc = "dropIntent"
    BY Fields, PcsListed
  <2>. HIDE DEF loc
  <2>2. pr' = [pr EXCEPT ![p] = loc]
    BY <1>5 DEF Leave, Resume, loc
  <2>3. Sound(p) /\ pr'[p] = loc
    BY <1>1, <2>2, QuietStep
  <2>. QED  BY <1>1, <1>2, <2>1, <2>3, Validating
       DEF Own, ContainerOK, ClosingOK, RunOK, Validates, ValidatingPcs, At, NoContainer, chain, docker
<1>. QED  BY <1>3, <1>4, <1>5 DEF ReleaseRun

LEMMA ReleaseIntentTracks ==
  ASSUME IInv, JInv, [Log!Next]_chain, NEW p \in Procs, ReleaseIntent(p)
  PROVE  Sound(p) /\ Own(p)'
<1>1. At(p, "dropIntent") /\ LockFree /\ UNCHANGED <<files, docker>> /\ Validates(p)
  BY DEF ReleaseIntent, Enter, At, Validates, ValidatingPcs
<1>2. NoContainer
  BY <1>1 DEF JInv, Own, ContainerOK, At
<1>3. CASE Leave(p, To(pr[p].then))
  BY <1>1, <1>3, FreeStep, Detours, ValidationPcs DEF Leave, Resume
<1>4. CASE Leave(p, [To("tidy") EXCEPT !.then = pr[p].then]) /\ Terminal
  BY <1>1, <1>2, <1>4, TidyStep, Detours, Validating DEF Leave, Resume
<1>5. CASE /\ Append(p, "validation_intent_abandoned", snap, None, To(pr[p].then), To("fail"))
           /\ snap.state = "VALIDATING"
  <2>1. Permitted(p, snap, None)
    BY <1>1, <1>2, <1>5, Validating DEF Permitted, Clean, Terminal, Log!TerminalStates
  <2>2. Sound(p) /\ pr'[p] \in {To(pr[p].then), To("fail")}
    BY <1>1, <1>5, <2>1, AppendedStep, Detours, ValidationPcs
  <2>. QED  BY <2>2, FreeOwn, Detours, ValidationPcs
<1>. QED  BY <1>3, <1>4, <1>5 DEF ReleaseIntent

LEMMA RunTracks ==
  ASSUME IInv, JInv, NEW p \in Procs, RunContainer(p)
  PROVE  Sound(p) /\ Own(p)'
<1>1. At(p, "run") /\ UNCHANGED <<chain, files, live, requested>> /\ Validates(p)
  BY DEF RunContainer, At, Validates, ValidatingPcs
<1>2. requested = {} /\ runs = 0
  BY <1>1 DEF JInv, Own, ContainerOK, RunOK, At
<1>3. ASSUME NEW loc, Goto(p, loc), loc.pc \in {"verdict", "discard"},
             runs' = runs + 1 \/ (runs' = runs /\ loc.pc = "discard")
      PROVE  Sound(p) /\ Own(p)'
  <2>1. Sound(p) /\ pr'[p] = loc
    BY <1>1, <1>2, <1>3, ContainerStep DEF Goto
  <2>. QED  BY <1>1, <1>2, <1>3, <2>1, Validating
       DEF Own, ContainerOK, ClosingOK, RunOK, Validates, ValidatingPcs, At, chain
<1>4. /\ \A b \in BOOLEAN : [pr[p] EXCEPT !.pc = "verdict", !.passed = b].pc = "verdict"
      /\ [pr[p] EXCEPT !.pc = "discard", !.then = "fail"].pc = "discard"
  BY Fields, PcsListed
<1>5. CASE \E b \in BOOLEAN : Goto(p, [pr[p] EXCEPT !.pc = "verdict", !.passed = b])
                              /\ runs' = runs + 1
  BY <1>3, <1>4, <1>5
<1>6. CASE Goto(p, [pr[p] EXCEPT !.pc = "discard", !.then = "fail"])
           /\ runs' \in {runs, runs + 1}
  BY <1>3, <1>4, <1>6
<1>. QED  BY <1>5, <1>6 DEF RunContainer

LEMMA ResultTracks ==
  ASSUME IInv, JInv, [Log!Next]_chain, NEW p \in Procs, CheckpointResult(p)
  PROVE  Sound(p) /\ Own(p)'
<1>1. At(p, "verdict") /\ LockFree /\ UNCHANGED <<files, docker>> /\ Validates(p)
  BY DEF CheckpointResult, Enter, At, Validates, ValidatingPcs
<1>2. requested = {} /\ runs > 0
  BY <1>1 DEF JInv, Own, ContainerOK, RunOK, At
<1>3. requested' = requested /\ runs' = runs
  BY <1>1 DEF docker
<1>4. ASSUME NEW loc, Sound(p), pr'[p] = loc, loc.pc \in {"reclaim", "discard"},
             snap'.state = snap.state, lease' = lease
      PROVE  Own(p)'
  BY <1>1, <1>2, <1>3, <1>4, Validating
     DEF Own, ContainerOK, ClosingOK, RunOK, Validates, ValidatingPcs, At
<1>. DEFINE t == [snap EXCEPT !.validation = Verdict(p)]
            good == [pr[p] EXCEPT !.pc = "reclaim"]
            bad == [pr[p] EXCEPT !.pc = "discard", !.then = "fail"]
            away == [pr[p] EXCEPT !.pc = "discard", !.then = "idle"]
<1>5. good.pc = "reclaim" /\ bad.pc = "discard" /\ away.pc = "discard" /\ t.state = snap.state
  BY Fields, PcsListed, Edited
<1>6. \/ Leave(p, away)
      \/ snap.state = "VALIDATING" /\ Append(p, "validation_result", t, lease, good, bad)
  BY DEF CheckpointResult
<1>. HIDE DEF t, good, bad, away
<1>7. CASE Leave(p, away)
  <2>1. Sound(p) /\ pr'[p] = away /\ snap' = snap /\ lease' = lease
    BY <1>1, <1>5, <1>7, QuietStep DEF Leave, Resume, chain
  <2>. QED  BY <1>4, <1>5, <2>1
<1>8. CASE snap.state = "VALIDATING" /\ Append(p, "validation_result", t, lease, good, bad)
  <2>1. Permitted(p, t, lease)
    BY <1>5, <1>8, OpenEvent DEF Open, Terminal, Log!TerminalStates
  <2>2. /\ Sound(p) /\ pr'[p] \in {good, bad}
        /\ snap'.state = snap.state /\ lease' = lease
    BY <1>1, <1>5, <1>8, <2>1, AppendedStep DEF chain
  <2>. QED  BY <1>4, <1>5, <2>2
<1>. QED  BY <1>6, <1>7, <1>8

LEMMA ReclaimTracks ==
  ASSUME IInv, JInv, NEW p \in Procs, RemoveContainer(p)
  PROVE  Sound(p) /\ Own(p)'
<1>1. At(p, "reclaim") /\ UNCHANGED <<chain, files, requested, runs>> /\ Validates(p)
  BY DEF RemoveContainer, At, Validates, ValidatingPcs
<1>2. requested = {} /\ runs > 0
  BY <1>1 DEF JInv, Own, ContainerOK, RunOK, At
<1>3. PICK ok \in BOOLEAN : /\ live' = IF ok THEN live \ {p} ELSE live
                            /\ Goto(p, [pr[p] EXCEPT !.pc = "finish", !.ok = ok])
  BY DEF RemoveContainer
<1>. DEFINE loc == [pr[p] EXCEPT !.pc = "finish", !.ok = ok]
<1>4. loc.pc = "finish" /\ loc.ok = ok
  BY Fields, PcsListed
<1>5. pr' = [pr EXCEPT ![p] = loc]
  BY <1>3 DEF Goto
<1>. HIDE DEF loc
<1>6. Sound(p) /\ pr'[p] = loc
  BY <1>1, <1>2, <1>3, <1>5, ContainerStep
<1>7. ok => NoContainer'
  BY <1>1, <1>2, <1>3, Validating DEF NoContainer
<1>. QED  BY <1>1, <1>2, <1>4, <1>6, <1>7, Validating
     DEF Own, ContainerOK, ClosingOK, RunOK, Validates, ValidatingPcs, At, chain

LEMMA FinishTracks ==
  ASSUME IInv, JInv, [Log!Next]_chain, NEW p \in Procs, FinishValidation(p)
  PROVE  Sound(p) /\ Own(p)'
<1>1. At(p, "finish") /\ LockFree /\ UNCHANGED <<files, docker>> /\ Validates(p)
  BY DEF FinishValidation, Enter, At, Validates, ValidatingPcs
<1>2. runs > 0 /\ (pr[p].ok => NoContainer)
  BY <1>1 DEF JInv, Own, ContainerOK, RunOK, At
<1>3. To("tidy").pc = "tidy"
  BY Fields, ValidationPcs
<1>4. CASE Leave(p, Idle) \/ Leave(p, To("fail"))
  BY <1>1, <1>4, FreeStep, Detours, ValidationPcs DEF Leave, Resume
<1>5. CASE /\ snap.state = "VALIDATING"
           /\ Append(p, "failed", Fail(snap), lease, To("fail"), To("fail"))
  <2>1. Permitted(p, Fail(snap), lease)
    BY <1>5, Edited DEF Permitted, Clean, Terminal, Log!TerminalStates
  <2>2. Sound(p) /\ pr'[p] = To("fail")
    BY <1>1, <1>5, <2>1, AppendedStep, Detours, ValidationPcs
  <2>. QED  BY <2>2, FreeOwn, Detours, ValidationPcs
<1>6. CASE /\ snap.state = "VALIDATING" /\ pr[p].ok
           /\ Append(p, "validated", [snap EXCEPT !.state = "VALIDATED"], None, Idle, To("fail"))
  <2>1. Permitted(p, [snap EXCEPT !.state = "VALIDATED"], None)
    BY <1>1, <1>2, <1>6, Edited, Validating
       DEF Permitted, Clean, Terminal, Log!TerminalStates
  <2>2. Sound(p) /\ pr'[p] \in {Idle, To("fail")}
    BY <1>1, <1>6, <2>1, AppendedStep, Detours, ValidationPcs
  <2>. QED  BY <2>2, FreeOwn, Detours, ValidationPcs
<1>7. CASE /\ snap.state = "VALIDATING" /\ pr[p].ok
           /\ PersistTerminal(p, "failed", Fail(snap), To("fail"))
  <2>1. Permitted(p, Fail(snap), None)
    BY <1>1, <1>2, <1>7, Edited, Validating DEF Permitted, Clean, Terminal, Log!TerminalStates
  <2>2. /\ Sound(p)
        /\ \/ snap' = Fail(snap) /\ lease' = None /\ pr'[p] \in {To("tidy"), To("fail")}
           \/ pr'[p] = To("fail")
    BY <1>1, <1>3, <1>7, <2>1, AppendedStep, Detours, ValidationPcs
       DEF PersistTerminal, ValidatingPcs
  <2>3. CASE pr'[p] = To("fail")
    BY <2>2, <2>3, FreeOwn, Detours, ValidationPcs
  <2>4. CASE snap' = Fail(snap) /\ lease' = None /\ pr'[p] = To("tidy")
    BY <1>1, <1>2, <1>3, <1>7, <2>2, <2>4, Edited
       DEF Own, ContainerOK, ClosingOK, RunOK, Validates, ValidatingPcs, At, NoContainer, docker,
           Terminal, Log!TerminalStates
  <2>. QED  BY <2>2, <2>3, <2>4
<1>. QED  BY <1>4, <1>5, <1>6, <1>7 DEF FinishValidation

LEMMA ValidationTracks ==
  ASSUME IInv, JInv, [Log!Next]_chain, NEW p \in Procs, Validation(p)
  PROVE  Sound(p) /\ Own(p)'
BY IntentTracks, CreateTracks, ConfirmTracks, RegisterTracks, UnregisteredTracks, DiscardTracks,
   ReleaseRunTracks, ReleaseIntentTracks, RunTracks, ResultTracks, ReclaimTracks, FinishTracks
   DEF Validation

(* Closing an open session: a lease it owes goes with it.                  *)
LEMMA CloseTracks ==
  ASSUME IInv, JInv, NEW p \in Procs, LockFree \/ lock = p, UNCHANGED <<files, docker>>, Open,
         NEW kind, NEW t, t.state \in {"CANCELLED", "EXPIRED", "FAILED"}, t.cleanup_pending,
         CloseSession(p, kind, t)
  PROVE  Sound(p) /\ Own(p)'
<1>. DEFINE sweeping == [To("sweep") EXCEPT !.seen = t, !.owed = lease]
<1>1. To("tidy").pc = "tidy" /\ Idle.pc = "idle" /\ sweeping.pc = "sweep" /\ sweeping.owed = lease
  BY Fields, PcsListed
<1>. HIDE DEF sweeping
<1>2. {"idle", "tidy", "sweep"} \cap ValidatingPcs = {}
  BY DEF ValidatingPcs
<1>3. t.state \in Log!TerminalStates
        /\ t.state \notin {"VALIDATED", "APPROVED", "APPLYING", "APPLIED", "REJECTED"}
  BY DEF Log!TerminalStates
<1>4. lease = None => NoContainer
  BY NoneTracked
<1>5. Permitted(p, t, lease)
  BY <1>3 DEF Permitted, Clean, Open
<1>6. CASE lease = None /\ Append(p, kind, t, None, To("tidy"), Idle)
  <2>1. /\ Sound(p)
        /\ \/ snap' = t /\ lease' = None /\ pr'[p] \in {To("tidy"), Idle}
           \/ pr'[p] = Idle
    BY <1>1, <1>2, <1>5, <1>6, AppendedStep
  <2>2. CASE pr'[p] = Idle
    BY <1>1, <2>1, <2>2, FreeOwn, ValidationPcs
  <2>3. CASE snap' = t /\ lease' = None /\ pr'[p] = To("tidy")
    BY <1>1, <1>3, <1>4, <1>6, <2>1, <2>3
       DEF Own, ContainerOK, ClosingOK, RunOK, Validates, ValidatingPcs, At, NoContainer, docker,
           Terminal
  <2>. QED  BY <2>1, <2>2, <2>3
<1>7. CASE lease # None /\ Append(p, kind, t, lease, sweeping, Idle)
  <2>1. /\ Sound(p)
        /\ \/ snap' = t /\ lease' = lease /\ pr'[p] \in {sweeping, Idle}
           \/ pr'[p] = Idle
    BY <1>1, <1>2, <1>5, <1>7, AppendedStep
  <2>2. CASE pr'[p] = Idle
    BY <1>1, <2>1, <2>2, FreeOwn, ValidationPcs
  <2>3. CASE snap' = t /\ lease' = lease /\ pr'[p] = sweeping
    BY <1>1, <1>3, <1>7, <2>1, <2>3
       DEF Own, ContainerOK, ClosingOK, RunOK, Validates, ValidatingPcs, At, Terminal
  <2>. QED  BY <2>1, <2>2, <2>3
<1>. QED  BY <1>6, <1>7 DEF CloseSession, PersistTerminal, sweeping

(* Closing a session that was never validated, or whose validation is over:*)
(* it owes nothing.                                                        *)
LEMMA LeaselessCloseTracks ==
  ASSUME IInv, JInv, NEW p \in Procs, LockFree \/ lock = p, UNCHANGED <<files, docker>>,
         snap.state \in {"VALIDATED", "APPROVED", "APPLYING"},
         NEW kind, NEW t, t.state \in {"REJECTED", "APPLIED"}, t.cleanup_pending,
         PersistTerminal(p, kind, t, Idle)
  PROVE  Sound(p) /\ Own(p)'
<1>1. To("tidy").pc = "tidy" /\ Idle.pc = "idle"
  BY Fields, PcsListed
<1>2. {"idle", "tidy"} \cap ValidatingPcs = {}
  BY DEF ValidatingPcs
<1>3. lease = None /\ NoContainer
  BY Leaseless
<1>4. Permitted(p, t, None)
  BY <1>3 DEF Permitted, Clean, Terminal, Log!TerminalStates
<1>5. /\ Sound(p)
      /\ \/ snap' = t /\ lease' = None /\ pr'[p] \in {To("tidy"), Idle}
         \/ pr'[p] = Idle
  BY <1>1, <1>2, <1>4, AppendedStep DEF PersistTerminal
<1>6. CASE pr'[p] = Idle
  BY <1>1, <1>5, <1>6, FreeOwn, ValidationPcs
<1>7. CASE snap' = t /\ lease' = None /\ pr'[p] = To("tidy")
  BY <1>1, <1>3, <1>5, <1>7
     DEF Own, ContainerOK, ClosingOK, RunOK, Validates, ValidatingPcs, At, NoContainer, docker,
         Terminal, Log!TerminalStates
<1>. QED  BY <1>5, <1>6, <1>7

(* Removing files of a closed session, inside the lock.                    *)
LEMMA RemovalStep ==
  ASSUME IInv, JInv, NEW p \in Procs, LockFree \/ lock = p, UNCHANGED <<chain, docker>>,
         NEW loc, pr' = [pr EXCEPT ![p] = loc], loc.pc \notin ValidatingPcs, Terminal,
         private = "gone" => private' = "gone",
         store' # "present" => store # "present" \/ Clean
  PROVE  Sound(p) /\ pr'[p] = loc
<1>1. pr'[p] = loc /\ \A q \in Procs \ {p} : pr'[q] = pr[q]
  BY Elsewhere
<1>2. /\ snap' = snap /\ lease' = lease
      /\ live' = live /\ requested' = requested /\ runs' = runs
  BY DEF chain, docker
<1>3. Gentle(p)
  BY <1>1, <1>2 DEF Gentle, Clean
<1>. QED  BY <1>1, <1>2, <1>3 DEF Sound, Validates, JInv, ContainersTracked, Clean, Terminal

LEMMA SweepTracks ==
  ASSUME IInv, JInv, NEW p \in Procs, SweepContainer(p)
  PROVE  Sound(p) /\ Own(p)'
<1>. DEFINE loc == [pr[p] EXCEPT !.pc = "settle"]
<1>1. At(p, "sweep") /\ UNCHANGED <<chain, files, requested, runs>>
  BY DEF SweepContainer
<1>2. snap' = snap /\ lease' = lease
  BY <1>1 DEF chain
<1>3. CASE pr[p].owed.bound /\ live' = live \ {pr[p].owed.token} /\ Goto(p, loc)
  <2>1. loc.pc = "settle" /\ loc.owed = pr[p].owed
    BY Fields, PcsListed
  <2>. HIDE DEF loc
  <2>2. /\ Terminal /\ pr[p].owed # None /\ lease \in {pr[p].owed, None}
    BY <1>1, <1>3 DEF JInv, Own, ClosingOK, At
  <2>3. lease = pr[p].owed => NoContainer'
    BY <1>1, <1>3, <2>2 DEF JInv, ContainersTracked, NoContainer
  <2>4. live' \cap requested' = {}
    BY <1>1, <1>3 DEF JInv, ContainersTracked
  <2>5. Sound(p) /\ pr'[p] = loc
    BY <1>1, <1>3, <2>1, <2>4, ContainerStep DEF Goto, ValidatingPcs
  <2>. QED  BY <1>2, <1>3, <2>1, <2>2, <2>3, <2>5
       DEF Own, ContainerOK, ClosingOK, RunOK, Validates, ValidatingPcs, At, Terminal
<1>4. CASE UNCHANGED live /\ Goto(p, Idle)
  BY <1>1, <1>4, FreeStep, Detours, ValidationPcs DEF Goto, docker
<1>. QED  BY <1>3, <1>4 DEF SweepContainer

LEMMA SettleTracks ==
  ASSUME IInv, JInv, NEW p \in Procs, SettleTerminal(p)
  PROVE  Sound(p) /\ Own(p)'
<1>1. At(p, "settle") /\ UNCHANGED <<chain, files, docker>>
  BY DEF SettleTerminal, Enter, Leave
<1>2. CASE Leave(p, To("tidy")) /\ lease = pr[p].owed
  <2>1. Terminal /\ lease # None /\ lease.bound /\ NoContainer
    BY <1>1, <1>2 DEF JInv, Own, ClosingOK, At
  <2>2. To("tidy").pc = "tidy"
    BY Fields, ValidationPcs
  <2>. QED  BY <1>1, <1>2, <2>1, <2>2, TidyStep DEF Leave, Resume
<1>3. CASE Leave(p, Idle)
  BY <1>1, <1>3, FreeStep, Detours, ValidationPcs DEF Leave, Resume
<1>. QED  BY <1>2, <1>3 DEF SettleTerminal

LEMMA PayloadTracks ==
  ASSUME IInv, JInv, NEW p \in Procs, CleanupPrivate(p)
  PROVE  Sound(p) /\ Own(p)'
<1>1. At(p, "tidy") /\ UNCHANGED <<chain, store, docker>> /\ lock = p
  BY Holding, PcsListed DEF CleanupPrivate, At
<1>2. Terminal /\ NoContainer /\ (lease = None \/ lease.bound \/ lease.token = p)
  BY <1>1 DEF JInv, Own, ClosingOK, At
<1>3. PICK ok \in BOOLEAN :
        /\ Resume(p, [pr[p] EXCEPT !.pc = "tidied", !.ok = ok])
        /\ ok => private' = "gone"
        /\ ~ok => private # "gone" /\ private' \in {private, "partial"}
  BY DEF CleanupPrivate
<1>. DEFINE loc == [pr[p] EXCEPT !.pc = "tidied", !.ok = ok]
<1>4. loc.pc = "tidied" /\ loc.ok = ok
  BY Fields, PcsListed
<1>5. pr' = [pr EXCEPT ![p] = loc]
  BY <1>3 DEF Resume
<1>. HIDE DEF loc
<1>6. Sound(p) /\ pr'[p] = loc
  BY <1>1, <1>2, <1>3, <1>4, <1>5, RemovalStep DEF ValidatingPcs
<1>7. ok <=> private' = "gone"
  BY <1>3
<1>. QED  BY <1>1, <1>2, <1>4, <1>6, <1>7
     DEF Own, ContainerOK, ClosingOK, RunOK, Validates, ValidatingPcs, At, Terminal, NoContainer,
         chain, docker

LEMMA RecordTracks ==
  ASSUME IInv, JInv, [Log!Next]_chain, NEW p \in Procs, RecordCleanup(p)
  PROVE  Sound(p) /\ Own(p)'
<1>. DEFINE ok   == pr[p].ok
            done == [To("expire") EXCEPT !.mgr = TRUE]
            back == [pr[p] EXCEPT !.pc = pr[p].then, !.ok = FALSE]
            next == IF pr[p].mgr THEN IF ok THEN done ELSE Idle ELSE back
            t == [snap EXCEPT !.cleanup_pending = ~ok]
<1>1. At(p, "tidied") /\ lock = p /\ UNCHANGED <<files, docker>>
  BY Holding, PcsListed DEF RecordCleanup, At
<1>2. /\ Terminal /\ NoContainer /\ (lease = None \/ lease.bound \/ lease.token = p)
      /\ ok <=> private = "gone"
  BY <1>1 DEF JInv, Own, ClosingOK, At
<1>3. /\ done.pc = "expire" /\ Idle.pc = "idle" /\ back.pc \in {"idle", "fail"}
      /\ t.state = snap.state /\ t.cleanup_pending = ~ok
  <2>1. pr[p].then \in {"idle", "fail"} /\ pr[p].then \in Pcs /\ "expire" \in Pcs
    BY Basics, PcsListed
  <2>. QED  BY <2>1, Fields, Edited
<1>4. next.pc \in {"idle", "fail"} \/ (next.pc = "expire" /\ ok)
  BY <1>3
<1>5. {"idle", "fail", "expire"} \cap ValidatingPcs = {}
  BY DEF ValidatingPcs
<1>6. \/ Leave(p, next) /\ ok /\ ~snap.cleanup_pending
      \/ Append(p, IF ok THEN "cleanup_complete" ELSE "cleanup_pending", t, None, next, Idle)
  BY DEF RecordCleanup
<1>. HIDE DEF next, t, done, back
<1>7. CASE Leave(p, next) /\ ok /\ ~snap.cleanup_pending
  <2>1. Sound(p) /\ pr'[p] = next /\ snap' = snap
    BY <1>1, <1>4, <1>5, <1>7, QuietStep DEF Leave, Resume, chain
  <2>2. CASE next.pc \in {"idle", "fail"}
    BY <2>1, <2>2, FreeOwn, ValidationPcs
  <2>3. CASE next.pc = "expire"
    BY <1>2, <1>7, <2>1, <2>3
       DEF Own, ContainerOK, ClosingOK, RunOK, Validates, ValidatingPcs, At, Clean, Terminal
  <2>. QED  BY <1>4, <2>1, <2>2, <2>3
<1>8. CASE Append(p, IF ok THEN "cleanup_complete" ELSE "cleanup_pending", t, None, next, Idle)
  <2>1. Clean => ok
    BY <1>2, NoneTracked
  <2>2. Permitted(p, t, None)
    BY <1>2, <1>3, <2>1 DEF Permitted
  <2>3. /\ Sound(p)
        /\ \/ snap' = t /\ pr'[p] \in {next, Idle}
           \/ pr'[p] = Idle
    BY <1>1, <1>3, <1>4, <1>5, <1>8, <2>2, AppendedStep
  <2>4. CASE pr'[p].pc \in {"idle", "fail"}
    BY <2>3, <2>4, FreeOwn, ValidationPcs
  <2>5. CASE snap' = t /\ pr'[p] = next /\ next.pc = "expire"
    BY <1>2, <1>3, <1>4, <2>3, <2>5
       DEF Own, ContainerOK, ClosingOK, RunOK, Validates, ValidatingPcs, At, Clean, Terminal
  <2>. QED  BY <1>3, <1>4, <2>3, <2>4, <2>5
<1>. QED  BY <1>6, <1>7, <1>8

LEMMA ClosingTracks ==
  ASSUME IInv, JInv, [Log!Next]_chain, NEW p \in Procs, Closing(p)
  PROVE  Sound(p) /\ Own(p)'
<1>1. CASE PersistProposalFailure(p)
  <2>1. LockFree /\ UNCHANGED <<files, docker>>
    BY <1>1 DEF PersistProposalFailure, Enter
  <2>2. CASE /\ snap.state \in {"GENERATING", "VALIDATING"}
             /\ CloseSession(p, "failed", Fail(snap))
    BY <2>1, <2>2, CloseTracks, Edited DEF Open, Terminal, Log!TerminalStates
  <2>3. CASE Leave(p, Idle)
    BY <2>1, <2>3, FreeStep, Detours, ValidationPcs DEF Leave, Resume
  <2>. QED  BY <1>1, <2>2, <2>3 DEF PersistProposalFailure
<1>. QED  BY <1>1, SweepTracks, SettleTracks, PayloadTracks, RecordTracks DEF Closing

LEMMA DecisionTracks ==
  ASSUME IInv, JInv, [Log!Next]_chain, NEW p \in Procs, Decision(p)
  PROVE  Sound(p) /\ Own(p)'
<1>1. CASE Approve(p)
  <2>. DEFINE t == [snap EXCEPT !.state = "APPROVED", !.approval = [candidate |-> snap.candidate]]
  <2>1. /\ Open /\ t.state = "APPROVED" /\ Append(p, "approved", t, lease, Idle, Idle)
        /\ snap.state = "VALIDATED" /\ UNCHANGED <<files, docker>> /\ LockFree
    BY <1>1, Edited DEF Approve, Enter, Open, Terminal, Log!TerminalStates
  <2>. HIDE DEF t
  <2>2. Permitted(p, t, lease)
    BY <2>1, OpenEvent DEF Log!TerminalStates
  <2>3. Sound(p) /\ pr'[p] = Idle
    BY <2>1, <2>2, AppendedStep, Detours, ValidationPcs
  <2>. QED  BY <2>3, FreeOwn, Detours, ValidationPcs
<1>2. CASE Reject(p)
  <2>1. /\ LockFree /\ UNCHANGED <<files, docker>> /\ snap.state \in {"VALIDATED", "APPROVED"}
        /\ PersistTerminal(p, "rejected", Decided(snap, "REJECTED"), Idle)
    BY <1>2 DEF Reject, Enter
  <2>. QED  BY <2>1, Edited, LeaselessCloseTracks
<1>3. ASSUME NEW kind \in {"cancelled", "expired"}, Decide(p, kind)
      PROVE  Sound(p) /\ Own(p)'
  <2>1. LockFree /\ UNCHANGED <<files, docker>> /\ Open
    BY <1>3 DEF Decide, Enter
  <2>2. CASE Leave(p, [To("reconcile") EXCEPT !.kind = kind])
    <3>1. /\ [To("reconcile") EXCEPT !.kind = kind].pc = "reconcile"
          /\ "reconcile" \notin ValidatingPcs \cup ClosingPcs
      BY Fields, PcsListed DEF ValidatingPcs, ClosingPcs
    <3>. QED  BY <2>1, <2>2, <3>1, FreeStep DEF Leave, Resume
  <2>3. CASE CloseSession(p, kind, Decided(snap, StateOf(kind)))
    BY <2>1, <2>3, Edited, CloseTracks DEF StateOf
  <2>. QED  BY <1>3, <2>2, <2>3 DEF Decide
<1>4. CASE CloseReconciled(p)
  <2>1. At(p, "close") /\ lock = p /\ UNCHANGED <<files, docker>>
    BY <1>4, Holding, PcsListed DEF CloseReconciled, At
  <2>2. Open
    BY <2>1 DEF IInv, Fence, At, Open, Terminal, Log!TerminalStates
  <2>3. CloseSession(p, pr[p].kind, Decided(snap, StateOf(pr[p].kind)))
    BY <1>4 DEF CloseReconciled
  <2>. QED  BY <2>1, <2>2, <2>3, Edited, CloseTracks DEF StateOf
<1>. QED  BY <1>1, <1>2, <1>3, <1>4 DEF Decision

LEMMA ApplicationTracks ==
  ASSUME IInv, JInv, [Log!Next]_chain, NEW p \in Procs, Application(p), ~PushChild(p)
  PROVE  Sound(p) /\ Own(p)'
<1>. DEFINE away == [To("reconcile") EXCEPT !.kind = "applied"]
<1>1. /\ {"push", "pushing", "reconcile", "close", "idle"} \cap (ValidatingPcs \cup ClosingPcs) = {}
      /\ {"push", "pushing", "reconcile", "close", "idle"} \subseteq Pcs
  BY PcsListed DEF ValidatingPcs, ClosingPcs
<1>2. /\ To("push").pc = "push" /\ To("pushing").pc = "pushing" /\ Idle.pc = "idle"
      /\ away.pc = "reconcile" /\ [pr[p] EXCEPT !.pc = "close"].pc = "close"
  BY <1>1, Fields
<1>3. CASE Apply(p)
  <2>. DEFINE t == [snap EXCEPT !.state = "APPLYING"]
  <2>1. /\ Open /\ t.state = "APPLYING" /\ Append(p, "applying", t, lease, To("push"), Idle)
        /\ snap.state = "APPROVED" /\ UNCHANGED <<files, docker>> /\ LockFree
    BY <1>3, Edited DEF Apply, Enter, Open, Terminal, Log!TerminalStates
  <2>. HIDE DEF t
  <2>2. Permitted(p, t, lease)
    BY <2>1, OpenEvent DEF Log!TerminalStates
  <2>3. Sound(p) /\ pr'[p] \in {To("push"), Idle}
    BY <1>1, <1>2, <2>1, <2>2, AppendedStep
  <2>. QED  BY <1>1, <1>2, <2>3, FreeOwn
<1>4. CASE StartPush(p)
  <2>1. UNCHANGED <<chain, files, docker>>
    BY <1>4 DEF StartPush
  <2>2. Resume(p, To("pushing")) \/ Resume(p, away) \/ Resume(p, Idle)
    BY <1>4 DEF StartPush
  <2>. QED  BY <1>1, <1>2, <2>1, <2>2, FreeStep DEF Resume
<1>5. CASE EndPush(p)
  BY <1>1, <1>2, <1>5, FreeStep DEF EndPush, Resume
<1>6. CASE ReconcileRef(p)
  <2>. DEFINE restored == [snap EXCEPT !.state = "APPROVED"]
              applied  == [snap EXCEPT !.state = "APPLIED",
                                       !.application = [candidate |-> snap.candidate],
                                       !.cleanup_pending = TRUE]
              closing  == [pr[p] EXCEPT !.pc = "close"]
  <2>1. At(p, "reconcile") /\ lock = p /\ UNCHANGED <<files, docker>>
    BY <1>6, Holding, PcsListed DEF ReconcileRef, At
  <2>2. snap.state = "APPLYING" /\ Open
    BY <2>1 DEF IInv, Fence, At, Open, Terminal, Log!TerminalStates
  <2>3. /\ restored.state = "APPROVED"
        /\ applied.state = "APPLIED" /\ applied.cleanup_pending
        /\ closing.pc = "close"
    BY <1>2, Edited
  <2>4. \/ Leave(p, Idle)
        \/ PersistTerminal(p, "applied", applied, Idle)
        \/ Append(p, "application_conflict", restored, lease, Idle, Idle)
        \/ Append(p, "recovered", restored, lease, closing, Idle)
        \/ Append(p, "recovered", restored, lease, Idle, Idle)
    BY <1>6 DEF ReconcileRef
  <2>. HIDE DEF restored, applied, closing
  <2>5. Permitted(p, restored, lease)
    BY <2>2, <2>3, OpenEvent DEF Log!TerminalStates
  <2>6. CASE Leave(p, Idle)
    BY <1>1, <1>2, <2>1, <2>6, FreeStep DEF Leave, Resume
  <2>7. CASE PersistTerminal(p, "applied", applied, Idle)
    BY <2>1, <2>2, <2>3, <2>7, LeaselessCloseTracks
  <2>8. ASSUME NEW kind, NEW good, good.pc \in {"idle", "close"},
               Append(p, kind, restored, lease, good, Idle)
        PROVE  Sound(p) /\ Own(p)'
    <3>1. Sound(p) /\ pr'[p] \in {good, Idle}
      BY <1>1, <1>2, <2>1, <2>5, <2>8, AppendedStep
    <3>. QED  BY <1>1, <1>2, <2>8, <3>1, FreeOwn
  <2>9. CASE Append(p, "application_conflict", restored, lease, Idle, Idle)
    BY <1>2, <2>8, <2>9
  <2>10. CASE Append(p, "recovered", restored, lease, closing, Idle)
    BY <2>3, <2>8, <2>10
  <2>11. CASE Append(p, "recovered", restored, lease, Idle, Idle)
    BY <1>2, <2>8, <2>11
  <2>. QED  BY <2>4, <2>6, <2>7, <2>9, <2>10, <2>11
<1>. QED  BY <1>3, <1>4, <1>5, <1>6 DEF Application

LEMMA RetryTracks ==
  ASSUME IInv, JInv, [Log!Next]_chain, NEW p \in Procs, RetryContainer(p)
  PROVE  Sound(p) /\ Own(p)'
<1>. DEFINE loc == [pr[p] EXCEPT !.pc = "tidy"]
            t == [snap EXCEPT !.cleanup_pending = TRUE]
<1>1. At(p, "sweepLocked") /\ lock = p /\ UNCHANGED <<files, requested, runs>>
  BY Holding, PcsListed DEF RetryContainer, At
<1>2. Terminal /\ lease # None
  BY <1>1 DEF JInv, Own, ClosingOK, At
<1>3. /\ loc.pc = "tidy" /\ Idle.pc = "idle" /\ {"tidy", "idle"} \cap ValidatingPcs = {}
      /\ t.state = snap.state /\ t.cleanup_pending
  BY Fields, Edited, PcsListed DEF ValidatingPcs
<1>4. \/ lease.bound /\ live' = live \ {lease.token} /\ Leave(p, loc)
      \/ UNCHANGED live /\ Leave(p, Idle)
      \/ UNCHANGED live /\ Append(p, "cleanup_pending", t, lease, Idle, Idle)
  BY DEF RetryContainer
<1>. HIDE DEF loc, t
<1>5. CASE lease.bound /\ live' = live \ {lease.token} /\ Leave(p, loc)
  <2>1. NoContainer' /\ live' \cap requested' = {}
    BY <1>1, <1>2, <1>5 DEF JInv, ContainersTracked, NoContainer
  <2>2. snap' = snap /\ lease' = lease /\ pr' = [pr EXCEPT ![p] = loc] /\ UNCHANGED <<chain, files>>
    BY <1>1, <1>5 DEF Leave, Resume, chain
  <2>3. Sound(p) /\ pr'[p] = loc
    BY <1>1, <1>3, <1>5, <2>1, <2>2, ContainerStep
  <2>. QED  BY <1>2, <1>3, <1>5, <2>1, <2>2, <2>3
       DEF Own, ContainerOK, ClosingOK, RunOK, Validates, ValidatingPcs, At, Terminal
<1>6. CASE UNCHANGED live /\ Leave(p, Idle)
  BY <1>1, <1>6, FreeStep, Detours, ValidationPcs DEF Leave, Resume, docker
<1>7. CASE UNCHANGED live /\ Append(p, "cleanup_pending", t, lease, Idle, Idle)
  <2>1. Permitted(p, t, lease)
    BY <1>2, <1>3, NoneTracked DEF Permitted
  <2>2. Sound(p) /\ pr'[p] = Idle
    BY <1>1, <1>3, <1>7, <2>1, AppendedStep DEF docker
  <2>. QED  BY <2>2, FreeOwn, Detours, ValidationPcs
<1>. QED  BY <1>4, <1>5, <1>6, <1>7

LEMMA MaintenanceTracks ==
  ASSUME IInv, JInv, [Log!Next]_chain, NEW p \in Procs, Maintenance(p)
  PROVE  Sound(p) /\ Own(p)'
<1>. DEFINE free == {"idle", "fail", "applying", "recheck", "reconcile", "prepare", "maintain"}
            managing(pc) == [To(pc) EXCEPT !.mgr = TRUE]
<1>1. /\ free \cap (ValidatingPcs \cup ClosingPcs) = {} /\ free \subseteq Pcs
      /\ \A pc \in free : To(pc).pc = pc
      /\ Idle.pc = "idle" /\ [To("prepare") EXCEPT !.seen = snap].pc = "prepare"
  BY PcsListed, Fields DEF ValidatingPcs, ClosingPcs
<1>2. \A pc \in {"maintain", "tidy", "sweepLocked", "removing"} : managing(pc).pc = pc
  BY PcsListed, Fields
<1>3. CASE Recover(p)
  <2>1. UNCHANGED <<chain, files, docker>>
    BY <1>3 DEF Recover, Leave
  <2>2. Resume(p, To("applying")) \/ Resume(p, To("recheck")) \/ Resume(p, To("fail"))
    BY <1>3 DEF Recover, Leave
  <2>. QED  BY <1>1, <2>1, <2>2, FreeStep DEF Resume
<1>4. CASE RecoverApplying(p)
  <2>1. UNCHANGED <<chain, files, docker>>
    BY <1>4 DEF RecoverApplying, Leave
  <2>2. Resume(p, To("reconcile")) \/ Resume(p, Idle)
    BY <1>4 DEF RecoverApplying, Leave
  <2>. QED  BY <1>1, <2>1, <2>2, FreeStep DEF Resume
<1>5. CASE RecoverCandidate(p)
  <2>1. UNCHANGED <<chain, files, docker>>
    BY <1>5 DEF RecoverCandidate, Leave
  <2>2. \/ Resume(p, Idle) \/ Resume(p, To("fail"))
        \/ Resume(p, [To("prepare") EXCEPT !.seen = snap])
    BY <1>5 DEF RecoverCandidate, Leave
  <2>. QED  BY <1>1, <2>1, <2>2, FreeStep DEF Resume
<1>6. CASE Cleanup(p)
  BY <1>1, <1>2, <1>6, FreeStep DEF Cleanup, Goto
<1>7. CASE CleanupSession(p)
  <2>1. UNCHANGED <<chain, files, docker>>
    BY <1>7 DEF CleanupSession, Leave
  <2>2. CASE Resume(p, Idle)
    BY <1>1, <2>1, <2>2, FreeStep DEF Resume
  <2>3. CASE Terminal /\ lease = None /\ Resume(p, managing("tidy"))
    BY <1>2, <2>1, <2>3, TidyStep, NoneTracked DEF Resume
  <2>4. CASE Terminal /\ lease # None /\ Resume(p, managing("sweepLocked"))
    <3>1. Sound(p) /\ pr'[p].pc = "sweepLocked" /\ snap' = snap /\ lease' = lease
      BY <1>2, <2>1, <2>4, QuietStep DEF Resume, ValidatingPcs, chain
    <3>. QED  BY <2>4, <3>1
         DEF Own, ContainerOK, ClosingOK, RunOK, Validates, ValidatingPcs, At, Terminal
  <2>. QED  BY <1>7, <2>2, <2>3, <2>4 DEF CleanupSession, Leave, Open
<1>8. CASE RetryContainer(p)
  BY <1>8, RetryTracks
<1>9. CASE RemoveExpired(p)
  <2>1. At(p, "expire") /\ UNCHANGED <<chain, docker>> /\ Clean
    BY <1>9 DEF RemoveExpired, JInv, Own, ClosingOK, At
  <2>2. CASE Goto(p, Idle) /\ UNCHANGED <<store, private>>
    BY <1>1, <2>1, <2>2, FreeStep DEF Goto, files
  <2>3. CASE LockFree /\ private' = "gone" /\ Resume(p, managing("removing"))
    <3>1. Sound(p) /\ pr'[p].pc = "removing" /\ snap' = snap
      BY <1>2, <2>1, <2>3, RemovalStep DEF Resume, ValidatingPcs, chain, Clean
    <3>. QED  BY <2>1, <3>1
         DEF Own, ContainerOK, ClosingOK, RunOK, Validates, ValidatingPcs, At, Clean, Terminal
  <2>. QED  BY <1>9, <2>2, <2>3 DEF RemoveExpired
<1>10. CASE FinishRemoval(p)
  <2>1. At(p, "removing") /\ lock = p /\ UNCHANGED <<chain, private, docker>> /\ Clean
    BY <1>10, Holding, PcsListed DEF FinishRemoval, JInv, Own, ClosingOK, At
  <2>2. Sound(p) /\ pr'[p] = Idle
    BY <1>1, <1>10, <2>1, RemovalStep DEF FinishRemoval, Resume, Clean
  <2>. QED  BY <1>1, <2>2, FreeOwn
<1>. QED  BY <1>3, <1>4, <1>5, <1>6, <1>7, <1>8, <1>9, <1>10 DEF Maintenance

(* A call that fails, a crash, and the daemon.                             *)
LEMMA EnvironmentTracks ==
  ASSUME IInv, JInv, NEW p \in Procs, CallFails(p) \/ Crash(p) \/ DaemonSettles(p)
  PROVE  Sound(p) /\ Own(p)'
<1>1. CASE CallFails(p)
  <2>. DEFINE pc == OnError[pr[p].pc]
              undoing == [pr[p] EXCEPT !.pc = pc, !.then = "fail"]
  <2>1. /\ UNCHANGED <<chain, files, docker>>
        /\ \/ pc \in {"unregister", "discard"} /\ Goto(p, undoing)
           \/ pc \in {"idle", "fail"} /\ Goto(p, To(pc))
    BY <1>1 DEF CallFails, OnError
  <2>2. CASE pc \in {"idle", "fail"} /\ Goto(p, To(pc))
    <3>1. To(pc).pc = pc
      BY <2>2, Fields, ValidationPcs
    <3>. QED  BY <2>1, <2>2, <3>1, FreeStep, ValidationPcs DEF Goto
  <2>3. CASE pc \in {"unregister", "discard"} /\ Goto(p, undoing)
    <3>1. undoing.pc = pc
      BY <2>3, Fields, PcsListed
    <3>2. pr[p].pc \in {"bind", "verdict"}
      BY <1>1, <2>3 DEF CallFails, OnError
    <3>. HIDE DEF undoing, pc
    <3>3. /\ requested = {} /\ snap.state \notin {"CREATED", "GENERATING"} /\ Validates(p)
          /\ lease # None => lease.token = p
      BY <3>2 DEF JInv, Own, ContainerOK, Validates, ValidatingPcs, At
    <3>4. Sound(p) /\ pr'[p] = undoing
      BY <2>1, <2>3, <3>3, QuietStep DEF Goto
    <3>5. snap' = snap /\ requested' = requested /\ lease' = lease
      BY <2>1 DEF chain, docker
    <3>6. pr'[p].pc \in {"unregister", "discard"}
      BY <2>3, <3>1, <3>4
    <3>. QED  BY <3>3, <3>4, <3>5, <3>6
         DEF Own, ContainerOK, ClosingOK, RunOK, Validates, ValidatingPcs, At
  <2>. QED  BY <2>1, <2>2, <2>3
<1>2. CASE Crash(p)
  BY <1>2, FreeStep, Detours, ValidationPcs DEF Crash
<1>3. CASE DaemonSettles(p)
  <2>1. /\ p \in requested /\ requested' = requested \ {p} /\ live' \subseteq live \cup {p}
        /\ snap' = snap /\ lease' = lease /\ private' = private /\ store' = store
        /\ pr' = pr /\ runs' = runs /\ UNCHANGED <<chain, files>>
    BY <1>3 DEF DaemonSettles, chain, files
  <2>2. Gentle(p)
    BY <2>1 DEF Gentle, Clean
  <2>3. Sound(p)
    BY <2>1, <2>2 DEF Sound, JInv, ContainersTracked, Validates, Clean, Terminal
  <2>4. (NoContainer => NoContainer') /\ (requested = {} => requested' = {})
    BY <2>1 DEF NoContainer
  <2>5. Own(p)
    BY DEF JInv
  <2>6. ContainerOK(p)' /\ RunOK(p)'
    BY <2>1, <2>4, <2>5 DEF Own, ContainerOK, RunOK, Validates, Unbound, At
  <2>7. ClosingOK(p)'
    BY <2>1, <2>4, <2>5 DEF Own, ClosingOK, At, Clean, Terminal
  <2>. QED  BY <2>3, <2>6, <2>7 DEF Own
<1>. QED  BY <1>1, <1>2, <1>3

-----------------------------------------------------------------------------
LEMMA InitEstablishesJInv == Init => JInv
<1>. SUFFICES ASSUME Init PROVE JInv
  OBVIOUS
<1>1. /\ snap = Log!Created /\ lease = None /\ private = "whole" /\ store = "present"
      /\ live = {} /\ requested = {} /\ runs = 0
      /\ \A p \in Procs : pr[p].pc = "idle"
  BY Exits DEF Init, Log!Init
<1>2. snap.state = "CREATED"
  BY <1>1 DEF Log!Created
<1>3. \A p \in Procs : Own(p)
  BY <1>1, <1>2 DEF Own, ContainerOK, ClosingOK, RunOK, Validates, ValidatingPcs, At
<1>4. Log!LeaseIsOwed /\ ContainersTracked /\ OneValidates
  BY <1>1 DEF Log!LeaseIsOwed, ContainersTracked, OneValidates, Validates, ValidatingPcs
<1>5. RemovalIsSafe /\ RunsAreAccounted /\ RunsCounted
  BY <1>1, <1>2
     DEF RemovalIsSafe, PayloadKeptWhileOpen, CleanIsClean, RemovedIsClean, Terminal, Open,
         Log!TerminalStates, RunsAreAccounted, AtMostOneRun, ValidatedWasRun, RunsCounted
<1>. QED  BY <1>3, <1>4, <1>5 DEF JInv

(* Every step of every process keeps the invariant.                        *)
LEMMA StepTracks == IInv /\ JInv /\ [Next]_vars => JInv'
<1>. SUFFICES ASSUME IInv, JInv, [Next]_vars PROVE JInv'
  OBVIOUS
<1>1. [Log!Next]_chain
  BY StepKeeps
<1>2. ASSUME NEW p \in Procs, Sound(p), Own(p)' PROVE JInv'
  BY <1>1, <1>2, Concluded
<1>3. ASSUME NEW p \in Procs,
             \/ Proposal(p) \/ Validation(p) \/ Closing(p)
             \/ Decision(p) \/ (Application(p) /\ ~PushChild(p)) \/ Maintenance(p)
             \/ CallFails(p) \/ Crash(p) \/ DaemonSettles(p)
      PROVE  Sound(p) /\ Own(p)'
  BY <1>1, <1>3, ProposalTracks, ValidationTracks, ClosingTracks, DecisionTracks,
     ApplicationTracks, MaintenanceTracks, EnvironmentTracks
<1>4. CASE \E p \in Procs : PushChild(p)
  BY <1>4, Untouched DEF PushChild
<1>5. CASE ForeignRef \/ UNCHANGED vars
  BY <1>5, Untouched DEF ForeignRef, vars
<1>. QED  BY <1>2, <1>3, <1>4, <1>5 DEF Next

(* Containers are named by the lease, one process validates, the candidate *)
(* runs once, and a session is removed only when it is closed and clean,   *)
(* for any processes and any roles.                                        *)
THEOREM CleanupInvariant == Spec => [](IInv /\ JInv)
<1>1. IInv /\ JInv /\ [Next]_vars => (IInv /\ JInv)'
  BY StepKeeps, StepTracks
<1>2. Init => IInv /\ JInv
  BY InitEstablishesIInv, InitEstablishesJInv
<1>. QED  BY <1>1, <1>2, PTL DEF Spec

(* Every container that exists, or that the daemon may still create, is    *)
(* named by the lease of a session that is still there: no crash, failed   *)
(* call or concurrent cleanup leaves a container that nobody knows of.     *)
THEOREM NoContainerIsUntracked == Spec => []NoUntrackedContainer
<1>1. JInv => NoUntrackedContainer
  <2>. SUFFICES ASSUME JInv, NEW t \in live \cup requested
                PROVE  store = "present" /\ lease # None /\ lease.token = t
    BY DEF NoUntrackedContainer
  <2>1. lease # None /\ lease.token = t
    BY DEF JInv, ContainersTracked
  <2>2. ~Clean
    BY NoneTracked DEF NoContainer
  <2>. QED  BY <2>1, <2>2 DEF JInv, RemovalIsSafe, RemovedIsClean, Clean
<1>. QED  BY <1>1, CleanupInvariant, PTL

(* The candidate is executed at most once, and no session is validated,    *)
(* approved or applied whose candidate was never executed, through any     *)
(* crashes and recoveries.                                                 *)
THEOREM RunsAreAlwaysAccounted == Spec => []RunsAreAccounted
<1>1. JInv => RunsAreAccounted
  BY DEF JInv
<1>. QED  BY <1>1, CleanupInvariant, PTL

(* An open session keeps its payload, a session reported clean has nothing *)
(* left, and only a closed and clean session is deleted.                   *)
THEOREM RemovalIsAlwaysSafe == Spec => []RemovalIsSafe
<1>1. JInv => RemovalIsSafe
  BY DEF JInv
<1>. QED  BY <1>1, CleanupInvariant, PTL

-----------------------------------------------------------------------------
(***************************************************************************)
(* No process ever asks the store for an event that it refuses.            *)
(*                                                                         *)
(* The flows of the workflow and the tables of the store are written apart *)
(* from each other.  For every place that appends an event the proof shows *)
(* that what its guards establish, what the process knows since it took    *)
(* the lock, and what every chain guarantees satisfy the rule of that kind.*)
(***************************************************************************)

(* What the chain guarantees of its last snapshot and lease.               *)
Recorded ==
  /\ Log!SnapshotShape(snap)
  /\ lease # None => Log!LeaseMatches(lease, snap)
  /\ Log!RecordsAreInOrder

(* A process that is about to record a cleanup has closed the session, or  *)
(* is a maintenance that looks first; one that is about to close a session *)
(* after it read the ref back was asked to cancel or to expire it.         *)
Due(p) ==
  /\ pr[p].pc \in {"tidy", "tidied"} => snap.cleanup_pending \/ pr[p].mgr
  /\ At(p, "close") => pr[p].kind \in {"cancelled", "expired"}

(* The inductive invariant; IInv and JInv hold beside it.                  *)
KInv == Recorded /\ NoEventRefused /\ \A p \in Procs : Due(p)

-----------------------------------------------------------------------------
(* The chain.                                                              *)

LEMMA PairsOfKind ==
  ASSUME NEW kind \in Log!Kinds, NEW a, NEW b, Log!EventStatePairIsValid(kind, a, b)
  PROVE
    /\ b \in {"CREATED", "GENERATING"} =>
         kind \in {"generating", "candidate"} /\ a \in {"CREATED", "GENERATING"}
    /\ b \in {"CREATED", "GENERATING", "VALIDATING", "VALIDATED", "FAILED"} =>
         /\ kind # "approved"
         /\ a \in {"CREATED", "GENERATING", "VALIDATING", "VALIDATED", "FAILED"}
BY DEF Log!EventStatePairIsValid, Log!EventStatePairs, Log!Same, Log!Kinds, Log!TerminalStates

LEMMA EventRecords ==
  ASSUME Recorded, NEW kind \in Log!Kinds, Log!AppendEvent(kind)
  PROVE  Recorded'
<1>1. /\ Log!SnapshotShape(snap')
      /\ Log!ValidationRunUpdateIsValid(kind, snap, snap', lease, lease')
      /\ Log!SnapshotUpdateIsValid(kind, snap, snap')
      /\ Log!EventStatePairIsValid(kind, snap.state, snap'.state)
  BY DEF Log!AppendEvent, Log!EventIsValid
<1>2. Log!SnapshotShape(snap)'
  BY <1>1
<1>3. (lease # None => Log!LeaseMatches(lease, snap))'
  BY <1>1 DEF Log!ValidationRunUpdateIsValid
<1>4. Log!IntentHasNoVerdict'
  <2>. SUFFICES ASSUME lease' # None, ~lease'.bound
                PROVE  snap'.validation = None
    BY DEF Log!IntentHasNoVerdict
  <2>1. CASE kind \in Log!LeaseKinds
    BY <1>1, <2>1
       DEF Log!ValidationRunUpdateIsValid, Log!IntentRegistered, Log!RunBound,
           Log!IntentAbandoned, Log!ResultOfRun, Log!LeaseKinds
  <2>2. CASE kind \notin Log!LeaseKinds
    <3>1. snap'.validation = snap.validation
      BY <1>1, <2>2, KindsListed
         DEF Log!SnapshotUpdateIsValid, Log!EventSnapshotChanges, Log!Changed,
             Log!MutableFields, Log!LeaseKinds
    <3>2. lease' = lease
      BY <1>1, <2>2 DEF Log!ValidationRunUpdateIsValid, Log!LeaseCarried
    <3>. QED  BY <3>1, <3>2 DEF Recorded, Log!RecordsAreInOrder, Log!IntentHasNoVerdict
  <2>. QED  BY <2>1, <2>2
<1>5. Log!RecordsAreTimely'
  <2>1. ASSUME snap'.state \in {"CREATED", "GENERATING"}
        PROVE  snap'.validation = None
    <3>1. kind \in {"generating", "candidate"} /\ snap.state \in {"CREATED", "GENERATING"}
      BY <1>1, <2>1, PairsOfKind
    <3>2. snap'.validation = snap.validation
      BY <1>1, <3>1 DEF Log!SnapshotUpdateIsValid, Log!EventSnapshotChanges, Log!Changed,
                        Log!MutableFields
    <3>. QED  BY <3>1, <3>2 DEF Recorded, Log!RecordsAreInOrder, Log!RecordsAreTimely
  <2>2. ASSUME snap'.state \in {"CREATED", "GENERATING", "VALIDATING", "VALIDATED", "FAILED"}
        PROVE  snap'.approval = None
    <3>1. /\ kind # "approved"
          /\ snap.state \in {"CREATED", "GENERATING", "VALIDATING", "VALIDATED", "FAILED"}
      BY <1>1, <2>2, PairsOfKind
    <3>2. snap'.approval = snap.approval
      BY <1>1, <3>1, KindsListed
         DEF Log!SnapshotUpdateIsValid, Log!EventSnapshotChanges, Log!Changed, Log!MutableFields
    <3>. QED  BY <3>1, <3>2 DEF Recorded, Log!RecordsAreInOrder, Log!RecordsAreTimely
  <2>. QED  BY <2>1, <2>2 DEF Log!RecordsAreTimely
<1>. QED  BY <1>2, <1>3, <1>4, <1>5 DEF Recorded, Log!RecordsAreInOrder

LEMMA ChainRecords == Recorded /\ [Log!Next]_chain => Recorded'
<1>. SUFFICES ASSUME Recorded, [Log!Next]_chain PROVE Recorded'
  OBVIOUS
<1>1. CASE UNCHANGED chain
  BY <1>1 DEF chain, Recorded, Log!SnapshotShape, Log!LeaseMatches, Log!RecordsAreInOrder,
              Log!IntentHasNoVerdict, Log!RecordsAreTimely
<1>. QED  BY <1>1, EventRecords DEF Log!Next

-----------------------------------------------------------------------------
(* Snapshots and leases the actions build.                                 *)

(* An open session is undecided.                                           *)
LEMMA Undecided ==
  ASSUME IInv, Recorded, Open
  PROVE  /\ snap.decision = None /\ snap.failure = FALSE /\ snap.application = None
         /\ snap.cleanup_pending = FALSE
<1>1. snap \in Log!Snapshots
  BY DEF IInv, TypeOK, Log!TypeOK
<1>. QED  BY <1>1 DEF Recorded, Log!SnapshotShape, Log!Snapshots, Log!Decisions, Open, Terminal,
                      Log!TerminalStates

(* No record is the absent one.                                            *)
LEMMA RecordsExist ==
  ASSUME IInv, NEW p \in Procs, NEW b \in BOOLEAN, NEW c \in Procs \cup {None}
  PROVE  /\ [candidate |-> c, token |-> p, bound |-> b] # None
         /\ [candidate |-> c, success |-> b] # None
BY RecordsAssumption

(* An event that changes the state alone.                                  *)
LEMMA MoveIsValid ==
  ASSUME IInv, Recorded, Open, NEW st, NEW m, st \notin Log!TerminalStates,
         NEW kind \in {"generating", "validating", "validated", "applying",
                       "application_conflict", "recovered"},
         Log!EventStatePairIsValid(kind, snap.state, st),
         st = "VALIDATING" => snap.candidate # None,
         st = "VALIDATED" => snap.validation # None /\ snap.validation.success,
         lease = None \/ kind = "validated", m = None
  PROVE  Log!EventIsValid(kind, snap, lease, [snap EXCEPT !.state = st], m)
<1>. DEFINE t == [snap EXCEPT !.state = st]
<1>2. /\ t.state = st
      /\ t.candidate = snap.candidate /\ t.validation = snap.validation
      /\ t.approval = snap.approval /\ t.application = snap.application
      /\ t.decision = snap.decision /\ t.failure = snap.failure
      /\ t.cleanup_pending = snap.cleanup_pending
  <2>1. snap \in Log!Snapshots
    BY DEF IInv, TypeOK, Log!TypeOK
  <2>. QED  BY <2>1 DEF Log!Snapshots
<1>. HIDE DEF t
<1>3. \/ snap.state = "CREATED" /\ st = "GENERATING"
      \/ snap.state = "GENERATING" /\ st = "VALIDATING"
      \/ snap.state = "VALIDATING" /\ st = "VALIDATED"
      \/ snap.state = "APPROVED" /\ st = "APPLYING"
      \/ snap.state = "APPLYING" /\ st = "APPROVED"
  BY DEF Log!EventStatePairIsValid, Log!EventStatePairs
<1>4. Log!SnapshotShape(t)
  <2>1. /\ snap.decision = None /\ snap.failure = FALSE /\ snap.cleanup_pending = FALSE
        /\ snap.application = None
    BY Undecided
  <2>2. Log!SnapshotShape(snap)
    BY DEF Recorded
  <2>. QED  BY <1>2, <1>3, <2>1, <2>2 DEF Log!SnapshotShape
<1>5. Log!SnapshotUpdateIsValid(kind, snap, t)
  BY <1>2 DEF Log!SnapshotUpdateIsValid, Log!Changed, Log!EventSnapshotChanges, Log!MutableFields
<1>6. Log!ValidationRunUpdateIsValid(kind, snap, t, lease, m)
  BY DEF Recorded, Log!ValidationRunUpdateIsValid, Log!LeaseKinds, Log!LeaseCarried
<1>. QED  BY <1>2, <1>4, <1>5, <1>6 DEF Log!EventIsValid, t

(* Candidate, verdict and approval.                                        *)
LEMMA CandidateIsValid ==
  ASSUME IInv, JInv, Recorded, snap.state = "GENERATING", snap.candidate = None, NEW p \in Procs
  PROVE  Log!EventIsValid("candidate", snap, lease, [snap EXCEPT !.candidate = p], lease)
<1>. DEFINE t == [snap EXCEPT !.candidate = p]
<1>1. /\ t.state = snap.state /\ t.candidate = p /\ t.validation = snap.validation
      /\ t.approval = snap.approval /\ t.application = snap.application
      /\ t.decision = snap.decision /\ t.failure = snap.failure
      /\ t.cleanup_pending = snap.cleanup_pending
  <2>1. snap \in Log!Snapshots
    BY DEF IInv, TypeOK, Log!TypeOK
  <2>. QED  BY <2>1 DEF Log!Snapshots
<1>. HIDE DEF t
<1>3. lease = None /\ p # None
  BY Leaseless, RolesAssumption
<1>4. Log!SnapshotShape(t)
  <2>1. snap.validation = None /\ snap.approval = None
    BY DEF Recorded, Log!RecordsAreInOrder, Log!RecordsAreTimely
  <2>2. snap.decision = None /\ snap.failure = FALSE /\ snap.cleanup_pending = FALSE /\ snap.application = None
    BY Undecided DEF Open, Terminal, Log!TerminalStates
  <2>. QED  BY <1>1, <2>1, <2>2 DEF Log!SnapshotShape
<1>5. Log!SnapshotUpdateIsValid("candidate", snap, t)
  <2>1. Log!Changed(snap, t) = {"candidate"}
    BY <1>1, <1>3 DEF Log!Changed, Log!MutableFields
  <2>. QED  BY <1>1, <1>3, <2>1
       DEF Log!SnapshotUpdateIsValid, Log!EventSnapshotChanges, Log!FirstWrite, Log!Created
<1>6. Log!ValidationRunUpdateIsValid("candidate", snap, t, lease, lease)
  BY <1>3 DEF Log!ValidationRunUpdateIsValid, Log!LeaseKinds, Log!LeaseCarried
<1>7. Log!EventStatePairIsValid("candidate", snap.state, t.state)
  BY <1>1 DEF Log!EventStatePairIsValid, Log!EventStatePairs, Log!Same, Log!CanTransitionOrSame
<1>. QED  BY <1>4, <1>5, <1>6, <1>7 DEF Log!EventIsValid, t

LEMMA VerdictIsValid ==
  ASSUME IInv, Recorded, snap.state = "VALIDATING", snap.validation = None,
         NEW p \in Procs, lease = Mine(p, TRUE), snap.candidate = pr[p].seen.candidate
  PROVE  Log!EventIsValid("validation_result", snap, lease,
                          [snap EXCEPT !.validation = Verdict(p)], lease)
<1>. DEFINE t == [snap EXCEPT !.validation = Verdict(p)]
<1>1. /\ t.state = snap.state /\ t.validation = Verdict(p) /\ t.candidate = snap.candidate
      /\ t.approval = snap.approval /\ t.application = snap.application
      /\ t.decision = snap.decision /\ t.failure = snap.failure
      /\ t.cleanup_pending = snap.cleanup_pending
  <2>1. snap \in Log!Snapshots
    BY DEF IInv, TypeOK, Log!TypeOK
  <2>. QED  BY <2>1 DEF Log!Snapshots
<1>. HIDE DEF t
<1>3. /\ snap.candidate \in Procs \cup {None} /\ pr[p].passed \in BOOLEAN
      /\ snap.candidate # None
  BY DEF IInv, TypeOK, Log!TypeOK, Log!Snapshots, ControlOK, Locals, Recorded, Log!SnapshotShape
<1>4. lease # None /\ Verdict(p) # None /\ Verdict(p).candidate = snap.candidate /\ lease.bound
  BY <1>3, RecordsExist DEF Mine, Verdict
<1>5. Log!SnapshotShape(t)
  <2>1. snap.approval = None
    BY DEF Recorded, Log!RecordsAreInOrder, Log!RecordsAreTimely
  <2>2. snap.decision = None /\ snap.failure = FALSE /\ snap.cleanup_pending = FALSE /\ snap.application = None
    BY Undecided DEF Open, Terminal, Log!TerminalStates
  <2>. QED  BY <1>1, <1>3, <1>4, <2>1, <2>2 DEF Log!SnapshotShape
<1>6. Log!SnapshotUpdateIsValid("validation_result", snap, t)
  <2>1. Log!Changed(snap, t) = {"validation"}
    BY <1>1, <1>4 DEF Log!Changed, Log!MutableFields
  <2>. QED  BY <1>1, <1>4, <2>1
       DEF Log!SnapshotUpdateIsValid, Log!EventSnapshotChanges, Log!FirstWrite, Log!Created
<1>7. Log!ValidationRunUpdateIsValid("validation_result", snap, t, lease, lease)
  BY <1>1, <1>4 DEF Recorded, Log!ValidationRunUpdateIsValid, Log!LeaseKinds, Log!LeaseMatches,
                          Log!ResultOfRun
<1>8. Log!EventStatePairIsValid("validation_result", snap.state, t.state)
  BY <1>1 DEF Log!EventStatePairIsValid, Log!EventStatePairs, Log!Same, Log!CanTransitionOrSame
<1>. QED  BY <1>5, <1>6, <1>7, <1>8 DEF Log!EventIsValid, t

LEMMA ApprovalIsValid ==
  ASSUME IInv, JInv, Recorded, snap.state = "VALIDATED"
  PROVE  Log!EventIsValid("approved", snap, lease,
                          [snap EXCEPT !.state = "APPROVED",
                                       !.approval = [candidate |-> snap.candidate]], lease)
<1>. DEFINE a == [candidate |-> snap.candidate]
<1>2. a # None /\ a.candidate = snap.candidate
  <2>1. snap.candidate \in Procs \cup {None}
    BY DEF IInv, TypeOK, Log!TypeOK, Log!Snapshots
  <2>. QED  BY <2>1, RecordsAssumption
<1>. HIDE DEF a
<1>. DEFINE t == [snap EXCEPT !.state = "APPROVED", !.approval = a]
<1>1. /\ t.state = "APPROVED" /\ t.approval = a
      /\ \A f \in Log!MutableFields \ {"approval"} : t[f] = snap[f]
  <2>1. snap \in Log!Snapshots
    BY DEF IInv, TypeOK, Log!TypeOK
  <2>. QED  BY <2>1 DEF Log!Snapshots, Log!MutableFields
<1>. HIDE DEF t
<1>3. /\ t.candidate = snap.candidate /\ t.validation = snap.validation
      /\ t.application = snap.application
      /\ t.decision = snap.decision /\ t.failure = snap.failure
      /\ t.cleanup_pending = snap.cleanup_pending
  BY <1>1 DEF Log!MutableFields
<1>4. /\ snap.decision = None /\ snap.failure = FALSE /\ snap.cleanup_pending = FALSE
      /\ snap.application = None
  BY Undecided DEF Open, Terminal, Log!TerminalStates
<1>5. Log!SnapshotShape(t)
  BY <1>1, <1>2, <1>3, <1>4 DEF Recorded, Log!SnapshotShape
<1>6. snap.approval = None /\ lease = None
  BY Leaseless DEF Recorded, Log!RecordsAreInOrder, Log!RecordsAreTimely
<1>7. Log!SnapshotUpdateIsValid("approved", snap, t)
  <2>1. Log!Changed(snap, t) = {"approval"}
    BY <1>1, <1>2, <1>6 DEF Log!Changed, Log!MutableFields
  <2>. QED  BY <1>1, <1>2, <1>6, <2>1
       DEF Log!SnapshotUpdateIsValid, Log!EventSnapshotChanges, Log!FirstWrite, Log!Created
<1>8. Log!ValidationRunUpdateIsValid("approved", snap, t, lease, lease)
  BY <1>6 DEF Log!ValidationRunUpdateIsValid, Log!LeaseKinds, Log!LeaseCarried
<1>9. Log!EventStatePairIsValid("approved", snap.state, t.state)
  BY <1>1 DEF Log!EventStatePairIsValid, Log!EventStatePairs, Log!CanTransitionOrSame,
              Log!CanTransition, Log!Transitions
<1>. QED  BY <1>5, <1>7, <1>8, <1>9 DEF Log!EventIsValid, t, a
(* The terminal events.                                                    *)
LEMMA FailureIsValid ==
  ASSUME IInv, Recorded, snap.state \in {"GENERATING", "VALIDATING"}, NEW m, m \in {lease, None}
  PROVE  Log!EventIsValid("failed", snap, lease, Fail(snap), m)
<1>. DEFINE t == Fail(snap)
<1>1. /\ t.state = "FAILED" /\ t.failure = TRUE /\ t.cleanup_pending = TRUE
      /\ t.candidate = snap.candidate /\ t.validation = snap.validation
      /\ t.approval = snap.approval /\ t.application = snap.application
      /\ t.decision = snap.decision
  <2>1. snap \in Log!Snapshots
    BY DEF IInv, TypeOK, Log!TypeOK
  <2>. QED  BY <2>1 DEF Log!Snapshots, Fail
<1>. HIDE DEF t
<1>2. /\ snap.decision = None /\ snap.failure = FALSE /\ snap.cleanup_pending = FALSE
      /\ snap.application = None
  BY Undecided DEF Open, Terminal, Log!TerminalStates
<1>3. Log!SnapshotShape(t)
  BY <1>1, <1>2 DEF Recorded, Log!SnapshotShape, Log!TerminalStates
<1>4. Log!SnapshotUpdateIsValid("failed", snap, t)
  <2>1. Log!Changed(snap, t) = {"failure", "cleanup_pending"}
    BY <1>1, <1>2 DEF Log!Changed, Log!MutableFields
  <2>. QED  BY <1>1, <1>2, <2>1
       DEF Log!SnapshotUpdateIsValid, Log!EventSnapshotChanges, Log!FirstWrite, Log!Created
<1>5. Log!ValidationRunUpdateIsValid("failed", snap, t, lease, m)
  BY <1>1 DEF Recorded, Log!ValidationRunUpdateIsValid, Log!LeaseMatches, Log!LeaseKinds,
              Log!LeaseCarried, Log!LeaseCarryStates
<1>6. Log!EventStatePairIsValid("failed", snap.state, t.state)
  BY <1>1 DEF Log!EventStatePairIsValid, Log!EventStatePairs, Log!CanTransitionOrSame,
              Log!CanTransition, Log!Transitions
<1>. QED  BY <1>3, <1>4, <1>5, <1>6 DEF Log!EventIsValid, t

LEMMA DecisionIsValid ==
  ASSUME IInv, JInv, Recorded, Open, snap.state # "APPLYING",
         NEW kind, NEW st,
         \/ kind = "rejected" /\ st = "REJECTED" /\ snap.state \in {"VALIDATED", "APPROVED"}
         \/ kind = "cancelled" /\ st = "CANCELLED"
         \/ kind = "expired" /\ st = "EXPIRED"
  PROVE  Log!EventIsValid(kind, snap, lease, Decided(snap, st), lease)
<1>. DEFINE d == [state |-> st, candidate |-> snap.candidate]
<1>1. d # None /\ d.state = st /\ d.candidate = snap.candidate
  <2>1. snap.candidate \in Procs \cup {None}
    BY DEF IInv, TypeOK, Log!TypeOK, Log!Snapshots
  <2>2. d \in Log!Decisions
    BY <2>1 DEF Log!Decisions
  <2>. QED  BY <2>2, RecordsAssumption
<1>. DEFINE t == Decided(snap, st)
<1>2. /\ t.state = st /\ t.cleanup_pending = TRUE /\ t.decision = d
      /\ t.candidate = snap.candidate /\ t.validation = snap.validation
      /\ t.approval = snap.approval /\ t.application = snap.application
      /\ t.failure = snap.failure
  <2>1. snap \in Log!Snapshots
    BY DEF IInv, TypeOK, Log!TypeOK
  <2>. QED  BY <2>1 DEF Log!Snapshots, Decided
<1>. HIDE DEF t, d
<1>3. /\ snap.decision = None /\ snap.failure = FALSE /\ snap.cleanup_pending = FALSE
      /\ snap.application = None
  BY Undecided
<1>4. snap.state \in {"CREATED", "GENERATING", "VALIDATING", "VALIDATED", "APPROVED"}
  BY DEF IInv, TypeOK, Log!TypeOK, Log!Snapshots, Log!States, Open, Terminal, Log!TerminalStates
<1>5. Log!SnapshotShape(t)
  BY <1>1, <1>2, <1>3 DEF Recorded, Log!SnapshotShape, Log!TerminalStates
<1>6. Log!SnapshotUpdateIsValid(kind, snap, t)
  <2>1. Log!Changed(snap, t) = {"decision", "cleanup_pending"}
    BY <1>1, <1>2, <1>3 DEF Log!Changed, Log!MutableFields
  <2>2. Log!EventSnapshotChanges[kind] = {"decision", "cleanup_pending"}
    BY DEF Log!EventSnapshotChanges
  <2>. QED  BY <1>1, <1>2, <1>3, <2>1, <2>2
       DEF Log!SnapshotUpdateIsValid, Log!FirstWrite, Log!Created
<1>7. Log!ValidationRunUpdateIsValid(kind, snap, t, lease, lease)
  <2>1. lease # None => st \in {"CANCELLED", "EXPIRED"}
    BY Leaseless
  <2>2. kind \in {"rejected", "cancelled", "expired"}
    OBVIOUS
  <2>. QED  BY <1>2, <2>1, <2>2
       DEF Recorded, Log!ValidationRunUpdateIsValid, Log!LeaseMatches, Log!LeaseKinds,
           Log!LeaseCarried, Log!LeaseCarryStates
<1>8. Log!EventStatePairIsValid(kind, snap.state, t.state)
  BY <1>2, <1>4 DEF Log!EventStatePairIsValid, Log!EventStatePairs, Log!CanTransitionOrSame,
              Log!CanTransition, Log!Transitions
<1>. QED  BY <1>5, <1>6, <1>7, <1>8 DEF Log!EventIsValid, t

LEMMA ApplicationIsValid ==
  ASSUME IInv, JInv, Recorded, snap.state = "APPLYING"
  PROVE  Log!EventIsValid("applied", snap, lease,
                          [snap EXCEPT !.state = "APPLIED",
                                       !.application = [candidate |-> snap.candidate],
                                       !.cleanup_pending = TRUE], None)
<1>. DEFINE a == [candidate |-> snap.candidate]
<1>1. a # None /\ a.candidate = snap.candidate
  <2>1. snap.candidate \in Procs \cup {None}
    BY DEF IInv, TypeOK, Log!TypeOK, Log!Snapshots
  <2>. QED  BY <2>1, RecordsAssumption
<1>. HIDE DEF a
<1>. DEFINE t == [snap EXCEPT !.state = "APPLIED", !.application = a, !.cleanup_pending = TRUE]
<1>2. /\ t.state = "APPLIED" /\ t.cleanup_pending = TRUE /\ t.application = a
      /\ t.candidate = snap.candidate /\ t.validation = snap.validation
      /\ t.approval = snap.approval /\ t.decision = snap.decision
      /\ t.failure = snap.failure
  <2>1. snap \in Log!Snapshots
    BY DEF IInv, TypeOK, Log!TypeOK
  <2>. QED  BY <2>1 DEF Log!Snapshots
<1>. HIDE DEF t
<1>3. /\ snap.decision = None /\ snap.failure = FALSE /\ snap.cleanup_pending = FALSE
      /\ snap.application = None
  BY Undecided DEF Open, Terminal, Log!TerminalStates
<1>4. lease = None
  BY Leaseless
<1>5. Log!SnapshotShape(t)
  BY <1>1, <1>2, <1>3 DEF Recorded, Log!SnapshotShape, Log!TerminalStates
<1>6. Log!SnapshotUpdateIsValid("applied", snap, t)
  <2>1. Log!Changed(snap, t) = {"application", "cleanup_pending"}
    BY <1>1, <1>2, <1>3 DEF Log!Changed, Log!MutableFields
  <2>. QED  BY <1>1, <1>2, <1>3, <2>1
       DEF Log!SnapshotUpdateIsValid, Log!EventSnapshotChanges, Log!FirstWrite, Log!Created
<1>7. Log!ValidationRunUpdateIsValid("applied", snap, t, lease, None)
  BY <1>4 DEF Log!ValidationRunUpdateIsValid, Log!LeaseKinds, Log!LeaseCarried
<1>8. Log!EventStatePairIsValid("applied", snap.state, t.state)
  BY <1>2 DEF Log!EventStatePairIsValid, Log!EventStatePairs, Log!CanTransitionOrSame,
              Log!CanTransition, Log!Transitions
<1>. QED  BY <1>5, <1>6, <1>7, <1>8 DEF Log!EventIsValid, t, a

(* The outcome of a cleanup.                                               *)
LEMMA CleanupIsValid ==
  ASSUME IInv, Recorded, Terminal, snap.cleanup_pending
  PROVE  /\ Log!EventIsValid("cleanup_complete", snap, lease,
                             [snap EXCEPT !.cleanup_pending = FALSE], None)
         /\ Log!EventIsValid("cleanup_pending", snap, lease,
                             [snap EXCEPT !.cleanup_pending = TRUE], None)
<1>. SUFFICES ASSUME NEW ok \in BOOLEAN
              PROVE  Log!EventIsValid(IF ok THEN "cleanup_complete" ELSE "cleanup_pending",
                                      snap, lease, [snap EXCEPT !.cleanup_pending = ~ok], None)
  OBVIOUS
<1>. DEFINE t == [snap EXCEPT !.cleanup_pending = ~ok]
            kind == IF ok THEN "cleanup_complete" ELSE "cleanup_pending"
<1>1. /\ t.state = snap.state /\ t.cleanup_pending = ~ok
      /\ t.candidate = snap.candidate /\ t.validation = snap.validation
      /\ t.approval = snap.approval /\ t.application = snap.application
      /\ t.decision = snap.decision /\ t.failure = snap.failure
  <2>1. snap \in Log!Snapshots
    BY DEF IInv, TypeOK, Log!TypeOK
  <2>. QED  BY <2>1 DEF Log!Snapshots
<1>. HIDE DEF t
<1>2. Log!SnapshotShape(t)
  BY <1>1 DEF Recorded, Log!SnapshotShape, Terminal
<1>3. Log!SnapshotUpdateIsValid(kind, snap, t)
  <2>1. Log!Changed(snap, t) = IF ok THEN {"cleanup_pending"} ELSE {}
    <3>1. snap.cleanup_pending = TRUE
      BY DEF IInv, TypeOK, Log!TypeOK, Log!Snapshots
    <3>. QED  BY <1>1, <3>1 DEF Log!Changed, Log!MutableFields
  <2>. QED  BY <1>1, <2>1 DEF Log!SnapshotUpdateIsValid, Log!EventSnapshotChanges
<1>4. Log!ValidationRunUpdateIsValid(kind, snap, t, lease, None)
  BY DEF Recorded, Log!ValidationRunUpdateIsValid, Log!LeaseKinds, Log!LeaseCarried
<1>5. Log!EventStatePairIsValid(kind, snap.state, t.state)
  BY <1>1 DEF Log!EventStatePairIsValid, Log!EventStatePairs, Log!Same, Log!CanTransitionOrSame,
              Terminal
<1>. QED  BY <1>2, <1>3, <1>4, <1>5 DEF Log!EventIsValid, t, kind

(* The events about the lease alone.                                       *)
LEMMA LeaseEventIsValid ==
  ASSUME IInv, Recorded,
         NEW kind \in {"validation_intent", "validation_run", "validation_intent_abandoned"},
         NEW m, m # None => Log!LeaseMatches(m, snap), snap.validation = None,
         \/ kind = "validation_intent" /\ lease = None /\ m # None /\ ~m.bound
         \/ /\ kind = "validation_run" /\ lease # None /\ ~lease.bound /\ m # None /\ m.bound
            /\ Log!SameIntent(lease, m)
         \/ kind = "validation_intent_abandoned" /\ lease # None /\ ~lease.bound /\ m = None,
         \/ snap.state = "VALIDATING"
         \/ kind = "validation_run" /\ snap.state \in {"CANCELLED", "EXPIRED", "FAILED"}
  PROVE  Log!EventIsValid(kind, snap, lease, snap, m)
<1>1. Log!SnapshotUpdateIsValid(kind, snap, snap)
  BY DEF Log!SnapshotUpdateIsValid, Log!Changed, Log!EventSnapshotChanges
<1>2. Log!ValidationRunUpdateIsValid(kind, snap, snap, lease, m)
  BY DEF Recorded, Log!ValidationRunUpdateIsValid, Log!LeaseKinds, Log!IntentRegistered,
         Log!RunBound, Log!IntentAbandoned
<1>3. Log!EventStatePairIsValid(kind, snap.state, snap.state)
  BY DEF Log!EventStatePairIsValid, Log!EventStatePairs, Log!Same, Log!CanTransitionOrSame
<1>. QED  BY <1>1, <1>2, <1>3 DEF Log!EventIsValid, Recorded
-----------------------------------------------------------------------------
(* The shapes of a step.                                                   *)

(* After a step of p nothing was refused and p still knows what it must.   *)
Agrees(p) == refused' = refused /\ Due(p)'

ClosersPcs == {"tidy", "tidied", "close"}

LEMMA QuietAgrees ==
  ASSUME IInv, NEW p \in Procs, NEW loc, pr' = [pr EXCEPT ![p] = loc], loc.pc \notin ClosersPcs,
         UNCHANGED refused
  PROVE  Agrees(p)
<1>1. pr'[p] = loc
  BY Elsewhere
<1>. QED  BY <1>1 DEF Agrees, Due, ClosersPcs, At

(* An append of a legal event succeeds or fails, and is not refused.       *)
LEMMA Appended ==
  ASSUME IInv, NEW p \in Procs, NEW kind, NEW t, NEW m, NEW good, NEW bad,
         Append(p, kind, t, m, good, bad), Log!EventIsValid(kind, snap, lease, t, m)
  PROVE  /\ refused' = refused
         /\ (snap' = t /\ pr'[p] = good) \/ pr'[p] = bad
<1>1. ASSUME NEW loc, Resume(p, loc) PROVE pr'[p] = loc
  BY <1>1, Elsewhere DEF Resume
<1>. QED  BY <1>1 DEF Append, Leave

LEMMA AppendAgrees ==
  ASSUME IInv, NEW p \in Procs, NEW kind, NEW t, NEW m, NEW good, NEW bad,
         Append(p, kind, t, m, good, bad), Log!EventIsValid(kind, snap, lease, t, m),
         good.pc \notin ClosersPcs, bad.pc \notin ClosersPcs
  PROVE  Agrees(p)
<1>1. refused' = refused /\ pr'[p] \in {good, bad}
  BY Appended
<1>. QED  BY <1>1 DEF Agrees, Due, ClosersPcs, At

(* Closing a session leads to the removal of its payload.                  *)
LEMMA TerminalAgrees ==
  ASSUME IInv, NEW p \in Procs, NEW kind, NEW t, NEW bad, t.cleanup_pending,
         PersistTerminal(p, kind, t, bad), Log!EventIsValid(kind, snap, lease, t, None),
         bad.pc \notin ClosersPcs
  PROVE  Agrees(p)
<1>1. refused' = refused /\ ((snap' = t /\ pr'[p] = To("tidy")) \/ pr'[p] = bad)
  BY Appended DEF PersistTerminal
<1>2. To("tidy").pc = "tidy"
  BY Fields, ValidationPcs
<1>. QED  BY <1>1, <1>2 DEF Agrees, Due, ClosersPcs, At

LEMMA CloseAgrees ==
  ASSUME IInv, NEW p \in Procs, NEW kind, NEW t, t.cleanup_pending,
         CloseSession(p, kind, t), Log!EventIsValid(kind, snap, lease, t, lease)
  PROVE  Agrees(p)
<1>. DEFINE sweeping == [To("sweep") EXCEPT !.seen = t, !.owed = lease]
<1>1. sweeping.pc = "sweep" /\ Idle.pc = "idle"
  BY Fields, PcsListed
<1>. HIDE DEF sweeping
<1>2. CASE lease = None /\ PersistTerminal(p, kind, t, Idle)
  BY <1>1, <1>2, TerminalAgrees DEF ClosersPcs
<1>3. CASE Append(p, kind, t, lease, sweeping, Idle)
  BY <1>1, <1>3, AppendAgrees DEF ClosersPcs
<1>. QED  BY <1>2, <1>3 DEF CloseSession, sweeping

(* Fields that the locals carry along.                                     *)
LEMMA CarriedFields ==
  ASSUME IInv, NEW p \in Procs
  PROVE
    /\ \A pc \in Pcs : [pr[p] EXCEPT !.pc = pc].mgr = pr[p].mgr
                       /\ [pr[p] EXCEPT !.pc = pc].kind = pr[p].kind
    /\ \A pc \in Pcs : \A b : [pr[p] EXCEPT !.pc = pc, !.ok = b].mgr = pr[p].mgr
    /\ \A pc \in Pcs : [To(pc) EXCEPT !.mgr = TRUE].mgr = TRUE
<1>1. pr[p] \in Locals
  BY Basics
<1>2. \A pc \in Pcs : To(pc) \in Locals
  BY ToIsLocal
<1>. QED  BY <1>1, <1>2 DEF Locals

(* The moves of an open session.                                           *)
LEMMA Moves ==
  /\ Log!EventStatePairIsValid("generating", "CREATED", "GENERATING")
  /\ Log!EventStatePairIsValid("validating", "GENERATING", "VALIDATING")
  /\ Log!EventStatePairIsValid("validated", "VALIDATING", "VALIDATED")
  /\ Log!EventStatePairIsValid("applying", "APPROVED", "APPLYING")
  /\ Log!EventStatePairIsValid("application_conflict", "APPLYING", "APPROVED")
  /\ Log!EventStatePairIsValid("recovered", "APPLYING", "APPROVED")
  /\ {"GENERATING", "VALIDATING", "VALIDATED", "APPROVED", "APPLYING"} \cap Log!TerminalStates = {}
BY DEF Log!EventStatePairIsValid, Log!EventStatePairs, Log!CanTransitionOrSame,
       Log!CanTransition, Log!Transitions, Log!TerminalStates

-----------------------------------------------------------------------------
(* One step per action.                                                    *)

LEMMA ProposalAgrees ==
  ASSUME IInv, JInv, KInv, NEW p \in Procs, Proposal(p)
  PROVE  Agrees(p)
<1>. DEFINE free == {"idle", "generate", "checkpoint", "prepare", "begin", "fail", "intend"}
<1>1. /\ free \subseteq Pcs /\ free \cap ClosersPcs = {}
      /\ Idle.pc = "idle" /\ To("fail").pc = "fail"
      /\ \A pc \in free : [pr[p] EXCEPT !.pc = pc].pc = pc
      /\ \A pc \in free : \A s : [To(pc) EXCEPT !.seen = s].pc = pc
  BY Fields, PcsListed DEF ClosersPcs
<1>2. CASE Propose(p)
  <2>. DEFINE t == [snap EXCEPT !.state = "GENERATING"]
              good == [To("generate") EXCEPT !.seen = t]
  <2>1. snap.state = "CREATED" /\ Append(p, "generating", t, lease, good, Idle)
    BY <1>2 DEF Propose
  <2>2. lease = None /\ Open
    BY <2>1, Leaseless DEF Open, Terminal, Log!TerminalStates
  <2>3. Log!EventIsValid("generating", snap, lease, t, lease)
    BY <2>1, <2>2, MoveIsValid, Moves DEF KInv
  <2>4. good.pc = "generate"
    BY <1>1
  <2>. HIDE DEF t, good
  <2>. QED  BY <1>1, <2>1, <2>3, <2>4, AppendAgrees
<1>3. CASE Generate(p)
  <2>. DEFINE loc == [pr[p] EXCEPT !.pc = "checkpoint"]
  <2>1. UNCHANGED refused /\ (Goto(p, loc) \/ Goto(p, To("fail")))
    BY <1>3 DEF Generate
  <2>2. loc.pc = "checkpoint"
    BY <1>1
  <2>. HIDE DEF loc
  <2>. QED  BY <1>1, <2>1, <2>2, QuietAgrees DEF Goto
<1>4. CASE PersistCandidateCheckpoint(p)
  <2>1. CASE Leave(p, Idle) \/ Leave(p, To("fail"))
    BY <1>1, <2>1, QuietAgrees DEF Leave, Resume
  <2>2. CASE ~(Leave(p, Idle) \/ Leave(p, To("fail")))
    <3>. DEFINE t == [snap EXCEPT !.candidate = p]
                good == [To("prepare") EXCEPT !.seen = t]
    <3>1. /\ snap.state = "GENERATING" /\ snap.candidate = None
          /\ Append(p, "candidate", t, lease, good, To("fail"))
      BY <1>4, <2>2 DEF PersistCandidateCheckpoint
    <3>2. Log!EventIsValid("candidate", snap, lease, t, lease)
      BY <3>1, CandidateIsValid DEF KInv
    <3>3. good.pc = "prepare"
      BY <1>1
    <3>. HIDE DEF t, good
    <3>. QED  BY <1>1, <3>1, <3>2, <3>3, AppendAgrees
  <2>. QED  BY <2>1, <2>2
<1>5. CASE PrepareSandbox(p)
  <2>. DEFINE loc == [pr[p] EXCEPT !.pc = "begin"]
  <2>1. UNCHANGED refused /\ (Goto(p, loc) \/ Goto(p, To("fail")))
    BY <1>5 DEF PrepareSandbox
  <2>2. loc.pc = "begin"
    BY <1>1
  <2>. HIDE DEF loc
  <2>. QED  BY <1>1, <2>1, <2>2, QuietAgrees DEF Goto
<1>6. CASE BeginValidation(p)
  <2>1. CASE Leave(p, Idle) \/ Leave(p, To("fail"))
    BY <1>1, <2>1, QuietAgrees DEF Leave, Resume
  <2>2. CASE ~(Leave(p, Idle) \/ Leave(p, To("fail")))
    <3>. DEFINE t == [snap EXCEPT !.state = "VALIDATING"]
                good == [To("intend") EXCEPT !.seen = t]
    <3>1. /\ snap.state = "GENERATING" /\ snap.candidate # None
          /\ Append(p, "validating", t, lease, good, To("fail"))
      BY <1>6, <2>2 DEF BeginValidation
    <3>2. lease = None /\ Open
      BY <3>1, Leaseless DEF Open, Terminal, Log!TerminalStates
    <3>3. Log!EventIsValid("validating", snap, lease, t, lease)
      BY <3>1, <3>2, MoveIsValid, Moves DEF KInv
    <3>4. good.pc = "intend"
      BY <1>1
    <3>. HIDE DEF t, good
    <3>. QED  BY <1>1, <3>1, <3>3, <3>4, AppendAgrees
  <2>. QED  BY <2>1, <2>2
<1>. QED  BY <1>2, <1>3, <1>4, <1>5, <1>6 DEF Proposal

(* The lease of p's own run is a record that matches the snapshot.         *)
LEMMA MineMatches ==
  ASSUME IInv, NEW p \in Procs, NEW bound \in BOOLEAN, snap.candidate = pr[p].seen.candidate
  PROVE  /\ Mine(p, bound) # None
         /\ Mine(p, bound).bound = bound
         /\ snap.candidate # None => Log!LeaseMatches(Mine(p, bound), snap)
         /\ \A other \in BOOLEAN : Log!SameIntent(Mine(p, other), Mine(p, bound))
<1>1. snap.candidate \in Procs \cup {None}
  BY DEF IInv, TypeOK, Log!TypeOK, Log!Snapshots
<1>2. Mine(p, bound) # None
  BY <1>1, RecordsExist DEF Mine
<1>. QED  BY <1>2 DEF Mine, Log!LeaseMatches, Log!SameIntent

LEMMA IntentAgrees ==
  ASSUME IInv, JInv, KInv, NEW p \in Procs, RegisterIntent(p)
  PROVE  Agrees(p)
<1>. DEFINE good == [pr[p] EXCEPT !.pc = "create"]
            m == Mine(p, FALSE)
<1>1. good.pc = "create" /\ To("fail").pc = "fail" /\ Idle.pc = "idle"
  BY Fields, Detours, PcsListed
<1>2. CASE Leave(p, Idle)
  BY <1>1, <1>2, QuietAgrees DEF Leave, Resume, ClosersPcs
<1>3. CASE ~Leave(p, Idle)
  <2>1. /\ Append(p, "validation_intent", snap, m, good, To("fail"))
        /\ snap.state = "VALIDATING" /\ snap.candidate = pr[p].seen.candidate
        /\ snap.validation = None /\ lease = None
    BY <1>3 DEF RegisterIntent
  <2>2. snap.candidate # None
    BY <2>1 DEF KInv, Recorded, Log!SnapshotShape
  <2>3. m # None /\ ~m.bound /\ Log!LeaseMatches(m, snap)
    BY <2>1, <2>2, MineMatches
  <2>. HIDE DEF good, m
  <2>4. Log!EventIsValid("validation_intent", snap, lease, snap, m)
    BY <2>1, <2>3, LeaseEventIsValid DEF KInv
  <2>. QED  BY <1>1, <2>1, <2>4, AppendAgrees DEF ClosersPcs
<1>. QED  BY <1>2, <1>3

LEMMA RegisterAgrees ==
  ASSUME IInv, JInv, KInv, NEW p \in Procs, RegisterRun(p)
  PROVE  Agrees(p)
<1>. DEFINE created  == At(p, "bind")
            rejected == [pr[p] EXCEPT !.pc = "unregister",
                                      !.then = IF created THEN "idle" ELSE "fail"]
            accepted == IF created THEN [pr[p] EXCEPT !.pc = "run"]
                        ELSE [pr[p] EXCEPT !.pc = "discard", !.then = "fail"]
            failed   == IF created THEN [pr[p] EXCEPT !.pc = "unregister", !.then = "fail"]
                        ELSE To("fail")
            good == IF snap.state = "VALIDATING" THEN accepted ELSE rejected
            m == Mine(p, TRUE)
<1>1. /\ rejected.pc \notin ClosersPcs /\ failed.pc \notin ClosersPcs
      /\ good.pc \notin ClosersPcs
  <2>1. \A pc \in {"unregister", "discard", "run"} : pc \in Pcs
    BY PcsListed
  <2>. QED  BY <2>1, Fields, Detours DEF ClosersPcs
<1>2. \/ Leave(p, rejected)
      \/ /\ Append(p, "validation_run", snap, m, good, failed)
         /\ snap.candidate = pr[p].seen.candidate /\ snap.validation = None
         /\ lease = Mine(p, FALSE)
         /\ snap.state \in {"VALIDATING", "CANCELLED", "EXPIRED", "FAILED"}
  BY DEF RegisterRun
<1>. HIDE DEF rejected, good, failed
<1>3. CASE Leave(p, rejected)
  BY <1>1, <1>3, QuietAgrees DEF Leave, Resume
<1>4. CASE /\ Append(p, "validation_run", snap, m, good, failed)
           /\ snap.candidate = pr[p].seen.candidate /\ snap.validation = None
           /\ lease = Mine(p, FALSE)
           /\ snap.state \in {"VALIDATING", "CANCELLED", "EXPIRED", "FAILED"}
  <2>1. lease # None /\ ~lease.bound
    BY <1>4, MineMatches
  <2>2. snap.candidate # None
    BY <2>1 DEF KInv, Recorded, Log!LeaseMatches
  <2>3. m # None /\ m.bound /\ Log!LeaseMatches(m, snap) /\ Log!SameIntent(lease, m)
    BY <1>4, <2>2, MineMatches
  <2>. HIDE DEF m
  <2>4. Log!EventIsValid("validation_run", snap, lease, snap, m)
    BY <1>4, <2>1, <2>3, LeaseEventIsValid DEF KInv
  <2>. QED  BY <1>1, <1>4, <2>4, AppendAgrees
<1>. QED  BY <1>2, <1>3, <1>4

LEMMA ReleaseAgrees ==
  ASSUME IInv, JInv, KInv, NEW p \in Procs, ReleaseRun(p) \/ ReleaseIntent(p)
  PROVE  Agrees(p)
<1>. DEFINE tidy == [To("tidy") EXCEPT !.then = pr[p].then]
            away == To(pr[p].then)
            next == [pr[p] EXCEPT !.pc = "dropIntent"]
<1>1. away.pc \in {"idle", "fail"} /\ next.pc = "dropIntent" /\ tidy.pc = "tidy" /\ To("fail").pc = "fail"
  BY Detours, Fields, PcsListed
<1>2. \/ Leave(p, away) \/ Leave(p, next)
      \/ /\ Leave(p, tidy) /\ Terminal /\ snap.candidate = pr[p].seen.candidate
         /\ lease \in {Mine(p, TRUE), Mine(p, FALSE)}
      \/ /\ Append(p, "validation_intent_abandoned", snap, None, away, To("fail"))
         /\ snap.state = "VALIDATING" /\ snap.candidate = pr[p].seen.candidate
         /\ lease = Mine(p, FALSE)
  BY DEF ReleaseRun, ReleaseIntent
<1>. HIDE DEF tidy, away, next
<1>3. CASE Leave(p, away) \/ Leave(p, next)
  BY <1>1, <1>3, QuietAgrees DEF Leave, Resume, ClosersPcs
<1>4. CASE /\ Leave(p, tidy) /\ Terminal /\ snap.candidate = pr[p].seen.candidate
           /\ lease \in {Mine(p, TRUE), Mine(p, FALSE)}
  <2>1. lease # None
    BY <1>4, MineMatches
  <2>2. snap.cleanup_pending
    BY <1>4, <2>1 DEF JInv, Log!LeaseIsOwed, Terminal, Log!TerminalStates
  <2>3. snap' = snap /\ refused' = refused /\ pr'[p] = tidy
    BY <1>4, Elsewhere DEF Leave, Resume, chain
  <2>. QED  BY <1>1, <2>2, <2>3 DEF Agrees, Due, At
<1>5. CASE /\ Append(p, "validation_intent_abandoned", snap, None, away, To("fail"))
           /\ snap.state = "VALIDATING" /\ snap.candidate = pr[p].seen.candidate
           /\ lease = Mine(p, FALSE)
  <2>1. lease # None /\ ~lease.bound
    BY <1>5, MineMatches
  <2>2. snap.validation = None
    BY <2>1 DEF KInv, Recorded, Log!RecordsAreInOrder, Log!IntentHasNoVerdict
  <2>3. Log!EventIsValid("validation_intent_abandoned", snap, lease, snap, None)
    BY <1>5, <2>1, <2>2, LeaseEventIsValid DEF KInv
  <2>. QED  BY <1>1, <1>5, <2>3, AppendAgrees DEF ClosersPcs
<1>. QED  BY <1>2, <1>3, <1>4, <1>5

LEMMA ResultAgrees ==
  ASSUME IInv, JInv, KInv, NEW p \in Procs, CheckpointResult(p)
  PROVE  Agrees(p)
<1>. DEFINE t == [snap EXCEPT !.validation = Verdict(p)]
            good == [pr[p] EXCEPT !.pc = "reclaim"]
            bad == [pr[p] EXCEPT !.pc = "discard", !.then = "fail"]
            away == [pr[p] EXCEPT !.pc = "discard", !.then = "idle"]
<1>1. good.pc = "reclaim" /\ bad.pc = "discard" /\ away.pc = "discard"
  BY Fields, PcsListed
<1>2. \/ Leave(p, away)
      \/ /\ snap.state = "VALIDATING" /\ snap.validation = None /\ lease = Mine(p, TRUE)
         /\ snap.candidate = pr[p].seen.candidate
         /\ Append(p, "validation_result", t, lease, good, bad)
  BY DEF CheckpointResult
<1>. HIDE DEF good, bad, away
<1>3. CASE Leave(p, away)
  BY <1>1, <1>3, QuietAgrees DEF Leave, Resume, ClosersPcs
<1>4. CASE /\ snap.state = "VALIDATING" /\ snap.validation = None /\ lease = Mine(p, TRUE)
           /\ snap.candidate = pr[p].seen.candidate
           /\ Append(p, "validation_result", t, lease, good, bad)
  <2>1. Log!EventIsValid("validation_result", snap, lease, t, lease)
    BY <1>4, VerdictIsValid DEF KInv
  <2>. HIDE DEF t
  <2>. QED  BY <1>1, <1>4, <2>1, AppendAgrees DEF ClosersPcs
<1>. QED  BY <1>2, <1>3, <1>4

LEMMA FinishAgrees ==
  ASSUME IInv, JInv, KInv, NEW p \in Procs, FinishValidation(p)
  PROVE  Agrees(p)
<1>1. Idle.pc \notin ClosersPcs /\ To("fail").pc \notin ClosersPcs
  BY Detours DEF ClosersPcs
<1>2. CASE Leave(p, Idle) \/ Leave(p, To("fail"))
  BY <1>1, <1>2, QuietAgrees DEF Leave, Resume
<1>3. CASE /\ snap.state = "VALIDATING"
           /\ Append(p, "failed", Fail(snap), lease, To("fail"), To("fail"))
  <2>1. Log!EventIsValid("failed", snap, lease, Fail(snap), lease)
    BY <1>3, FailureIsValid DEF KInv
  <2>. QED  BY <1>1, <1>3, <2>1, AppendAgrees
<1>4. CASE /\ snap.state = "VALIDATING" /\ pr[p].passed
           /\ snap.candidate = pr[p].seen.candidate /\ snap.validation = Verdict(p)
           /\ Append(p, "validated", [snap EXCEPT !.state = "VALIDATED"], None, Idle, To("fail"))
  <2>1. /\ snap.candidate \in Procs \cup {None} /\ pr[p].passed \in BOOLEAN
    BY DEF IInv, TypeOK, Log!TypeOK, Log!Snapshots, ControlOK, Locals
  <2>2. snap.validation # None /\ snap.validation.success
    <3>1. Verdict(p) = [candidate |-> snap.candidate, success |-> pr[p].passed]
      BY <1>4 DEF Verdict
    <3>2. [candidate |-> snap.candidate, success |-> pr[p].passed] # None
      BY <2>1, RecordsExist
    <3>. QED  BY <1>4, <3>1, <3>2
  <2>3. Open
    BY <1>4 DEF Open, Terminal, Log!TerminalStates
  <2>4. Log!EventIsValid("validated", snap, lease, [snap EXCEPT !.state = "VALIDATED"], None)
    BY <1>4, <2>2, <2>3, MoveIsValid, Moves DEF KInv
  <2>. QED  BY <1>1, <1>4, <2>4, AppendAgrees
<1>5. CASE /\ snap.state = "VALIDATING"
           /\ PersistTerminal(p, "failed", Fail(snap), To("fail"))
  <2>1. Log!EventIsValid("failed", snap, lease, Fail(snap), None)
    BY <1>5, FailureIsValid DEF KInv
  <2>2. Fail(snap).cleanup_pending
    BY Edited
  <2>. QED  BY <1>1, <1>5, <2>1, <2>2, TerminalAgrees
<1>. QED  BY <1>2, <1>3, <1>4, <1>5 DEF FinishValidation

(* The steps of a validation that are about its container append nothing.  *)
LEMMA ContainerAgrees ==
  ASSUME IInv, NEW p \in Procs,
         \/ CreateContainer(p) \/ RemoveOrConfirmUnbound(p) \/ RemoveUnregistered(p)
         \/ DiscardContainer(p) \/ RunContainer(p) \/ RemoveContainer(p)
  PROVE  Agrees(p)
<1>. DEFINE free == {"bind", "bindFailed", "unbound", "dropIntent", "dropRun", "verdict", "discard",
                     "finish", "idle", "fail"}
<1>1. /\ free \subseteq Pcs /\ free \cap ClosersPcs = {}
      /\ To(pr[p].then).pc \in free
      /\ \A pc \in free : \A x, y :
           /\ [pr[p] EXCEPT !.pc = pc].pc = pc
           /\ [pr[p] EXCEPT !.pc = pc, !.then = x].pc = pc
           /\ [pr[p] EXCEPT !.pc = pc, !.passed = x].pc = pc
           /\ [pr[p] EXCEPT !.pc = pc, !.ok = x].pc = pc
           /\ [pr[p] EXCEPT !.pc = pc, !.ok = x, !.then = y].pc = pc
  <2>1. free \subseteq Pcs /\ free \cap ClosersPcs = {}
    BY PcsListed DEF ClosersPcs
  <2>. QED  BY <2>1, Fields, Detours
<1>2. UNCHANGED refused
  BY DEF CreateContainer, RemoveOrConfirmUnbound, RemoveUnregistered, DiscardContainer,
         RunContainer, RemoveContainer
<1>3. ASSUME NEW loc, Goto(p, loc), loc.pc \in free
      PROVE  Agrees(p)
  BY <1>1, <1>2, <1>3, QuietAgrees DEF Goto
<1>. HIDE DEF free
<1>4. /\ Goto(p, To(pr[p].then)) => Agrees(p)
      /\ \A pc \in free : \A x, y :
           /\ Goto(p, [pr[p] EXCEPT !.pc = pc]) => Agrees(p)
           /\ Goto(p, [pr[p] EXCEPT !.pc = pc, !.then = x]) => Agrees(p)
           /\ Goto(p, [pr[p] EXCEPT !.pc = pc, !.passed = x]) => Agrees(p)
           /\ Goto(p, [pr[p] EXCEPT !.pc = pc, !.ok = x]) => Agrees(p)
           /\ Goto(p, [pr[p] EXCEPT !.pc = pc, !.ok = x, !.then = y]) => Agrees(p)
  <2>1. Goto(p, To(pr[p].then)) => Agrees(p)
    BY <1>1, <1>3
  <2>2. ASSUME NEW pc \in free, NEW x, NEW y
        PROVE  /\ Goto(p, [pr[p] EXCEPT !.pc = pc]) => Agrees(p)
               /\ Goto(p, [pr[p] EXCEPT !.pc = pc, !.then = x]) => Agrees(p)
               /\ Goto(p, [pr[p] EXCEPT !.pc = pc, !.passed = x]) => Agrees(p)
               /\ Goto(p, [pr[p] EXCEPT !.pc = pc, !.ok = x]) => Agrees(p)
               /\ Goto(p, [pr[p] EXCEPT !.pc = pc, !.ok = x, !.then = y]) => Agrees(p)
    <3>1. Goto(p, [pr[p] EXCEPT !.pc = pc]) => Agrees(p)
      <4>. DEFINE loc == [pr[p] EXCEPT !.pc = pc]
      <4>1. loc.pc \in free
        BY <1>1
      <4>. HIDE DEF loc
      <4>2. Goto(p, loc) => Agrees(p)
        BY <1>3, <4>1
      <4>. QED  BY <4>2 DEF loc
    <3>2. Goto(p, [pr[p] EXCEPT !.pc = pc, !.then = x]) => Agrees(p)
      <4>. DEFINE loc == [pr[p] EXCEPT !.pc = pc, !.then = x]
      <4>1. loc.pc \in free
        BY <1>1
      <4>. HIDE DEF loc
      <4>2. Goto(p, loc) => Agrees(p)
        BY <1>3, <4>1
      <4>. QED  BY <4>2 DEF loc
    <3>3. Goto(p, [pr[p] EXCEPT !.pc = pc, !.passed = x]) => Agrees(p)
      <4>. DEFINE loc == [pr[p] EXCEPT !.pc = pc, !.passed = x]
      <4>1. loc.pc \in free
        BY <1>1
      <4>. HIDE DEF loc
      <4>2. Goto(p, loc) => Agrees(p)
        BY <1>3, <4>1
      <4>. QED  BY <4>2 DEF loc
    <3>4. Goto(p, [pr[p] EXCEPT !.pc = pc, !.ok = x]) => Agrees(p)
      <4>. DEFINE loc == [pr[p] EXCEPT !.pc = pc, !.ok = x]
      <4>1. loc.pc \in free
        BY <1>1
      <4>. HIDE DEF loc
      <4>2. Goto(p, loc) => Agrees(p)
        BY <1>3, <4>1
      <4>. QED  BY <4>2 DEF loc
    <3>5. Goto(p, [pr[p] EXCEPT !.pc = pc, !.ok = x, !.then = y]) => Agrees(p)
      <4>. DEFINE loc == [pr[p] EXCEPT !.pc = pc, !.ok = x, !.then = y]
      <4>1. loc.pc \in free
        BY <1>1
      <4>. HIDE DEF loc
      <4>2. Goto(p, loc) => Agrees(p)
        BY <1>3, <4>1
      <4>. QED  BY <4>2 DEF loc
    <3>. QED  BY <3>1, <3>2, <3>3, <3>4, <3>5
  <2>. QED  BY <2>1, <2>2
<1>5. CASE CreateContainer(p)
  BY <1>4, <1>5 DEF CreateContainer, free
<1>6. CASE RemoveOrConfirmUnbound(p)
  BY <1>4, <1>6 DEF RemoveOrConfirmUnbound, free
<1>7. CASE RemoveUnregistered(p) \/ DiscardContainer(p)
  BY <1>4, <1>7 DEF RemoveUnregistered, DiscardContainer, free
<1>8. CASE RunContainer(p)
  BY <1>4, <1>8 DEF RunContainer, free
<1>9. CASE RemoveContainer(p)
  BY <1>4, <1>9 DEF RemoveContainer, free
<1>. QED  BY <1>5, <1>6, <1>7, <1>8, <1>9

LEMMA ValidationAgrees ==
  ASSUME IInv, JInv, KInv, NEW p \in Procs, Validation(p)
  PROVE  Agrees(p)
BY IntentAgrees, RegisterAgrees, ReleaseAgrees, ResultAgrees, FinishAgrees, ContainerAgrees
   DEF Validation
LEMMA RecordAgrees ==
  ASSUME IInv, JInv, KInv, NEW p \in Procs, RecordCleanup(p)
  PROVE  Agrees(p)
<1>. DEFINE ok   == pr[p].ok
            done == [To("expire") EXCEPT !.mgr = TRUE]
            back == [pr[p] EXCEPT !.pc = pr[p].then, !.ok = FALSE]
            next == IF pr[p].mgr THEN IF ok THEN done ELSE Idle ELSE back
            t == [snap EXCEPT !.cleanup_pending = ~ok]
            kind == IF ok THEN "cleanup_complete" ELSE "cleanup_pending"
<1>1. At(p, "tidied") /\ Terminal /\ (ok <=> private = "gone") /\ ok \in BOOLEAN
  <2>1. At(p, "tidied")
    BY DEF RecordCleanup
  <2>. QED  BY <2>1, Basics DEF JInv, Own, ClosingOK, At, Locals
<1>2. next.pc \notin ClosersPcs /\ Idle.pc \notin ClosersPcs
  <2>1. /\ pr[p].then \in {"idle", "fail"} /\ pr[p].then \in Pcs /\ "expire" \in Pcs
        /\ {"idle", "fail", "expire"} \cap ClosersPcs = {}
    BY Basics, PcsListed DEF ClosersPcs
  <2>2. done.pc = "expire" /\ Idle.pc = "idle" /\ back.pc = pr[p].then
    BY <2>1, Fields
  <2>. QED  BY <2>1, <2>2
<1>3. \/ Leave(p, next)
      \/ /\ Append(p, kind, t, None, next, Idle)
         /\ ~(pr[p].mgr /\ ok /\ ~snap.cleanup_pending /\ lease = None)
  BY DEF RecordCleanup
<1>. HIDE DEF next
<1>4. CASE Leave(p, next)
  BY <1>2, <1>4, QuietAgrees DEF Leave, Resume
<1>5. CASE /\ Append(p, kind, t, None, next, Idle)
           /\ ~(pr[p].mgr /\ ok /\ ~snap.cleanup_pending /\ lease = None)
  <2>1. snap.cleanup_pending
    <3>1. CASE ~pr[p].mgr
      BY <1>1, <3>1 DEF KInv, Due, At
    <3>2. CASE pr[p].mgr
      <4>1. ~snap.cleanup_pending => private = "gone" /\ lease = None
        BY <1>1, NoneTracked DEF Clean
      <4>. QED  BY <1>1, <1>5, <3>2, <4>1
    <3>. QED  BY <3>1, <3>2
  <2>2. Log!EventIsValid(kind, snap, lease, t, None)
    BY <1>1, <2>1, CleanupIsValid DEF KInv
  <2>. HIDE DEF t, kind
  <2>. QED  BY <1>2, <1>5, <2>2, AppendAgrees
<1>. QED  BY <1>3, <1>4, <1>5

LEMMA ClosingAgrees ==
  ASSUME IInv, JInv, KInv, NEW p \in Procs, Closing(p)
  PROVE  Agrees(p)
<1>0. Idle.pc \notin ClosersPcs
  BY Detours DEF ClosersPcs
<1>1. CASE PersistProposalFailure(p)
  <2>1. CASE Leave(p, Idle)
    BY <1>0, <2>1, QuietAgrees DEF Leave, Resume
  <2>2. CASE /\ snap.state \in {"GENERATING", "VALIDATING"}
             /\ CloseSession(p, "failed", Fail(snap))
    <3>1. Log!EventIsValid("failed", snap, lease, Fail(snap), lease)
      BY <2>2, FailureIsValid DEF KInv
    <3>2. Fail(snap).cleanup_pending
      BY Edited
    <3>. QED  BY <2>2, <3>1, <3>2, CloseAgrees
  <2>. QED  BY <1>1, <2>1, <2>2 DEF PersistProposalFailure
<1>2. CASE SweepContainer(p)
  <2>. DEFINE loc == [pr[p] EXCEPT !.pc = "settle"]
  <2>1. loc.pc \notin ClosersPcs
    BY Fields, PcsListed DEF ClosersPcs
  <2>2. UNCHANGED refused /\ (Goto(p, loc) \/ Goto(p, Idle))
    BY <1>2 DEF SweepContainer
  <2>. HIDE DEF loc
  <2>. QED  BY <1>0, <2>1, <2>2, QuietAgrees DEF Goto
<1>3. CASE SettleTerminal(p)
  <2>1. CASE Leave(p, Idle)
    BY <1>0, <2>1, QuietAgrees DEF Leave, Resume
  <2>2. CASE Leave(p, To("tidy")) /\ lease = pr[p].owed
    <3>1. Terminal /\ lease # None
      BY <1>3, <2>2 DEF SettleTerminal, Enter, JInv, Own, ClosingOK, At
    <3>2. snap.cleanup_pending
      BY <3>1 DEF JInv, Log!LeaseIsOwed, Terminal, Log!TerminalStates
    <3>3. snap' = snap /\ refused' = refused /\ pr'[p] = To("tidy")
      BY <2>2, Elsewhere DEF Leave, Resume, chain
    <3>4. To("tidy").pc = "tidy"
      BY Fields, ValidationPcs
    <3>. QED  BY <3>2, <3>3, <3>4 DEF Agrees, Due, At
  <2>. QED  BY <1>3, <2>1, <2>2 DEF SettleTerminal
<1>4. CASE CleanupPrivate(p)
  <2>1. PICK ok \in BOOLEAN : Resume(p, [pr[p] EXCEPT !.pc = "tidied", !.ok = ok])
    BY <1>4 DEF CleanupPrivate
  <2>. DEFINE loc == [pr[p] EXCEPT !.pc = "tidied", !.ok = ok]
  <2>2. loc.pc = "tidied" /\ loc.mgr = pr[p].mgr
    BY Fields, CarriedFields, PcsListed
  <2>3. pr' = [pr EXCEPT ![p] = loc]
    BY <2>1 DEF Resume
  <2>. HIDE DEF loc
  <2>4. pr'[p] = loc /\ snap' = snap /\ refused' = refused
    BY <1>4, <2>3, Elsewhere DEF CleanupPrivate, chain
  <2>5. snap.cleanup_pending \/ pr[p].mgr
    BY <1>4 DEF CleanupPrivate, KInv, Due, At
  <2>. QED  BY <2>2, <2>4, <2>5 DEF Agrees, Due, At
<1>. QED  BY <1>1, <1>2, <1>3, <1>4, RecordAgrees DEF Closing

LEMMA DecisionAgrees ==
  ASSUME IInv, JInv, KInv, NEW p \in Procs, Decision(p)
  PROVE  Agrees(p)
<1>0. Idle.pc \notin ClosersPcs
  BY Detours DEF ClosersPcs
<1>1. CASE Approve(p)
  <2>. DEFINE t == [snap EXCEPT !.state = "APPROVED", !.approval = [candidate |-> snap.candidate]]
  <2>1. snap.state = "VALIDATED" /\ Append(p, "approved", t, lease, Idle, Idle)
    BY <1>1 DEF Approve
  <2>2. Log!EventIsValid("approved", snap, lease, t, lease)
    BY <2>1, ApprovalIsValid DEF KInv
  <2>. HIDE DEF t
  <2>. QED  BY <1>0, <2>1, <2>2, AppendAgrees
<1>2. CASE Reject(p)
  <2>1. /\ snap.state \in {"VALIDATED", "APPROVED"}
        /\ PersistTerminal(p, "rejected", Decided(snap, "REJECTED"), Idle)
    BY <1>2 DEF Reject
  <2>2. Open /\ lease = None
    BY <2>1, Leaseless DEF Open, Terminal, Log!TerminalStates
  <2>3. Log!EventIsValid("rejected", snap, lease, Decided(snap, "REJECTED"), None)
    BY <2>1, <2>2, DecisionIsValid DEF KInv
  <2>4. Decided(snap, "REJECTED").cleanup_pending
    BY Edited
  <2>. QED  BY <1>0, <2>1, <2>3, <2>4, TerminalAgrees
<1>3. ASSUME NEW kind \in {"cancelled", "expired"}, Open, snap.state # "APPLYING",
             CloseSession(p, kind, Decided(snap, StateOf(kind)))
      PROVE  Agrees(p)
  <2>1. Log!EventIsValid(kind, snap, lease, Decided(snap, StateOf(kind)), lease)
    BY <1>3, DecisionIsValid DEF KInv, StateOf
  <2>2. Decided(snap, StateOf(kind)).cleanup_pending
    BY Edited
  <2>. QED  BY <1>3, <2>1, <2>2, CloseAgrees
<1>4. ASSUME NEW kind \in {"cancelled", "expired"}, Decide(p, kind)
      PROVE  Agrees(p)
  <2>. DEFINE loc == [To("reconcile") EXCEPT !.kind = kind]
  <2>1. CASE Leave(p, loc)
    <3>1. loc.pc \notin ClosersPcs
      BY Fields, PcsListed DEF ClosersPcs
    <3>. HIDE DEF loc
    <3>. QED  BY <2>1, <3>1, QuietAgrees DEF Leave, Resume
  <2>2. CASE ~Leave(p, loc)
    BY <1>3, <1>4, <2>2 DEF Decide
  <2>. QED  BY <2>1, <2>2
<1>5. CASE CloseReconciled(p)
  <2>1. At(p, "close") /\ CloseSession(p, pr[p].kind, Decided(snap, StateOf(pr[p].kind)))
    BY <1>5 DEF CloseReconciled
  <2>2. pr[p].kind \in {"cancelled", "expired"}
    BY <2>1 DEF KInv, Due
  <2>3. Open /\ snap.state # "APPLYING"
    BY <2>1 DEF IInv, Fence, Open, Terminal, Log!TerminalStates
  <2>. QED  BY <1>3, <2>1, <2>2, <2>3
<1>. QED  BY <1>1, <1>2, <1>4, <1>5 DEF Decision

LEMMA ApplicationAgrees ==
  ASSUME IInv, JInv, KInv, NEW p \in Procs, Application(p), ~PushChild(p)
  PROVE  Agrees(p)
<1>. DEFINE away == [To("reconcile") EXCEPT !.kind = "applied"]
<1>1. /\ Idle.pc \notin ClosersPcs /\ To("push").pc \notin ClosersPcs
      /\ To("pushing").pc \notin ClosersPcs /\ away.pc \notin ClosersPcs
  BY Fields, PcsListed DEF ClosersPcs
<1>. HIDE DEF away
<1>2. CASE Apply(p)
  <2>. DEFINE t == [snap EXCEPT !.state = "APPLYING"]
  <2>1. snap.state = "APPROVED" /\ Append(p, "applying", t, lease, To("push"), Idle)
    BY <1>2 DEF Apply
  <2>2. Open /\ lease = None
    BY <2>1, Leaseless DEF Open, Terminal, Log!TerminalStates
  <2>3. Log!EventIsValid("applying", snap, lease, t, lease)
    BY <2>1, <2>2, MoveIsValid, Moves DEF KInv
  <2>. HIDE DEF t
  <2>. QED  BY <1>1, <2>1, <2>3, AppendAgrees
<1>3. CASE StartPush(p) \/ EndPush(p)
  <2>1. /\ UNCHANGED refused
        /\ Resume(p, To("pushing")) \/ Resume(p, away) \/ Resume(p, Idle)
    BY <1>3 DEF StartPush, EndPush, away
  <2>. QED  BY <1>1, <2>1, QuietAgrees DEF Resume
<1>4. CASE ReconcileRef(p)
  <2>. DEFINE restored == [snap EXCEPT !.state = "APPROVED"]
              applied  == [snap EXCEPT !.state = "APPLIED",
                                       !.application = [candidate |-> snap.candidate],
                                       !.cleanup_pending = TRUE]
              closing  == [pr[p] EXCEPT !.pc = "close"]
  <2>1. snap.state = "APPLYING" /\ Open
    BY <1>4 DEF ReconcileRef, IInv, Fence, At, Open, Terminal, Log!TerminalStates
  <2>2. lease = None
    BY <2>1, Leaseless
  <2>3. \/ Leave(p, Idle)
        \/ PersistTerminal(p, "applied", applied, Idle)
        \/ Append(p, "application_conflict", restored, lease, Idle, Idle)
        \/ Append(p, "recovered", restored, lease, Idle, Idle)
        \/ /\ Append(p, "recovered", restored, lease, closing, Idle)
           /\ pr[p].kind \in {"cancelled", "expired"}
    BY <1>4 DEF ReconcileRef
  <2>4. /\ Log!EventIsValid("application_conflict", snap, lease, restored, lease)
        /\ Log!EventIsValid("recovered", snap, lease, restored, lease)
    BY <2>1, <2>2, MoveIsValid, Moves DEF KInv
  <2>5. Log!EventIsValid("applied", snap, lease, applied, None) /\ applied.cleanup_pending
    BY <2>1, ApplicationIsValid, Edited DEF KInv
  <2>6. closing.pc = "close" /\ closing.kind = pr[p].kind
    BY Fields, CarriedFields, PcsListed
  <2>. HIDE DEF restored, applied, closing
  <2>7. CASE Leave(p, Idle)
    BY <1>1, <2>7, QuietAgrees DEF Leave, Resume
  <2>8. CASE PersistTerminal(p, "applied", applied, Idle)
    BY <1>1, <2>5, <2>8, TerminalAgrees
  <2>9. CASE \/ Append(p, "application_conflict", restored, lease, Idle, Idle)
             \/ Append(p, "recovered", restored, lease, Idle, Idle)
    BY <1>1, <2>4, <2>9, AppendAgrees
  <2>10. CASE /\ Append(p, "recovered", restored, lease, closing, Idle)
              /\ pr[p].kind \in {"cancelled", "expired"}
    <3>1. refused' = refused /\ (pr'[p] = closing \/ pr'[p] = Idle)
      BY <2>4, <2>10, Appended
    <3>. QED  BY <1>1, <2>6, <2>10, <3>1 DEF Agrees, Due, ClosersPcs, At
  <2>. QED  BY <2>3, <2>7, <2>8, <2>9, <2>10
<1>. QED  BY <1>2, <1>3, <1>4 DEF Application

LEMMA MaintenanceAgrees ==
  ASSUME IInv, JInv, KInv, NEW p \in Procs, Maintenance(p)
  PROVE  Agrees(p)
<1>. DEFINE free == {"idle", "fail", "applying", "recheck", "reconcile"}
            managing(pc) == [To(pc) EXCEPT !.mgr = TRUE]
            preparing == [To("prepare") EXCEPT !.seen = snap]
<1>1. /\ free \subseteq Pcs /\ \A pc \in free : To(pc).pc \notin ClosersPcs
      /\ Idle.pc \notin ClosersPcs /\ preparing.pc \notin ClosersPcs
      /\ \A pc \in {"maintain", "sweepLocked", "removing"} : managing(pc).pc \notin ClosersPcs
  BY PcsListed, Fields DEF ClosersPcs
<1>2. managing("tidy").pc = "tidy" /\ managing("tidy").mgr = TRUE
  BY PcsListed, Fields, CarriedFields
<1>. HIDE DEF managing, preparing, free
<1>3. CASE Recover(p) \/ RecoverApplying(p) \/ RecoverCandidate(p)
  <2>1. /\ UNCHANGED refused
        /\ \/ Resume(p, preparing) \/ Resume(p, Idle)
           \/ \E pc \in free : Resume(p, To(pc))
    BY <1>3 DEF Recover, RecoverApplying, RecoverCandidate, Leave, preparing, free
  <2>. QED  BY <1>1, <2>1, QuietAgrees DEF Resume
<1>4. CASE Cleanup(p)
  BY <1>1, <1>4, QuietAgrees DEF Cleanup, Goto, managing
<1>5. CASE CleanupSession(p)
  <2>1. UNCHANGED refused /\ snap' = snap
    BY <1>5 DEF CleanupSession, Leave, chain
  <2>2. Resume(p, Idle) \/ Resume(p, managing("tidy")) \/ Resume(p, managing("sweepLocked"))
    BY <1>5 DEF CleanupSession, Leave, managing
  <2>3. CASE Resume(p, managing("tidy"))
    <3>1. pr'[p] = managing("tidy")
      BY <2>3, Elsewhere DEF Resume
    <3>. QED  BY <1>2, <2>1, <3>1 DEF Agrees, Due, At
  <2>. QED  BY <1>1, <2>1, <2>2, <2>3, QuietAgrees DEF Resume
<1>6. CASE RetryContainer(p)
  <2>. DEFINE loc == [pr[p] EXCEPT !.pc = "tidy"]
  <2>1. Terminal /\ lease # None
    BY <1>6 DEF RetryContainer, JInv, Own, ClosingOK, At
  <2>2. snap.cleanup_pending
    BY <2>1 DEF JInv, Log!LeaseIsOwed, Terminal, Log!TerminalStates
  <2>3. Leave(p, loc) \/ Leave(p, Idle)
    BY <1>6, <2>2 DEF RetryContainer
  <2>4. loc.pc = "tidy"
    BY Fields, PcsListed
  <2>. HIDE DEF loc
  <2>5. CASE Leave(p, loc)
    <3>1. snap' = snap /\ refused' = refused /\ pr'[p] = loc
      BY <2>5, Elsewhere DEF Leave, Resume, chain
    <3>. QED  BY <2>2, <2>4, <3>1 DEF Agrees, Due, At
  <2>. QED  BY <1>1, <2>3, <2>5, QuietAgrees DEF Leave, Resume
<1>7. CASE RemoveExpired(p) \/ FinishRemoval(p)
  <2>1. /\ UNCHANGED refused
        /\ Goto(p, Idle) \/ Resume(p, managing("removing")) \/ Resume(p, Idle)
    BY <1>7 DEF RemoveExpired, FinishRemoval, managing
  <2>. QED  BY <1>1, <2>1, QuietAgrees DEF Goto, Resume
<1>. QED  BY <1>3, <1>4, <1>5, <1>6, <1>7 DEF Maintenance

LEMMA EnvironmentAgrees ==
  ASSUME IInv, KInv, NEW p \in Procs, CallFails(p) \/ Crash(p) \/ DaemonSettles(p)
  PROVE  Agrees(p)
<1>1. CASE CallFails(p)
  <2>. DEFINE pc == OnError[pr[p].pc]
              undoing == [pr[p] EXCEPT !.pc = pc, !.then = "fail"]
  <2>1. /\ UNCHANGED refused
        /\ \/ pc \in {"unregister", "discard"} /\ Goto(p, undoing)
           \/ pc \in {"idle", "fail"} /\ Goto(p, To(pc))
    BY <1>1 DEF CallFails, OnError
  <2>2. /\ pc \in {"unregister", "discard"} => undoing.pc \notin ClosersPcs
        /\ pc \in {"idle", "fail"} => To(pc).pc \notin ClosersPcs
    <3>1. {"unregister", "discard", "idle", "fail"} \subseteq Pcs \ ClosersPcs
      BY PcsListed DEF ClosersPcs
    <3>. QED  BY <3>1, Fields
  <2>. HIDE DEF undoing, pc
  <2>. QED  BY <2>1, <2>2, QuietAgrees DEF Goto
<1>2. CASE Crash(p)
  BY <1>2, QuietAgrees, Detours DEF Crash, ClosersPcs
<1>3. CASE DaemonSettles(p)
  BY <1>3 DEF DaemonSettles, chain, Agrees, Due, At, KInv
<1>. QED  BY <1>1, <1>2, <1>3

-----------------------------------------------------------------------------
(* What the other processes know stays true: a process that is about to    *)
(* record a cleanup holds the lock, so that nobody else appends.           *)
LEMMA OthersStayDue ==
  ASSUME IInv, KInv, NEW p \in Procs, Gentle(p), NEW q \in Procs \ {p}
  PROVE  Due(q)'
<1>1. pr'[q] = pr[q] /\ Due(q)
  BY DEF Gentle, KInv
<1>2. CASE pr[q].pc \in {"tidy", "tidied"}
  <2>1. lock = q
    BY <1>2, PcsListed DEF IInv, TypeOK, ControlOK
  <2>2. UNCHANGED chain
    BY <2>1, RolesAssumption DEF Gentle, LockFree
  <2>. QED  BY <1>1, <2>2 DEF Due, chain, At
<1>3. CASE pr[q].pc \notin {"tidy", "tidied"}
  BY <1>1, <1>3 DEF Due, At
<1>. QED  BY <1>2, <1>3

LEMMA InitEstablishesKInv == Init => KInv
<1>. SUFFICES ASSUME Init PROVE KInv
  OBVIOUS
<1>1. /\ snap = Log!Created /\ lease = None /\ refused = {}
      /\ \A p \in Procs : pr[p].pc = "idle"
  BY Exits DEF Init, Log!Init
<1>2. Recorded
  BY <1>1 DEF Recorded, Log!Created, Log!SnapshotShape, Log!RecordsAreInOrder,
              Log!IntentHasNoVerdict, Log!RecordsAreTimely, Log!TerminalStates
<1>. QED  BY <1>1, <1>2 DEF KInv, NoEventRefused, Due, At

(* Every step of every process keeps the invariant.                        *)
LEMMA StepAgrees == IInv /\ JInv /\ KInv /\ [Next]_vars => KInv'
<1>. SUFFICES ASSUME IInv, JInv, KInv, [Next]_vars PROVE KInv'
  OBVIOUS
<1>1. [Log!Next]_chain /\ Recorded'
  <2>1. [Log!Next]_chain
    BY StepKeeps
  <2>. QED  BY <2>1, ChainRecords DEF KInv
<1>2. ASSUME NEW p \in Procs,
             \/ Proposal(p) \/ Validation(p) \/ Closing(p)
             \/ Decision(p) \/ (Application(p) /\ ~PushChild(p)) \/ Maintenance(p)
             \/ CallFails(p) \/ Crash(p) \/ DaemonSettles(p)
      PROVE  KInv'
  <2>1. Gentle(p)
    BY <1>1, <1>2, ProposalTracks, ValidationTracks, ClosingTracks, DecisionTracks,
       ApplicationTracks, MaintenanceTracks, EnvironmentTracks DEF Sound
  <2>2. Agrees(p)
    BY <1>2, ProposalAgrees, ValidationAgrees, ClosingAgrees, DecisionAgrees,
       ApplicationAgrees, MaintenanceAgrees, EnvironmentAgrees
  <2>3. NoEventRefused'
    BY <2>2 DEF Agrees, KInv, NoEventRefused
  <2>4. \A q \in Procs : Due(q)'
    BY <2>1, <2>2, OthersStayDue DEF Agrees
  <2>. QED  BY <1>1, <2>3, <2>4 DEF KInv
<1>3. ASSUME UNCHANGED <<chain, refused, pr>> PROVE KInv'
  BY <1>1, <1>3 DEF KInv, NoEventRefused, Due, At, chain
<1>4. CASE (\E p \in Procs : PushChild(p)) \/ ForeignRef \/ UNCHANGED vars
  BY <1>3, <1>4 DEF PushChild, ForeignRef, vars
<1>. QED  BY <1>2, <1>4 DEF Next

(* The chain, the containers, the payload and what every process knows, in *)
(* every state of every execution.                                         *)
THEOREM AgreementInvariant == Spec => [](IInv /\ JInv /\ KInv)
<1>1. IInv /\ JInv /\ KInv /\ [Next]_vars => (IInv /\ JInv /\ KInv)'
  BY StepKeeps, StepTracks, StepAgrees
<1>2. Init => IInv /\ JInv /\ KInv
  BY InitEstablishesIInv, InitEstablishesJInv, InitEstablishesKInv
<1>. QED  BY <1>1, <1>2, PTL DEF Spec

(* No process ever attempts an event that the store refuses: whatever      *)
(* crashes, fails, or happens in between, the flows of the workflow and    *)
(* the tables of the store agree.                                          *)
THEOREM NoEventIsEverRefused == Spec => []NoEventRefused
<1>1. KInv => NoEventRefused
  BY DEF KInv
<1>. QED  BY <1>1, AgreementInvariant, PTL

(* What several commands and an independent maintenance keep together, for *)
(* any number of processes: no event refused, a sound publication, no      *)
(* container without a lease, nothing removed too early or left behind.    *)
THEOREM WorkflowIsAlwaysSafe == Spec => []WorkflowIsSafe
<1>1. NoEventRefused /\ PublicationIsSound /\ NoUntrackedContainer /\ RemovalIsSafe => WorkflowIsSafe
  BY DEF WorkflowIsSafe
<1>. QED  BY <1>1, NoEventIsEverRefused, PublicationIsAlwaysSound, NoContainerIsUntracked,
             RemovalIsAlwaysSafe, PTL
-----------------------------------------------------------------------------
(***************************************************************************)
(* The workflow implements GuardedRepair.                                  *)
(*                                                                         *)
(* The chain moves from phase to phase as the store's table says.  That a  *)
(* move finds the ref as GuardedRepair wants it, follows from what IInv    *)
(* says of the ref before and after the step, except for the event that    *)
(* records an application: only who has just read the ref appends it.      *)
(***************************************************************************)

LEMMA PhaseMoves ==
  ASSUME [Log!Next]_chain, snap'.state # snap.state
  PROVE  \/ {snap.state, snap'.state} \subseteq {"CREATED", "GENERATING", "VALIDATING"}
         \/ snap.state = "VALIDATING" /\ snap'.state = "VALIDATED"
         \/ snap.state = "VALIDATED" /\ snap'.state = "APPROVED"
         \/ snap.state = "APPROVED" /\ snap'.state = "APPLYING"
         \/ snap.state = "APPLYING" /\ snap'.state \in {"APPLIED", "APPROVED"}
         \/ /\ snap.state \in {"CREATED", "GENERATING", "VALIDATING", "VALIDATED", "APPROVED"}
            /\ snap'.state \in {"REJECTED", "CANCELLED", "EXPIRED", "FAILED"}
<1>1. PICK kind \in Log!Kinds : Log!EventStatePairIsValid(kind, snap.state, snap'.state)
  BY DEF chain, Log!Next, Log!AppendEvent, Log!EventIsValid
<1>. QED  BY <1>1, KindsListed DEF Log!EventStatePairIsValid, Log!EventStatePairs, Log!Same,
              Log!TerminalStates

(* An event leaves the snapshot it was called with, or the last one.       *)
LEMMA AppendTo ==
  ASSUME NEW p, NEW kind, NEW t, NEW m, NEW good, NEW bad, Append(p, kind, t, m, good, bad)
  PROVE  snap' \in {snap, t}
BY DEF Append, Leave, chain

LEMMA CloseTo ==
  ASSUME NEW p, NEW kind, NEW t, CloseSession(p, kind, t)
  PROVE  snap' \in {snap, t}
BY AppendTo DEF CloseSession, PersistTerminal

(* What the steps of a process other than its git child do to the ref and  *)
(* to the runs.                                                            *)
LEMMA QuietOnRef ==
  ASSUME NEW p \in Procs,
         \/ Proposal(p) \/ Validation(p) \/ Closing(p)
         \/ Decision(p) \/ (Application(p) /\ ~PushChild(p)) \/ Maintenance(p)
         \/ CallFails(p) \/ Crash(p) \/ DaemonSettles(p)
  PROVE  ref' = ref
<1>1. ASSUME Proposal(p) PROVE ref' = ref
  BY <1>1 DEF Proposal, Propose, Generate, PersistCandidateCheckpoint, PrepareSandbox,
              BeginValidation, git
<1>2. ASSUME Validation(p) PROVE ref' = ref
  BY <1>2 DEF Validation, RegisterIntent, CreateContainer, RemoveOrConfirmUnbound, RegisterRun,
              RemoveUnregistered, DiscardContainer, ReleaseRun, ReleaseIntent, RunContainer,
              CheckpointResult, RemoveContainer, FinishValidation, git
<1>3. ASSUME Closing(p) PROVE ref' = ref
  BY <1>3 DEF Closing, PersistProposalFailure, SweepContainer, SettleTerminal, CleanupPrivate,
              RecordCleanup, git
<1>4. ASSUME Decision(p) PROVE ref' = ref
  BY <1>4 DEF Decision, Approve, Reject, Decide, CloseReconciled, git
<1>5. ASSUME Application(p), ~PushChild(p) PROVE ref' = ref
  BY <1>5 DEF Application, Apply, StartPush, EndPush, ReconcileRef, git
<1>6. ASSUME Maintenance(p) PROVE ref' = ref
  BY <1>6 DEF Maintenance, Recover, RecoverApplying, RecoverCandidate, Cleanup, CleanupSession,
              RetryContainer, RemoveExpired, FinishRemoval, git
<1>7. ASSUME CallFails(p) \/ Crash(p) \/ DaemonSettles(p) PROVE ref' = ref
  BY <1>7 DEF CallFails, Crash, DaemonSettles, git
<1>. QED  BY <1>1, <1>2, <1>3, <1>4, <1>5, <1>6, <1>7

LEMMA QuietOnRuns ==
  ASSUME NEW p \in Procs,
         \/ Proposal(p) \/ Validation(p) \/ Closing(p)
         \/ Decision(p) \/ (Application(p) /\ ~PushChild(p)) \/ Maintenance(p)
         \/ CallFails(p) \/ Crash(p) \/ DaemonSettles(p)
  PROVE  runs' = runs \/ (runs' = runs + 1 /\ UNCHANGED chain)
<1>1. ASSUME Proposal(p) PROVE runs' = runs
  BY <1>1 DEF Proposal, Propose, Generate, PersistCandidateCheckpoint, PrepareSandbox,
              BeginValidation, docker
<1>2. ASSUME Validation(p), ~RunContainer(p) PROVE runs' = runs
  BY <1>2 DEF Validation, RegisterIntent, CreateContainer, RemoveOrConfirmUnbound, RegisterRun,
              RemoveUnregistered, DiscardContainer, ReleaseRun, ReleaseIntent,
              CheckpointResult, RemoveContainer, FinishValidation, docker
<1>3. ASSUME RunContainer(p) PROVE runs' = runs \/ (runs' = runs + 1 /\ UNCHANGED chain)
  BY <1>3 DEF RunContainer
<1>4. ASSUME Closing(p) PROVE runs' = runs
  BY <1>4 DEF Closing, PersistProposalFailure, SweepContainer, SettleTerminal, CleanupPrivate,
              RecordCleanup, docker
<1>5. ASSUME Decision(p) PROVE runs' = runs
  BY <1>5 DEF Decision, Approve, Reject, Decide, CloseReconciled, docker
<1>6. ASSUME Application(p), ~PushChild(p) PROVE runs' = runs
  BY <1>6 DEF Application, Apply, StartPush, EndPush, ReconcileRef, docker
<1>7. ASSUME Maintenance(p) PROVE runs' = runs
  BY <1>7 DEF Maintenance, Recover, RecoverApplying, RecoverCandidate, Cleanup, CleanupSession,
              RetryContainer, RemoveExpired, FinishRemoval, docker
<1>8. ASSUME CallFails(p) \/ Crash(p) \/ DaemonSettles(p) PROVE runs' = runs
  BY <1>8 DEF CallFails, Crash, DaemonSettles, docker
<1>. QED  BY <1>1, <1>2, <1>3, <1>4, <1>5, <1>6, <1>7, <1>8

(* Only a process that has just found its commit under the ref records the *)
(* application: nobody else appends anything while the session is being    *)
(* applied but what leaves its state alone.                                *)
LEMMA AppliedIsRead ==
  ASSUME IInv, NEW p \in Procs, snap.state = "APPLYING", snap'.state = "APPLIED",
         \/ Proposal(p) \/ Validation(p) \/ Closing(p)
         \/ Decision(p) \/ (Application(p) /\ ~PushChild(p)) \/ Maintenance(p)
         \/ CallFails(p) \/ Crash(p) \/ DaemonSettles(p)
  PROVE  ref = "ours"
<1>0. /\ snap' # snap /\ ~UNCHANGED chain
      /\ \A loc : ~Leave(p, loc)
      /\ \A b : snap' # [snap EXCEPT !.cleanup_pending = b]
      /\ snap \in Log!Snapshots
  <2>1. snap' # snap /\ ~UNCHANGED chain
    BY DEF chain
  <2>2. \A loc : ~Leave(p, loc)
    BY <2>1 DEF Leave
  <2>3. ASSUME NEW b PROVE snap' # [snap EXCEPT !.cleanup_pending = b]
    <3>1. [snap EXCEPT !.cleanup_pending = b].state = snap.state
      BY Edited
    <3>. QED  BY <3>1
  <2>. QED  BY <2>1, <2>2, <2>3 DEF IInv, TypeOK, Log!TypeOK
<1>1. ASSUME Proposal(p) PROVE FALSE
  BY <1>0, <1>1 DEF Proposal, Propose, Generate, PersistCandidateCheckpoint, PrepareSandbox,
                    BeginValidation
<1>2. ASSUME Validation(p) PROVE FALSE
  <2>1. ~RegisterIntent(p) /\ ~RegisterRun(p) /\ ~CheckpointResult(p)
    BY <1>0 DEF RegisterIntent, RegisterRun, CheckpointResult
  <2>2. ~ReleaseRun(p) /\ ~ReleaseIntent(p) /\ ~FinishValidation(p)
    BY <1>0 DEF ReleaseRun, ReleaseIntent, FinishValidation, Terminal, Open, Log!TerminalStates
  <2>3. /\ ~CreateContainer(p) /\ ~RemoveOrConfirmUnbound(p) /\ ~RemoveUnregistered(p)
        /\ ~DiscardContainer(p) /\ ~RunContainer(p) /\ ~RemoveContainer(p)
    BY <1>0 DEF CreateContainer, RemoveOrConfirmUnbound, RemoveUnregistered, DiscardContainer,
                RunContainer, RemoveContainer
  <2>. QED  BY <1>2, <2>1, <2>2, <2>3 DEF Validation
<1>3. ASSUME Closing(p) PROVE FALSE
  <2>1. ~PersistProposalFailure(p)
    BY <1>0 DEF PersistProposalFailure
  <2>2. ~RecordCleanup(p)
    BY <1>0, AppendTo DEF RecordCleanup
  <2>3. ~SweepContainer(p) /\ ~SettleTerminal(p) /\ ~CleanupPrivate(p)
    BY <1>0 DEF SweepContainer, SettleTerminal, CleanupPrivate
  <2>. QED  BY <1>3, <2>1, <2>2, <2>3 DEF Closing
<1>4. ASSUME Decision(p) PROVE FALSE
  <2>1. ~Approve(p) /\ ~Reject(p)
    BY DEF Approve, Reject
  <2>2. ~CloseReconciled(p)
    BY DEF CloseReconciled, IInv, Fence
  <2>3. \A kind : ~Decide(p, kind)
    BY <1>0 DEF Decide
  <2>. QED  BY <1>4, <2>1, <2>2, <2>3 DEF Decision
<1>5. ASSUME Application(p), ~PushChild(p) PROVE ref = "ours"
  <2>1. ~Apply(p) /\ ~StartPush(p) /\ ~EndPush(p)
    BY <1>0 DEF Apply, StartPush, EndPush
  <2>2. ReconcileRef(p)
    BY <1>5, <2>1 DEF Application
  <2>3. [snap EXCEPT !.state = "APPROVED"].state = "APPROVED"
    BY Edited
  <2>4. ref = "ours" \/ snap' \in {snap, [snap EXCEPT !.state = "APPROVED"]}
    BY <1>0, <2>2, AppendTo DEF ReconcileRef
  <2>. QED  BY <1>0, <2>3, <2>4
<1>6. ASSUME Maintenance(p) PROVE FALSE
  <2>1. ~RetryContainer(p)
    BY <1>0, AppendTo DEF RetryContainer
  <2>2. /\ ~Recover(p) /\ ~RecoverApplying(p) /\ ~RecoverCandidate(p) /\ ~Cleanup(p)
        /\ ~CleanupSession(p) /\ ~RemoveExpired(p) /\ ~FinishRemoval(p)
    BY <1>0 DEF Recover, RecoverApplying, RecoverCandidate, Cleanup, CleanupSession,
                RemoveExpired, FinishRemoval
  <2>. QED  BY <1>6, <2>1, <2>2 DEF Maintenance
<1>7. ASSUME CallFails(p) \/ Crash(p) \/ DaemonSettles(p) PROVE FALSE
  BY <1>0, <1>7 DEF CallFails, Crash, DaemonSettles
<1>. QED  BY <1>1, <1>2, <1>3, <1>4, <1>5, <1>6, <1>7

(* What GuardedRepair shows of a state.                                    *)
LEMMA PhaseOf ==
  /\ snap.state \in {"CREATED", "GENERATING", "VALIDATING"} => Phase = "proposed"
  /\ snap.state = "VALIDATED" => Phase = "validated"
  /\ snap.state = "APPROVED" => Phase = "approved"
  /\ snap.state = "APPLYING" => Phase = "applying"
  /\ snap.state = "APPLIED" => Phase = "applied"
  /\ snap.state \in {"REJECTED", "CANCELLED", "EXPIRED", "FAILED"} => Phase = "closed"
BY DEF Phase

(* A step that leaves the ref and the runs alone.                          *)
LEMMA PhaseStep ==
  ASSUME IInv, JInv, IInv', JInv', [Log!Next]_chain, UNCHANGED <<ref, runs>>,
         snap.state = "APPLYING" /\ snap'.state = "APPLIED" => ref = "ours"
  PROVE  [Guarded!Next]_(Guarded!repairVars)
<1>1. CASE snap'.state = snap.state
  BY <1>1 DEF Phase, Guarded!repairVars
<1>2. CASE {snap.state, snap'.state} \subseteq {"CREATED", "GENERATING", "VALIDATING"}
  BY <1>2, PhaseOf DEF Guarded!repairVars, Phase
<1>3. CASE snap.state = "VALIDATING" /\ snap'.state = "VALIDATED"
  <2>1. runs = 1
    BY <1>3 DEF JInv, RunsAreAccounted, AtMostOneRun, ValidatedWasRun, IInv, TypeOK
  <2>. QED  BY <1>3, <2>1 DEF Phase, Guarded!Next, Guarded!Validate, Guarded!Moves
<1>4. CASE snap.state = "VALIDATED" /\ snap'.state = "APPROVED"
  BY <1>4 DEF Phase, Guarded!Next, Guarded!Approve, Guarded!Moves
<1>5. CASE snap.state = "APPROVED" /\ snap'.state = "APPLYING"
  BY <1>5 DEF Phase, Guarded!Next, Guarded!Begin, Guarded!Moves
<1>6. CASE snap.state = "APPLYING" /\ snap'.state = "APPLIED"
  BY <1>6 DEF Phase, Guarded!Next, Guarded!Succeed, Guarded!Moves
<1>7. CASE snap.state = "APPLYING" /\ snap'.state = "APPROVED"
  <2>1. ref # "ours"
    BY <1>7 DEF IInv, PublishedIsApplied
  <2>. QED  BY <1>7, <2>1 DEF Phase, Guarded!Next, Guarded!Return, Guarded!Moves
<1>8. CASE /\ snap.state \in {"CREATED", "GENERATING", "VALIDATING", "VALIDATED", "APPROVED"}
           /\ snap'.state \in {"REJECTED", "CANCELLED", "EXPIRED", "FAILED"}
  <2>1. ref # "ours"
    BY <1>8, NotPublished
  <2>2. Phase \in {"proposed", "validated", "approved"} /\ Phase' = "closed"
    BY <1>8 DEF Phase
  <2>. QED  BY <2>1, <2>2 DEF Guarded!Next, Guarded!Close, Guarded!Moves
<1>. QED  BY <1>1, <1>2, <1>3, <1>4, <1>5, <1>6, <1>7, <1>8, PhaseMoves

(* Every step of the workflow is one of GuardedRepair, or none.            *)
LEMMA StepIsGuarded ==
  IInv /\ JInv /\ [Next]_vars => [Guarded!Next]_(Guarded!repairVars)
<1>. SUFFICES ASSUME IInv, JInv, [Next]_vars PROVE [Guarded!Next]_(Guarded!repairVars)
  OBVIOUS
<1>1. IInv' /\ JInv' /\ [Log!Next]_chain
  BY StepKeeps, StepTracks
<1>2. ASSUME NEW p \in Procs,
             \/ Proposal(p) \/ Validation(p) \/ Closing(p)
             \/ Decision(p) \/ (Application(p) /\ ~PushChild(p)) \/ Maintenance(p)
             \/ CallFails(p) \/ Crash(p) \/ DaemonSettles(p)
      PROVE  [Guarded!Next]_(Guarded!repairVars)
  <2>1. ref' = ref
    BY <1>2, QuietOnRef
  <2>2. snap.state = "APPLYING" /\ snap'.state = "APPLIED" => ref = "ours"
    BY <1>2, AppliedIsRead
  <2>3. CASE runs' = runs
    BY <1>1, <2>1, <2>2, <2>3, PhaseStep
  <2>4. CASE runs' = runs + 1 /\ UNCHANGED chain
    <3>1. runs \in Nat /\ runs' <= 1
      BY <1>1 DEF IInv, TypeOK, JInv, RunsAreAccounted, AtMostOneRun
    <3>2. runs = 0 /\ runs' = 1
      BY <2>4, <3>1
    <3>3. Phase' = Phase
      BY <2>4 DEF chain, Phase
    <3>. QED  BY <2>1, <3>2, <3>3 DEF Guarded!Next, Guarded!Execute
  <2>. QED  BY <1>2, <2>3, <2>4, QuietOnRuns
<1>3. CASE \E p \in Procs : PushChild(p)
  <2>1. PICK p \in Procs : PushChild(p)
    BY <1>3
  <2>2. Phase = "applying"
    BY <2>1 DEF PushChild, IInv, Fence, Phase
  <2>3. Phase' = Phase /\ runs' = runs
    BY <2>1 DEF PushChild, chain, docker, Phase
  <2>4. ref' = ref \/ (ref = "absent" /\ ref' = "ours")
    BY <2>1 DEF PushChild
  <2>. QED  BY <2>2, <2>3, <2>4 DEF Guarded!Next, Guarded!Publish, Guarded!repairVars
<1>4. CASE ForeignRef
  <2>1. Phase' = Phase /\ runs' = runs /\ ref' \in {"absent", "foreign"}
    BY <1>4 DEF ForeignRef, chain, docker, Phase
  <2>. QED  BY <2>1 DEF Guarded!Next, Guarded!Interfere
<1>5. CASE UNCHANGED vars
  BY <1>5 DEF vars, chain, docker, git, Phase, Guarded!repairVars
<1>. QED  BY <1>2, <1>3, <1>4, <1>5 DEF Next

(* The commands, their crashes and their git children implement a guarded  *)
(* repair: one execution before the verdict, a commit that is published    *)
(* while it is being applied, and an end that is what the ref says.        *)
THEOREM WorkflowIsGuarded == Spec => ImplementsGuardedRepair
<1>1. Init => Guarded!Init
  BY DEF Init, Log!Init, Log!Created, Guarded!Init, Phase
<1>. QED  BY <1>1, StepIsGuarded, CleanupInvariant, PTL DEF Spec, ImplementsGuardedRepair,
              Guarded!Spec
=============================================================================
