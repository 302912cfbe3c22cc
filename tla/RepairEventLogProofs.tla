------------------------ MODULE RepairEventLogProofs ------------------------
(***************************************************************************)
(* Proofs about RepairEventLog: every chain the store accepts satisfies the*)
(* invariants, for every set of candidate identities and fencing tokens.   *)
(*                                                                         *)
(* The inductive invariant is the conjunction of the type invariant, the   *)
(* shape of the snapshot and the four safety invariants.  They are proved  *)
(* together: LeaseIsOwed needs the shape to know that a lease-carrying     *)
(* closed session is pending, VerdictHasRun needs LeaseIsOwed to know that *)
(* no lease exists before validation starts, and RecordsAreTimely needs    *)
(* the shape to exclude an approval without a verdict.                     *)
(***************************************************************************)
EXTENDS RepairEventLog, TLAPS

IInv ==
  /\ TypeOK
  /\ SnapshotShape(snap)
  /\ LeaseIsOwed
  /\ VerdictHasRun
  /\ IntentHasNoVerdict
  /\ RecordsAreTimely

-----------------------------------------------------------------------------
(* Every snapshot an event may carry is a snapshot record.                 *)
LEMMA EditsAreSnapshots ==
  ASSUME TypeOK, NEW kind \in Kinds
  PROVE  Edits(kind) \subseteq Snapshots
<1>1. /\ snap.candidate \in Domain["candidate"]
      /\ snap.validation \in Domain["validation"]
      /\ snap.approval \in Domain["approval"]
      /\ snap.application \in Domain["application"]
      /\ snap.decision \in Domain["decision"]
      /\ snap.failure \in Domain["failure"]
      /\ snap.cleanup_pending \in Domain["cleanup_pending"]
  BY DEF TypeOK, Snapshots, Domain
<1>2. SUFFICES ASSUME NEW t \in Edits(kind)
               PROVE  t \in Snapshots
  OBVIOUS
<1>. QED  BY <1>1, <1>2 DEF Edits, Snapshots, Domain

(* The state pairs of each kind, one line per kind.                        *)
LEMMA PairsOfKind ==
  ASSUME NEW kind \in Kinds, NEW a, NEW b, EventStatePairIsValid(kind, a, b)
  PROVE
    /\ kind = "generating" => a = "CREATED" /\ b = "GENERATING"
    /\ kind = "candidate" => a = "GENERATING" /\ b = "GENERATING"
    /\ kind = "validating" => a = "GENERATING" /\ b = "VALIDATING"
    /\ kind \in {"validation_intent", "validation_intent_abandoned", "validation_result"} =>
         a = "VALIDATING" /\ b = "VALIDATING"
    /\ kind = "validation_run" =>
         a = b /\ b \in {"VALIDATING", "CANCELLED", "EXPIRED", "FAILED"}
    /\ kind = "validated" => a = "VALIDATING" /\ b = "VALIDATED"
    /\ kind = "approved" => a = "VALIDATED" /\ b = "APPROVED"
    /\ kind = "applying" => a = "APPROVED" /\ b = "APPLYING"
    /\ kind = "applied" => a = "APPLYING" /\ b = "APPLIED"
    /\ kind = "rejected" => a \in {"VALIDATED", "APPROVED"} /\ b = "REJECTED"
    /\ kind = "cancelled" => b = "CANCELLED"
    /\ kind = "expired" => b = "EXPIRED"
    /\ kind = "failed" => a \in {"GENERATING", "VALIDATING"} /\ b = "FAILED"
    /\ kind \in {"application_conflict", "recovered"} => a = "APPLYING" /\ b = "APPROVED"
    /\ kind \in {"cleanup_complete", "cleanup_pending"} => a = b /\ b \in TerminalStates
BY DEF EventStatePairIsValid, EventStatePairs, Same, TerminalStates

LEMMA KindsListed ==
  Kinds = {"generating", "candidate", "validating", "validation_intent",
           "validation_intent_abandoned", "validation_run", "validation_result",
           "validated", "approved", "applying", "applied", "rejected", "cancelled",
           "expired", "failed", "application_conflict", "recovered",
           "cleanup_complete", "cleanup_pending"}
BY DEF Kinds, EventStatePairs

(* The initial chain satisfies the invariant.                              *)
LEMMA InitEstablishesIInv == Init => IInv
BY NoneAssumption
   DEF Init, IInv, TypeOK, Created, Snapshots, States, TerminalStates, SnapshotShape,
       LeaseIsOwed, VerdictHasRun, IntentHasNoVerdict, RecordsAreTimely

(* One accepted event preserves the invariant.                             *)
LEMMA EventPreservesIInv ==
  ASSUME IInv, NEW kind \in Kinds, AppendEvent(kind)
  PROVE  IInv'
<1>. DEFINE t == snap'
            m == lease'
<1>1. /\ t \in Snapshots
      /\ m \in Leases \cup {None}
      /\ EventIsValid(kind, snap, lease, t, m)
  BY EditsAreSnapshots DEF AppendEvent, IInv
<1>2. EventStatePairIsValid(kind, snap.state, t.state)
  BY <1>1 DEF EventIsValid
<1>. HIDE DEF t, m
<1>3. TypeOK' /\ SnapshotShape(snap)'
  BY <1>1 DEF t, m, TypeOK, EventIsValid
<1>4. kind \notin LeaseKinds => LeaseCarried(kind, lease, m, t)
  BY <1>1 DEF EventIsValid, ValidationRunUpdateIsValid
<1>5. LeaseIsOwed'
  <2>. SUFFICES ASSUME m # None
                PROVE  \/ t.state = "VALIDATING"
                       \/ t.state \in {"CANCELLED", "EXPIRED", "FAILED"} /\ t.cleanup_pending
    BY DEF LeaseIsOwed, t, m
  <2>1. CASE kind \in {"validation_intent", "validation_intent_abandoned", "validation_result"}
    BY <1>2, <2>1, PairsOfKind
  <2>2. CASE kind = "validation_run"
    <3>1. lease # None
      BY <1>1, <2>2 DEF EventIsValid, ValidationRunUpdateIsValid, RunBound
    <3>2. t.cleanup_pending = snap.cleanup_pending
      BY <1>1, <2>2 DEF EventIsValid, SnapshotUpdateIsValid, EventSnapshotChanges,
                        Changed, MutableFields
    <3>. QED  BY <1>2, <2>2, <3>1, <3>2, PairsOfKind DEF IInv, LeaseIsOwed
  <2>3. CASE kind \notin LeaseKinds
    <3>1. lease # None /\ kind # "cleanup_complete" /\ t.state \in LeaseCarryStates
      BY <1>4, <2>3 DEF LeaseCarried
    <3>2. CASE kind \in {"cancelled", "expired", "failed", "cleanup_pending"}
      BY <1>1, <3>1, <3>2 DEF EventIsValid, SnapshotUpdateIsValid, LeaseCarryStates
    <3>3. CASE kind \notin {"cancelled", "expired", "failed", "cleanup_pending"}
      BY <1>2, <2>3, <3>1, <3>3, PairsOfKind, KindsListed DEF LeaseCarryStates, LeaseKinds
    <3>. QED  BY <3>2, <3>3
  <2>. QED  BY <2>1, <2>2, <2>3 DEF LeaseKinds
<1>6. VerdictHasRun'
  <2>. SUFFICES ASSUME t.state = "VALIDATING", t.validation # None
                PROVE  m # None /\ m.bound
    BY DEF VerdictHasRun, t, m
  <2>1. kind \in {"validating", "validation_result"} \cup (LeaseKinds \ {"validation_result"})
    BY <1>2, PairsOfKind, KindsListed DEF LeaseKinds, TerminalStates
  <2>2. CASE kind = "validating"
    BY <1>1, <1>2, <2>2, PairsOfKind
       DEF EventIsValid, SnapshotUpdateIsValid, EventSnapshotChanges, Changed,
           MutableFields, IInv, RecordsAreTimely
  <2>3. CASE kind = "validation_result"
    BY <1>1, <2>3 DEF EventIsValid, ValidationRunUpdateIsValid, ResultOfRun
  <2>4. CASE kind \in LeaseKinds \ {"validation_result"}
    BY <1>1, <2>4 DEF EventIsValid, ValidationRunUpdateIsValid, IntentRegistered,
                      RunBound, IntentAbandoned, LeaseKinds
  <2>. QED  BY <2>1, <2>2, <2>3, <2>4
<1>7. IntentHasNoVerdict'
  <2>. SUFFICES ASSUME m # None, ~m.bound
                PROVE  t.validation = None
    BY DEF IntentHasNoVerdict, t, m
  <2>1. CASE kind \in LeaseKinds
    BY <1>1, <2>1 DEF EventIsValid, ValidationRunUpdateIsValid, IntentRegistered,
                      RunBound, IntentAbandoned, ResultOfRun, LeaseKinds
  <2>2. CASE kind \notin LeaseKinds
    <3>1. t.validation = snap.validation
      BY <1>1, <2>2, KindsListed
         DEF EventIsValid, SnapshotUpdateIsValid, EventSnapshotChanges, Changed,
             MutableFields, LeaseKinds
    <3>. QED  BY <1>4, <2>2, <3>1 DEF LeaseCarried, IInv, IntentHasNoVerdict
  <2>. QED  BY <2>1, <2>2
<1>8. RecordsAreTimely'
  <2>1. t.state \in {"CREATED", "GENERATING"} => t.validation = None
    <3>. SUFFICES ASSUME t.state \in {"CREATED", "GENERATING"}
                  PROVE  t.validation = None
      OBVIOUS
    <3>1. kind \in {"generating", "candidate"} /\ snap.state \in {"CREATED", "GENERATING"}
      BY <1>2, PairsOfKind, KindsListed DEF TerminalStates
    <3>2. t.validation = snap.validation
      BY <1>1, <3>1 DEF EventIsValid, SnapshotUpdateIsValid, EventSnapshotChanges,
                        Changed, MutableFields
    <3>. QED  BY <3>1, <3>2 DEF IInv, RecordsAreTimely
  <2>2. t.state \in {"CREATED", "GENERATING", "VALIDATING", "VALIDATED", "FAILED"} =>
          t.approval = None
    <3>. SUFFICES
           ASSUME t.state \in {"CREATED", "GENERATING", "VALIDATING", "VALIDATED", "FAILED"}
           PROVE  t.approval = None
      OBVIOUS
    <3>1. /\ kind # "approved"
          /\ snap.state \in {"CREATED", "GENERATING", "VALIDATING", "VALIDATED", "FAILED"}
      BY <1>2, PairsOfKind, KindsListed DEF TerminalStates
    <3>2. t.approval = snap.approval
      BY <1>1, <3>1, KindsListed
         DEF EventIsValid, SnapshotUpdateIsValid, EventSnapshotChanges, Changed, MutableFields
    <3>. QED  BY <3>1, <3>2 DEF IInv, RecordsAreTimely
  <2>. QED  BY <2>1, <2>2 DEF RecordsAreTimely, t
<1>. QED  BY <1>3, <1>5, <1>6, <1>7, <1>8 DEF IInv

-----------------------------------------------------------------------------
(* In every chain that loads: the records are well typed and well shaped,  *)
(* a lease is held only where a container removal is still owed, a verdict *)
(* has a bound run, an unbound intent has no verdict, and verdicts and     *)
(* approvals never come early.                                             *)
THEOREM ChainInvariant == Spec => []IInv
<1>1. IInv /\ [Next]_logVars => IInv'
  <2>. SUFFICES ASSUME IInv, [Next]_logVars
                PROVE  IInv'
    OBVIOUS
  <2>1. CASE Next
    BY <2>1, EventPreservesIInv DEF Next
  <2>2. CASE UNCHANGED logVars
    BY <2>2 DEF logVars, IInv, TypeOK, SnapshotShape, LeaseIsOwed, VerdictHasRun,
                IntentHasNoVerdict, RecordsAreTimely
  <2>. QED  BY <2>1, <2>2
<1>. QED  BY <1>1, InitEstablishesIInv, PTL DEF Spec

(* Type correctness of every chain that loads.                             *)
THEOREM ChainTypeCorrect == Spec => []TypeOK
BY ChainInvariant, PTL DEF IInv

(* A session closed and clean holds no lease; only a session in validation *)
(* or one whose cleanup is pending does.                                   *)
THEOREM LeaseIsAlwaysOwed == Spec => []LeaseIsOwed
BY ChainInvariant, PTL DEF IInv

(* A verdict recorded during validation always belongs to a bound run.     *)
THEOREM VerdictAlwaysHasRun == Spec => []VerdictHasRun
BY ChainInvariant, PTL DEF IInv

(* In no chain that loads does a verdict precede its run or an approval    *)
(* its verdict, also when a closed session still owes a removal.           *)
THEOREM RecordsAreAlwaysInOrder == Spec => []RecordsAreInOrder
<1>1. IInv => RecordsAreInOrder
  BY DEF IInv, RecordsAreInOrder
<1>. QED  BY <1>1, ChainInvariant, PTL

(* Candidate, verdict, approval, application, decision and failure are     *)
(* written once, in every chain that loads.                                *)
THEOREM RecordsAreWrittenOnce == Spec => RecordsWrittenOnce
<1>1. ASSUME NEW kind \in Kinds, AppendEvent(kind), NEW f \in MutableFields \ {"cleanup_pending"},
             snap[f] # Created[f]
      PROVE  snap'[f] = snap[f]
  <2>1. SnapshotUpdateIsValid(kind, snap, snap')
    BY <1>1 DEF AppendEvent, EventIsValid
  <2>2. CASE kind = "cleanup_pending"
    BY <1>1, <2>1, <2>2 DEF SnapshotUpdateIsValid, Changed, MutableFields
  <2>3. CASE kind # "cleanup_pending"
    <3>1. Changed(snap, snap') = EventSnapshotChanges[kind]
      BY <2>1, <2>3 DEF SnapshotUpdateIsValid
    <3>2. CASE f \notin EventSnapshotChanges[kind]
      BY <1>1, <3>1, <3>2 DEF Changed, MutableFields
    <3>3. CASE f \in EventSnapshotChanges[kind]
      <4>1. FirstWrite(f, snap, snap')
        BY <1>1, <2>1, <2>3, <3>3, KindsListed
           DEF SnapshotUpdateIsValid, EventSnapshotChanges, MutableFields
      <4>. QED  BY <1>1, <4>1 DEF FirstWrite
    <3>. QED  BY <3>2, <3>3
  <2>. QED  BY <2>2, <2>3
<1>2. [Next]_logVars =>
        [\A f \in MutableFields \ {"cleanup_pending"} :
           snap[f] # Created[f] => snap'[f] = snap[f]]_logVars
  BY <1>1 DEF Next
<1>. QED  BY <1>2, PTL DEF Spec, RecordsWrittenOnce

(* A bound container is never forgotten while the session can still go on, *)
(* and never exchanged for another, in every chain that loads.             *)
THEOREM BoundRunIsAlwaysKept == Spec => BoundRunIsKept
<1> DEFINE kept == /\ lease' = None
                   /\ snap'.state \in {"VALIDATED"} \cup TerminalStates
<1>1. ASSUME NEW kind \in Kinds, AppendEvent(kind), lease # None, lease.bound, lease' # lease
      PROVE  kept
  <2>1. /\ ValidationRunUpdateIsValid(kind, snap, snap', lease, lease')
        /\ EventStatePairIsValid(kind, snap.state, snap'.state)
    BY <1>1 DEF AppendEvent, EventIsValid
  <2>2. kind \notin LeaseKinds
    BY <1>1, <2>1 DEF ValidationRunUpdateIsValid, IntentRegistered, RunBound, IntentAbandoned,
                      ResultOfRun, LeaseKinds
  <2>3. lease' = None /\ kind \in {"validated", "failed", "cleanup_pending", "cleanup_complete"}
    BY <1>1, <2>1, <2>2 DEF ValidationRunUpdateIsValid, LeaseCarried
  <2>. QED
    BY <2>1, <2>3, PairsOfKind DEF TerminalStates
<1>2. [Next]_logVars =>
        [lease # None /\ lease.bound /\ lease' # lease => kept]_logVars
  BY <1>1 DEF Next
<1>. QED  BY <1>2, PTL DEF Spec, BoundRunIsKept
=============================================================================
