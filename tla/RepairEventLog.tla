--------------------------- MODULE RepairEventLog ---------------------------
(***************************************************************************)
(* The durable history of one repair session: what the store accepts.      *)
(*                                                                         *)
(* A session is a chain of immutable events.  Each event carries its kind, *)
(* a complete snapshot of the session and the validation lease, and        *)
(* _SessionStore.append accepts it only if it is a legal successor of the  *)
(* last one; _load_event_chain replays the same rules over the whole chain *)
(* and refuses the session when any link breaks them.  The rules depend on *)
(* the last event alone, so the state of this specification is the last    *)
(* snapshot and lease, and a step is one event the rules accept.           *)
(*                                                                         *)
(* Whatever processes, crashes and failures produced a chain, a chain that *)
(* loads is a behaviour of this module.  RepairWorkflow appends by these   *)
(* rules; what a session promises its user is in GuardedRepair.            *)
(***************************************************************************)
EXTENDS Naturals

CONSTANTS
  Candidates,   \* candidate identities (candidate_id)
  Tokens,       \* fencing tokens of validation runs (run_token_sha256)
  None          \* an absent record

ASSUME NoneAssumption == None \notin Candidates /\ None \notin Tokens

-----------------------------------------------------------------------------
(* Session states and the transitions the state machine knows.             *)

States == {"CREATED", "GENERATING", "VALIDATING", "VALIDATED", "APPROVED",
           "APPLYING", "APPLIED", "REJECTED", "CANCELLED", "EXPIRED", "FAILED"}

TerminalStates == {"APPLIED", "REJECTED", "CANCELLED", "EXPIRED", "FAILED"}

Transitions ==
  [ CREATED    |-> {"GENERATING", "CANCELLED", "EXPIRED"},
    GENERATING |-> {"VALIDATING", "CANCELLED", "EXPIRED", "FAILED"},
    VALIDATING |-> {"VALIDATED", "CANCELLED", "EXPIRED", "FAILED"},
    VALIDATED  |-> {"APPROVED", "REJECTED", "CANCELLED", "EXPIRED"},
    APPROVED   |-> {"APPLYING", "REJECTED", "CANCELLED", "EXPIRED"},
    APPLYING   |-> {"APPLIED", "APPROVED", "CANCELLED", "FAILED"},
    APPLIED    |-> {},
    REJECTED   |-> {},
    CANCELLED  |-> {},
    EXPIRED    |-> {},
    FAILED     |-> {} ]

CanTransition(from, to) == to \in Transitions[from]

CanTransitionOrSame(from, to) == from = to \/ CanTransition(from, to)

-----------------------------------------------------------------------------
(* Records.  Every digest a record carries stands for the record it names. *)

Validations  == [candidate : Candidates, success : BOOLEAN]
Approvals    == [candidate : Candidates]
Applications == [candidate : Candidates]
Decisions    == [state : {"REJECTED", "CANCELLED", "EXPIRED"},
                 candidate : Candidates \cup {None}]

(* A lease is an intent until a container is bound to it (container_id).   *)
Leases == [candidate : Candidates, token : Tokens, bound : BOOLEAN]

(* Bug: the constructor does not check the type of the approval record.    *)
DomainUnchecked ==
  [ candidate       |-> Candidates \cup {None},
    validation      |-> Validations \cup {None},
    approval        |-> Approvals \cup Validations \cup {None},
    application     |-> Applications \cup {None},
    decision        |-> Decisions \cup {None},
    failure         |-> BOOLEAN,
    cleanup_pending |-> BOOLEAN ]

(* What each field of a snapshot may hold.                                 *)
Domain ==
  [ candidate       |-> Candidates \cup {None},
    validation      |-> Validations \cup {None},
    approval        |-> Approvals \cup {None},
    application     |-> Applications \cup {None},
    decision        |-> Decisions \cup {None},
    failure         |-> BOOLEAN,
    cleanup_pending |-> BOOLEAN ]

MutableFields == {"candidate", "validation", "approval", "application",
                  "decision", "failure", "cleanup_pending"}

Snapshots ==
  [ state           : States,
    candidate       : Candidates \cup {None},
    validation      : Validations \cup {None},
    approval        : Approvals \cup {None},
    application     : Applications \cup {None},
    decision        : Decisions \cup {None},
    failure         : BOOLEAN,
    cleanup_pending : BOOLEAN ]

Created ==
  [ state |-> "CREATED", candidate |-> None, validation |-> None,
    approval |-> None, application |-> None, decision |-> None,
    failure |-> FALSE, cleanup_pending |-> FALSE ]

(* The constructor of a snapshot refuses every other combination.          *)
SnapshotShape(s) ==
  /\ s.candidate # None => s.state # "CREATED"
  /\ s.validation # None => s.validation.candidate = s.candidate
  /\ s.approval # None =>
       /\ s.validation # None
       /\ s.validation.success
       /\ s.approval.candidate = s.candidate
  /\ s.application # None =>
       /\ s.state = "APPLIED"
       /\ s.approval # None
       /\ s.application.candidate = s.candidate
  /\ s.decision # None =>
       /\ s.decision.state = s.state
       /\ s.decision.candidate # None => s.decision.candidate = s.candidate
  /\ s.failure => s.state = "FAILED"
  /\ s.state \in {"VALIDATING", "VALIDATED", "APPROVED", "APPLYING",
                  "APPLIED", "REJECTED"} => s.candidate # None
  /\ s.state \in {"VALIDATED", "APPROVED", "APPLYING", "APPLIED",
                  "REJECTED"} => s.validation # None /\ s.validation.success
  /\ s.state \in {"APPROVED", "APPLYING", "APPLIED"} => s.approval # None
  /\ s.state = "APPLIED" => s.application # None
  /\ s.state \in {"REJECTED", "CANCELLED", "EXPIRED"} => s.decision # None
  /\ s.state = "FAILED" => s.failure
  /\ s.cleanup_pending => s.state \in TerminalStates

-----------------------------------------------------------------------------
(* Event kinds: the state pairs each may link and the fields each changes. *)

Same(set) == {<<s, s>> : s \in set}

EventStatePairs ==
  [ generating                  |-> {<<"CREATED", "GENERATING">>},
    candidate                   |-> Same({"GENERATING"}),
    validating                  |-> {<<"GENERATING", "VALIDATING">>},
    validation_intent           |-> Same({"VALIDATING"}),
    validation_intent_abandoned |-> Same({"VALIDATING"}),
    validation_run              |-> Same({"VALIDATING", "CANCELLED",
                                          "EXPIRED", "FAILED"}),
    validation_result           |-> Same({"VALIDATING"}),
    validated                   |-> {<<"VALIDATING", "VALIDATED">>},
    approved                    |-> {<<"VALIDATED", "APPROVED">>},
    applying                    |-> {<<"APPROVED", "APPLYING">>},
    applied                     |-> {<<"APPLYING", "APPLIED">>},
    rejected                    |-> {"VALIDATED", "APPROVED"} \X {"REJECTED"},
    cancelled                   |-> {"CREATED", "GENERATING", "VALIDATING",
                                     "VALIDATED", "APPROVED"} \X {"CANCELLED"},
    expired                     |-> {"CREATED", "GENERATING", "VALIDATING",
                                     "VALIDATED", "APPROVED"} \X {"EXPIRED"},
    failed                      |-> {"GENERATING", "VALIDATING"} \X {"FAILED"},
    application_conflict        |-> {<<"APPLYING", "APPROVED">>},
    recovered                   |-> {<<"APPLYING", "APPROVED">>},
    cleanup_complete            |-> Same(TerminalStates),
    cleanup_pending             |-> Same(TerminalStates) ]

Kinds == DOMAIN EventStatePairs

EventSnapshotChanges ==
  [ generating                  |-> {},
    candidate                   |-> {"candidate"},
    validating                  |-> {},
    validation_intent           |-> {},
    validation_intent_abandoned |-> {},
    validation_run              |-> {},
    validation_result           |-> {"validation"},
    validated                   |-> {},
    approved                    |-> {"approval"},
    applying                    |-> {},
    applied                     |-> {"application", "cleanup_pending"},
    rejected                    |-> {"decision", "cleanup_pending"},
    cancelled                   |-> {"decision", "cleanup_pending"},
    expired                     |-> {"decision", "cleanup_pending"},
    failed                      |-> {"failure", "cleanup_pending"},
    application_conflict        |-> {},
    recovered                   |-> {},
    cleanup_complete            |-> {"cleanup_pending"},
    cleanup_pending             |-> {"cleanup_pending"} ]

(* Bug: every state may carry a lease.                                     *)
LeaseCarryStatesAll == States

(* Bug: the table forgets that a cancelled session may still owe a removal.*)
LeaseCarryStatesNotCancelled == {"VALIDATING", "EXPIRED", "FAILED"}

LeaseCarryStates == {"VALIDATING", "CANCELLED", "EXPIRED", "FAILED"}

(* Bug: the kind of the event is not held against the transition.          *)
EventStatePairUnchecked(kind, from, to) == CanTransitionOrSame(from, to)

EventStatePairIsValid(kind, from, to) ==
  /\ <<from, to>> \in EventStatePairs[kind]
  /\ CanTransitionOrSame(from, to)

Changed(s, t) == {f \in MutableFields : s[f] # t[f]}

(* Bug: a record may be overwritten.                                       *)
FirstWriteOrLater(field, s, t) == t[field] # Created[field]

(* A record is written where there was none.                               *)
FirstWrite(field, s, t) == s[field] = Created[field] /\ t[field] # Created[field]

SnapshotUpdateIsValid(kind, s, t) ==
  IF kind = "cleanup_pending"
  THEN Changed(s, t) \subseteq {"cleanup_pending"} /\ t.cleanup_pending
  ELSE /\ Changed(s, t) = EventSnapshotChanges[kind]
       /\ kind = "candidate" => FirstWrite("candidate", s, t)
       /\ kind = "validation_result" => FirstWrite("validation", s, t)
       /\ kind = "approved" => FirstWrite("approval", s, t)
       /\ kind = "applied" => FirstWrite("application", s, t) /\ t.cleanup_pending
       /\ kind \in {"rejected", "cancelled", "expired"} =>
            FirstWrite("decision", s, t) /\ t.cleanup_pending
       /\ kind = "failed" => FirstWrite("failure", s, t) /\ t.cleanup_pending
       /\ kind = "cleanup_complete" => s.cleanup_pending /\ ~t.cleanup_pending

LeaseMatches(l, s) == s.candidate # None /\ l.candidate = s.candidate

SameIntent(l, m) == l.candidate = m.candidate /\ l.token = m.token

(* The lease before (l) and after (m) an event that is about the lease ... *)
IntentRegistered(l, m, t) == l = None /\ m # None /\ ~m.bound /\ t.validation = None

RunBound(l, m, t) ==
  /\ l # None /\ ~l.bound
  /\ m # None /\ m.bound
  /\ SameIntent(l, m)
  /\ t.validation = None

(* Bug: a run can be abandoned as if no container had been bound to it.    *)
LeaseAbandoned(l, m, t) ==
  l # None /\ m = None /\ t.state = "VALIDATING" /\ t.validation = None

IntentAbandoned(l, m, t) ==
  /\ l # None /\ ~l.bound
  /\ m = None
  /\ t.state = "VALIDATING" /\ t.validation = None

(* Bug: an intent is enough for a verdict.                                 *)
ResultOfIntent(l, m, t) == l # None /\ m = l /\ t.validation # None

ResultOfRun(l, m, t) == l # None /\ l.bound /\ m = l /\ t.validation # None

(* ... and across every other event: none, carried along, or cleared.      *)
LeaseCarried(kind, l, m, t) ==
  \/ l = None /\ m = None
  \/ /\ l # None /\ m = l
     /\ kind # "cleanup_complete"
     /\ t.state \in LeaseCarryStates
  \/ /\ l # None /\ m = None
     /\ kind \in {"validated", "failed", "cleanup_pending", "cleanup_complete"}

LeaseKinds == {"validation_intent", "validation_run",
               "validation_intent_abandoned", "validation_result"}

ValidationRunUpdateIsValid(kind, s, t, l, m) ==
  /\ l # None => LeaseMatches(l, s)
  /\ m # None => LeaseMatches(m, t)
  /\ kind = "validation_intent" => IntentRegistered(l, m, t)
  /\ kind = "validation_run" => RunBound(l, m, t)
  /\ kind = "validation_intent_abandoned" => IntentAbandoned(l, m, t)
  /\ kind = "validation_result" => ResultOfRun(l, m, t)
  /\ kind \notin LeaseKinds => LeaseCarried(kind, l, m, t)

(* Event <<kind, t, m>> may follow a chain that ends in snapshot s and     *)
(* lease l.                                                                *)
EventIsValid(kind, s, l, t, m) ==
  /\ SnapshotShape(t)
  /\ EventStatePairIsValid(kind, s.state, t.state)
  /\ ValidationRunUpdateIsValid(kind, s, t, l, m)
  /\ SnapshotUpdateIsValid(kind, s, t)

-----------------------------------------------------------------------------
VARIABLES
  snap,    \* the snapshot of the last event
  lease    \* the validation lease of the last event, or None

logVars == <<snap, lease>>

Init == snap = Created /\ lease = None

(* The snapshots an event of this kind is tried with: those that differ    *)
(* from the last one in the state and in the fields the kind may change.   *)
Edits(kind) ==
  LET choices(f) == IF f \in EventSnapshotChanges[kind] THEN Domain[f] ELSE {snap[f]}
  IN  [ state           : {st \in States : CanTransitionOrSame(snap.state, st)},
        candidate       : choices("candidate"),
        validation      : choices("validation"),
        approval        : choices("approval"),
        application     : choices("application"),
        decision        : choices("decision"),
        failure         : choices("failure"),
        cleanup_pending : choices("cleanup_pending") ]

AppendEvent(kind) ==
  /\ snap' \in Edits(kind)
  /\ lease' \in Leases \cup {None}
  /\ EventIsValid(kind, snap, lease, snap', lease')

Next == \E kind \in Kinds : AppendEvent(kind)

Spec == Init /\ [][Next]_logVars
-----------------------------------------------------------------------------
(* What every chain that loads guarantees.                                 *)

(* Every snapshot and lease is a record of the declared types.             *)
TypeOK == snap \in Snapshots /\ lease \in Leases \cup {None}

(* A lease is only held by a session that still owes a container removal:  *)
(* one being validated, or one closed with its cleanup still pending.  So  *)
(* a session reported closed and clean holds no lease, whatever order the  *)
(* cleanup, cancellation and registration events came in.                  *)
LeaseIsOwed ==
  lease # None =>
    \/ snap.state = "VALIDATING"
    \/ snap.state \in {"CANCELLED", "EXPIRED", "FAILED"} /\ snap.cleanup_pending

(* A verdict recorded while validating is the verdict of a container the   *)
(* chain has bound and still holds: no verdict without a registered run.   *)
VerdictHasRun ==
  snap.state = "VALIDATING" /\ snap.validation # None =>
    lease # None /\ lease.bound

(* An intent that no container was bound to never accompanies a verdict,   *)
(* also when it outlives a cancellation, an expiry or a failure.           *)
IntentHasNoVerdict == lease # None /\ ~lease.bound => snap.validation = None

(* Nothing is validated before a candidate is frozen, and nothing is       *)
(* approved in a session that has not passed, or has failed, validation.   *)
RecordsAreTimely ==
  /\ snap.state \in {"CREATED", "GENERATING"} => snap.validation = None
  /\ snap.state \in {"CREATED", "GENERATING", "VALIDATING", "VALIDATED", "FAILED"} =>
       snap.approval = None

(* The records come in their order: no verdict without a run, and none     *)
(* before the candidate, no approval before the verdict.                   *)
RecordsAreInOrder == IntentHasNoVerdict /\ RecordsAreTimely

(* Candidate, verdict, approval, application, decision and failure are     *)
(* written once: no later event replaces or withdraws them.                *)
RecordsWrittenOnce ==
  [][ \A f \in MutableFields \ {"cleanup_pending"} :
        snap[f] # Created[f] => snap'[f] = snap[f] ]_logVars

(* A bound container is never forgotten while the session can still go on: *)
(* its lease is dropped only by the verdict that validates the candidate   *)
(* or by a closed session, and it is never exchanged for another.          *)
BoundRunIsKept ==
  [][ lease # None /\ lease.bound /\ lease' # lease =>
        /\ lease' = None
        /\ snap'.state \in {"VALIDATED"} \cup TerminalStates ]_logVars
=============================================================================
