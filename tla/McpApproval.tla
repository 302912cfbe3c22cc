----------------------------- MODULE McpApproval -----------------------------
(***************************************************************************)
(* The MCP server: tools that write ask the user first.                    *)
(*                                                                         *)
(* A call of a writing tool comes twice.  The first one, without a reply,  *)
(* is answered by a prompt and a request state that names the tool and all *)
(* its arguments.  The client asks the user and repeats the call with the  *)
(* user's answer and the request state.  Nothing is kept in the server in  *)
(* between: several calls run at once, the client may give them up, repeat *)
(* a reply or send it with another call, and the command line works on the *)
(* same sessions all the time.                                             *)
(*                                                                         *)
(* The library delivers a request state as it was issued or refuses it: a  *)
(* reply is an element of answers.                                         *)
(***************************************************************************)
EXTENDS Naturals, FiniteSets

CONSTANTS
  Calls,        \* calls the server handles at the same time
  Requests,     \* requests a client sends: tool, subject, candidate, whether well formed
  CandidateOf,  \* CandidateOf[s]: the candidate of session s
  Kinds,        \* what may come of a prompt: "accept", "decline", "garbled"
  CrashBound,   \* bound: how often the server dies
  None          \* no reply, nobody

Apply == "repair_apply_local"
Publish == "github_publish_check"
Reject == "repair_reject"
Sessions == DOMAIN CandidateOf
Proposals == {r.subject : r \in {q \in Requests : q.tool = Publish}}

ASSUME RequestsAssumption ==
  \A r \in Requests : /\ r.tool \in {Apply, Publish, Reject}
                      /\ r.tool # Publish => r.subject \in Sessions
                      /\ r.wellFormed \in BOOLEAN
ASSUME BoundsAssumption == CrashBound \in Nat /\ None \notin Calls
ASSUME KindsAssumption == "accept" \in Kinds /\ Kinds \subseteq {"accept", "decline", "garbled"}

VARIABLES
  session,    \* session[s]: the state of the repair session and who approved it
  published,  \* proposals that are on GitHub
  answers,    \* request states and answers the client has got from the user
  asked,      \* prompts the user has not answered yet
  call,       \* call[c]: the request, how far it is, and its result
  crashes     \* how often the server died

vars == <<session, published, answers, asked, call, crashes>>

(* A product envelope: the operation it belongs to and its code. *)
Envelope(operation, code) == [operation |-> operation, code |-> code]

NoRequest == [tool |-> "none", subject |-> None, candidate |-> None, wellFormed |-> TRUE]
NoReply == [state |-> NoRequest, answer |-> "none"]
Idle == [pc |-> "idle", request |-> NoRequest, reply |-> NoReply,
         wrote |-> FALSE, raised |-> FALSE, result |-> Envelope("none", "none")]

(* The codes of _elicitation_unavailable, _confirmed_or_request, the check *)
(* of the status and the check of the arguments.                           *)
Refusals == {"invalid_request", "cas_conflict", "elicitation_unavailable",
             "invalid_confirmation", "approval_required", "input_required"}
(* Any code of the product counts as one, but for the unknown failure. *)
Failures == {"failed", "internal"}

Init ==
  /\ session = [s \in Sessions |-> [state |-> "validated", approval |-> None]]
  /\ published = {}
  /\ answers = {}
  /\ asked = {}
  /\ call = [c \in Calls |-> Idle]
  /\ crashes = 0

Known(c) == call[c].request
Goto(c, pc) == call' = [call EXCEPT ![c].pc = pc, ![c].reply = NoReply]

(* _complete: an envelope of another operation is an internal failure. *)
Complete(envelope, operation) ==
  IF envelope.operation = operation THEN envelope ELSE Envelope(operation, "internal")

FailureForOperation(envelope, operation) == Envelope(operation, envelope.code)

(* The call is over; raised says that the product raised something unknown. *)
Answer(c, envelope, wrote, raised) ==
  call' = [call EXCEPT ![c].pc = "answered",
                       ![c].reply = NoReply,
                       ![c].wrote = @ \/ wrote,
                       ![c].raised = raised,
                       ![c].result = Complete(envelope, Known(c).tool)]

(* Code of this request, nothing written. *)
Refuse(c, code) ==
  Answer(c, Envelope(Known(c).tool, code), FALSE, code = "internal")

-----------------------------------------------------------------------------
(* The client.                                                             *)

(* A call, with a reply the client has or with none.  The library may      *)
(* refuse the request state before the tool sees it, which is no step.     *)
Send(c) ==
  /\ call[c].pc \in {"idle", "answered"}
  /\ \E r \in Requests, reply \in answers \cup {NoReply} :
       call' = [call EXCEPT ![c] = [Idle EXCEPT !.pc = "received", !.request = r,
                                                !.reply = reply]]
  /\ UNCHANGED <<session, published, answers, asked, crashes>>

(* The user answers a prompt; the client may garble what was confirmed.    *)
User ==
  /\ \E state \in asked, answer \in Kinds :
       /\ answers' = answers \cup {[state |-> state, answer |-> answer]}
       /\ asked' = asked \ {state}
  /\ UNCHANGED <<session, published, call, crashes>>

(* The client gives a call up before the tool runs; once it runs it goes   *)
(* on unheard, which is no step of its own.                                *)
Disconnect(c) ==
  /\ call[c].pc = "received"
  /\ call' = [call EXCEPT ![c] = Idle]
  /\ UNCHANGED <<session, published, answers, asked, crashes>>

-----------------------------------------------------------------------------
(* The tools.                                                              *)

(* Bug: the reply is not compared with the call it came with. *)
StateAccepted(c) == TRUE

StateMatches(c) == call[c].reply.state = Known(c)

(* _elicitation_unavailable, which depends on the client, and then         *)
(* _confirmed_or_request.                                                  *)
ConfirmedOrRequest(c, next) ==
  LET reply == call[c].reply
  IN  \/ Refuse(c, "elicitation_unavailable") /\ UNCHANGED asked
      \/ /\ reply = NoReply
         /\ Refuse(c, "input_required")
         /\ asked' = asked \cup {Known(c)}
      \/ /\ reply # NoReply
         /\ IF ~StateMatches(c) THEN Refuse(c, "invalid_confirmation")
            ELSE IF reply.answer = "decline" THEN Refuse(c, "approval_required")
            ELSE IF reply.answer = "garbled" THEN Refuse(c, "invalid_confirmation")
            ELSE Goto(c, next)
         /\ UNCHANGED asked

(* The middleware looks at the arguments before the tool is called.        *)
Received(c, tool) ==
  /\ call[c].pc = "received"
  /\ Known(c).tool = tool
  /\ Known(c).wellFormed

InvalidRequest(c) ==
  /\ call[c].pc = "received"
  /\ ~Known(c).wellFormed
  /\ Refuse(c, "invalid_request")
  /\ UNCHANGED <<session, published, answers, asked, crashes>>

(* _is_exact_validated_session. *)
ExactValidated(c) ==
  /\ session[Known(c).subject] = [state |-> "validated", approval |-> None]
  /\ CandidateOf[Known(c).subject] = Known(c).candidate

(* repair_apply_local reads the status in both rounds.                     *)
ApplyLocal(c) ==
  /\ Received(c, Apply)
  /\ \/ /\ ExactValidated(c)
        /\ ConfirmedOrRequest(c, "approve")
     \/ ~ExactValidated(c) /\ Refuse(c, "cas_conflict") /\ UNCHANGED asked
     \/ /\ Answer(c, FailureForOperation(Envelope("repair_status", "failed"), Apply),
                  FALSE, FALSE)
        /\ UNCHANGED asked
     \/ Refuse(c, "internal") /\ UNCHANGED asked
  /\ UNCHANGED <<session, published, answers, crashes>>

(* The GitHub writers leave the state of the proposal to the service.      *)
GithubWriter(c) ==
  /\ Received(c, Publish)
  /\ ConfirmedOrRequest(c, "publish")
  /\ UNCHANGED <<session, published, answers, crashes>>

(* Rejecting (and cancelling) writes without a prompt.                     *)
RepairReject(c) ==
  /\ Received(c, Reject)
  /\ LET s == Known(c).subject
     IN  \/ /\ session[s].state \in {"validated", "approved"}
            /\ CandidateOf[s] = Known(c).candidate
            /\ session' = [session EXCEPT ![s].state = "closed"]
            /\ \E code \in {"ok", "failed"} :
                 Answer(c, Envelope(Reject, code), TRUE, FALSE)
         \/ /\ Refuse(c, "failed")
            /\ UNCHANGED session
  /\ UNCHANGED <<published, answers, asked, crashes>>

-----------------------------------------------------------------------------
(* What the product does once the user has confirmed.                      *)

(* What approve finds under the lock of the session. *)
Approvable(c) ==
  /\ session[Known(c).subject].state = "validated"
  /\ CandidateOf[Known(c).subject] = Known(c).candidate

(* _repair_approve_and_apply_local, first half.  An append can raise after *)
(* it was written.                                                         *)
ApproveSession(c) ==
  /\ call[c].pc = "approve"
  /\ LET s == Known(c).subject
     IN  \/ /\ Approvable(c)
            /\ session' = [session EXCEPT ![s] = [state |-> "approved", approval |-> c]]
            /\ \/ call' = [call EXCEPT ![c].pc = "apply", ![c].wrote = TRUE]
               \/ Answer(c, Envelope(Apply, "failed"), TRUE, FALSE)
         \/ ~Approvable(c) /\ Refuse(c, "failed") /\ UNCHANGED session
         \/ Refuse(c, "failed") /\ UNCHANGED session
  /\ UNCHANGED <<published, answers, asked, crashes>>

(* apply wants the approval this call was given. *)
Applicable(c) ==
  session[Known(c).subject] = [state |-> "approved", approval |-> c]

(* apply returns the session only if the ref says that it is applied.      *)
Outcome(left) == IF left = "applied" THEN "ok" ELSE "failed"

InvalidState == "failed"

(* The second half: another process may have moved the session meanwhile.  *)
(* The result can be too large to be returned.                             *)
ApplySession(c) ==
  /\ call[c].pc = "apply"
  /\ LET s == Known(c).subject
     IN  \/ /\ Applicable(c)
            /\ \E left \in {"applied", "approved", "applying"} :
                 /\ session' = [session EXCEPT ![s].state = left]
                 /\ \E code \in {Outcome(left), "failed"} :
                      Answer(c, Envelope(Apply, code), TRUE, FALSE)
         \/ ~Applicable(c) /\ Refuse(c, InvalidState) /\ UNCHANGED session
         \/ Refuse(c, "failed") /\ UNCHANGED session
  /\ UNCHANGED <<published, answers, asked, crashes>>

(* The publication service: the same proposal is published once.           *)
PublishProposal(c) ==
  /\ call[c].pc = "publish"
  /\ \/ /\ published' = published \cup {Known(c).subject}
        /\ \E code \in {"ok", "failed", "internal"} :
             Answer(c, Envelope(Publish, code), TRUE, code = "internal")
     \/ Refuse(c, "failed") /\ UNCHANGED published
  /\ UNCHANGED <<session, answers, asked, crashes>>

-----------------------------------------------------------------------------
(* Commands in other processes: approve, reject, cancel, apply, recover.   *)

CommandLine(s) ==
  /\ \/ /\ session[s].state = "validated"
        /\ session' = [session EXCEPT ![s] = [state |-> "approved", approval |-> None]]
     \/ /\ session[s].state \in {"validated", "approved", "applying"}
        /\ session' = [session EXCEPT ![s].state = "closed"]
     \/ /\ session[s].state \in {"approved", "applying"}
        /\ \E state \in {"approved", "applying", "applied"} :
             session' = [session EXCEPT ![s].state = state]
  /\ UNCHANGED <<published, answers, asked, call, crashes>>

(* What the death of the server leaves: an application may be half done.   *)
Leaves(s) ==
  {session[s]} \cup
    {[session[s] EXCEPT !.state = "applying"] :
       c \in {d \in Calls : call[d].pc = "apply" /\ Known(d).subject = s /\ Applicable(d)}}

(* The server dies and is started again. *)
Crash ==
  /\ crashes < CrashBound
  /\ crashes' = crashes + 1
  /\ call' = [c \in Calls |-> Idle]
  /\ \E left \in [Sessions -> UNION {Leaves(s) : s \in Sessions}] :
       /\ \A s \in Sessions : left[s] \in Leaves(s)
       /\ session' = left
  /\ UNCHANGED <<published, answers, asked>>

Tool(c) ==
  \/ InvalidRequest(c) \/ ApplyLocal(c) \/ GithubWriter(c) \/ RepairReject(c)
  \/ ApproveSession(c) \/ ApplySession(c) \/ PublishProposal(c)

Next ==
  \/ \E c \in Calls : Send(c) \/ Disconnect(c) \/ Tool(c)
  \/ \E s \in Sessions : CommandLine(s)
  \/ User \/ Crash

Spec == Init /\ [][Next]_vars

-----------------------------------------------------------------------------
(* The state is well typed: results are envelopes of the tool that was     *)
(* called, with the codes of the server and of the product.                *)
TypeOK ==
  /\ session \in [Sessions -> [state : {"validated", "approved", "applying", "applied", "closed"},
                               approval : Calls \cup {None}]]
  /\ published \subseteq Proposals
  /\ asked \subseteq Requests
  /\ answers \subseteq [state : Requests, answer : Kinds]
  /\ \A c \in Calls :
       /\ Known(c) \in Requests \cup {NoRequest}
       /\ call[c].pc \in {"idle", "received", "approve", "apply", "publish", "answered"}
       /\ call[c].pc = "answered" =>
            /\ call[c].result.operation = Known(c).tool
            /\ call[c].result.code \in Refusals \cup Failures \cup {"ok"}
  /\ crashes \in 0 .. CrashBound

Confirmed(request) == [state |-> request, answer |-> "accept"] \in answers

(* Whatever calls and replies cross: a session was approved by a call, or  *)
(* a proposal published, only after the user accepted the prompt that      *)
(* named that session, that candidate, that proposal.                      *)
WritesAreConfirmed ==
  /\ \A s \in Sessions :
       session[s].approval \in Calls =>
         \E r \in Requests : /\ r.tool = Apply /\ r.subject = s
                             /\ r.candidate = CandidateOf[s] /\ Confirmed(r)
  /\ \A p \in published :
       \E r \in Requests : r.tool = Publish /\ r.subject = p /\ Confirmed(r)

(* "A client without elicitation support, a refusal, cancellation,         *)
(* mismatched reply ... causes zero write": a call that ends with such a   *)
(* code wrote nothing, though the session moved between its two rounds.    *)
RefusedWroteNothing ==
  \A c \in Calls :
    call[c].pc = "answered" /\ call[c].result.code \in Refusals => ~call[c].wrote

(* A local application that is reported as done is done, by the approval   *)
(* of the same call, even if another call was given the same reply.        *)
OkIsApplied ==
  \A c \in Calls :
    call[c].pc = "answered" /\ call[c].result = Envelope(Apply, "ok") =>
      session[Known(c).subject] = [state |-> "applied", approval |-> c]

(* A failure of the product reaches the client under its own code: an      *)
(* internal failure is reported only when something unknown was raised.    *)
FailuresKeepTheirCode ==
  \A c \in Calls :
    call[c].pc = "answered" /\ call[c].result.code = "internal" => call[c].raised

(* What a client is told is what happened, and nothing is written that the *)
(* user has not confirmed.                                                 *)
ApprovalIsSound ==
  /\ TypeOK
  /\ WritesAreConfirmed
  /\ RefusedWroteNothing
  /\ OkIsApplied
  /\ FailuresKeepTheirCode
=============================================================================
