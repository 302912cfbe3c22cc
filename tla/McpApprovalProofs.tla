-------------------------- MODULE McpApprovalProofs --------------------------
(***************************************************************************)
(* Proofs about McpApproval: for any number of calls, sessions, requests   *)
(* and crashes, what the client is told is what happened, and nothing is   *)
(* written that the user has not confirmed.                                *)
(***************************************************************************)
EXTENDS McpApproval, TLAPS

States == {"validated", "approved", "applying", "applied", "closed"}
Pcs == {"idle", "received", "approve", "apply", "publish", "answered"}
Codes == Refusals \cup Failures \cup {"ok", "none"}
Tools == {Apply, Publish, Reject, "none"}

(* What the variables but call hold.                                       *)
SharedOK ==
  /\ session \in [Sessions -> [state : States, approval : Calls \cup {None}]]
  /\ published \subseteq Proposals
  /\ asked \subseteq Requests
  /\ answers \subseteq [state : Requests, answer : Kinds]
  /\ crashes \in 0 .. CrashBound

(* What a call holds, by how far it is: it works on a request; before the  *)
(* product runs it has written nothing; the product runs only on a request *)
(* of its tool that the user has confirmed.                                *)
CallOK(c) ==
  /\ call[c] \in [pc : Pcs, request : Requests \cup {NoRequest},
                  reply : answers \cup {NoReply}, wrote : BOOLEAN, raised : BOOLEAN,
                  result : [operation : Tools, code : Codes]]
  /\ call[c].pc # "idle" => Known(c) \in Requests
  /\ call[c].pc \in {"received", "approve", "publish"} => ~call[c].wrote
  /\ call[c].pc \in {"approve", "apply"} => Known(c).tool = Apply /\ Confirmed(Known(c))
  /\ call[c].pc = "publish" => Known(c).tool = Publish /\ Confirmed(Known(c))
  /\ call[c].pc = "answered" =>
       /\ call[c].result.operation = Known(c).tool
       /\ call[c].result.code # "none"
       /\ call[c].result.code \in Refusals => ~call[c].wrote
       /\ call[c].result.code = "internal" => call[c].raised

(* The inductive invariant.                                                *)
ApprovalInv ==
  /\ SharedOK
  /\ call = [c \in Calls |-> call[c]]
  /\ \A c \in Calls : CallOK(c)
  /\ WritesAreConfirmed
  /\ OkIsApplied

LEMMA InvIsSound == ApprovalInv => ApprovalIsSound
<1> SUFFICES ASSUME ApprovalInv PROVE ApprovalIsSound
  OBVIOUS
<1>1. TypeOK
  <2>1. ASSUME NEW c \in Calls
        PROVE  /\ Known(c) \in Requests \cup {NoRequest}
               /\ call[c].pc \in Pcs
               /\ call[c].pc = "answered" =>
                    call[c].result.operation = Known(c).tool /\ call[c].result.code \in Codes \ {"none"}
    BY <2>1 DEF ApprovalInv, CallOK, Known
  <2> QED
    BY <2>1 DEF ApprovalInv, SharedOK, TypeOK, States, Pcs, Codes
<1>2. RefusedWroteNothing /\ FailuresKeepTheirCode
  BY DEF ApprovalInv, CallOK, RefusedWroteNothing, FailuresKeepTheirCode
<1> QED
  BY <1>1, <1>2 DEF ApprovalInv, ApprovalIsSound

LEMMA InitInv == Init => ApprovalInv
<1> SUFFICES ASSUME Init PROVE ApprovalInv
  OBVIOUS
<1>1. SharedOK
  BY BoundsAssumption DEF Init, SharedOK, States
<1>2. call = [c \in Calls |-> call[c]]
  BY DEF Init
<1>3. \A c \in Calls : CallOK(c)
  <2> SUFFICES ASSUME NEW c \in Calls PROVE CallOK(c)
    OBVIOUS
  <2>1. call[c] = [pc |-> "idle", request |-> NoRequest, reply |-> NoReply, wrote |-> FALSE,
                   raised |-> FALSE, result |-> [operation |-> "none", code |-> "none"]]
    BY DEF Init, Idle, Envelope
  <2> QED
    BY <2>1 DEF CallOK, Pcs, Tools, Codes
<1>4. WritesAreConfirmed
  BY BoundsAssumption DEF Init, WritesAreConfirmed
<1>5. OkIsApplied
  BY DEF Init, OkIsApplied, Idle
<1> QED
  BY <1>1, <1>2, <1>3, <1>4, <1>5 DEF ApprovalInv

-----------------------------------------------------------------------------
(* What a call needs stays true while answers come in.                     *)
LEMMA OtherCalls ==
  ASSUME ApprovalInv, answers \subseteq answers',
         NEW c \in Calls, call'[c] = call[c]
  PROVE  CallOK(c)'
<1>1. CallOK(c) /\ Known(c)' = Known(c)
  BY DEF ApprovalInv, Known
<1>2. ASSUME NEW r, Confirmed(r) PROVE Confirmed(r)'
  BY <1>2 DEF Confirmed
<1> QED
  BY <1>1, <1>2 DEF CallOK

(* It is enough to look at the call that took the step.                    *)
LEMMA OneCall ==
  ASSUME ApprovalInv, answers \subseteq answers', NEW c \in Calls, NEW value,
         call' = [call EXCEPT ![c] = value], CallOK(c)'
  PROVE  /\ \A d \in Calls : CallOK(d)'
         /\ call' = [d \in Calls |-> call'[d]]
         /\ call'[c] = value
<1>1. DOMAIN call = Calls /\ call'[c] = value
  BY DEF ApprovalInv
<1>2. ASSUME NEW d \in Calls PROVE CallOK(d)'
  <2>1. CASE d = c
    BY <2>1
  <2>2. CASE d # c
    BY <2>2, OtherCalls
  <2> QED
    BY <2>1, <2>2
<1> QED
  BY <1>1, <1>2 DEF ApprovalInv

(* A call is answered with a code that is true of it.                      *)
LEMMA AnswerOK ==
  ASSUME ApprovalInv, answers' = answers, NEW c \in Calls, Known(c) \in Requests,
         NEW code \in Codes \ {"none"}, NEW wrote \in BOOLEAN, NEW raised \in BOOLEAN,
         code \in Refusals => ~call[c].wrote /\ ~wrote,
         code = "internal" => raised,
         Answer(c, Envelope(Known(c).tool, code), wrote, raised)
  PROVE  /\ \A d \in Calls : CallOK(d)'
         /\ call' = [d \in Calls |-> call'[d]]
         /\ \A d \in Calls \ {c} : call'[d] = call[d]
         /\ call'[c].result.code = code /\ Known(c)' = Known(c)
<1> DEFINE value == [call[c] EXCEPT !.pc = "answered", !.reply = NoReply,
                                    !.wrote = @ \/ wrote, !.raised = raised,
                                    !.result = [operation |-> Known(c).tool, code |-> code]]
<1>1. call' = [call EXCEPT ![c] = value]
  BY DEF Answer, Complete, Envelope
<1>2. CallOK(c) /\ call'[c] = value
  BY <1>1 DEF ApprovalInv
<1>3. Known(c).tool \in Tools
  BY RequestsAssumption DEF Tools
<1>4. CallOK(c)'
  <2>1. /\ value \in [pc : Pcs, request : Requests \cup {NoRequest},
                       reply : answers \cup {NoReply}, wrote : BOOLEAN, raised : BOOLEAN,
                       result : [operation : Tools, code : Codes]]
        /\ value.pc = "answered" /\ value.request = call[c].request
        /\ value.result.operation = Known(c).tool /\ value.result.code = code
        /\ value.raised = raised
        /\ value.wrote = (call[c].wrote \/ wrote)
    BY <1>2, <1>3 DEF CallOK, Pcs
  <2> QED
    BY <1>2, <2>1 DEF CallOK, Known
<1>5. (\A d \in Calls : CallOK(d)') /\ call' = [d \in Calls |-> call'[d]]
  <2> HIDE DEF value
  <2> QED
    BY <1>1, <1>4, OneCall
<1>6. \A d \in Calls \ {c} : call'[d] = call[d]
  BY <1>1 DEF ApprovalInv
<1>7. call'[c].result.code = code /\ Known(c)' = Known(c)
  BY <1>2 DEF CallOK, Known
<1> QED
  BY <1>5, <1>6, <1>7

-----------------------------------------------------------------------------
(* What a step does to the sessions: an applied one stays as it is, and an *)
(* approval of a call is given for a request that was confirmed.           *)
SessionStep ==
  /\ session' \in [Sessions -> [state : States, approval : Calls \cup {None}]]
  /\ \A s \in Sessions : session[s].state = "applied" => session'[s] = session[s]
  /\ \A s \in Sessions :
       \/ session'[s].approval \notin Calls
       \/ session'[s].approval = session[s].approval
       \/ \E r \in Requests : /\ r.tool = Apply /\ r.subject = s
                              /\ r.candidate = CandidateOf[s] /\ Confirmed(r)

(* What it does to GitHub: a proposal is published that was confirmed.     *)
PublishedStep ==
  \A p \in published' :
    \/ p \in published
    \/ \E r \in Requests : r.tool = Publish /\ r.subject = p /\ Confirmed(r)

LEMMA SharedStep ==
  ASSUME ApprovalInv, SessionStep, PublishedStep,
         answers \subseteq answers', answers' \subseteq [state : Requests, answer : Kinds],
         asked' \subseteq Requests, crashes' \in 0 .. CrashBound
  PROVE  SharedOK' /\ WritesAreConfirmed'
<1>1. published' \subseteq Proposals
  BY DEF ApprovalInv, SharedOK, PublishedStep, Proposals
<1>2. SharedOK'
  BY <1>1 DEF SharedOK, SessionStep
<1>3. ASSUME NEW r, Confirmed(r) PROVE Confirmed(r)'
  BY <1>3 DEF Confirmed
<1>4. ASSUME NEW s \in Sessions, session'[s].approval \in Calls
      PROVE  \E r \in Requests : /\ r.tool = Apply /\ r.subject = s
                                /\ r.candidate = CandidateOf[s] /\ Confirmed(r)'
  <2>1. \E r \in Requests : /\ r.tool = Apply /\ r.subject = s
                           /\ r.candidate = CandidateOf[s] /\ Confirmed(r)
    BY <1>4 DEF SessionStep, ApprovalInv, WritesAreConfirmed
  <2> QED
    BY <2>1, <1>3
<1>5. ASSUME NEW p \in published'
      PROVE  \E r \in Requests : r.tool = Publish /\ r.subject = p /\ Confirmed(r)'
  <2>1. \E r \in Requests : r.tool = Publish /\ r.subject = p /\ Confirmed(r)
    BY <1>5 DEF PublishedStep, ApprovalInv, WritesAreConfirmed
  <2> QED
    BY <2>1, <1>3
<1> QED
  BY <1>2, <1>4, <1>5 DEF WritesAreConfirmed

(* What was reported as applied stays so.                                  *)
LEMMA OkStep ==
  ASSUME ApprovalInv, SessionStep,
         \A d \in Calls :
           call'[d].pc = "answered" /\ call'[d].result = Envelope(Apply, "ok") =>
             \/ call'[d] = call[d]
             \/ session'[Known(d)'.subject] = [state |-> "applied", approval |-> d]
  PROVE  OkIsApplied'
<1> SUFFICES ASSUME NEW d \in Calls, call'[d].pc = "answered",
                    call'[d].result = Envelope(Apply, "ok"), call'[d] = call[d]
             PROVE  session'[Known(d)'.subject] = [state |-> "applied", approval |-> d]
  BY DEF OkIsApplied
<1>1. Known(d) \in Requests /\ Known(d).tool = Apply /\ Known(d)' = Known(d)
  BY DEF ApprovalInv, CallOK, Known, Envelope
<1>2. Known(d).subject \in Sessions
  BY <1>1, RequestsAssumption DEF Apply, Publish
<1>3. session[Known(d).subject] = [state |-> "applied", approval |-> d]
  BY DEF ApprovalInv, OkIsApplied
<1> QED
  BY <1>1, <1>2, <1>3 DEF SessionStep

(* A step that answers a call.                                             *)
LEMMA AnswerInv ==
  ASSUME ApprovalInv, NEW c \in Calls, Known(c) \in Requests,
         NEW code \in Codes \ {"none"}, NEW wrote \in BOOLEAN, NEW raised \in BOOLEAN,
         code \in Refusals => ~call[c].wrote /\ ~wrote,
         code = "internal" => raised,
         Answer(c, Envelope(Known(c).tool, code), wrote, raised),
         SessionStep, PublishedStep, asked' \subseteq Requests, UNCHANGED <<answers, crashes>>,
         code = "ok" /\ Known(c).tool = Apply =>
           session'[Known(c).subject] = [state |-> "applied", approval |-> c]
  PROVE  ApprovalInv'
<1>1. /\ \A d \in Calls : CallOK(d)'
      /\ call' = [d \in Calls |-> call'[d]]
      /\ \A d \in Calls \ {c} : call'[d] = call[d]
      /\ call'[c].result.code = code /\ Known(c)' = Known(c)
  BY AnswerOK
<1>2. SharedOK' /\ WritesAreConfirmed'
  BY SharedStep DEF ApprovalInv, SharedOK
<1>3. OkIsApplied'
  <2>1. ASSUME NEW d \in Calls, call'[d].pc = "answered", call'[d].result = Envelope(Apply, "ok")
        PROVE  \/ call'[d] = call[d]
               \/ session'[Known(d)'.subject] = [state |-> "applied", approval |-> d]
    <3>1. CASE d # c
      BY <3>1, <1>1
    <3>2. CASE d = c
      BY <3>2, <2>1, <1>1 DEF CallOK, Envelope
    <3> QED
      BY <3>1, <3>2
  <2> QED
    BY <2>1, OkStep
<1> QED
  BY <1>1, <1>2, <1>3 DEF ApprovalInv

(* A step of a call that goes on.                                          *)
LEMMA MoveInv ==
  ASSUME ApprovalInv, NEW c \in Calls, NEW value,
         call' = [call EXCEPT ![c] = value], value.pc # "answered", CallOK(c)',
         SessionStep, PublishedStep, UNCHANGED <<asked, answers, crashes>>
  PROVE  ApprovalInv'
<1>1. /\ \A d \in Calls : CallOK(d)'
      /\ call' = [d \in Calls |-> call'[d]]
      /\ call'[c] = value
  BY OneCall
<1>2. SharedOK' /\ WritesAreConfirmed'
  BY SharedStep DEF ApprovalInv, SharedOK
<1>3. \A d \in Calls \ {c} : call'[d] = call[d]
  BY DEF ApprovalInv
<1>4. OkIsApplied'
  BY <1>1, <1>3, OkStep
<1> QED
  BY <1>1, <1>2, <1>4 DEF ApprovalInv

LEMMA NothingWritten ==
  ASSUME ApprovalInv
  PROVE  (UNCHANGED session => SessionStep) /\ (UNCHANGED published => PublishedStep)
  BY DEF ApprovalInv, SharedOK, SessionStep, PublishedStep

LEMMA RefuseInv ==
  ASSUME ApprovalInv, NEW c \in Calls, Known(c) \in Requests,
         NEW code \in Refusals \cup Failures, code \in Refusals => ~call[c].wrote,
         Refuse(c, code), asked' \subseteq Requests,
         UNCHANGED <<session, published, answers, crashes>>
  PROVE  ApprovalInv'
<1>1. SessionStep /\ PublishedStep
  BY NothingWritten
<1>2. code \in Codes \ {"none"} /\ code # "ok"
  BY DEF Codes, Refusals, Failures
<1>3. Answer(c, Envelope(Known(c).tool, code), FALSE, code = "internal")
  BY DEF Refuse
<1> QED
  BY <1>1, <1>2, <1>3, AnswerInv

-----------------------------------------------------------------------------
LEMMA SendInv ==
  ASSUME ApprovalInv, NEW c \in Calls, Send(c)
  PROVE  ApprovalInv'
<1> PICK r \in Requests, reply \in answers \cup {NoReply} :
      call' = [call EXCEPT ![c] = [Idle EXCEPT !.pc = "received", !.request = r,
                                               !.reply = reply]]
  BY DEF Send
<1> DEFINE value == [Idle EXCEPT !.pc = "received", !.request = r, !.reply = reply]
<1>1. /\ value \in [pc : Pcs, request : Requests \cup {NoRequest},
                    reply : answers \cup {NoReply}, wrote : BOOLEAN, raised : BOOLEAN,
                    result : [operation : Tools, code : Codes]]
      /\ value.pc = "received" /\ value.request = r /\ ~value.wrote
  <2>1. /\ Idle \in [pc : Pcs, request : Requests \cup {NoRequest},
                     reply : answers \cup {NoReply}, wrote : BOOLEAN, raised : BOOLEAN,
                     result : [operation : Tools, code : Codes]]
        /\ ~Idle.wrote
    BY DEF Idle, Envelope, Pcs, Tools, Codes
  <2> QED
    BY <2>1 DEF Pcs
<1>2. call' = [call EXCEPT ![c] = value]
  OBVIOUS
<1> HIDE DEF value
<1>3. call'[c] = value /\ UNCHANGED answers
  BY <1>2 DEF ApprovalInv, Send
<1>4. CallOK(c)'
  BY <1>1, <1>3 DEF CallOK, Known
<1>5. SessionStep /\ PublishedStep
  BY NothingWritten DEF Send
<1>6. value.pc # "answered"
  BY <1>1
<1> QED
  BY <1>2, <1>4, <1>5, <1>6, MoveInv DEF Send

LEMMA DisconnectInv ==
  ASSUME ApprovalInv, NEW c \in Calls, Disconnect(c)
  PROVE  ApprovalInv'
<1>1. call'[c] = Idle /\ call' = [call EXCEPT ![c] = Idle] /\ Idle.pc # "answered"
  BY DEF ApprovalInv, Disconnect, Idle
<1>2. CallOK(c)'
  BY <1>1 DEF CallOK, Known, Idle, Envelope, Pcs, Tools, Codes
<1>3. SessionStep /\ PublishedStep
  BY NothingWritten DEF Disconnect
<1> QED
  BY <1>1, <1>2, <1>3, MoveInv DEF Disconnect

LEMMA UserInv ==
  ASSUME ApprovalInv, User
  PROVE  ApprovalInv'
<1>1. /\ answers \subseteq answers' /\ answers' \subseteq [state : Requests, answer : Kinds]
      /\ asked' \subseteq Requests
  BY DEF ApprovalInv, SharedOK, User
<1>2. SessionStep /\ PublishedStep /\ UNCHANGED <<call, crashes>>
  BY NothingWritten DEF User
<1>3. SharedOK' /\ WritesAreConfirmed'
  BY <1>1, <1>2, SharedStep DEF ApprovalInv, SharedOK
<1>4. OkIsApplied'
  BY <1>2, OkStep
<1>5. \A c \in Calls : CallOK(c)'
  BY <1>1, <1>2, OtherCalls
<1> QED
  BY <1>2, <1>3, <1>4, <1>5 DEF ApprovalInv

LEMMA CrashInv ==
  ASSUME ApprovalInv, Crash
  PROVE  ApprovalInv'
<1>1. ASSUME NEW s \in Sessions
      PROVE  \/ session'[s] = session[s]
             \/ /\ session[s].state = "approved"
                /\ session'[s] = [session[s] EXCEPT !.state = "applying"]
  <2>1. session'[s] \in Leaves(s)
    BY DEF Crash
  <2>2. ASSUME NEW c \in Calls, Known(c).subject = s, Applicable(c)
        PROVE  session[s].state = "approved"
    BY <2>2 DEF Applicable
  <2> QED
    BY <2>1, <2>2 DEF Leaves
<1>2. session' = [s \in Sessions |-> session'[s]]
  BY DEF Crash
<1>3. session' \in [Sessions -> [state : States, approval : Calls \cup {None}]]
  BY <1>1, <1>2 DEF ApprovalInv, SharedOK, States
<1>4. SessionStep
  BY <1>1, <1>3 DEF SessionStep, ApprovalInv, SharedOK
<1>5. PublishedStep /\ UNCHANGED <<answers, asked>> /\ crashes' \in 0 .. CrashBound
  BY NothingWritten, BoundsAssumption DEF Crash, ApprovalInv, SharedOK
<1>6. SharedOK' /\ WritesAreConfirmed'
  BY <1>4, <1>5, SharedStep DEF ApprovalInv, SharedOK
<1>7. call' = [c \in Calls |-> Idle]
  BY DEF Crash
<1>8. OkIsApplied'
  BY <1>7 DEF OkIsApplied, Idle
<1>9. ASSUME NEW c \in Calls PROVE CallOK(c)'
  BY <1>7 DEF CallOK, Known, Idle, Envelope, Pcs, Tools, Codes
<1> QED
  BY <1>6, <1>7, <1>8, <1>9 DEF ApprovalInv

LEMMA CommandLineInv ==
  ASSUME ApprovalInv, NEW s \in Sessions, CommandLine(s)
  PROVE  ApprovalInv'
<1>1. SessionStep
  <2>1. ASSUME session' = [session EXCEPT ![s] = [state |-> "approved", approval |-> None]],
               session[s].state = "validated"
        PROVE  SessionStep
    BY <2>1, BoundsAssumption DEF SessionStep, ApprovalInv, SharedOK, States
  <2>2. ASSUME NEW state \in States, session' = [session EXCEPT ![s].state = state],
               session[s].state # "applied"
        PROVE  SessionStep
    BY <2>2 DEF SessionStep, ApprovalInv, SharedOK
  <2> QED
    BY <2>1, <2>2 DEF CommandLine, States
<1>2. PublishedStep /\ UNCHANGED <<call, answers, asked, crashes>>
  BY NothingWritten DEF CommandLine
<1>3. SharedOK' /\ WritesAreConfirmed'
  BY <1>1, <1>2, SharedStep DEF ApprovalInv, SharedOK
<1>4. OkIsApplied'
  BY <1>1, <1>2, OkStep
<1>5. \A c \in Calls : CallOK(c)'
  BY <1>2, OtherCalls
<1> QED
  BY <1>2, <1>3, <1>4, <1>5 DEF ApprovalInv

-----------------------------------------------------------------------------
(* The tools.                                                              *)
LEMMA InvalidRequestInv ==
  ASSUME ApprovalInv, NEW c \in Calls, InvalidRequest(c)
  PROVE  ApprovalInv'
<1>1. Known(c) \in Requests /\ ~call[c].wrote
  BY DEF ApprovalInv, CallOK, InvalidRequest
<1> QED
  BY <1>1, RefuseInv DEF InvalidRequest, ApprovalInv, SharedOK, Refusals

(* A prompt, or the answer to one.  Only a reply that names this very      *)
(* request and accepts it lets the call go on.                             *)
LEMMA ConfirmedOrRequestInv ==
  ASSUME ApprovalInv, NEW c \in Calls, NEW next \in {"approve", "publish"},
         call[c].pc = "received", Known(c).tool = (IF next = "approve" THEN Apply ELSE Publish),
         ConfirmedOrRequest(c, next), UNCHANGED <<session, published, answers, crashes>>
  PROVE  ApprovalInv'
<1>1. Known(c) \in Requests /\ ~call[c].wrote /\ call[c].reply \in answers \cup {NoReply}
  BY DEF ApprovalInv, CallOK
<1>2. ASSUME NEW code \in Refusals, Refuse(c, code), asked' \subseteq Requests
      PROVE  ApprovalInv'
  BY <1>1, <1>2, RefuseInv
<1>3. asked \subseteq Requests /\ asked \cup {Known(c)} \subseteq Requests
  BY <1>1 DEF ApprovalInv, SharedOK
<1>4. CASE /\ Goto(c, next) /\ UNCHANGED asked /\ StateMatches(c)
           /\ call[c].reply # NoReply /\ call[c].reply.answer \notin {"decline", "garbled"}
  <2>1. Confirmed(Known(c))
    <3>1. /\ call[c].reply \in answers
          /\ call[c].reply \in [state : Requests, answer : Kinds]
      BY <1>1, <1>4 DEF ApprovalInv, SharedOK
    <3>2. call[c].reply.answer = "accept" /\ call[c].reply.state = Known(c)
      BY <1>4, <3>1, KindsAssumption DEF StateMatches
    <3>3. call[c].reply = [state |-> Known(c), answer |-> "accept"]
      BY <3>1, <3>2
    <3> QED
      BY <3>1, <3>3 DEF Confirmed
  <2> DEFINE value == [call[c] EXCEPT !.pc = next, !.reply = NoReply]
  <2>2. call' = [call EXCEPT ![c] = value]
    BY <1>4 DEF Goto
  <2>3. /\ value \in [pc : Pcs, request : Requests \cup {NoRequest},
                      reply : answers \cup {NoReply}, wrote : BOOLEAN, raised : BOOLEAN,
                      result : [operation : Tools, code : Codes]]
        /\ value.pc = next /\ value.request = Known(c) /\ ~value.wrote
    BY <1>1 DEF ApprovalInv, CallOK, Known, Pcs
  <2> HIDE DEF value
  <2>4. call'[c] = value
    BY <2>2 DEF ApprovalInv
  <2>5. CallOK(c)'
    BY <1>1, <2>1, <2>3, <2>4 DEF CallOK, Known, Confirmed
  <2>6. SessionStep /\ PublishedStep
    BY NothingWritten
  <2> QED
    BY <1>4, <2>2, <2>3, <2>5, <2>6, MoveInv
<1> QED
  BY <1>2, <1>3, <1>4 DEF ConfirmedOrRequest, Refusals

LEMMA ApplyLocalInv ==
  ASSUME ApprovalInv, NEW c \in Calls, ApplyLocal(c)
  PROVE  ApprovalInv'
<1>1. call[c].pc = "received" /\ Known(c).tool = Apply /\ Known(c) \in Requests
      /\ ~call[c].wrote /\ asked \subseteq Requests
      /\ UNCHANGED <<session, published, answers, crashes>>
  BY DEF ApprovalInv, CallOK, SharedOK, ApplyLocal, Received
<1>2. CASE ConfirmedOrRequest(c, "approve")
  BY <1>1, <1>2, ConfirmedOrRequestInv
<1>3. CASE UNCHANGED asked /\ \E code \in {"cas_conflict", "internal"} : Refuse(c, code)
  BY <1>1, <1>3, RefuseInv DEF Refusals, Failures
<1>4. CASE /\ UNCHANGED asked
           /\ Answer(c, FailureForOperation(Envelope("repair_status", "failed"), Apply),
                     FALSE, FALSE)
  <2>1. Answer(c, Envelope(Known(c).tool, "failed"), FALSE, FALSE)
    BY <1>1, <1>4 DEF FailureForOperation, Envelope
  <2>2. "failed" \in Codes \ {"none"} /\ "failed" \notin Refusals
    BY DEF Codes, Failures, Refusals
  <2> QED
    BY <1>1, <1>4, <2>1, <2>2, AnswerInv, NothingWritten
<1> QED
  BY <1>2, <1>3, <1>4 DEF ApplyLocal

LEMMA GithubWriterInv ==
  ASSUME ApprovalInv, NEW c \in Calls, GithubWriter(c)
  PROVE  ApprovalInv'
  BY ConfirmedOrRequestInv DEF GithubWriter, Received

LEMMA RepairRejectInv ==
  ASSUME ApprovalInv, NEW c \in Calls, RepairReject(c)
  PROVE  ApprovalInv'
<1>1. /\ Known(c).tool = Reject /\ Known(c) \in Requests /\ asked \subseteq Requests
      /\ ~call[c].wrote /\ UNCHANGED <<published, answers, asked, crashes>>
  BY DEF ApprovalInv, CallOK, SharedOK, RepairReject, Received
<1>2. CASE Refuse(c, "failed") /\ UNCHANGED session
  BY <1>1, <1>2, RefuseInv DEF Failures
<1>3. ASSUME session[Known(c).subject].state \in {"validated", "approved"},
             session' = [session EXCEPT ![Known(c).subject].state = "closed"],
             NEW code \in {"ok", "failed"},
             Answer(c, Envelope(Reject, code), TRUE, FALSE)
      PROVE  ApprovalInv'
  <2>1. SessionStep
    BY <1>3 DEF SessionStep, ApprovalInv, SharedOK, States
  <2>2. PublishedStep
    BY <1>1, NothingWritten
  <2>3. code \in Codes \ {"none"} /\ code \notin Refusals /\ Reject # Apply
    BY <1>3 DEF Codes, Failures, Refusals, Reject, Apply
  <2>4. Answer(c, Envelope(Known(c).tool, code), TRUE, FALSE)
    BY <1>1, <1>3
  <2> QED
    BY <1>1, <2>1, <2>2, <2>3, <2>4, AnswerInv
<1> QED
  BY <1>2, <1>3 DEF RepairReject

-----------------------------------------------------------------------------
(* The product.                                                            *)

(* A call that runs in the product works on a request that was confirmed.  *)
LEMMA Running ==
  ASSUME ApprovalInv, NEW c \in Calls
  PROVE  /\ call[c].pc \in {"approve", "apply"} =>
              /\ Known(c) \in Requests /\ Known(c).tool = Apply /\ Confirmed(Known(c))
              /\ Known(c).subject \in Sessions
         /\ call[c].pc = "publish" =>
              /\ Known(c) \in Requests /\ Known(c).tool = Publish /\ Confirmed(Known(c))
  BY RequestsAssumption DEF ApprovalInv, CallOK, Apply, Publish

LEMMA ApproveSessionInv ==
  ASSUME ApprovalInv, NEW c \in Calls, ApproveSession(c)
  PROVE  ApprovalInv'
<1> DEFINE s == Known(c).subject
<1>1. /\ Known(c) \in Requests /\ Known(c).tool = Apply /\ Confirmed(Known(c)) /\ s \in Sessions
      /\ asked \subseteq Requests
      /\ UNCHANGED <<published, answers, asked, crashes>>
  BY Running DEF ApproveSession, ApprovalInv, SharedOK
<1>2. CASE Refuse(c, "failed") /\ UNCHANGED session
  BY <1>1, <1>2, RefuseInv DEF Failures, Refusals
<1>3. CASE /\ Approvable(c)
           /\ session' = [session EXCEPT ![s] = [state |-> "approved", approval |-> c]]
  <2>1. SessionStep
    BY <1>1, <1>3 DEF SessionStep, ApprovalInv, SharedOK, States, Approvable
  <2>2. PublishedStep
    BY <1>1, NothingWritten
  <2>3. CASE Answer(c, Envelope(Apply, "failed"), TRUE, FALSE)
    <3>1. "failed" \in Codes \ {"none"} /\ "failed" \notin Refusals
      BY DEF Codes, Failures, Refusals
    <3> QED
      BY <1>1, <2>1, <2>2, <2>3, <3>1, AnswerInv
  <2>4. CASE call' = [call EXCEPT ![c].pc = "apply", ![c].wrote = TRUE]
    <3> DEFINE value == [call[c] EXCEPT !.pc = "apply", !.wrote = TRUE]
    <3>1. call' = [call EXCEPT ![c] = value]
      BY <2>4 DEF ApprovalInv
    <3>2. /\ value \in [pc : Pcs, request : Requests \cup {NoRequest},
                        reply : answers \cup {NoReply}, wrote : BOOLEAN, raised : BOOLEAN,
                        result : [operation : Tools, code : Codes]]
          /\ value.pc = "apply" /\ value.request = Known(c)
      BY DEF ApprovalInv, CallOK, Known, Pcs
    <3> HIDE DEF value
    <3>3. call'[c] = value
      BY <3>1 DEF ApprovalInv
    <3>4. CallOK(c)'
      BY <1>1, <3>2, <3>3 DEF CallOK, Known, Confirmed
    <3> QED
      BY <1>1, <2>1, <2>2, <3>1, <3>2, <3>4, MoveInv
  <2> QED
    BY <1>3, <2>3, <2>4, <1>2 DEF ApproveSession
<1> QED
  BY <1>2, <1>3 DEF ApproveSession

LEMMA ApplySessionInv ==
  ASSUME ApprovalInv, NEW c \in Calls, ApplySession(c)
  PROVE  ApprovalInv'
<1> DEFINE s == Known(c).subject
<1>1. /\ Known(c) \in Requests /\ Known(c).tool = Apply /\ Confirmed(Known(c)) /\ s \in Sessions
      /\ asked \subseteq Requests
      /\ UNCHANGED <<published, answers, asked, crashes>>
  BY Running DEF ApplySession, ApprovalInv, SharedOK
<1>2. CASE Refuse(c, "failed") /\ UNCHANGED session
  BY <1>1, <1>2, RefuseInv DEF Failures, Refusals
<1>3. ASSUME Applicable(c), NEW left \in {"applied", "approved", "applying"},
             session' = [session EXCEPT ![s].state = left],
             NEW code \in {Outcome(left), "failed"},
             Answer(c, Envelope(Apply, code), TRUE, FALSE)
      PROVE  ApprovalInv'
  <2>1. session[s] = [state |-> "approved", approval |-> c]
    BY <1>3 DEF Applicable
  <2>2. session'[s] = [state |-> left, approval |-> c]
    BY <1>1, <1>3, <2>1 DEF ApprovalInv, SharedOK
  <2>3. SessionStep
    BY <1>1, <1>3, <2>1 DEF SessionStep, ApprovalInv, SharedOK, States
  <2>4. code \in Codes \ {"none"} /\ code \notin Refusals /\ code # "internal"
        /\ (code = "ok" => left = "applied")
    BY <1>3 DEF Outcome, Codes, Failures, Refusals
  <2>5. PublishedStep
    BY <1>1, NothingWritten
  <2> QED
    BY <1>1, <1>3, <2>2, <2>3, <2>4, <2>5, AnswerInv
<1> QED
  BY <1>2, <1>3 DEF ApplySession, InvalidState

LEMMA PublishProposalInv ==
  ASSUME ApprovalInv, NEW c \in Calls, PublishProposal(c)
  PROVE  ApprovalInv'
<1>1. /\ Known(c) \in Requests /\ Known(c).tool = Publish /\ Confirmed(Known(c))
      /\ asked \subseteq Requests /\ UNCHANGED <<session, answers, asked, crashes>>
  BY Running DEF PublishProposal, ApprovalInv, SharedOK
<1>2. CASE Refuse(c, "failed") /\ UNCHANGED published
  BY <1>1, <1>2, RefuseInv DEF Failures, Refusals
<1>3. ASSUME published' = published \cup {Known(c).subject},
             NEW code \in {"ok", "failed", "internal"},
             Answer(c, Envelope(Publish, code), TRUE, code = "internal")
      PROVE  ApprovalInv'
  <2>1. PublishedStep
    BY <1>1, <1>3 DEF PublishedStep
  <2>2. SessionStep
    BY <1>1, NothingWritten
  <2>3. code \in Codes \ {"none"} /\ code \notin Refusals /\ Publish # Apply
    BY <1>3 DEF Codes, Failures, Refusals, Publish, Apply
  <2> QED
    BY <1>1, <1>3, <2>1, <2>2, <2>3, AnswerInv
<1> QED
  BY <1>2, <1>3 DEF PublishProposal

-----------------------------------------------------------------------------
LEMMA StutterInv == ApprovalInv /\ UNCHANGED vars => ApprovalInv'
<1> SUFFICES ASSUME ApprovalInv, UNCHANGED vars PROVE ApprovalInv'
  OBVIOUS
<1>1. SessionStep /\ PublishedStep /\ UNCHANGED <<session, published, answers, asked, call, crashes>>
  BY NothingWritten DEF vars
<1>2. SharedOK' /\ WritesAreConfirmed'
  BY <1>1, SharedStep DEF ApprovalInv, SharedOK
<1>3. OkIsApplied' /\ \A c \in Calls : CallOK(c)'
  BY <1>1, OkStep, OtherCalls
<1> QED
  BY <1>1, <1>2, <1>3 DEF ApprovalInv

(* The invariant is inductive.                                             *)
THEOREM ApprovalInvariant == Spec => []ApprovalInv
<1>1. ASSUME ApprovalInv, Next PROVE ApprovalInv'
  <2>1. ASSUME NEW c \in Calls, Tool(c) PROVE ApprovalInv'
    BY <1>1, <2>1, InvalidRequestInv, ApplyLocalInv, GithubWriterInv, RepairRejectInv,
       ApproveSessionInv, ApplySessionInv, PublishProposalInv DEF Tool
  <2> QED
    BY <1>1, <2>1, SendInv, DisconnectInv, CommandLineInv, UserInv, CrashInv DEF Next
<1> QED
  BY <1>1, InitInv, StutterInv, PTL DEF Spec

(* What a client is told is what happened, and nothing is written that the *)
(* user has not confirmed, for any calls, requests, sessions and crashes   *)
(* (mcp_server.py, the writing tools).                                     *)
THEOREM ApprovalIsAlwaysSound == Spec => []ApprovalIsSound
  BY ApprovalInvariant, InvIsSound, PTL
=============================================================================
