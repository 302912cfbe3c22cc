----------------------------- MODULE AgentReview -----------------------------
(***************************************************************************)
(* The controlled review loop of _agent.py and its retrieval variant of    *)
(* _retrieval_agent.py: a fixed graph of nodes around at most MaxAttempts   *)
(* calls of a model provider, under one total deadline.  Several reviews    *)
(* run in one process; those in Indexed share one context index, which has  *)
(* a lock and which another thread may use or close at any time.            *)
(*                                                                         *)
(* Time is a counter that advances between any two steps, so a step that    *)
(* waits (a lock, a sleep, a provider) may take any time and the clock may  *)
(* jump past a deadline between the check of it and the next step.          *)
(***************************************************************************)
EXTENDS Integers, Sequences, FiniteSets, Functions, Sorting, ProviderAdapters

CONSTANTS
  Reviews,      \* the reviews of this process
  Indexed,      \* those that retrieve context from the shared index
  Matching,     \* those whose bundle names the head the index was built from
  MaxAttempts,  \* config.max_attempts
  PerAttempt,   \* config.per_attempt_timeout_seconds
  Total,        \* config.total_timeout_seconds
  QueryTime,    \* query_timeout_seconds of the index
  MaxTime,      \* bound of the clock: a review starts only if it can end within it
  Targets,      \* path and side |-> the set of its hunks, each a set of lines
  Review,       \* the findings of the deterministic review, in its order
  Raws,         \* what the client library of the provider may raise or return
  MaxFindings   \* config.max_model_findings

ReviewsAssumption ==
  /\ Indexed \subseteq Reviews /\ Matching \subseteq Indexed
  /\ Reviews \cap {"free", "other"} = {}
BudgetAssumption ==
  /\ MaxAttempts \in 1 .. 3
  /\ {PerAttempt, Total, QueryTime} \subseteq Nat \ {0}
  /\ MaxTime \in Nat /\ MaxFindings \in Nat

(* What may be found and raised: severities, positions and texts are         *)
(* numbers, as only their order matters.                                    *)
References == [target : STRING, start : Nat, end : Nat]
Findings == [rank : Nat, id : Nat, refs : SUBSET References]
RawsAssumption ==
  /\ Review \in Seq(Findings)
  /\ Raws \subseteq [raised : DOMAIN Superclasses \cup {"none"}, status : Nat,
                     stop : STRING, blocks : Seq(STRING), usage : BOOLEAN,
                     body : [shape : BOOLEAN, findings : Seq(Findings)]]

VARIABLES
  now,        \* time.monotonic()
  lock,       \* who holds the lock of the index
  closed,     \* the index has been closed
  pc,         \* the node a review is in, or the point within it
  began,      \* when its budget started to run
  total,      \* total_deadline of the retrieval variant
  budget,     \* the deadline of the current use of the index
  deadline,   \* state["deadline"]
  attempts,   \* state["attempt_count"]
  answer,     \* state["provider_error"] and state["response"]
  wake,       \* when the backoff is over
  calls,      \* history: the calls of the provider and what came of them
  findings,   \* state["findings"]
  outcome     \* what the review returned or raised

clock == <<now>>
index == <<lock, closed>>
vars == <<now, lock, closed, pc, began, total, budget, deadline, attempts,
          answer, wake, calls, findings, outcome>>

Retryable == {"rate_limited", "timeout", "unavailable"}
ProviderCodes == Retryable \cup {"authentication_failed", "request_failed",
                                 "refused", "invalid_response"}
(* Any failure of the retrieval but a deadline, passed on as it is. *)
RetrievalCodes == {"embedding_failed"}

(* The code of the review for a code of the provider. *)
Mapped(code) ==
  IF code = "invalid_response" THEN "invalid_model_output" ELSE code

Points == {"begin", "inputs", "inputs_lock", "inputs_held", "inputs_checked",
           "validate", "review", "retrieve", "retrieve_lock", "retrieving",
           "searching", "searched", "prompt", "provider", "sleeping", "asked",
           "calling", "route", "parse", "merge", "finalize", "ended"}

NoRaw == [raised |-> "none", status |-> 0, stop |-> "none", blocks |-> <<>>,
          usage |-> TRUE, body |-> NoBody]
NoAnswer == [kind |-> "none", code |-> "none", body |-> NoBody]
Answers == {Adapted(raw) : raw \in Raws}

NoOutcome == [kind |-> "none", code |-> "none", node |-> "none",
              attempts |-> 0, at |-> 0, detail |-> "none"]

Smaller(a, b) == IF a < b THEN a ELSE b

(* The seconds to wait before an attempt, in units of half a second. *)
Backoff(attempt) == IF attempt = 2 THEN 1 ELSE 2

(***************************************************************************)
(* The response of the model.  A reference names a path and a side of the   *)
(* evidence and either no lines or lines of one hunk.  A document is        *)
(* accepted as a whole or refused as a whole.                               *)
(***************************************************************************)
InOneHunk(start, end, hunks) == \E hunk \in hunks : start .. end \subseteq hunk

ValidReference(ref) ==
  /\ ref.target \in DOMAIN Targets
  /\ \/ ref.start = 0 /\ ref.end = 0
     \/ /\ 1 <= ref.start
        /\ ref.start <= ref.end
        /\ InOneHunk(ref.start, ref.end, Targets[ref.target])

ValidFinding(finding) ==
  finding.refs # {} /\ \A ref \in finding.refs : ValidReference(ref)

Accepted(body) ==
  /\ body.shape
  /\ Len(body.findings) <= MaxFindings
  /\ \A i \in DOMAIN body.findings : ValidFinding(body.findings[i])

Promoted(source, finding) ==
  [source |-> source, rank |-> finding.rank, id |-> finding.id, refs |-> finding.refs]

SourceRank(source) == IF source = "deterministic" THEN 0 ELSE 1

(* rank stands for severity, path and lines, id for the texts. *)
Before(a, b) ==
  \/ a.rank < b.rank
  \/ a.rank = b.rank /\ SourceRank(a.source) < SourceRank(b.source)
  \/ a.rank = b.rank /\ a.source = b.source /\ a.id < b.id

(* The position of the first equal candidate keeps the finding. *)
Unique(candidates) ==
  LET First(i) == \A j \in 1 .. i - 1 : candidates[j] # candidates[i]
      kept == Ascending({i \in DOMAIN candidates : First(i)})
  IN  [k \in DOMAIN kept |-> candidates[kept[k]]]

(* sorted() is stable. *)
Goes(list, i, j) ==
  Before(list[i], list[j]) \/ (~Before(list[j], list[i]) /\ i < j)
InOrder(list) ==
  LET positions == DOMAIN list
      sorted == Sorted(positions, {p \in positions \X positions : Goes(list, p[1], p[2])})
  IN  [k \in DOMAIN sorted |-> list[sorted[k]]]

Collected(body) ==
  LET deterministic == [i \in DOMAIN Review |-> Promoted("deterministic", Review[i])]
      agent == [i \in DOMAIN body.findings |-> Promoted("agent", body.findings[i])]
  IN  deterministic \o Unique(agent)

-----------------------------------------------------------------------------
Init ==
  /\ now = 0
  /\ lock = "free"
  /\ closed = FALSE
  /\ pc = [r \in Reviews |-> IF r \in Indexed THEN "begin" ELSE "validate"]
  /\ began = [r \in Reviews |-> 0]
  /\ total = [r \in Reviews |-> 0]
  /\ budget = [r \in Reviews |-> 0]
  /\ deadline = [r \in Reviews |-> 0]
  /\ attempts = [r \in Reviews |-> 0]
  /\ answer = [r \in Reviews |-> NoAnswer]
  /\ wake = [r \in Reviews |-> 0]
  /\ calls = [r \in Reviews |-> <<>>]
  /\ findings = [r \in Reviews |-> <<>>]
  /\ outcome = [r \in Reviews |-> NoOutcome]

Goto(r, point) == pc' = [pc EXCEPT ![r] = point]

Raise(r, code, node, count, detail) ==
  /\ Goto(r, "ended")
  /\ outcome' = [outcome EXCEPT ![r] =
       [kind |-> "error", code |-> code, node |-> node,
        attempts |-> count, at |-> now, detail |-> detail]]

Quiet == UNCHANGED outcome
NoCall == UNCHANGED <<attempts, answer, wake, calls, findings>>
NoClock == UNCHANGED <<began, total, budget, deadline>>

-----------------------------------------------------------------------------
(* _validate_inputs: the index is looked at before the graph runs, and the  *)
(* total deadline starts before the wait for its lock.                      *)

Begin(r) ==
  /\ pc[r] = "begin"
  /\ now + Total <= MaxTime
  /\ \/ /\ began' = [began EXCEPT ![r] = now]
        /\ total' = [total EXCEPT ![r] = now + Total]
        /\ Goto(r, "inputs")
        /\ Quiet
     \/ /\ \E code \in {"invalid_configuration", "invalid_evidence",
                        "unsupported_evidence_schema"} :
             Raise(r, code, "validate", 0, "none")
        /\ UNCHANGED <<began, total>>
  /\ UNCHANGED <<clock, index, budget, deadline>> /\ NoCall

AskInputs(r) ==
  /\ pc[r] = "inputs"
  /\ IF now >= total[r]
       THEN Raise(r, "budget_exceeded", "validate", 0, "none") /\ UNCHANGED budget
       ELSE /\ budget' = [budget EXCEPT ![r] = now + Smaller(total[r] - now, QueryTime)]
            /\ Goto(r, "inputs_lock")
            /\ Quiet
  /\ UNCHANGED <<clock, index, began, total, deadline>> /\ NoCall

(* Either wait for the lock of the index, by the node that needs it. *)
TakeLock(r) ==
  /\ pc[r] \in {"inputs_lock", "retrieve_lock"}
  /\ lock = "free"
  /\ lock' = r
  /\ Goto(r, IF pc[r] = "inputs_lock" THEN "inputs_held" ELSE "retrieving")
  /\ UNCHANGED closed /\ UNCHANGED clock /\ NoClock /\ NoCall /\ Quiet

InputsLockTimesOut(r) ==
  /\ pc[r] = "inputs_lock"
  /\ now >= budget[r]
  /\ IF now >= total[r]
       THEN Raise(r, "budget_exceeded", "validate", 0, "none")
       ELSE Raise(r, "retrieval_failed", "validate", 0, "deadline_exceeded")
  /\ UNCHANGED <<clock, index>> /\ NoClock /\ NoCall

CheckIndex(r) ==
  /\ pc[r] = "inputs_held"
  /\ lock' = "free"
  /\ IF closed \/ r \notin Matching
       THEN Raise(r, "invalid_index", "validate", 0, "none")
       ELSE Goto(r, "inputs_checked") /\ Quiet
  /\ UNCHANGED <<clock, closed>> /\ NoClock /\ NoCall

InputsDone(r) ==
  /\ pc[r] = "inputs_checked"
  /\ IF now >= total[r]
       THEN Raise(r, "budget_exceeded", "validate", 0, "none")
     ELSE IF now > budget[r]
       THEN Raise(r, "retrieval_failed", "validate", 0, "deadline_exceeded")
     ELSE Goto(r, "validate") /\ Quiet
  /\ UNCHANGED <<clock, index>> /\ NoClock /\ NoCall

-----------------------------------------------------------------------------
(* The nodes of the graph before the provider.                              *)

Validate(r) ==
  /\ pc[r] = "validate"
  /\ r \in Indexed \/ now + Total <= MaxTime
  /\ \/ /\ deadline' = [deadline EXCEPT ![r] = now + Total]
        /\ began' = [began EXCEPT ![r] = IF r \in Indexed THEN @ ELSE now]
        /\ Goto(r, "review")
        /\ Quiet
     \/ /\ \E code \in {"invalid_configuration", "invalid_evidence",
                        "unsupported_evidence_schema"} :
             Raise(r, code, "validate", 0, "none")
        /\ UNCHANGED <<deadline, began>>
  /\ UNCHANGED <<clock, index, total, budget>> /\ NoCall

DeterministicReview(r) ==
  /\ pc[r] = "review"
  /\ \/ Goto(r, IF r \in Indexed THEN "retrieve" ELSE "prompt") /\ Quiet
     \/ Raise(r, "workflow_execution_failed", "deterministic_review", 0, "none")
  /\ UNCHANGED <<clock, index>> /\ NoClock /\ NoCall

(* Bug: the deadline of the graph is used, which starts after the inputs. *)
EffectiveLater(r) == deadline[r]

(* effective_total_deadline *)
Effective(r) == Smaller(deadline[r], total[r])

AskIndex(r) ==
  /\ pc[r] = "retrieve"
  /\ IF now >= Effective(r)
       THEN /\ Raise(r, "budget_exceeded", "retrieve_context", 0, "none")
            /\ UNCHANGED budget
       ELSE /\ budget' = [budget EXCEPT ![r] = now + Smaller(Effective(r) - now, QueryTime)]
            /\ Goto(r, "retrieve_lock")
            /\ Quiet
  /\ UNCHANGED <<clock, index, began, total, deadline>> /\ NoCall

(* A deadline of the retrieval is the budget's if that one is over as well. *)
RetrievalTimesOut(r) ==
  IF now >= Effective(r)
    THEN Raise(r, "budget_exceeded", "retrieve_context", 0, "none")
    ELSE Raise(r, "retrieval_failed", "retrieve_context", 0, "deadline_exceeded")

(* Bug: the lock is waited for without a timeout. *)
IndexLockTimesOutNever(r) == FALSE /\ UNCHANGED vars

IndexLockTimesOut(r) ==
  /\ pc[r] = "retrieve_lock"
  /\ now >= budget[r]
  /\ RetrievalTimesOut(r)
  /\ UNCHANGED <<clock, index>> /\ NoClock /\ NoCall

Retrieve(r) ==
  /\ pc[r] = "retrieving"
  /\ IF closed
       THEN lock' = "free" /\ Raise(r, "invalid_index", "retrieve_context", 0, "none")
       ELSE Goto(r, "searching") /\ UNCHANGED lock /\ Quiet
  /\ UNCHANGED <<clock, closed>> /\ NoClock /\ NoCall

(* The queries of the batch, in all channels, and the fusion of the ranks.  *)
Search(r) ==
  /\ pc[r] = "searching"
  /\ lock' = "free"
  /\ \/ now > budget[r] /\ RetrievalTimesOut(r)
     \/ \E code \in RetrievalCodes :
          Raise(r, "retrieval_failed", "retrieve_context", 0, code)
     \/ now <= budget[r] /\ Goto(r, "searched") /\ Quiet
  /\ UNCHANGED <<clock, closed>> /\ NoClock /\ NoCall

Searched(r) ==
  /\ pc[r] = "searched"
  /\ IF now >= Effective(r)
       THEN /\ Raise(r, "budget_exceeded", "retrieve_context", 0, "none")
            /\ UNCHANGED deadline
       ELSE /\ deadline' = [deadline EXCEPT ![r] = Effective(r)]
            /\ Goto(r, "prompt")
            /\ Quiet
  /\ UNCHANGED <<clock, index, began, total, budget>> /\ NoCall

BuildPrompt(r) ==
  /\ pc[r] = "prompt"
  /\ \/ Goto(r, "provider") /\ Quiet
     \/ \E code \in {"context_limit_exceeded", "invalid_evidence"} :
          Raise(r, code, "build_prompt", 0, "none")
  /\ UNCHANGED <<clock, index>> /\ NoClock /\ NoCall

-----------------------------------------------------------------------------
(* The provider and the edge back to it.                                    *)

Attempt(r) == attempts[r] + 1

Provider(r) ==
  /\ pc[r] = "provider"
  /\ IF Attempt(r) = 1
       THEN Goto(r, "asked") /\ UNCHANGED wake /\ Quiet
     ELSE IF now + Backoff(Attempt(r)) >= deadline[r]
       THEN /\ Raise(r, "budget_exceeded", "invoke_provider", attempts[r], "none")
            /\ UNCHANGED wake
     ELSE /\ wake' = [wake EXCEPT ![r] = now + Backoff(Attempt(r))]
          /\ Goto(r, "sleeping")
          /\ Quiet
  /\ UNCHANGED <<clock, index, attempts, answer, calls, findings>> /\ NoClock

Wake(r) ==
  /\ pc[r] = "sleeping"
  /\ now >= wake[r]
  /\ Goto(r, "asked")
  /\ UNCHANGED <<clock, index>> /\ NoClock /\ NoCall /\ Quiet

Called(r) ==
  calls' = [calls EXCEPT ![r] = Append(@,
    [at |-> now, timeout |-> Smaller(PerAttempt, deadline[r] - now),
     ended |-> 0, raw |-> NoRaw, got |-> NoAnswer])]

Ask(r) ==
  /\ pc[r] = "asked"
  /\ IF now >= deadline[r]
       THEN /\ Raise(r, "budget_exceeded", "invoke_provider", attempts[r], "none")
            /\ UNCHANGED calls
       ELSE Called(r) /\ Goto(r, "calling") /\ Quiet
  /\ UNCHANGED <<clock, index, attempts, answer, wake, findings>> /\ NoClock

(* The provider is external: it may answer late, and anything. *)
Answer(r) ==
  /\ pc[r] = "calling"
  /\ \E raw \in Raws : LET got == Adapted(raw) IN
       /\ calls' = [calls EXCEPT ![r][Attempt(r)].ended = now,
                                 ![r][Attempt(r)].raw = raw,
                                 ![r][Attempt(r)].got = got]
       /\ \/ /\ got.kind = "error" \/ (got.kind = "response" /\ now < deadline[r])
             /\ attempts' = [attempts EXCEPT ![r] = Attempt(r)]
             /\ answer' = [answer EXCEPT ![r] = got]
             /\ Goto(r, "route")
             /\ Quiet
          \/ /\ got.kind = "response" /\ now >= deadline[r]
             /\ Raise(r, "budget_exceeded", "invoke_provider", Attempt(r), "none")
             /\ UNCHANGED <<attempts, answer>>
          \/ /\ got.kind = "raise"
             /\ Raise(r, "workflow_execution_failed", "invoke_provider", Attempt(r), "none")
             /\ UNCHANGED <<attempts, answer>>
  /\ UNCHANGED <<clock, index, wake, findings>> /\ NoClock

Permitted(r) ==
  answer[r].code \in Retryable /\ attempts[r] < MaxAttempts

Route(r) ==
  /\ pc[r] = "route"
  /\ \/ answer[r].kind = "response" /\ Goto(r, "parse") /\ Quiet
     \/ /\ answer[r].kind = "error"
        /\ IF ~Permitted(r)
             THEN Raise(r, Mapped(answer[r].code), "invoke_provider", attempts[r], "none")
           ELSE IF now + Backoff(Attempt(r)) < deadline[r]
             THEN Goto(r, "provider") /\ Quiet
           ELSE Raise(r, "budget_exceeded", "invoke_provider", attempts[r], "none")
  /\ UNCHANGED <<clock, index>> /\ NoClock /\ NoCall

-----------------------------------------------------------------------------
(* The nodes after the provider.                                            *)

Parse(r) ==
  /\ pc[r] = "parse"
  /\ IF Accepted(answer[r].body)
       THEN Goto(r, "merge") /\ Quiet
       ELSE Raise(r, "invalid_model_output", "parse_response", attempts[r], "none")
  /\ UNCHANGED <<clock, index>> /\ NoClock /\ NoCall

Merge(r) ==
  /\ pc[r] = "merge"
  /\ \E all \in {Collected(answer[r].body)} : findings' = [findings EXCEPT ![r] = InOrder(all)]
  /\ Goto(r, "finalize")
  /\ UNCHANGED <<clock, index, attempts, answer, wake, calls>> /\ NoClock /\ Quiet

Finalize(r) ==
  /\ pc[r] = "finalize"
  /\ IF now >= deadline[r]
       THEN Raise(r, "budget_exceeded", "finalize", attempts[r], "none")
       ELSE /\ Goto(r, "ended")
            /\ outcome' = [outcome EXCEPT ![r] =
                 [kind |-> "result", code |-> "none", node |-> "finalize",
                  attempts |-> attempts[r], at |-> now, detail |-> "none"]]
  /\ answer' = [answer EXCEPT ![r] = NoAnswer]
  /\ UNCHANGED <<clock, index, attempts, wake, calls, findings>> /\ NoClock

-----------------------------------------------------------------------------
(* Other threads of the process use the index and close it.                 *)

Others == UNCHANGED <<clock, pc>> /\ NoClock /\ NoCall /\ Quiet
OtherTakes == lock = "free" /\ lock' = "other" /\ UNCHANGED closed /\ Others
OtherReleases == lock = "other" /\ lock' = "free" /\ UNCHANGED closed /\ Others
Close == lock = "free" /\ ~closed /\ closed' = TRUE /\ UNCHANGED lock /\ Others

Tick ==
  /\ now < MaxTime
  /\ now' = now + 1
  /\ UNCHANGED <<index, pc>> /\ NoClock /\ NoCall /\ Quiet

Step(r) ==
  \/ Begin(r) \/ AskInputs(r) \/ TakeLock(r) \/ InputsLockTimesOut(r)
  \/ CheckIndex(r) \/ InputsDone(r)
  \/ Validate(r) \/ DeterministicReview(r)
  \/ AskIndex(r) \/ IndexLockTimesOut(r) \/ Retrieve(r) \/ Search(r) \/ Searched(r)
  \/ BuildPrompt(r)
  \/ Provider(r) \/ Wake(r) \/ Ask(r) \/ Answer(r) \/ Route(r)
  \/ Parse(r) \/ Merge(r) \/ Finalize(r)

Next ==
  \/ \E r \in Reviews : Step(r)
  \/ OtherTakes \/ OtherReleases \/ Close
  \/ Tick

Spec == Init /\ [][Next]_vars

(* The threads of the reviews run, the clock advances, and the provider, an *)
(* HTTP client with a timeout, answers.  Nothing is assumed of the other    *)
(* users of the index: they may keep its lock for ever.                     *)
Fairness == WF_vars(Tick) /\ \A r \in Reviews : WF_vars(Step(r))
FairSpec == Spec /\ Fairness

-----------------------------------------------------------------------------
Times == 0 .. MaxTime + Total
TypeOK ==
  /\ now \in 0 .. MaxTime
  /\ lock \in Reviews \cup {"free", "other"}
  /\ closed \in BOOLEAN
  /\ pc \in [Reviews -> Points]
  /\ {began, total, budget, deadline, wake} \subseteq [Reviews -> Times]
  /\ attempts \in [Reviews -> 0 .. MaxAttempts]
  /\ \A r \in Reviews :
       /\ answer[r] \in Answers \cup {NoAnswer}
       /\ Len(calls[r]) <= MaxAttempts
       /\ outcome[r].kind \in {"none", "result", "error"}
       /\ (pc[r] = "ended") <=> (outcome[r].kind # "none")

(***************************************************************************)
(* A result is returned within the total budget, counted from the first     *)
(* look at the clock: the wait for the lock of the index, the retrieval,    *)
(* the backoffs and the provider are all inside (_agent.py:622).            *)
(***************************************************************************)
ResultInTime ==
  \A r \in Reviews : outcome[r].kind = "result" => outcome[r].at < began[r] + Total

(***************************************************************************)
(* Every call of the provider starts before the budget is over and is given *)
(* a timeout that ends within it (_agent.py:452): the sleep before a retry  *)
(* may last longer than asked for.                                          *)
(***************************************************************************)
CallsInBudget ==
  \A r \in Reviews : \A i \in DOMAIN calls[r] :
    LET call == calls[r][i]
    IN  call.timeout > 0 /\ call.at + call.timeout <= began[r] + Total

(***************************************************************************)
(* The provider is called again only after an error that may pass, when     *)
(* another attempt is permitted, and after the whole backoff                *)
(* (_agent.py:519).                                                         *)
(***************************************************************************)
RetriesSpaced ==
  \A r \in Reviews : \A i \in 2 .. Len(calls[r]) :
    /\ calls[r][i - 1].got.kind = "error"
    /\ calls[r][i - 1].got.code \in Retryable
    /\ calls[r][i].at >= calls[r][i - 1].ended + Backoff(i)

(***************************************************************************)
(* An error tells what happened: it counts the calls made; an error that    *)
(* may pass is reported as the provider's only when the attempts are used   *)
(* up, budget_exceeded only when the deadline does not allow what would     *)
(* have come next, a deadline of the retrieval only when the budget is not  *)
(* over, an invalid index only when the index is closed or another one      *)
(* (_agent.py:503, _retrieval_agent.py:425).                                *)
(***************************************************************************)
ErrorIsHonest ==
  \A r \in Reviews :
    LET error == outcome[r]
        last == calls[r][Len(calls[r])]
        over == began[r] + Total
    IN  error.kind = "error" =>
          /\ error.attempts = Len(calls[r])
          /\ error.code \in ProviderCodes \ {"invalid_response"} =>
               /\ last.got.code = error.code
               /\ error.code \in Retryable => Len(calls[r]) = MaxAttempts
          /\ error.code = "budget_exceeded" =>
               \/ error.at >= over
               \/ /\ Len(calls[r]) \in 1 .. MaxAttempts - 1
                  /\ last.got.code \in Retryable
                  /\ error.at + Backoff(Len(calls[r]) + 1) >= over
          /\ error.detail = "deadline_exceeded" => error.at < over
          /\ error.code = "invalid_index" => closed \/ r \notin Matching

(***************************************************************************)
(* The findings of a result are in order; each finding of the deterministic *)
(* review is there as often as it was found, and each finding of the model  *)
(* once, pointing into one hunk of the evidence (_agent.py:597).            *)
(***************************************************************************)
FindingsSound ==
  \A r \in Reviews : outcome[r].kind = "result" =>
    LET all == findings[r]
        Of(source) == {i \in DOMAIN all : all[i].source = source}
        body == calls[r][Len(calls[r])].got.body
    IN  /\ \A i, j \in DOMAIN all : i < j => ~Before(all[j], all[i])
        /\ DOMAIN all = Of("deterministic") \cup Of("agent")
        /\ \A i \in Of("deterministic") :
             \E k \in DOMAIN Review : all[i] = Promoted("deterministic", Review[k])
        /\ \A k \in DOMAIN Review :
             Cardinality({i \in DOMAIN all : all[i] = Promoted("deterministic", Review[k])})
               = Cardinality({j \in DOMAIN Review : Review[j] = Review[k]})
        /\ \A i, j \in Of("agent") : i # j => all[i] # all[j]
        /\ {all[i] : i \in Of("agent")} = {Promoted("agent", f) : f \in Range(body.findings)}
        /\ \A i \in Of("agent") : \A ref \in all[i].refs :
             ref.start # 0 => \E hunk \in Targets[ref.target] : {ref.start, ref.end} \subseteq hunk

(***************************************************************************)
(* What the client library raised is told by the clause for the most        *)
(* specific of its classes, so that a timeout is not taken for another      *)
(* failure, and only a complete answer made of text alone becomes a         *)
(* response (providers.py:246).                                             *)
(***************************************************************************)
AnswersTranslated ==
  \A r \in Reviews : \A i \in DOMAIN calls[r] :
    LET raw == calls[r][i].raw
        got == calls[r][i].got
        Handles(class, code) ==
          \E k \in DOMAIN Clauses :
            Clauses[k].class = class /\ Clauses[k].code \in {code, "by_status"}
        matching == {Clauses[k].class : k \in Catching(raw.raised)}
    IN  /\ got.kind = "error" /\ raw.raised # "none" =>
             \E class \in matching :
               /\ Handles(class, got.code)
               /\ matching \subseteq Superclasses[class]
        /\ got.kind = "response" =>
             /\ raw.raised = "none"
             /\ raw.stop \in Complete
             /\ Range(raw.blocks) \subseteq Readable

(***************************************************************************)
(* The index is searched only while it is open and by the holder of its     *)
(* lock, and a review that has ended holds nothing                          *)
(* (_retrieval_agent.py:389).                                               *)
(***************************************************************************)
IndexGuarded ==
  \A r \in Reviews :
    /\ pc[r] = "searching" => lock = r /\ ~closed
    /\ (lock = r) <=> pc[r] \in {"inputs_held", "retrieving", "searching"}
=============================================================================
