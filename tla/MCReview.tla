------------------------------ MODULE MCReview ------------------------------
(* Settings of the parts of a review, for TLC.                             *)
EXTENDS ReviewMachine, TLC

-----------------------------------------------------------------------------
(* A file with two hunks on its new side: lines 3 and 4, and line 6.       *)
(* Two findings of the rules that differ in nothing the merge looks at,    *)
(* and one the model may find as well.                                     *)
Hunks == "f" :> {{3, 4}, {6}}
Ref(from, to) == [target |-> "f", start |-> from, end |-> to]
Found(rank, id, refs) == [rank |-> rank, id |-> id, refs |-> refs]
OfRules == <<Found(1, 1, {Ref(3, 4)}), Found(1, 1, {Ref(3, 4)}), Found(2, 1, {Ref(0, 0)})>>

NoBody == [shape |-> FALSE, findings |-> <<>>]
Doc(list) == [shape |-> TRUE, findings |-> list]
Bodies ==
  {Doc(<<Found(2, 2, {Ref(3, 3)}), Found(2, 1, {Ref(0, 0)}), Found(2, 2, {Ref(3, 3)})>>),
   Doc(<<Found(1, 1, {Ref(3, 4)}), Found(3, 1, {Ref(4, 6)})>>),
   Doc(<<>>), NoBody}

NoRaw == [raised |-> "none", status |-> 0, stop |-> "none", blocks |-> <<>>,
          usage |-> TRUE, body |-> NoBody]
Raised(class, status) == [NoRaw EXCEPT !.raised = class, !.status = status]
Answered(stop, blocks, body) == [NoRaw EXCEPT !.stop = stop, !.blocks = blocks, !.body = body]

OpenAIRaws ==
  {Raised("AuthenticationError", 401), Raised("RateLimitError", 429),
   Raised("APIStatusError", 500), Raised("APITimeoutError", 0),
   Raised("ContentFilterFinishReasonError", 0), Raised("OtherError", 0),
   Answered("failed_server_error", <<>>, NoBody),
   Answered("max_output_tokens", <<"text">>, NoBody),
   Answered("completed", <<"text", "refusal">>, NoBody)}
  \cup {Answered("completed", <<"reasoning", "text">>, body) : body \in Bodies}
FewRaws ==
  {Raised("APITimeoutError", 0), Answered("refusal", <<"text">>, NoBody),
   Answered("end_turn", <<"text">>, Doc(<<>>))}

OneReview ==
  [Reviews |-> {"r1"}, Indexed |-> {}, Matching |-> {}, MaxAttempts |-> 2, PerAttempt |-> 1,
   Total |-> 3, QueryTime |-> 1, MaxTime |-> 4, Targets |-> Hunks, Review |-> OfRules,
   Vendor |-> "openai", Raws |-> OpenAIRaws, MaxFindings |-> 3]
MCReviewSettings ==
  [alone |-> OneReview,
   retrying |->
     [OneReview EXCEPT !.Indexed = {"r1"}, !.Matching = {"r1"}, !.MaxAttempts = 3, !.Total = 5,
                       !.MaxTime = 6, !.Vendor = "anthropic", !.Raws = FewRaws],
   sharing |->
     [OneReview EXCEPT !.Reviews = {"r1", "r2"}, !.Indexed = {"r1", "r2"}, !.Matching = {"r1"},
                       !.MaxAttempts = 1, !.Total = 2, !.MaxTime = 3, !.Vendor = "anthropic",
                       !.Raws = FewRaws]]

(* Two processes that may download, then two threads of one of them.       *)
TwoCallers ==
  [Callers |-> {"c1", "c2"}, Process |-> "c1" :> "p1" @@ "c2" :> "p2",
   MayDownload |-> {"c1", "c2"}, Files |-> 1, Blocks |-> 2, Network |-> {"good", "bad"}]
MCCacheSettings ==
  [processes |-> TwoCallers,
   threads |-> [TwoCallers EXCEPT !.Process = "c1" :> "p1" @@ "c2" :> "p1", !.Files = 2]]

(* Two providers, the second made where the first one was; two builds are  *)
(* given the first one.  Then two readers and two closers of one index.    *)
MCIndexSettings ==
  [owning |->
     [Providers |-> {"p1", "p2"}, Address |-> "p1" :> "a" @@ "p2" :> "a",
      Builds |-> {"b1", "b2", "b3"}, Uses |-> "b1" :> "p1" @@ "b2" :> "p1" @@ "b3" :> "p2",
      Readers |-> {"r1"}, Closers |-> {"c1", "c2"},
      Target |-> "r1" :> "b1" @@ "c1" :> "b1" @@ "c2" :> "b2",
      Channels |-> {"vector", "symbol"}],
   using |->
     [Providers |-> {"p1"}, Address |-> "p1" :> "a", Builds |-> {"b1"}, Uses |-> "b1" :> "p1",
      Readers |-> {"r1", "r2"}, Closers |-> {"c1", "c2"},
      Target |-> "r1" :> "b1" @@ "r2" :> "b1" @@ "c1" :> "b1" @@ "c2" :> "b1",
      Channels |-> {"text", "vector", "symbol"}]]

(* Chunk 2 defines what chunks 1 and 3 refer to.                           *)
MCQuerySettings ==
  [fusing |->
     [ChunkCount |-> 3, Queries |-> 2, Channels |-> <<"text", "vector", "symbol">>,
      Similarities |-> {1, 2}, Identifiers |-> {"f"},
      Definitions |-> "f" :> {2}, References |-> "f" :> {1, 2, 3},
      MaxCandidates |-> 2, MaxResults |-> 2, Sizes |-> <<2, 3, 1>>, MaxContent |-> 4,
      Overhead |-> 1, MaxPrompts |-> {5}, Scale |-> 100000, K |-> 60]]

(* Lines of one character, of three ASCII ones, of two wide ones, and a    *)
(* line of six bytes behind a sentinel of two characters.                  *)
Line(chars, bytes, redacted) == [chars |-> chars, bytes |-> bytes, redacted |-> redacted]
PlainLines == {Line(1, 1, FALSE), Line(3, 3, FALSE), Line(2, 4, FALSE)}
MCFileSettings ==
  [cutting |->
     [Lines |-> PlainLines \cup {Line(2, 6, TRUE)}, MaxLines |-> 2,
      Marks |-> {"start", "in", "gap"}, Limit |-> 6, Overlap |-> 2, Special |-> 2,
      Fragile |-> BOOLEAN],
   disjoint |->
     [Lines |-> {Line(3, 3, FALSE), Line(2, 6, TRUE)}, MaxLines |-> 2,
      Marks |-> {"start", "in", "gap"}, Limit |-> 4, Overlap |-> 0, Special |-> 2,
      Fragile |-> BOOLEAN]]
=============================================================================
