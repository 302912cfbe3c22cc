----------------------------- MODULE RankFusion -----------------------------
(***************************************************************************)
(* A batch of queries to a context index (_retrieval.py) and the prompt its *)
(* hits are rendered into (_retrieval_prompt.py).  Every channel ranks the  *)
(* chunks for every query; a rank contributes to the score of its chunk;    *)
(* the best chunks are the hits, and the longest prefix of the hits that    *)
(* fits is sent.  A chunk is its position in the order of _chunk_sort_key.  *)
(***************************************************************************)
EXTENDS Integers, Sequences, FiniteSetsExt, Functions, Sorting

CONSTANTS
  ChunkCount,    \* the number of chunks of the index
  Queries,       \* the number of queries
  Channels,      \* the channels of the configuration, in order
  Similarities,  \* the scores of the vector backend
  Identifiers,   \* the identifiers a query may hold
  Definitions,   \* identifier |-> the chunks that define it
  References,    \* identifier |-> the chunks that refer to it
  MaxCandidates, \* max_candidates_per_channel
  MaxResults,    \* max_results
  Sizes,         \* chunk |-> the bytes of its content
  MaxContent,    \* max_retrieved_content_bytes
  Overhead,      \* the bytes a hit adds to the prompt besides its content
  MaxPrompts,    \* what may be left of max_prompt_bytes for the hits
  Scale, K       \* _RRF_SCALE and _RRF_K

(* What _validate_configuration accepts, and what an index is made of. *)
BoundsAssumption ==
  /\ {ChunkCount, MaxContent, Overhead, Scale, K} \subseteq Nat
  /\ {Queries, MaxCandidates, MaxResults} \subseteq Nat \ {0}
  /\ MaxPrompts \subseteq Nat
ChannelsAssumption ==
  Channels \in Seq({"text", "vector", "symbol"}) /\ IsInjective(Channels)
IndexAssumption ==
  /\ Sizes \in [1 .. ChunkCount -> Nat] /\ Similarities \subseteq Int
  /\ {Definitions, References} \subseteq [Identifiers -> SUBSET (1 .. ChunkCount)]

VARIABLES
  query,      \* the number of the query that is asked
  asked,      \* how many channels were asked for it
  rankings,   \* query |-> channel |-> the ranking it returned
  relevance,  \* query |-> chunk |-> the score of the vector backend
  aggregate,  \* chunk |-> what has been gathered about it
  hits,       \* the chunks selected, in order
  omitted,    \* omitted_count
  room,       \* what is left of max_prompt_bytes
  sent,       \* sent_hits
  phase

vars == <<query, asked, rankings, relevance, aggregate, hits, omitted, room, sent, phase>>

Chunks == 1 .. ChunkCount
Lists(set, most) == UNION {[1 .. n -> set] : n \in 0 .. most}
AllChannels == {"text", "vector", "symbol"}
NoRank == 0
Nothing == [ranks |-> [x \in AllChannels |-> NoRank], numbers |-> {}, score |-> 0]

Init ==
  /\ query = 1
  /\ asked = 0
  /\ rankings = [q \in 1 .. Queries |-> [x \in AllChannels |-> <<>>]]
  /\ relevance = [q \in 1 .. Queries |-> [c \in Chunks |-> 0]]
  /\ aggregate = [c \in Chunks |-> Nothing]
  /\ hits = <<>> /\ omitted = 0
  /\ room \in MaxPrompts
  /\ sent = <<>>
  /\ phase = "query"

-----------------------------------------------------------------------------
Contribution(rank) == Scale \div (K + rank)

Cut(ranking) == SubSeq(ranking, 1, IF Len(ranking) < MaxCandidates THEN Len(ranking) ELSE MaxCandidates)

Rank(ranking, c) == CHOOSE r \in DOMAIN ranking : ranking[r] = c

(* Bug: the rank in the last query stays. *)
SmallerLast(a, b) == b

Smaller(a, b) == IF a = NoRank \/ b < a THEN b ELSE a

Gathered(channel, ranking) ==
  [c \in Chunks |->
    IF c \notin Range(ranking) THEN aggregate[c]
    ELSE [ranks   |-> [aggregate[c].ranks EXCEPT ![channel] = Smaller(@, Rank(ranking, c))],
          numbers |-> aggregate[c].numbers \cup {query},
          score   |-> aggregate[c].score + Contribution(Rank(ranking, c))]]

(* One channel has ranked the chunks for this query. *)
Ranked(channel, ranking) ==
  /\ phase = "query"
  /\ asked < Len(Channels) /\ channel = Channels[asked + 1]
  /\ asked' = asked + 1
  /\ rankings' = [rankings EXCEPT ![query][channel] = ranking]
  /\ aggregate' = Gathered(channel, ranking)
  /\ UNCHANGED <<query, hits, omitted, room, sent, phase>>

(* _query_text: whatever bm25 finds, limited by the statement. *)
QueryText ==
  /\ \E ranking \in {s \in Lists(Chunks, MaxCandidates) : IsInjective(s)} :
       Ranked("text", ranking)
  /\ UNCHANGED relevance

(* _query_vector: the backend returns every chunk, those of the same score  *)
(* in any order; they are sorted by score and then by their own order.      *)
Returned(score) ==
  {s \in Bijection(Chunks, Chunks) : \A i, j \in Chunks : i < j => score[s[i]] >= score[s[j]]}
Nearer(score, c, d) == score[c] > score[d] \/ (score[c] = score[d] /\ c < d)

Nearest(score, returned) ==
  Sorted(Range(returned), {p \in Range(returned) \X Range(returned) : Nearer(score, p[1], p[2])})

QueryVector ==
  \E score \in [Chunks -> Similarities] : \E returned \in Returned(score) :
    /\ Ranked("vector", Cut(Nearest(score, returned)))
    /\ relevance' = [relevance EXCEPT ![query] = score]

(* _query_symbol: the definitions of the identifiers, then the references   *)
(* that are no definitions; each chunk once, where the first identifier     *)
(* finds it.                                                                *)
Finding(table, identifiers, c) == {i \in DOMAIN identifiers : c \in table[identifiers[i]]}
Earlier(table, identifiers, c, d) ==
  LET first == Min(Finding(table, identifiers, c))
      other == Min(Finding(table, identifiers, d))
  IN  first < other \/ (first = other /\ c < d)
Found(table, identifiers) == {c \in Chunks : Finding(table, identifiers, c) # {}}
InOrder(set, table, identifiers) ==
  Sorted(set, {p \in set \X set : Earlier(table, identifiers, p[1], p[2])})
BySymbol(identifiers) ==
  LET definitions == Found(Definitions, identifiers)
      references == Found(References, identifiers) \ definitions
  IN  Cut(InOrder(definitions, Definitions, identifiers)
          \o InOrder(references, References, identifiers))
QuerySymbol ==
  /\ \E identifiers \in Lists(Identifiers, 2) :
       IsInjective(identifiers) /\ Ranked("symbol", BySymbol(identifiers))
  /\ UNCHANGED relevance

NextQuery ==
  /\ phase = "query"
  /\ asked = Len(Channels)
  /\ IF query = Queries
       THEN phase' = "fuse" /\ UNCHANGED <<query, asked>>
       ELSE query' = query + 1 /\ asked' = 0 /\ UNCHANGED phase
  /\ UNCHANGED <<rankings, relevance, aggregate, hits, omitted, room, sent>>

-----------------------------------------------------------------------------
(* _fuse *)
Candidates == {c \in Chunks : aggregate[c].numbers # {}}

Better(c, d) == aggregate[c].score > aggregate[d].score
                \/ (aggregate[c].score = aggregate[d].score /\ c < d)

Best == Sorted(Candidates, {p \in Candidates \X Candidates : Better(p[1], p[2])})
Fuse ==
  /\ phase = "fuse"
  /\ hits' = SubSeq(Best, 1, IF Len(Best) < MaxResults THEN Len(Best) ELSE MaxResults)
  /\ omitted' = Len(Best) - Len(hits')
  /\ phase' = "render"
  /\ UNCHANGED <<query, asked, rankings, relevance, aggregate, room, sent>>

(* _render_retrieval_prompt: the first hit that does not fit ends it. *)
Content(list) == SumFunction([n \in DOMAIN list |-> Sizes[list[n]]])
Rendered(list) == Content(list) + Overhead * Len(list)
Fits(list) == Content(list) <= MaxContent /\ Rendered(list) <= room

Fitting(list) ==
  LET misfits == {n \in 1 .. Len(list) : ~Fits(SubSeq(list, 1, n))}
  IN  IF misfits = {} THEN list ELSE SubSeq(list, 1, Min(misfits) - 1)

Render ==
  /\ phase = "render"
  /\ sent' = Fitting(hits)
  /\ phase' = "done"
  /\ UNCHANGED <<query, asked, rankings, relevance, aggregate, hits, omitted, room>>

(* _retrieval_summary *)
Summary == [candidates |-> Len(hits) + omitted, selected |-> Len(sent),
            omitted |-> Len(hits) + omitted - Len(sent)]

Next == QueryText \/ QueryVector \/ QuerySymbol \/ NextQuery \/ Fuse \/ Render
Spec == Init /\ [][Next]_vars

-----------------------------------------------------------------------------
Ranks == 0 .. MaxCandidates
TypeOK ==
  /\ query \in 1 .. Queries
  /\ asked \in 0 .. Len(Channels)
  /\ rankings \in [1 .. Queries -> [AllChannels -> Lists(Chunks, MaxCandidates)]]
  /\ relevance \in [1 .. Queries -> [Chunks -> {0} \cup Similarities]]
  /\ aggregate \in [Chunks -> [ranks : [AllChannels -> Ranks],
                                numbers : SUBSET (1 .. Queries), score : Nat]]
  /\ hits \in Seq(Chunks) /\ sent \in Seq(Chunks)
  /\ omitted \in 0 .. ChunkCount
  /\ room \in MaxPrompts
  /\ phase \in {"query", "fuse", "render", "done"}

(***************************************************************************)
(* The channels answer in an order that depends on nothing but the scores   *)
(* and the order of the chunks: whatever the backend does with equal        *)
(* scores, the rank of a chunk is the number of nearer ones and one         *)
(* (_retrieval.py:2975).                                                    *)
(***************************************************************************)
RankingsExact ==
  \A q \in 1 .. Queries : \A r \in DOMAIN rankings[q]["vector"] :
    LET c == rankings[q]["vector"][r]
    IN  \A d \in Chunks : Nearer(relevance[q], d, c)
          <=> d \in {rankings[q]["vector"][i] : i \in 1 .. r - 1}

(***************************************************************************)
(* The score of a hit is the sum over every query and channel that ranked   *)
(* it, its ranks are the best ones, and hits are those that RetrievalHit    *)
(* accepts (retrieval.py:473).                                              *)
(***************************************************************************)
RankIn(q, x, c) == IF c \in Range(rankings[q][x]) THEN Rank(rankings[q][x], c) ELSE NoRank
Points(q, x, c) == IF RankIn(q, x, c) = NoRank THEN 0 ELSE Contribution(RankIn(q, x, c))
Total(c) == SumFunction([p \in (1 .. Queries) \X AllChannels |-> Points(p[1], p[2], c)])
ScoresAreSums ==
  phase # "query" => \A c \in Chunks :
    /\ aggregate[c].score = Total(c)
    /\ \A x \in AllChannels :
         LET ranks == {RankIn(q, x, c) : q \in 1 .. Queries} \ {NoRank}
         IN  IF ranks = {} THEN aggregate[c].ranks[x] = NoRank
             ELSE /\ aggregate[c].ranks[x] \in ranks
                  /\ \A r \in ranks : aggregate[c].ranks[x] <= r

(***************************************************************************)
(* Nothing that was left out beats a hit, the hits are in order, and each   *)
(* chunk is one hit however many queries and channels found it (:3056).     *)
(***************************************************************************)
HitsAreBest ==
  phase \in {"render", "done"} =>
    /\ IsInjective(hits)
    /\ Len(hits) <= MaxResults
    /\ \A i, j \in DOMAIN hits : i < j => Better(hits[i], hits[j])
    /\ \A c \in Candidates \ Range(hits), i \in DOMAIN hits : Better(hits[i], c)
    /\ omitted = Cardinality(Candidates) - Len(hits)

(***************************************************************************)
(* What is sent is a prefix of the hits that fits both budgets, and one hit *)
(* more would not fit; the summary accounts for every candidate             *)
(* (_retrieval_prompt.py:75, _retrieval_agent.py:561).                      *)
(***************************************************************************)
PromptIsLongestPrefix ==
  phase = "done" =>
    /\ sent = SubSeq(hits, 1, Len(sent)) /\ Len(sent) <= Len(hits)
    /\ Fits(sent)
    /\ sent # hits => ~Fits(SubSeq(hits, 1, Len(sent) + 1))
    /\ Summary.candidates = Cardinality(Candidates)
    /\ Summary.candidates = Summary.selected + Summary.omitted
=============================================================================
