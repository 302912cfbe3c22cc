---------------------------- MODULE ReviewMachine ----------------------------
(***************************************************************************)
(* One review: the loop around the model provider, with a context index    *)
(* that other threads use; the cache of the embedding model; the life of   *)
(* an index; what a query of it gives; how a file is cut into chunks.  A   *)
(* behaviour is about one of them and the variables of the others are      *)
(* unused; those with the same meaning are shared.  Each part comes in     *)
(* several settings, which have names; a setting is a record of the        *)
(* constants of the module, and a behaviour keeps to one.                  *)
(***************************************************************************)
EXTENDS Integers, Sequences

CONSTANTS
  ReviewSettings, CacheSettings, IndexSettings, QuerySettings, FileSettings

VARIABLES
  part,                        \* what the behaviour is about
  setting,                     \* the name of its setting
  now, closed, began, total, budget, deadline, attempts, answer, wake, calls, findings,
  outcome,
  content, temp, partial, model, modelLock, handle, stream, copy, snapshot, backend,
  life, provider, registry, expired, building, shuts, index, has, reading, closing,
  taken,
  query, asked, rankings, relevance, aggregate, hits, omitted, room, sent,
  lines, marks, fragile, end, windows, chunks,
  pc, lock, native, at, phase  \* of more than one part

reviewVars == <<now, closed, began, total, budget, deadline, attempts, answer, wake,
                calls, findings, outcome>>
cacheVars == <<content, temp, partial, model, modelLock, handle, stream, copy,
               snapshot, backend>>
indexVars == <<life, provider, registry, expired, building, shuts, index, has,
               reading, closing, taken>>
fusionVars == <<query, asked, rankings, relevance, aggregate, hits, omitted, room,
                sent>>
chunkVars == <<lines, marks, fragile, end, windows, chunks>>
vars == <<part, setting, reviewVars, cacheVars, indexVars, fusionVars, chunkVars,
          pc, lock, native, at, phase>>

Reviewing(s) == INSTANCE AgentReview WITH
  Reviews <- s.Reviews, Indexed <- s.Indexed, Matching <- s.Matching,
  MaxAttempts <- s.MaxAttempts, PerAttempt <- s.PerAttempt, Total <- s.Total,
  QueryTime <- s.QueryTime, MaxTime <- s.MaxTime, Targets <- s.Targets,
  Review <- s.Review, Vendor <- s.Vendor, Raws <- s.Raws, MaxFindings <- s.MaxFindings
Caching(s) == INSTANCE ModelCache WITH
  Callers <- s.Callers, Process <- s.Process, MayDownload <- s.MayDownload,
  Files <- s.Files, Blocks <- s.Blocks, Network <- s.Network
Indexing(s) == INSTANCE ContextIndex WITH
  Providers <- s.Providers, Address <- s.Address, Builds <- s.Builds, Uses <- s.Uses,
  Readers <- s.Readers, Closers <- s.Closers, Target <- s.Target, Channels <- s.Channels
Querying(s) == INSTANCE RankFusion WITH
  ChunkCount <- s.ChunkCount, Queries <- s.Queries, Channels <- s.Channels,
  Similarities <- s.Similarities, Identifiers <- s.Identifiers,
  Definitions <- s.Definitions, References <- s.References,
  MaxCandidates <- s.MaxCandidates, MaxResults <- s.MaxResults, Sizes <- s.Sizes,
  MaxContent <- s.MaxContent, Overhead <- s.Overhead, MaxPrompts <- s.MaxPrompts,
  Scale <- s.Scale, K <- s.K
Cutting(s) == INSTANCE ChunkWindows WITH
  Lines <- s.Lines, MaxLines <- s.MaxLines, Marks <- s.Marks, Limit <- s.Limit,
  Overlap <- s.Overlap, Special <- s.Special, Fragile <- s.Fragile

ASSUME ReviewAssumption ==
  \A i \in DOMAIN ReviewSettings : LET s == ReviewSettings[i] IN
    /\ Reviewing(s)!ReviewsAssumption /\ Reviewing(s)!VendorAssumption
    /\ Reviewing(s)!BudgetAssumption /\ Reviewing(s)!RawsAssumption
ASSUME CacheAssumption ==
  \A i \in DOMAIN CacheSettings : LET s == CacheSettings[i] IN
    /\ Caching(s)!CallersAssumption /\ Caching(s)!SizeAssumption
ASSUME IndexAssumption ==
  \A i \in DOMAIN IndexSettings : Indexing(IndexSettings[i])!BuildsAssumption
ASSUME QueryAssumption ==
  \A i \in DOMAIN QuerySettings : LET s == QuerySettings[i] IN
    /\ Querying(s)!BoundsAssumption /\ Querying(s)!ChannelsAssumption
    /\ Querying(s)!IndexAssumption
ASSUME FileAssumption ==
  \A i \in DOMAIN FileSettings : LET s == FileSettings[i] IN
    Cutting(s)!LinesAssumption /\ Cutting(s)!BudgetAssumption

-----------------------------------------------------------------------------
Unused(variable) == variable = "unused"
NoReview ==
  /\ Unused(now) /\ Unused(closed) /\ Unused(began) /\ Unused(total) /\ Unused(budget)
  /\ Unused(deadline) /\ Unused(attempts) /\ Unused(answer) /\ Unused(wake) /\ Unused(calls)
  /\ Unused(findings) /\ Unused(outcome)
NoCache ==
  /\ Unused(content) /\ Unused(temp) /\ Unused(partial) /\ Unused(model)
  /\ Unused(modelLock) /\ Unused(handle) /\ Unused(stream) /\ Unused(copy) /\ Unused(snapshot)
  /\ Unused(backend)
NoIndex ==
  /\ Unused(life) /\ Unused(provider) /\ Unused(registry) /\ Unused(expired)
  /\ Unused(building) /\ Unused(shuts) /\ Unused(index) /\ Unused(has) /\ Unused(reading)
  /\ Unused(closing) /\ Unused(taken)
NoFusion ==
  /\ Unused(query) /\ Unused(asked) /\ Unused(rankings) /\ Unused(relevance)
  /\ Unused(aggregate) /\ Unused(hits) /\ Unused(omitted) /\ Unused(room) /\ Unused(sent)
NoChunks ==
  /\ Unused(lines) /\ Unused(marks) /\ Unused(fragile) /\ Unused(end) /\ Unused(windows)
  /\ Unused(chunks)

Init ==
  \/ /\ part = "review"
     /\ \E i \in DOMAIN ReviewSettings : setting = i /\ Reviewing(ReviewSettings[i])!Init
     /\ NoCache /\ NoIndex /\ NoFusion /\ NoChunks /\ Unused(native) /\ Unused(at)
     /\ Unused(phase)
  \/ /\ part = "cache"
     /\ \E i \in DOMAIN CacheSettings : setting = i /\ Caching(CacheSettings[i])!Init
     /\ NoReview /\ NoIndex /\ NoFusion /\ NoChunks /\ Unused(lock) /\ Unused(phase)
  \/ /\ part = "index"
     /\ \E i \in DOMAIN IndexSettings : setting = i /\ Indexing(IndexSettings[i])!Init
     /\ NoReview /\ NoCache /\ NoFusion /\ NoChunks /\ Unused(pc) /\ Unused(at)
     /\ Unused(phase)
  \/ /\ part = "query"
     /\ \E i \in DOMAIN QuerySettings : setting = i /\ Querying(QuerySettings[i])!Init
     /\ NoReview /\ NoCache /\ NoIndex /\ NoChunks /\ Unused(pc) /\ Unused(lock)
     /\ Unused(native) /\ Unused(at)
  \/ /\ part = "file"
     /\ \E i \in DOMAIN FileSettings : setting = i /\ Cutting(FileSettings[i])!Init
     /\ NoReview /\ NoCache /\ NoIndex /\ NoFusion /\ Unused(pc) /\ Unused(lock)
     /\ Unused(native)

(* What a step of a part leaves alone.                                     *)
IsReview(i) == part = "review" /\ setting = i /\ UNCHANGED <<part, setting, cacheVars,
  indexVars, fusionVars, chunkVars, native, at, phase>>
IsCache(i) == part = "cache" /\ setting = i /\ UNCHANGED <<part, setting, reviewVars,
  indexVars, fusionVars, chunkVars, lock, phase>>
IsIndex(i) == part = "index" /\ setting = i /\ UNCHANGED <<part, setting, reviewVars,
  cacheVars, fusionVars, chunkVars, pc, at, phase>>
IsQuery(i) == part = "query" /\ setting = i /\ UNCHANGED <<part, setting, reviewVars,
  cacheVars, indexVars, chunkVars, pc, lock, native, at>>
IsFile(i) == part = "file" /\ setting = i /\ UNCHANGED <<part, setting, reviewVars,
  cacheVars, indexVars, fusionVars, pc, lock, native>>

Next ==
  \/ \E i \in DOMAIN ReviewSettings : IsReview(i) /\ Reviewing(ReviewSettings[i])!Next
  \/ \E i \in DOMAIN CacheSettings : IsCache(i) /\ Caching(CacheSettings[i])!Next
  \/ \E i \in DOMAIN IndexSettings : IsIndex(i) /\ Indexing(IndexSettings[i])!Next
  \/ \E i \in DOMAIN QuerySettings : IsQuery(i) /\ Querying(QuerySettings[i])!Next
  \/ \E i \in DOMAIN FileSettings : IsFile(i) /\ Cutting(FileSettings[i])!Next

Spec == Init /\ [][Next]_vars

(* The fairness of AgentReview, ModelCache and ContextIndex; a behaviour   *)
(* is about one of them, so one condition for an actor of that name stands *)
(* for several.                                                            *)
Reviewers == UNION {ReviewSettings[i].Reviews : i \in DOMAIN ReviewSettings}
Callers == UNION {CacheSettings[i].Callers : i \in DOMAIN CacheSettings}
Readers == UNION {IndexSettings[i].Readers : i \in DOMAIN IndexSettings}
Closers == UNION {IndexSettings[i].Closers : i \in DOMAIN IndexSettings}

Acts(who) ==
  \/ \E i \in DOMAIN ReviewSettings :
       IsReview(i) /\ who \in ReviewSettings[i].Reviews /\ Reviewing(ReviewSettings[i])!Step(who)
  \/ \E i \in DOMAIN CacheSettings :
       IsCache(i) /\ who \in CacheSettings[i].Callers /\ Caching(CacheSettings[i])!Step(who)
  \/ \E i \in DOMAIN IndexSettings :
       IsIndex(i) /\ who \in IndexSettings[i].Closers /\ Indexing(IndexSettings[i])!CloseStep(who)
Reads(who) ==
  \E i \in DOMAIN IndexSettings : LET s == IndexSettings[i] IN
    /\ IsIndex(i) /\ who \in s.Readers
    /\ Indexing(s)!ReadStep(who) \/ Indexing(s)!ReadLockTimesOut(who)
Locks(who) ==
  \E i \in DOMAIN CacheSettings :
    IsCache(i) /\ who \in CacheSettings[i].Callers /\ Caching(CacheSettings[i])!Lock(who)
Ticks == \E i \in DOMAIN ReviewSettings : IsReview(i) /\ Reviewing(ReviewSettings[i])!Tick

FairSpec ==
  /\ Spec
  /\ WF_vars(Ticks)
  /\ \A who \in Reviewers \cup Callers \cup Closers : WF_vars(Acts(who))
  /\ \A who \in Readers : WF_vars(Reads(who))
  /\ \A who \in Callers : SF_vars(Locks(who))

-----------------------------------------------------------------------------
(* A review keeps to its budget: every call of the provider starts and     *)
(* must end within it, a retry follows only an error that may pass and the *)
(* whole backoff, a result comes in time, and an error says what happened. *)
(* The findings are those of the rules and of the last answer, pointing    *)
(* into the evidence; the index is searched only under its lock.           *)
ReviewIsSound ==
  \A i \in DOMAIN ReviewSettings : LET s == ReviewSettings[i] IN
    part = "review" /\ setting = i =>
      /\ Reviewing(s)!TypeOK
      /\ Reviewing(s)!CallsInBudget /\ Reviewing(s)!RetriesSpaced /\ Reviewing(s)!FindingsSound
      /\ Reviewing(s)!AnswersTranslated /\ Reviewing(s)!ResultInTime
      /\ Reviewing(s)!ErrorIsHonest /\ Reviewing(s)!IndexGuarded

(* A native model or backend has one owner: what is loaded was verified    *)
(* whatever other processes do to the cache, a call that ended gave back   *)
(* the lock and holds a native model only if its provider is live, an open *)
(* index alone can close its provider, and nobody uses what was closed or  *)
(* closes it twice.                                                        *)
ProvidersAreOwned ==
  /\ \A i \in DOMAIN CacheSettings : LET s == CacheSettings[i] IN
       part = "cache" /\ setting = i =>
         /\ Caching(s)!TypeOK /\ Caching(s)!LoadedIsExact /\ Caching(s)!InitializationIsAtomic
  /\ \A i \in DOMAIN IndexSettings : LET s == IndexSettings[i] IN
       part = "index" /\ setting = i =>
         /\ Indexing(s)!TypeOK /\ Indexing(s)!OpenIndexOwnsItsProvider
         /\ Indexing(s)!NothingUsedAfterClose /\ Indexing(s)!ShutOnce

(* What a query gives depends on nothing but scores and the order of the   *)
(* chunks, and is cut to the budgets of the prompt; a window fits the      *)
(* model and overlaps the next, the chunks cover every byte and never      *)
(* split a redacted line.                                                  *)
HitsAreExact ==
  /\ \A i \in DOMAIN QuerySettings : LET s == QuerySettings[i] IN
       part = "query" /\ setting = i =>
         /\ Querying(s)!TypeOK /\ Querying(s)!RankingsExact /\ Querying(s)!ScoresAreSums
         /\ Querying(s)!HitsAreBest /\ Querying(s)!PromptIsLongestPrefix
  /\ \A i \in DOMAIN FileSettings : LET s == FileSettings[i] IN
       part = "file" /\ setting = i =>
         /\ Cutting(s)!TypeOK /\ Cutting(s)!WindowsFit /\ Cutting(s)!WindowsOverlap
         /\ Cutting(s)!ChunksAreWhole
         /\ s.Overlap > 0 /\ (\A k \in DOMAIN lines : ~lines[k].redacted)
              => Cutting(s)!EveryFileIsChunked

(* A review ends though another thread keeps the lock of the index, an     *)
(* initialization ends unless its process dies, and a close, which has no  *)
(* deadline for the lock, ends.                                            *)
ReviewsEnd ==
  []<>CASE part = "review" -> \A r \in DOMAIN pc : pc[r] \in {"begin", "validate", "ended"}
        [] part = "cache" -> \A c \in DOMAIN pc : pc[c] \in {"start", "ended", "dead"}
        [] part = "index" -> \A c \in DOMAIN closing : closing[c] \in {"start", "ended"}
        [] OTHER -> TRUE
=============================================================================
