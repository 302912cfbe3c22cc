# RepoGuard in TLA+

This directory holds TLA+ models of RepoGuard, the TLC configurations that check
them and TLAPS proofs about them. Paths below are relative to `src/repoguard/` of
the repository unless they start with another directory. `PROJECT.json` maps every
definition to the lines it models.

## 1. The system

RepoGuard reviews the changes of a git repository, can propose a repair, validate it
in a container, publish it under a local ref and, on request, to GitHub. It is a
library and a command line (and an MCP server and GitHub actions on top): there is no
daemon. Every command is a process of its own, and what processes share is on disk, in
the Docker daemon, in the user's repository, or on GitHub.

| Component | State it keeps | Operations | What makes it correct |
| --- | --- | --- | --- |
| Evidence (`_git.py`, `evidence.py`) | none | run git read-only under limits, parse diffs | limits hold, output is whole or refused |
| Deterministic review (`_review.py`, `review.py`) | none | rules over a diff | a function of its input |
| Agent review (`_agent.py`, `agent.py`, `providers.py`, `_prompt.py`) | attempt count, deadline | render, invoke, retry, parse | at most three attempts, no call past the deadline, findings refer to what was shown |
| Context retrieval (`_retrieval.py`, `_embedding.py`, `retrieval.py`) | an index, a model cache, a registry of providers | build, query, fuse ranks, close | every byte is indexed, ranks are exact, nothing is used after its close, the cache can be resumed |
| Retrieval agent (`_retrieval_agent.py`) | deadline of the query loop | query, answer | the review ends in time whoever holds the index |
| Repair session log (`_repair_store.py`, `_repair_models.py`, `repair.py`) | immutable event files, each with a snapshot and a validation lease | append, load | only legal histories load; records are written once |
| Repair workflow (`_repair_workflow.py`) | the session, a private payload | create, propose, approve, apply, reject, cancel, expire, recover, cleanup | nothing is published, executed, forgotten or deleted that the log does not account for |
| Repair sandbox (`_repair_sandbox.py`, `repair_assets/`) | a container, a report | create, inspect, start, stop, remove; the runner's command loop | one run per candidate; a success is earned; nothing is left |
| Repair git (`_repair_git.py`) | candidate repository, repair ref | seed, patch, commit, export, push absent-only, read back | the candidate is the patched head; the ref is written only under the session lock and read truly |
| Child processes (in `_git.py`, `_repair_git.py`, `_repair_sandbox.py`, `_retrieval.py`, `runner.py`) | a child, its pipes and group | start, drain, limit, time out, kill | whole output or a failure; every wait ends |
| Session directories (`_repair_store.py`) | staging and session directories, locks | create, lock, remove | creation is atomic; only closed, clean sessions are removed |
| GitHub publication (`github_publication.py`, `github_transport.py`, `github.py`) | check runs, blobs/trees/commits, branch, pull request (remote) | publish check, publish repair | retries converge; nothing is published twice or without approval |
| Publication records (`_github_store.py`) | proposal, approval, branch, result files | compare-and-set writes, crash recovery | a record is never lost or exchanged |
| Product, CLI, MCP, actions (`_product.py`, `product.py`, `cli.py`, `mcp_server.py`, `scripts/`) | configuration, confirmations | compose the above | a write needs the approval of exactly what is written |

How they interact: the workflow calls the store under a session `flock`, the sandbox
outside of it with callbacks that take the lock again (`register_intent`,
`register_run`, `release_*`, `before_remove`), and git inside of it with the lock
descriptor inherited by the child. GitHub publication applies a repair through the
workflow, then writes to GitHub under the lock of its own record directory. The
product composes review, repair and publication; the MCP server puts a
confirmation in front of its writing operations.

What is hard here: several processes on one session; a crash between any two effects;
calls that fail after they took effect; a Docker create that is answered late or
never; a git child that outlives its parent; results that come back to a session that
was closed meanwhile; GitHub writes with an ambiguous answer; a source that moves
during a publication; output limits and deadlines that race the end of a program;
power failures. The list with the line where each bites is `hazards` in
`PROJECT.json`.

## 2. Modules

| Module | Models | Runs |
| --- | --- | --- |
| `RepairEventLog` | what `_SessionStore.append` and `_load_event_chain` accept: the rules of a session's history | `event_log` |
| `RepairEventLogProofs` | proofs about it | |
| `GuardedRepair` | what a repair session promises its user: abstract specification | |
| `RepairWorkflow` | all commands on one session as concurrent processes, which write by the rules of `RepairEventLog`; refines `GuardedRepair` | `workflow`, `workflow_liveness`, `workflow_three` |
| `RepairWorkflowProofs` | proofs about it | |
| `DurableLog` | what a store promises about acknowledged events: abstract specification | |
| `EventStore` | the event files, system call by system call; refines `DurableLog` | `event_store`, `event_store_readers` |
| `EventStoreProofs` | proofs about it | |
| `SessionDirectory` | the directory of a session: staging, locks, removal | `repair_machine`, `repair_machine_liveness` |
| `CandidateRepository` | how a candidate is built, kept, opened again and read | `repair_machine` |
| `RepairRef` | the repair ref among other git programs, file by file | `repair_machine`, `repair_machine_liveness` |
| `ValidationRunner` | PID 1 of the validation container | by `SandboxRun` |
| `SandboxRun` | one validation run as the host sees it, with the runner in it | `repair_machine`, `repair_machine_liveness` |
| `BoundedProcess` | the six ways in which the code runs another program | `repair_machine`, `repair_machine_liveness` |
| `RepairMachine` | the composition of the modules from `SessionDirectory` to `BoundedProcess` | `repair_machine`, `repair_machine_liveness` |
| `RepairMachineProofs` | proofs about it and its parts | |
| `ApprovedPublication` | what publishing a proposal promises: abstract specification | |
| `CheckPublication`, `RepairPublication` | publishing a check run and a repair, request by request; each refines `ApprovedPublication` | `github_publication` |
| `WriteOnceRecords` | what the records of a publication promise: abstract specification | |
| `PublicationRecords` | their files, call by call; refines `WriteOnceRecords` | `github_publication` |
| `GitHubPublication` | the composition of these three | `github_publication` |
| `GitHubPublicationProofs` | proofs about it and its parts | |
| `ProviderAdapters` | what the vendor libraries raise or return as a response or a code | by `AgentReview` |
| `AgentReview` | the graph of a review with attempts, deadlines, backoff and the shared index | `review` |
| `ContextIndex` | the life of an index, its native backends and the registry of providers | `review` |
| `ModelCache` | download, verification, private copy and loading of the embedding model | `review` |
| `RankFusion` | a batch of queries: ranks, fused scores, hits, the prefix sent | `review` |
| `ChunkWindows` | how a file is cut into windows and the windows into bytes | `review`, `chunk_windows_redacted` |
| `Sorting` | Python's `sorted` for a strict total order | by `AgentReview`, `RankFusion`, `ChunkWindows` |
| `ReviewMachine` | the composition of the modules from `AgentReview` to `ChunkWindows` | `review` |
| `ReviewMachineProofs`, `RetrievalProofs` | proofs about it and its parts | |
| `McpApproval` | the writing tools of the MCP server, prompt and reply | `mcp_approval` |
| `McpApprovalProofs` | proofs about it | |
| `MC*` | the model values of the runs | |

Definitions that start with the comment `Bug:` are not part of a specification. Each is
a mutated form of the definition it stands next to; `mutants` in `PROJECT.json` says
which property breaks when it takes that definition's place.

`RepairMachine`, `GitHubPublication` and `ReviewMachine` have several modules side by side.
The variable `part` says what a behaviour is about and never changes; the variables of
the other parts keep the value `"unused"`. Parts that have a variable of the same name
share the declaration, never a state of one behaviour. A property of such a run is the
conjunction of named properties of the modules, each for its part. The parts of
`ReviewMachine` come in several settings (one review or two, two processes or two
threads): a setting is a record of the constants of a module, which `ReviewMachine`
instantiates with that record as its parameter, and the variable `setting` keeps its
name. The modules below it use nothing but standard modules, `Sorting` and, in
`RankFusion`, the sum of `Functions`, so that the prover can expand them through the
parameter. The constant
`Delayed` of `GitHubPublication` is the set of publishers in the part where a write may
be carried out late. What one part tells another is explicit where it matters:
`SandboxRun` extends `ValidationRunner`, `AgentReview` uses `ProviderAdapters`,
`RepairWorkflow` has the rules of the log by `INSTANCE`.

### RepairEventLog

The rules depend on the last event only, so the state is its snapshot (`snap`) and its
validation lease (`lease`); `AppendEvent(kind)` is one accepted event. The tables
`Transitions`, `EventStatePairs`, `EventSnapshotChanges` and `LeaseCarryStates`, the
shape of a snapshot and the four lease rules are taken from the code line by line.
Digests are replaced by the record they identify. Left out are timestamps, the
preview digest and the identity fields of a snapshot, which never change.

`LeaseIsOwed`, `VerdictHasRun` and `RecordsAreInOrder` say what no sequence of
accepted events can bring about; `RecordsWrittenOnce` and `BoundRunIsKept` what no
single event may do to what earlier ones recorded.

### RepairWorkflow

State and code correspond as follows.

| Variable | Code |
| --- | --- |
| `snap`, `lease` | the last event of the chain |
| `private`, `store` | the `private/` directory and the session directory |
| `live`, `requested` | containers that exist; creates the daemon may still carry out |
| `runs` | how often a candidate was executed (history variable) |
| `ref`, `child` | `refs/repoguard/repairs/<candidate>`; live `git push` children |
| `lock` | who is inside a critical section of several effects |
| `refused` | event kinds the store refused (history variable) |
| `pr` | program counter and locals of each process |

A critical section of `_locked_session` with one durable effect is one action, guarded
by `LockFree`; one with several effects keeps `lock` between its actions, so that a
crash can fall between any two. `Append` has the four outcomes the code has: the event
is written; it is written and the call raises all the same (the link succeeded, what
follows failed); nothing is written; the store refuses it. Processes crash at any
program counter and without bound: the locals are lost, the kernel drops the lock, and
a git child keeps the inherited lock descriptor until it ends (`LockFree`). A call can
fail before it has any effect (`CallFails`, with the `except` clause it leads to in
`OnError`).

The properties: no event a process tries to append is refused for its content
(`NoEventRefused`); a published ref has its application recorded, and a child that may
still publish is fenced by the lock (`PublicationIsSound`); a container that exists or
may yet appear is named by the lease (`NoUntrackedContainer`); one candidate runs once
and a verdict had a run (`RunsAreAccounted`); the payload stays while the session is
open, a session that says it is clean is clean, and only a clean one is removed
(`RemovalIsSafe`). `WorkflowIsSafe`, for the run with three roles, is all of these but
`RunsAreAccounted`: there only one process can validate.

`ImplementsGuardedRepair` says that all commands together implement `GuardedRepair`.
That module knows nothing of processes, locks, containers and events: it has how far the
session is (`Phase`), how often the candidate was executed and what the repair ref is.
The candidate is executed at most once, and before it counts as validated; the ref is
made only while the session is applying; an application ends as applied only at a moment
when the ref has the commit, and goes back to approved only when it has not; no session
closes over a published commit, and an end is final. Whether what a process saw of the
ref and the session still holds when it records it is for the locks and guards of
`RepairWorkflow` to ensure. `Append` refuses what the rules of the log do not allow, so
that the chain is one the log accepts holds by its guard and is not stated; what counts
is that nothing is refused (`NoEventRefused`).

Some choices need a word.

- At any time other users of the repository make, move or delete the repair ref, the
  published one too (`ForeignRef`). Reading the ref and recording what it said is one
  step (`ReconcileRef`): the session lock is held and no push child is left, so nobody
  who looks at both can come between, and a change of the ref in between is the same as
  one right after. "At a moment when" therefore means the moment of the reading; that
  the reading is true of such a moment is `AnswerWasTrue` of `RepairRef`.
- Snapshots are compared without timestamps. Where the code compares a snapshot it read
  with the current one, any event in between changes another field too.
- The candidate and the run token are named by the process that created them. A session
  has at most one candidate and one registered intent, so no two runs share a name.
- `_persist_terminal` appends twice. If the second append fails, the session stays
  `cleanup_pending`; a failure handler that runs after it finds a closed session and does
  nothing, which is why the model returns to idle.
- `_locked_session` opens `private/` before it waits for the lock, so a waiter may report
  the session as not found although it is there. Here that is an instance of `CallFails`;
  `SessionDirectory` has it step by step.
- Killing the process group of git is one step. `_SessionStore.close` unlocks explicitly;
  the fence around the child therefore relies on the parent not leaving the section while
  the child runs, which `_invoke_git` ensures by stopping the group before it returns.
- `docker create` succeeds; or reports a container and an error; or reports none with an
  authoritative answer; or gives no answer, in which case the daemon may create the
  container later (`DaemonSettles`). An intent without a container id is never cleaned:
  `docs/execplans/M5-safe-repair.md` documents this as intended, and `ClosedIsCleaned`
  says it.

### EventStore

Event files are records with an inode state (none, partial, written, sealed).
`finals` are those linked under their sequence number, `temps` those with a temporary
name, `ghosts` temporary names removed but not yet durably. Every system call of
`_write_event_immutable` and of `_cleanup_stale_event_temps` that changes or reads
what another process can change is an action. Writers hold the flock exclusively,
readers share it. After an append the caller gives the lock up or appends again.
`PowerFailure` takes back what was not fsynced: unlinked names return, events that were
not synced may be gone, unsynced content is torn. The creation event 0 is written in a
staging directory nobody else sees and is part of `SessionDirectory`; `state.json` is
compared and rewritten by every load, so it is a step that may fail and no state.

`FilesAreSound` says that every event under a sequence number is whole and that nobody
removes the temporary name of a writer that is alive.

Assumption, here and in `SessionDirectory` and `PublicationRecords`: directory updates
reach the disk in the order in which they were made (a journaling file system), so the
surviving events are a prefix.

### SessionDirectory

`create()` fills a staging directory under the manager lock and renames it; a command
opens the session directory, its events, its private directory and its lock file one
after the other, waits for the lock and compares what it opened with the names
(`_revalidate_locked_session`); `propose()` writes the candidate into the private
directory without the lock; `recover()` and `cleanup()` clear staging; `cleanup()`
removes expired sessions, entry by entry. `disk` is what a power failure would leave.
One session is enough, since ids are never used twice and only the manager lock is
shared. The checks of owner, mode and link count are one refusal.

### CandidateRepository, RepairRef

A commit is the tree it names and its parent. The source belongs to the user: HEAD
moves, objects are pruned, the directory is replaced, the ref is moved, at any step of
`propose` (capture, seed, patch the index, commit, harden, export, persist), of a
recovery, an application and a publication. `CandidateIsPatchedHead` compares what was
persisted and exported with the patches applied to the captured head.

`RepairRef` has the files: `packed-refs` and its lock, the directory, the loose file
and its lock, the reflog. The code reads them without git, in several system calls with
a check of identity before and after; other programs pack, update and delete in
between. `AnswerWasTrue` says that what a read answers was true at one moment of it.

### ValidationRunner, SandboxRun

The runner copies and checks the candidate, runs the commands one after the other
(each with any exit code, or past its deadline, or over a stream limit), kills and
reaps what a command left, looks at the tree, and writes one report. The host probes
the sandbox in a container of its own, starts the client, has a watchdog of its own,
reads the report, asks docker for the exit code and removes the container; the two
sides see each other only through the report, the exit code and the kill. How the
container is created and registered is `RepairWorkflow`.

### BoundedProcess

One module with the adapter as a parameter: `repair_git`, `evidence`, `sandbox`,
`runner`, `retrieval`, `blobs`. The program is arbitrary: it writes, forks a descendant
that keeps the pipe, leaves the group or ignores SIGTERM, closes its output, exits, or
stops doing anything. Who drains (a thread or a selector), in which order the loop
looks at the limit, the deadline and the end of the output, and whom the termination
reaches, is taken from each copy. SIGKILL works at once.

### CheckPublication, RepairPublication, PublicationRecords

A publisher works under the lock of its record; every request to GitHub is a step. A
write is refused, carried out, or ends without an answer that tells; such a write is
carried out before the read-back, never, or later (`late`, at most `LateBound`). The
code then reads back instead of repeating. Between any two requests others may move the
source pull request, the branch, the replacement, the local session or the permissions.
The source may come back as often as it likes: it is closed and reopened, or the old head
is pushed again, and a reading sees only the moment. So a branch that was made while the
source was away can be followed by a pull request and a final record when it is back.
`DriftStopsPublication` speaks of one absence: while it lasts, at most one more thing
appears, the one that was about to be written, and it is not recorded as finished.
`PublicationEnds` claims an end unless the source keeps moving away.
A raised error and a crash are the same: the lock and the locals are gone and the
command can be given again. `visible`, `whole`, `made` and `exact` are what was ever to
be seen on GitHub, and map to `ApprovedPublication`.

`PublicationRecords` has the files of one proposal: temporary name, content, sync, mode,
link, unlink, sync of the directory, with a crash, a failed call or a power failure
between any two, and the recovery by whoever opens the directory next. A record counts
as kept in `WriteOnceRecords` from the sync of its directory on.

### AgentReview, ProviderAdapters

`_agent.py` is a graph of nodes around a provider. The clock may advance between any
two steps, so it may jump past a deadline after it was checked. `ProviderAdapters` is
the table from what the vendor library raised or returned to a response or a code, and
`Findings` what the merge of rules and model gives, with the grounding of every
reference in a hunk of the evidence. Reviews in `Indexed` also take the lock of a shared
index, which another thread may hold for ever, and close the index while they wait.

### ModelCache, ContextIndex, RankFusion, ChunkWindows

`ModelCache`: names refer to inodes of a few blocks; the threads of a process exclude
each other by `_MODEL_LOCK`, processes do not. A call that succeeded has removed its
private copy; one that failed may leave it, when the removal fails too. `ContextIndex`: builds, queries and
closes around one registry that knows a provider by address and weak reference; the
callback of a dead reference comes late, when the address may be another's.
`RankFusion`: the scores of the channels are any, ranks, the sum of reciprocal ranks in
integers of `Scale`, ties and cuts are the code's. `ChunkWindows`: characters that begin,
continue or separate tokens, so that a cut can make more tokens than the whole had. The
characters are numbered through the file; `ProjectedEnds` and `OriginalEnds` say where a
line ends in the text that is embedded and in the bytes of the file.

### McpApproval

A writing tool is called twice: without a reply it answers with a prompt and a request
state, with a reply it checks that the state is of this tool and these arguments, acts,
and answers an envelope. Nothing is kept in the server between the rounds. Calls cross,
are given up, answered twice or with the state of another call, and the command line
changes the session and the record meanwhile. `ApprovalIsSound` says that what was
written had been confirmed by the user in just that form, and that the envelope tells
what happened.

## 3. Runs

| Run | Instance | Distinct states | Shows |
| --- | --- | --- | --- |
| `event_log` | 2 candidates, 2 tokens | 210 | every history the store accepts |
| `workflow` | 2 processes, each may run every command | 85 590 | safety of the workflow, refinement of a guarded repair |
| `workflow_three` | proposer; decider and applier; maintainer | 52 134 | the same where three roles meet |
| `workflow_liveness` | 2 processes, one of which only maintains | 29 906 | proposals and applications end, closed sessions are cleaned |
| `event_store` | 2 writers, 2 readers, 3 events | 377 232 | files implement a durable log |
| `event_store_readers` | 1 writer, 2 readers, 2 events | | expected violation, see below |
| `github_publication` | 2 publishers of different users, 3 batches, 2 objects, 2 pulls, 1 late write, 1 power failure | 391 364 | publications happen as approved, once and whole, and end; records are written once |
| `repair_machine` | 2 processes, 2 paths, 2 contents, 2 commands, 6 adapters | 1 700 237 | what one repair has on its machine is whole, true and earned |
| `repair_machine_liveness` | 1 command, 1 process on the ref, 4 adapters | 145 866 | every part of it settles |
| `review` | the settings of `MCReview` | 352 539 | budgets, ownership, exact hits, and that reviews end |
| `mcp_approval` | 2 calls, 5 requests, 1 crash | 1 140 978 | writes are confirmed and reported truly |
| `chunk_windows_redacted` | up to 3 lines, one redacted | | expected violation, see below |

Bounds.

- A session has one proposal and closes for good, so the counters of the log and of the
  workflow are bounded by the program itself; crashes and failing calls are not bounded
  there. Two candidates and tokens are what the log rules can tell apart (mine and
  another's). Two processes with every role meet in every pair of commands; three roles
  add the orders in which a decision and a cleanup both interrupt one proposal.
- For the files, two writers show what one leaves to the next, two readers share the
  lock, and three events give a chain with a predecessor, a victim and a successor.
- On GitHub, three batches have a first (sent with the create), a middle and a last; two
  publishers of different users are one that approved and one that did not; two pulls
  are the replacement and one somebody else opened; one late write is what makes the
  code's read-back lie. The part `repair` has no late write and two publishers, the part
  `delayed` late writes and one publisher: liveness is claimed of the first.
- On the machine, `FaultBound`, `CrashBound` and `PowerBound` are 1: one failing call,
  death or power failure between any two steps, against a second process that sees the
  result. `MoveBound` 2 lets the source move and move back. `ForeignBound` 1 is one whole
  operation of another git program, step by step. `Limit` 2 with `SentBound` 4 has
  output below, at and beyond the limit, in more than one read. Two commands are a first
  and a next, and `Offspring` 1 is a descendant that survives one of them.
- The settings of `MCReview` are small because each varies one thing: attempts without
  an index, attempts with one, one attempt of two threads on one index; a cache under
  two processes and under two threads; builds that are given one provider twice, and
  queries that meet closes; three chunks, two queries, three channels; files of two
  lines, with chunks that overlap and chunks that do not.
- Two calls of the MCP server are what crosses. The five requests are an application of
  the session's candidate and of another one, a rejection, a publication, and a
  malformed publication. The two calls are alike, so they are declared symmetric; no
  other model values are.

`CHECK_DEADLOCK FALSE` stands in the runs on the machine, on the review and on the
redacted chunks, because those programs end; the others check deadlock. In the workflow
and the store that check says little, because a crash or a change of a foreign ref is
almost always possible. That nothing waits for ever is what the liveness properties
show.

**Fairness.** All of it says that a program which is alive goes on, that faults stop
at some time, and that an operator gives a command again.

- `RepairWorkflow`: every wait in the code has a timeout, so weak fairness of `Step` and
  `PushChild`. Nothing in RepoGuard retries by itself, so progress after a crash also
  needs an operator who runs `recover` and `cleanup` again and again: strong fairness of
  `Recover` and `Cleanup`, since other processes may keep taking the lock. And faults
  must stop eventually (`<>[]` no `Fault`): a session whose every append fails is never
  closed.
- `SessionDirectory`: weak fairness of what a command does once it has begun; strong
  fairness of the polling `flock`, of the operator's cleanup and of the thirty days.
- `RepairRef`: weak fairness of RepoGuard and of its push child; nothing is assumed of
  other programs, whose lock can make an operation end in a refusal but not hang.
- `SandboxRun`: weak fairness of the host alone (part `host`, where the container is
  harmless or hangs) and of the container alone (part `container`, where the host has
  died), since each side has a watchdog of its own.
- `BoundedProcess`: weak fairness of the caller, of its drain and of time. The program
  may stop doing anything.
- `CheckPublication`, `RepairPublication`: requests have timeouts, so weak fairness of
  `Step`; strong fairness of `Begin`, for the operator; faults stop. Of the source nothing is
  assumed.
- `AgentReview`: weak fairness of the clock and of the review. Nothing is assumed of
  other holders of the index lock, which is the point of `ReviewsEnd`.
- `ModelCache`, `ContextIndex`: weak fairness of every step, strong fairness of taking
  `_MODEL_LOCK`; a reader may also give up, a close may not.

**The expected violations.** `read_repair_snapshot` and `read_repair_preview`
(`repair.py` 1317, 1337) say that they read "without creating or repairing state". Their
load goes through `_load_event_chain`, which begins with `_cleanup_stale_event_temps`:
after a crashed append the reader unlinks the temporary name and fsyncs the directory,
under the shared lock. `event_store_readers` shows it. Two such readers at once can also
trip over each other, and one of them reports a healthy session as corrupt; that is why
`ExclusiveLoadSucceeds` speaks of writers only.

`docs/execplans/M4-context-retrieval.md` says that every non-empty byte belongs to a
chunk. `_expand_to_complete_lines` (`_retrieval.py` 2092) returns a candidate that ends
where the tokens ran out as soon as it fits, without protecting a redacted line, and the
mapping to bytes refuses an end inside of its sentinel. `chunk_windows_redacted` shows
it; `HitsAreExact` claims chunks for files without redacted lines.

**Known divergences.** While the modules were written, TLC found the following
behaviours, which differ from what the code or its documents say. The models have them;
the properties are stated so that they hold beside them, and no run of their own is
kept.

| Line | What happens |
| --- | --- |
| `github_publication.py` 1234 | A create of a check run is carried out after the read-back found none and the retry created another: two check runs have one external id, and every later `_find_check_run` is a conflict. `PublishedIsProposed` claims at most one without a late write. |
| `_github_store.py` 1625 | A process takes over or reads a record that another linked and did not sync; a power failure takes back what was reported. `WriteOnceRecords` keeps a record from its sync on. |
| `_repair_store.py` 1458 | The removal of an expired session that stops midway leaves a directory whose chain never loads again, and `cleanup()` never gets to its removal. `EverythingSettles` lets it end as such a remnant. |
| `_repair_store.py` 1125 | The private directory goes while a command waits for the lock; it reports `SESSION_NOT_FOUND` although the session can be read. |
| `_repair_git.py` 3420, `_git.py` 303 | The drain thread cuts the output and sets the limit between the condition of the loop and its next look: cut output is returned with git's exit code. `WholeOutput` is claimed for the callers with a selector. |
| `_repair_sandbox.py` 1533 | The docker client has ended but a descendant keeps its pipe: the termination returns at once and the loop waits as long as the descendant lives. The liveness run leaves this adapter out. |
| `repair_assets/runner.py` 752 | Descendants that had already ended when the list was taken count as residual: a command that leaves nothing alive fails with `residual_process`. `ValidationIsEarned` claims that success is earned, not the converse. |
| `_retrieval.py` 2003 | The configuration accepts `chunk_overlap_tokens` 0 (line 710), and `final_content_spans[-0]` is then the first token, not the end: the next window does not advance, and every region that needs more than one window is refused with `EMBEDDING_FAILED`. `HitsAreExact` claims chunks for an overlap of at least one token. |
| `_embedding.py` 735 | Two processes open one temporary name with `O_TRUNC`; a partial file can stay wrong for ever and is not resumed. `LoadedIsExact` holds all the same. |
| `_embedding.py` 193 | A call that failed suppresses the error of removing its private copy of the model (as `_snapshot_model_directory` does at line 619): the directory stays in the temporary directory and no later call removes it. `InitializationIsAtomic` claims the removal for calls that succeed. |
| `github_publication.py` 1452 | The source is compared three times and not in between: what was published while it was away is completed and recorded once it is back. `DriftStopsPublication` claims nothing beyond one absence. |

## 4. Proofs

All theorems hold for every value of the constants under the named assumptions.
`NoneAssumption`, `RecordsAssumption`, `RolesAssumption`, `StoreAssumption`: `None` is no
element of the sets it is added to and none of the records of a session, roles are sets
of processes, writers are not readers. `RequestsAssumption`, `BoundsAssumption`,
`KindsAssumption` of `McpApproval` say the same of its calls and requests. Those of the
two compositions instantiate the assumptions of their parts: `CheckAssumption`,
`RepairAssumption`, `RecordAssumption`, `SessionAssumption`, `RepositoryAssumption` keep
`None` apart and bounds natural (there is at least one object and one pull request to
make); `ReferenceAssumption` says that no process is called like the other things that
can hold a lock file; `ValidationAssumption` that there is at least one command;
`ProgramAssumption` that adapters are among the six. Those of the review machine say what
its parts accept: `ReviewAssumption` that there are at most three attempts and positive
times, that no review is called like the other things that hold the lock of an index, and
which fields findings and answers have; `CacheAssumption` that the model has files of at
least one block; `IndexAssumption` that a build names a provider and a reader or closer a
build; `QueryAssumption` and `FileAssumption` what `_validate_configuration` allows, that
every channel is configured once, and that a line which is not redacted has no fewer bytes
than characters.

*Event log.* `TypeOK` follows from the shape of the events. `LeaseIsOwed` and
`VerdictHasRun` are not inductive alone: a lease is carried from state to state by the
rules of section `LeaseCarried`, and a verdict keeps its lease only because no event
while validating may drop a bound one. `IInv` in `RepairEventLogProofs` is their
conjunction with the shape of a snapshot and `RecordsAreInOrder`'s two halves;
`RecordsAreWrittenOnce` and `BoundRunIsAlwaysKept` are step properties on top of it.
Every property of the run `event_log` is a theorem.

*Workflow.* `IInv` adds `Fence` to the type invariant: what a process inside
the lock knows (a pushing process sees `APPLYING`, one that closes sees the state it
read), and that a live git child is either the child of the lock holder or keeps the
lock taken although its parent died. From it follows `PublicationIsSound`. The proof has
one lemma per group of actions, on top of lemmas about `Resume`, `Goto`, `Leave` and
`Append`.

*Containers and removal.* `NoUntrackedContainer`, `RunsAreAccounted` and `RemovalIsSafe`
need to know who may do what, which `JInv` says beside `IInv`. One process validates,
and it alone creates a container (`OneValidates`, `ContainerOK`); a lease without a
container is given up only by the process it names, and a lease that names one only by
who saw that container gone; whoever is about to record a cleanup is inside the lock of
a closed session that has no container any more (`ClosingOK`). Each action is shown to
keep what the process that takes it knows, and to leave the others and the session alone
(`Gentle`, `Sound`); `Concluded` puts the two together once for all actions.

*No refused event.* The flows of `_repair_workflow.py` and `repair.py` and the tables of
`_repair_store.py` are written apart from each other; `NoEventIsEverRefused` says that
they agree. `KInv` holds beside `IInv` and `JInv`: what every chain guarantees of its
last snapshot and lease (`Recorded`, kept by every valid event), that nothing was
refused, and that whoever is about to record a cleanup or a closing has a reason the
tables accept (`Due`). There is one lemma per kind of event that says when the rule of
that kind holds, and for every action that appends one a proof that its guards, `JInv`
and `Recorded` give the hypotheses of the lemma (`Agrees`). `WorkflowIsAlwaysSafe` puts
it together with the theorems above: it is the property that `workflow_three` checks,
for any processes and roles. So every safety property of the runs `workflow` and
`workflow_three` is a theorem.

*Guarded repair.* `WorkflowIsGuarded` is the refinement of `GuardedRepair`. Most actions
are stutters, because they change neither the state a user can tell, nor the count of
executions, nor the ref. For the others: the session moves from phase to phase as the
tables of the store allow (`PhaseMoves`); a push child lives only while the session is
applying (`Fence`); a session that is open and not applying has not published, before a
step and after it, which gives the guards of `Close` and `Return`; who records an
application has just read the ref (`AppliedIsRead`); and by `JInv` a container that
starts is the first run, and a verdict had its run.

*Event files.* `IInv` says what a writer relies on between two system calls (`Loading`,
`Appending`), that readers only load, and that acknowledged events are synced. As only
the process that takes a step, and no other writer, is outside `idle`, it is enough to
look at that process (`OneProcess`). `FilesAreSound` follows from it. The refinement of
`DurableLog` maps `LinkEvent` to `Publish`, `ReturnAppend` to `Acknowledge`,
`PowerFailure` to `Lose` and everything else to a stutter.

*MCP.* `ApprovalInv` says of each call what its place in the two rounds tells about what
the user confirmed and about what was written since, so that the envelope it will give
is known to be true already when it is chosen. `ApprovalIsAlwaysSound` follows. A step
of one call leaves the others as they are (`OtherCalls`), except for what it writes.

*Publication.* A behaviour of `GitHubPublication` stays in its part, so its
`PublicationInv` is one invariant for each. `CheckInv` and `RepairInv` have the types,
what the records imply about GitHub (a branch that was created has its objects, a final
record names a publication that was whole), what a publisher inside the lock knows at
each program counter about what it sent, and what holds only as long as no write is
carried out late: a read-back that finds nothing is right, so there is at most one check
run and one pull request. `RecordInv` says how far the writer has got with its temporary
file at each program counter, that a file is read-only only when all of its data is on
disk, and that what was on disk at the last sync of the directory is still there, with
every record it needs. In the refinement of `ApprovedPublication` the saved approval is
`Approve`, every write that leaves something to be seen on GitHub `Show`, the saved
final record `Report`, all else a stutter; in that of `WriteOnceRecords` a link is
`Write`, the sync of the directory `Keep` and a power failure `Lose`. Every safety
property of the run `github_publication` is a theorem, the two refinements included.

*Machine.* `RepairMachineProofs` has one inductive invariant for each part, for the same
reason.

- `CandidateInv`: what each step of the building has brought about, as a ladder of sets
  of program counters (what `Patching` knows `Applied` knows too), and that what is
  persisted or exported is `FinalTree`, the patches applied to the captured head. What
  the user does to the source leaves it alone, because nothing reads the source after
  the capture but to compare it.
- `ProgramInv`: no byte is lost between program, pipe and caller, and a reader that has
  stopped has seen the end of the output or was told to stop; with what each adapter
  has made sure of before it goes on, that gives `CallsAreHonest`.
- `RefInv`: files carry generations that never come back, so a file that still has the
  generation a read saw is the same file (`SamePacked`, `SameDir`); `RefKnows` says which
  value the ref had at some moment since the read began, given the checks that are still
  to come. `RefShared` and `RefChild` are the session lock and the child that inherits it.
- `RunInv`: the reason the runner has for each kind of failure (`Grounds`), that a report
  of success is about what is there (`Earned`), and what the host has seen.
- `SessionInv`: an event that closes a session is never on disk without what it closes,
  and an open session is whole both in its directory and on disk; beside it what each
  process knows. Creations hold the manager lock and are alone with their staging
  directory; whoever works on a session has its lock and its name. A step of one process
  leaves the directory alone or is taken under a lock that the others then lack
  (`Disturbs`).

`StepsRespectOwners` follows from `SessionInv` and `RefShared`. So every property of the
run `repair_machine` is a theorem.

*Review.* `ReviewMachineProofs` and, for queries and files, `RetrievalProofs` have one
inductive invariant for each part, each for any record of constants that the assumptions
allow.

- `ReviewInv`: for every review, that its deadline and the one of each attempt are those
  of its budget (`BudgetRuns`), that the calls it made are as many as its attempts say
  (`CallsCounted`) and were made in time (`CallsKept`), that a retry is planned after an
  error that may pass and not before its backoff is over (`RetryWaits`), and what a result,
  an error and the lock of the index say (`ResultKept`, `ErrorKept`, `LockKept`). These are
  predicates of one review: a step is one review's own (`StepIsOwn`) or the clock's or the
  lock's, and `KeptElsewhere` carries them over for all others. What an adapter answers is
  covered by `AdaptedSound`, what the merge of findings gives by `MergeSound`.
- `CacheInv`: who is between lock and release has the lock of its process and the other
  way round, and a copy is exact as far as it has come (`LoadsExact`), so only an exact
  one is loaded, whatever the others do to the files of the cache meanwhile.
- `IndexInv`: the registry's entry of a provider that is alive names that provider and
  who may close it (`RegistrySound`), a build has opened what its place says
  (`BuiltSoFar`), who reads has the lock of an open index (`ReadsAlone`), and of the
  closers one has taken the backends (`ClosesOnce`, `ClosersApart`).
- `FusionInv`: the score of a chunk is the sum of what every query and channel gave so
  far, its rank in a channel is the best so far (`IsBest`), and channels that have not
  been asked ranked nothing (`NotYetAsked`), so that an answer changes one term of the sum
  (`SumOfOneMore`). That the order of the hits is total makes them the best
  (`BestIs`, `FusedHits`), and `FittingIs` says that what is sent is the longest prefix
  that fits.
- `FileInv`: every window so far has at most the tokens of the model, the next begins with
  the last tokens of the one before (`Continued`, by `NextBegins`), and what is mapped
  back to bytes covers the file (`ChunksSound`). If windows overlap at all, a file of
  lines none of which is redacted is never refused: `NotRefused`, from `Expands`,
  `Shortens` and `MapSucceeds`.

`ReviewsKeepTheirBudget`, `OneOwner` and `HitsAndWindowsAreExact` follow, so every safety
property of the run `review` is a theorem, and with it every safety property of every
passing run.

What these proofs know about data is derived in the modules themselves. The library's
induction theorems take a predicate as an operator, which no installed prover
instantiates; with a *set* of the good values in its place induction is first-order.
`LeastNat` (a non-empty set of natural numbers has a least element) comes from the
well-foundedness of strict inclusion on finite sets, and `SetInduction` from
`LeastNat`. Sorting (`SortedOrdered`) and the sums of the community
modules (`FoldExists`, `FoldIs`) rest on them.

Only model-checked: liveness (`ProposalEnds`, `ApplicationSettles`, `ClosedIsCleaned`,
`PublicationEnds`, `EverythingSettles`, `ReviewsEnd`), which is outside the prover's
reach. The two runs that expect a violation refute a claim.

## 5. What is left

In the order of what it would add:

1. `RepairWorkflow` on two sessions at once, to have the manager lock and the workflow
   in one model; `SessionDirectory` has that lock alone.
2. What the review machine keeps apart in one behaviour: a review whose index is built,
   queried and closed by the parts that are now settings of their own.
3. How the queries of the retrieval agent are made from a change.

### Not modelled

- Deterministic review (`_review.py`): rules over one text without state. Its findings
  are an input of `AgentReview`.
- Parsing and rendering: diffs, patches, policies, prompts, the preview, JSON and the
  search for secrets. Functions of one text; where they refuse, the models have a step
  that may refuse.
- Embedding arithmetic, SQL and HTTP: libraries. The models have what the code does with
  any answer of theirs.
- How the queries of the retrieval agent are made from a change, and the evaluation
  harness of retrieval.
- Product orchestration and the command line: one call after the other, with no state of
  their own; what they compose is modelled.
- GitHub action scripts and image tooling: what they keep is in the artifacts of the
  workflow runner, which this repository does not implement.
- The probes of the sandbox (cgroup, seccomp, mounts) one by one: each is a step that
  may fail.
