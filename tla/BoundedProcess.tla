--------------------------- MODULE BoundedProcess ---------------------------
(***************************************************************************)
(* How RepoGuard runs another program with a deadline and a bound on its   *)
(* output.  The code has six adapters for this and each one is modelled:   *)
(*                                                                         *)
(*   repair_git   _repair_git._invoke_git: threads drain the pipes         *)
(*   evidence     _git._invoke_bounded_process: threads, non-blocking      *)
(*   sandbox      _repair_sandbox._run_bounded_process: the docker client  *)
(*   runner       runner._run_command: PID 1 of the container              *)
(*   retrieval    _retrieval._run_git: a selector, no process group        *)
(*   blobs        _retrieval._read_blobs: git cat-file --batch, blocking   *)
(*                                                                         *)
(* The program is arbitrary: it writes, forks a descendant that keeps the  *)
(* pipe, leaves the process group or ignores SIGTERM, closes its output,   *)
(* exits, or does nothing any more.  Standard output stands for both       *)
(* streams.  SIGKILL works at once.                                        *)
(***************************************************************************)
EXTENDS Naturals, FiniteSets

CONSTANTS
  Adapters,   \* the adapters to look at
  Limit,      \* bytes of output the caller accepts
  SentBound,  \* bound: bytes the program writes
  Requests    \* objects the blobs adapter asks for

AdaptersAssumption ==
  Adapters \subseteq {"repair_git", "evidence", "sandbox", "runner", "retrieval", "blobs"}

BoundsAssumption == Limit \in Nat /\ SentBound \in Nat /\ Requests \in Nat

VARIABLES
  adapter,     \* which of the adapters runs
  leader,      \* the program: running, exiting (streams closed), zombie, reaped
  code,        \* how it ended: none, own, killed
  descendant,  \* none, running, dead
  traits,      \* what the program is like: see Traits
  holds,       \* who has the write end of the pipe open
  pipe, sent,  \* bytes in the pipe, bytes written to it
  got, total,  \* bytes retained, bytes read
  reading,     \* the reader has not seen the end of the output
  limited,     \* the reader has seen more than Limit
  late,        \* the deadline has passed
  pc, verdict  \* the caller, and the result it will return or has returned

program == <<leader, code, descendant, holds, pipe, sent>>
reader == <<got, total, reading, limited>>
vars == <<adapter, program, traits, reader, late, pc, verdict>>

(* escaped: the descendant is in a session of its own; stubborn: who       *)
(* ignores SIGTERM.                                                        *)
Traits == [escaped : BOOLEAN, stubborn : SUBSET {"leader", "descendant"}]

Pcs == {"run", "poll", "select", "after", "stop", "join", "wait", "ended"}
Verdicts == {"none", "ok", "failed", "limit", "timeout", "residual"}

Threads == {"repair_git", "evidence"}

Exited == leader \in {"zombie", "reaped"}
WriterOpen == holds # {}
InGroup == descendant = "running" /\ ~traits.escaped

-----------------------------------------------------------------------------
(* The program.                                                            *)

Write ==
  /\ WriterOpen /\ sent < SentBound
  /\ sent' = sent + 1 /\ pipe' = pipe + 1
  /\ UNCHANGED <<leader, code, descendant, holds>>

Fork ==
  /\ leader = "running" /\ descendant = "none"
  /\ descendant' = "running"
  /\ holds' = holds \cup (IF "leader" \in holds THEN {"descendant"} ELSE {})
  /\ UNCHANGED <<leader, code, pipe, sent>>

CloseOutput ==
  /\ \E who \in holds : holds' = holds \ {who}
  /\ UNCHANGED <<leader, code, descendant, pipe, sent>>

DescendantExits ==
  /\ descendant = "running"
  /\ descendant' = "dead" /\ holds' = holds \ {"descendant"}
  /\ UNCHANGED <<leader, code, pipe, sent>>

(* The streams of a process are closed before its parent can wait for it.  *)
LeaderExits ==
  /\ \/ leader = "running" /\ leader' = "exiting"
     \/ leader = "exiting" /\ leader' = "zombie"
  /\ code' = "own" /\ holds' = holds \ {"leader"}
  /\ UNCHANGED <<descendant, pipe, sent>>

ProgramStep ==
  /\ Write \/ Fork \/ CloseOutput \/ DescendantExits \/ LeaderExits
  /\ UNCHANGED <<adapter, traits, reader, late, pc, verdict>>

Passes ==
  /\ ~late /\ late' = TRUE
  /\ UNCHANGED <<adapter, program, traits, reader, pc, verdict>>

-----------------------------------------------------------------------------
(* Signals and the pipe, as the adapters use them.                         *)

(* Whoever is in killed dies; a leader that is already exiting ends by     *)
(* itself, and is reaped if the caller waits for it.                       *)
Kill(killed) ==
  /\ leader' = IF "leader" \in killed /\ leader # "reaped" THEN "reaped" ELSE leader
  /\ code' = IF "leader" \in killed /\ leader = "running" THEN "killed" ELSE code
  /\ descendant' = IF "descendant" \in killed /\ descendant = "running" THEN "dead" ELSE descendant
  /\ holds' = holds \ killed
  /\ UNCHANGED <<pipe, sent>>

Group == {"leader"} \cup (IF InGroup THEN {"descendant"} ELSE {})
Everybody == {"leader", "descendant"}

Reap ==
  /\ leader' = IF Exited THEN "reaped" ELSE leader
  /\ UNCHANGED <<code, descendant, holds, pipe, sent>>

AtMost(m, n) == IF m <= n THEN m ELSE n

(* Reading what there is, up to bound bytes at a time; limited is sticky.  *)
Read(bound) ==
  /\ pipe > 0
  /\ \E n \in 1..AtMost(pipe, bound) :
       /\ pipe' = pipe - n
       /\ total' = total + n
       /\ got' = AtMost(got + n, Limit)
       /\ limited' = (limited \/ total' > Limit)

EndOfOutput == pipe = 0 /\ ~WriterOpen

Goto(next) == pc' = next /\ UNCHANGED verdict
Decide(result, next) == verdict' = result /\ pc' = next

-----------------------------------------------------------------------------
(* The threads that drain a pipe: _drain_stream reads on after the limit,  *)
(* _drain_bounded_stream stops there, or when the caller has failed.       *)

Drain ==
  /\ adapter \in Threads /\ reading
  /\ \/ /\ adapter = "repair_git"
        /\ Read(SentBound) /\ UNCHANGED reading
     \/ /\ adapter = "evidence" /\ verdict \notin {"limit", "timeout"}
        /\ Read(Limit + 1 - total)
        /\ reading' = ~limited'
     \/ /\ EndOfOutput \/ (adapter = "evidence" /\ verdict \in {"limit", "timeout"})
        /\ reading' = FALSE /\ UNCHANGED <<pipe, got, total, limited>>
  /\ UNCHANGED <<adapter, leader, code, descendant, holds, sent, traits, late, pc, verdict>>

(* A program or a thread that cannot be started.                           *)
StartFails ==
  /\ adapter # "blobs" /\ pc = "run" /\ sent = 0 /\ leader = "running" /\ descendant = "none"
  /\ Kill(Group)
  /\ Decide("failed", "ended")
  /\ UNCHANGED <<adapter, traits, reader, late>>

(* _invoke_git: while the process runs or a thread is alive, wait a little *)
(* for the limit; then stop what is left of the process group.             *)
GitPolls ==
  /\ adapter = "repair_git" /\ pc = "run"
  /\ Reap
  /\ Goto(IF Exited /\ ~reading THEN "stop" ELSE "poll")
  /\ UNCHANGED reader

GitWaits ==
  /\ adapter = "repair_git" /\ pc = "poll"
  /\ \/ late /\ Kill(Group) /\ Decide("timeout", "join")
     \/ ~late /\ limited /\ Kill(Group) /\ Decide("limit", "join")
     \/ ~late /\ ~limited /\ Goto("run") /\ UNCHANGED program
  /\ UNCHANGED reader

(* Bug: a program that has ended is not stopped.                           *)
GitStopsNobody ==
  /\ adapter = "repair_git" /\ pc = "stop"
  /\ Reap
  /\ Decide("ok", "join")
  /\ UNCHANGED reader

GitStops ==
  /\ adapter = "repair_git" /\ pc = "stop"
  /\ Kill(Group)
  /\ Decide(IF InGroup THEN "residual" ELSE "ok", "join")
  /\ UNCHANGED reader

(* Joining the threads has a deadline of its own.                          *)
Joins ==
  /\ adapter \in Threads /\ pc = "join"
  /\ \/ reading /\ Decide("failed", "ended")
     \/ /\ ~reading
        /\ Decide(IF adapter = "evidence" /\ verdict = "ok" /\ late THEN "timeout" ELSE verdict,
                  "ended")
  /\ UNCHANGED <<program, reader>>

(* _invoke_bounded_process: the flags first, then whether all has ended.   *)
EvidenceChecks ==
  /\ adapter = "evidence" /\ pc = "run"
  /\ \/ limited /\ Kill(Group) /\ Decide("limit", "join")
     \/ ~limited /\ late /\ Kill(Group) /\ Decide("timeout", "join")
     \/ ~limited /\ ~late /\ Goto("poll") /\ UNCHANGED program
  /\ UNCHANGED reader

EvidencePolls ==
  /\ adapter = "evidence" /\ pc = "poll"
  /\ Reap
  /\ IF Exited /\ ~reading THEN Decide("ok", "join") ELSE Goto("run")
  /\ UNCHANGED reader

-----------------------------------------------------------------------------
(* _run_bounded_process: one loop until both streams have ended.           *)

(* _terminate_process: nothing if the leader has exited; SIGTERM to the    *)
(* group, SIGKILL only if the leader survives that.                        *)
Terminate ==
  IF Exited THEN Reap
  ELSE IF "leader" \in traits.stubborn THEN Kill(Group) ELSE Kill(Group \ traits.stubborn)

SandboxLoops ==
  /\ adapter = "sandbox" /\ pc = "run"
  /\ IF ~reading THEN Goto("after") /\ UNCHANGED program
     ELSE IF late THEN Decide("timeout", "select") /\ Terminate
     ELSE Goto("select") /\ UNCHANGED program
  /\ UNCHANGED reader

SandboxSelects ==
  /\ adapter = "sandbox" /\ pc = "select"
  /\ \/ Read(SentBound) /\ UNCHANGED <<reading, leader, code, descendant, holds, sent>>
        /\ IF limited' THEN Goto("stop") ELSE Goto("run")
     \/ EndOfOutput /\ reading' = FALSE /\ Goto("run") /\ UNCHANGED <<program, got, total, limited>>
     \/ pipe = 0 /\ WriterOpen /\ Goto("run") /\ UNCHANGED <<program, reader>>

SandboxStops ==
  /\ adapter = "sandbox" /\ pc = "stop"
  /\ Terminate
  /\ Goto("run")
  /\ UNCHANGED reader

SandboxEnds ==
  /\ adapter = "sandbox" /\ pc = "after"
  /\ Terminate
  /\ Decide(IF verdict = "timeout" THEN "timeout" ELSE IF limited THEN "limit" ELSE "ok", "ended")
  /\ UNCHANGED reader

-----------------------------------------------------------------------------
(* _run_command: PID 1 of the container can kill every other process.      *)

RunnerLoops ==
  /\ adapter = "runner" /\ pc = "run"
  /\ IF ~reading /\ Exited THEN Goto("after") /\ Reap
     ELSE IF verdict = "none" /\ late THEN Decide("timeout", "select") /\ Kill(Everybody)
     ELSE Goto("select") /\ UNCHANGED program
  /\ UNCHANGED reader

(* Once everything is killed the drain has a deadline of its own.          *)
RunnerSelects ==
  /\ adapter = "runner" /\ pc = "select"
  /\ \/ /\ reading /\ Read(SentBound) /\ UNCHANGED <<reading, leader, code, descendant, holds, sent>>
        /\ Goto(IF limited' /\ ~limited /\ verdict = "none" THEN "stop" ELSE "run")
     \/ /\ reading /\ EndOfOutput /\ reading' = FALSE /\ Goto("run")
        /\ UNCHANGED <<program, got, total, limited>>
     \/ /\ ~reading \/ (pipe = 0 /\ WriterOpen)
        /\ Goto("run") /\ UNCHANGED <<program, reader>>
     \/ /\ verdict # "none" /\ Goto("after") /\ UNCHANGED <<program, reader>>

RunnerStops ==
  /\ adapter = "runner" /\ pc = "stop"
  /\ Kill(Everybody)
  /\ Decide("limit", "run")
  /\ UNCHANGED reader

(* _execute sweeps the container after every command.  A descendant that   *)
(* has ended, and that nobody has waited for, is found as well.            *)
RunnerEnds ==
  /\ adapter = "runner" /\ pc = "after"
  /\ Kill(Everybody)
  /\ \E unreaped \in {FALSE, descendant = "dead" /\ verdict = "none"} :
       Decide(IF Exited /\ (descendant = "running" \/ unreaped) THEN "residual"
              ELSE IF verdict # "none" THEN verdict ELSE "ok", "ended")
  /\ UNCHANGED reader

-----------------------------------------------------------------------------
(* _run_git of the retrieval: no group, the leader alone is stopped and    *)
(* the pipe is closed.                                                     *)

RetrievalReads ==
  /\ adapter = "retrieval" /\ pc = "run"
  /\ \/ /\ Read(Limit + 1 - total) /\ UNCHANGED <<reading, leader, code, descendant, holds, sent>>
        /\ IF limited' THEN Decide("limit", "stop") ELSE Goto("run")
     \/ /\ EndOfOutput /\ reading' = FALSE /\ Goto("wait") /\ UNCHANGED <<program, got, total, limited>>
     \/ /\ late /\ Decide("timeout", "stop") /\ UNCHANGED <<program, reader>>

RetrievalWaits ==
  /\ adapter = "retrieval" /\ pc = "wait"
  /\ \/ Exited /\ Reap /\ Decide("ok", "ended")
     \/ ~Exited /\ late /\ Decide("timeout", "stop") /\ UNCHANGED program
  /\ UNCHANGED reader

RetrievalStops ==
  /\ adapter = "retrieval" /\ pc = "stop"
  /\ Kill({"leader"})
  /\ Goto("ended")
  /\ UNCHANGED reader

(* _read_blobs: a request, then readline and read with no time limit; the  *)
(* deadline is looked at between them.                                     *)
BlobsAsk ==
  /\ adapter = "blobs" /\ pc = "run"
  /\ IF late THEN Decide("timeout", "stop") ELSE Goto(IF total = Requests THEN "wait" ELSE "select")
  /\ UNCHANGED <<program, reader>>

BlobsRead ==
  /\ adapter = "blobs" /\ pc = "select"
  /\ \/ Read(1) /\ Goto("run") /\ UNCHANGED <<reading, leader, code, descendant, holds, sent>>
     \/ EndOfOutput /\ Decide("failed", "stop") /\ UNCHANGED <<program, reader>>

BlobsWait ==
  /\ adapter = "blobs" /\ pc = "wait"
  /\ \/ Exited /\ Reap /\ Decide(IF late THEN "timeout" ELSE "ok", "ended")
     \/ ~Exited /\ late /\ Decide("timeout", "stop") /\ UNCHANGED program
  /\ UNCHANGED reader

BlobsStop ==
  /\ adapter = "blobs" /\ pc = "stop"
  /\ Kill({"leader"})
  /\ Goto("ended")
  /\ UNCHANGED reader

-----------------------------------------------------------------------------
Init ==
  /\ adapter \in Adapters
  /\ traits \in Traits
  /\ leader = "running" /\ code = "none" /\ descendant = "none" /\ holds = {"leader"}
  /\ pipe = 0 /\ sent = 0 /\ got = 0 /\ total = 0
  /\ reading = TRUE /\ limited = FALSE /\ late = FALSE
  /\ pc = "run" /\ verdict = "none"

CallerStep ==
  /\ \/ GitPolls \/ GitWaits \/ GitStops \/ Joins
     \/ EvidenceChecks \/ EvidencePolls
     \/ SandboxLoops \/ SandboxSelects \/ SandboxStops \/ SandboxEnds
     \/ RunnerLoops \/ RunnerSelects \/ RunnerStops \/ RunnerEnds
     \/ RetrievalReads \/ RetrievalWaits \/ RetrievalStops
     \/ BlobsAsk \/ BlobsRead \/ BlobsWait \/ BlobsStop
  /\ UNCHANGED <<adapter, traits, late>>

Returned == pc = "ended" /\ UNCHANGED vars

Next == ProgramStep \/ Passes \/ Drain \/ StartFails \/ CallerStep \/ Returned

Spec == Init /\ [][Next]_vars

(* The caller and its threads run and time passes.  The program may stop   *)
(* doing anything at any time.                                             *)
FairSpec == Spec /\ WF_vars(CallerStep) /\ WF_vars(Drain) /\ WF_vars(Passes)

-----------------------------------------------------------------------------
(* Properties.                                                             *)

(* The type of every variable; no adapter keeps more than it may.          *)
TypeOK ==
  /\ adapter \in Adapters /\ traits \in Traits
  /\ leader \in {"running", "exiting", "zombie", "reaped"}
  /\ code \in {"none", "own", "killed"}
  /\ descendant \in {"none", "running", "dead"}
  /\ holds \subseteq {"leader", "descendant"}
  /\ pipe \in 0..SentBound /\ sent \in 0..SentBound
  /\ got \in 0..Limit /\ total \in 0..SentBound
  /\ reading \in BOOLEAN /\ limited \in BOOLEAN /\ late \in BOOLEAN
  /\ pc \in Pcs /\ verdict \in Verdicts

Ended == pc = "ended"
Success == Ended /\ verdict = "ok" /\ code = "own"

(* A call that succeeds returns everything that was written, and nobody    *)
(* can write any more.                                                     *)
WholeOutput == Success => got = sent /\ ~WriterOpen

(* The call succeeds only if the program ended by itself and its output    *)
(* was read to the end, whoever held it, or up to the limit.               *)
SuccessIsDrained ==
  Success /\ adapter # "blobs" => ~reading /\ (limited \/ (pipe = 0 /\ ~WriterOpen))

(* After _invoke_git has returned, whatever the result, nobody of the      *)
(* process group is left that could still hold an inherited lock or move a *)
(* ref.  The runner leaves nobody at all in the container.                 *)
NobodyLeft ==
  Ended =>
    /\ adapter \in {"repair_git", "runner"} => leader = "reaped" /\ ~InGroup
    /\ adapter = "runner" => descendant # "running"
=============================================================================
