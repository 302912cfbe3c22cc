---------------------------- MODULE RepairMachine ----------------------------
(***************************************************************************)
(* What one repair has on its machine: the session directory, the          *)
(* candidate repository, the repair ref, the validation container, and the *)
(* programs it runs.  A behaviour is about one of them and the variables   *)
(* of the others are unused; those with the same meaning are shared.       *)
(* "container" is a container that was started by a host that has died,    *)
(* "host" a host whose container does its commands no harm, or hangs.      *)
(***************************************************************************)
EXTENDS Naturals, Sequences, FiniteSets

CONSTANTS
  Parts,                                     \* what the behaviours are about
  Processes, Paths, Checks, None,
  RefProcesses, Contents, MaxChanged, MoveBound, ForeignBound, FaultBound, PowerBound,
  CrashBound, Count, Offspring, Adapters, Limit, SentBound, Requests

VARIABLES
  part,                                      \* what this behaviour is about
  at, have, disk, manager, flock, pr, faults, powers, reported,
  head, source, ref, patches, repo, export, todo, candidate, blob, moves,
  packed, packedLock, dir, loose, looseLock, reflog, clock, foreign, push, snap, pin,
  answer,
  container, exit, input, step, tree, over, oom, alive, orphans, spent, results, residual,
  clean, report, host, probe, client, outcome, pending,
  adapter, leader, code, descendant, traits, holds, pipe, sent, got, total, reading,
  limited, verdict,
  pc, job, result, crashes, kind, late, seen \* of more than one part

sessionVars == <<at, have, disk, manager, flock, pr, faults, powers, reported>>
candidateVars == <<head, source, ref, patches, repo, export, todo, candidate, blob,
                   moves>>
refVars == <<packed, packedLock, dir, loose, looseLock, reflog, clock, foreign,
             push, snap, pin, answer>>
sandboxVars == <<container, exit, input, step, tree, over, oom, alive, orphans,
                 spent, results, residual, clean, report, host, probe, client,
                 outcome, pending>>
processVars == <<adapter, leader, code, descendant, traits, holds, pipe, sent, got,
                 total, reading, limited, verdict>>
vars == <<part, sessionVars, candidateVars, refVars, sandboxVars, processVars,
          pc, job, result, crashes, kind, late, seen>>

Session == INSTANCE SessionDirectory
Repository == INSTANCE CandidateRepository
Reference == INSTANCE RepairRef WITH Procs <- RefProcesses
Validation == INSTANCE SandboxRun
Hosting == INSTANCE SandboxRun WITH Offspring <- 0
Program == INSTANCE BoundedProcess

ASSUME SessionAssumption == Session!ProcessesAssumption /\ Session!BoundsAssumption
ASSUME RepositoryAssumption == Repository!NoneAssumption /\ Repository!BoundsAssumption
ASSUME ReferenceAssumption == Reference!BoundsAssumption /\ Reference!ProcsAssumption
ASSUME ValidationAssumption == Validation!CountAssumption
ASSUME ProgramAssumption == Program!AdaptersAssumption /\ Program!BoundsAssumption

Unused(variable) == variable = "unused"
NoSession ==
  /\ Unused(at) /\ Unused(have) /\ Unused(disk) /\ Unused(manager) /\ Unused(flock)
  /\ Unused(pr) /\ Unused(faults) /\ Unused(powers) /\ Unused(reported)
NoCandidate ==
  /\ Unused(head) /\ Unused(source) /\ Unused(ref) /\ Unused(patches) /\ Unused(repo)
  /\ Unused(export) /\ Unused(todo) /\ Unused(candidate) /\ Unused(blob) /\ Unused(moves)
NoRef ==
  /\ Unused(packed) /\ Unused(packedLock) /\ Unused(dir) /\ Unused(loose)
  /\ Unused(looseLock) /\ Unused(reflog) /\ Unused(clock) /\ Unused(foreign) /\ Unused(push)
  /\ Unused(snap) /\ Unused(pin) /\ Unused(answer)
NoSandbox ==
  /\ Unused(container) /\ Unused(exit) /\ Unused(input) /\ Unused(step) /\ Unused(tree)
  /\ Unused(over) /\ Unused(oom) /\ Unused(alive) /\ Unused(orphans) /\ Unused(spent)
  /\ Unused(results) /\ Unused(residual) /\ Unused(clean) /\ Unused(report) /\ Unused(host)
  /\ Unused(probe) /\ Unused(client) /\ Unused(outcome) /\ Unused(pending)
NoProcess ==
  /\ Unused(adapter) /\ Unused(leader) /\ Unused(code) /\ Unused(descendant)
  /\ Unused(traits) /\ Unused(holds) /\ Unused(pipe) /\ Unused(sent) /\ Unused(got)
  /\ Unused(total) /\ Unused(reading) /\ Unused(limited) /\ Unused(verdict)

(* docker start has been sent when the host dies.                          *)
Started ==
  /\ Validation!RunnerInit
  /\ container = "running" /\ exit = "none" /\ input \in {"candidate", "other"}
  /\ host = "attached" /\ probe = "removed" /\ client = "none" /\ late = FALSE
  /\ seen = Validation!NoState /\ outcome = Validation!NoOutcome /\ pending = FALSE

Init ==
  /\ part \in Parts
  /\ \/ /\ part = "session" /\ Session!Init
        /\ NoCandidate /\ NoRef /\ NoSandbox /\ NoProcess /\ Unused(pc) /\ Unused(job)
        /\ Unused(result) /\ Unused(crashes) /\ Unused(kind) /\ Unused(late) /\ Unused(seen)
     \/ /\ part = "candidate" /\ Repository!Init
        /\ NoSession /\ NoRef /\ NoSandbox /\ NoProcess /\ Unused(late) /\ Unused(seen)
     \/ /\ part = "ref" /\ Reference!Init
        /\ NoSession /\ NoCandidate /\ NoSandbox /\ NoProcess /\ Unused(kind) /\ Unused(late)
     \/ /\ part \in {"sandbox", "host"} /\ Validation!Init
        /\ NoSession /\ NoCandidate /\ NoRef /\ NoProcess /\ Unused(pc) /\ Unused(job)
        /\ Unused(result) /\ Unused(crashes)
     \/ /\ part = "container" /\ Started
        /\ NoSession /\ NoCandidate /\ NoRef /\ NoProcess /\ Unused(pc) /\ Unused(job)
        /\ Unused(result) /\ Unused(crashes)
     \/ /\ part = "process" /\ Program!Init
        /\ NoSession /\ NoCandidate /\ NoRef /\ NoSandbox /\ Unused(job) /\ Unused(result)
        /\ Unused(crashes) /\ Unused(kind) /\ Unused(seen)

(* What a step of a part leaves alone.                                     *)
IsSession == part = "session" /\ UNCHANGED <<part, candidateVars, refVars, sandboxVars,
  processVars, pc, job, result, crashes, kind, late, seen>>
IsCandidate == part = "candidate" /\ UNCHANGED <<part, sessionVars, refVars, sandboxVars,
  processVars, late, seen>>
IsRef == part = "ref" /\ UNCHANGED <<part, sessionVars, candidateVars, sandboxVars,
  processVars, kind, late>>
IsSandbox == part = "sandbox" /\ UNCHANGED <<part, sessionVars, candidateVars, refVars,
  processVars, pc, job, result, crashes>>
IsHost == part = "host" /\ UNCHANGED <<part, sessionVars, candidateVars, refVars,
  processVars, pc, job, result, crashes>>
IsContainer == part = "container" /\ UNCHANGED <<part, sessionVars, candidateVars, refVars,
  processVars, pc, job, result, crashes>>
IsProcess == part = "process" /\ UNCHANGED <<part, sessionVars, candidateVars, refVars,
  sandboxVars, job, result, crashes, kind, seen>>

Next ==
  \/ IsSession /\ Session!Next
  \/ IsCandidate /\ Repository!Next
  \/ IsRef /\ Reference!Next
  \/ IsSandbox /\ Validation!Next
  \/ IsHost /\ Hosting!Next /\ tree' # "dirty" /\ ~over' /\ ~oom'
  \/ IsContainer /\ (Validation!InContainer \/ Validation!World)
  \/ IsProcess /\ Program!Next

Spec == Init /\ [][Next]_vars

(* The fairness of SessionDirectory, RepairRef, SandboxRun (either side    *)
(* has a watchdog of its own) and BoundedProcess.  A behaviour is about    *)
(* one of them, so one condition stands for several.                       *)
Runs(who) ==
  \/ IsSession /\ Session!Step(who) /\ ~Session!At(who, "idle")
  \/ IsRef /\ who \in RefProcesses /\ (Reference!Read(who) \/ Reference!Publish(who))
Leaves(who) ==
  \/ IsSession /\ Session!GenerateCandidate(who) /\ pr'[who].pc = "idle"
  \/ IsRef /\ who \in RefProcesses /\ Reference!PushChild(who)
Begins(who) == IsRef /\ who \in RefProcesses /\ Reference!Start(who)
Acts ==
  \/ IsHost /\ Hosting!HostStep
  \/ IsContainer /\ Validation!InContainer
  \/ IsProcess /\ Program!CallerStep

FairSpec ==
  /\ Spec
  /\ \A who \in Processes :
       /\ WF_vars(Runs(who)) /\ WF_vars(Leaves(who)) /\ WF_vars(Begins(who))
       /\ SF_vars(IsSession /\ (Session!Flock(who) \/ Session!FlockToRemove(who)))
  /\ SF_vars(IsSession /\ \E who \in Processes :
               Session!StartMaintenance(who) /\ pr'[who].role = "cleanup")
  /\ SF_vars(IsSession /\ \E who \in Processes : Session!Expires(who))
  /\ WF_vars(Acts)
  /\ WF_vars(IsProcess /\ Program!Drain) /\ WF_vars(IsProcess /\ Program!Passes)

-----------------------------------------------------------------------------
(* Whoever works on a session has the lock of the directory that has the   *)
(* name, with a whole chain; nobody clears the staging of a creator that   *)
(* lives; an open session has all it needs and survives a power failure; a *)
(* closed one is never open again, and a clean one stays clean.            *)
SessionIsWhole ==
  part = "session" =>
    /\ Session!TypeOK
    /\ Session!HolderSeesWhole /\ Session!StagingIsCreators /\ Session!OpenIsWhole
    /\ Session!CreatedIsDurable /\ Session!ClosedStaysClosed /\ Session!CleanedStaysClean

(* The candidate is HEAD with the patches whatever happened to the source  *)
(* meanwhile; once it is persisted its recovery, its application and its   *)
(* publication find just that tree.                                        *)
CandidateIsPatchedHead ==
  part = "candidate" =>
    /\ Repository!TypeOK
    /\ Repository!CandidateIsPatchedHead /\ Repository!CandidateIsWhole
    /\ Repository!RecoveredIsExported /\ Repository!PublishedIsApplied

(* What a read of the repair ref answers, and what the publication         *)
(* concludes from it, is a value the ref had at one moment of that read,   *)
(* while other programs pack, update and delete it.                        *)
AnswerWasTrue == part = "ref" => Reference!TypeOK /\ Reference!AnswerWasTrue

(* A validation that succeeds was earned by every command in a container   *)
(* that has ended, on the candidate; the host never refuses an honest      *)
(* report, no command follows a failed one, and no container is forgotten. *)
ValidationIsEarned ==
  part = "sandbox" =>
    /\ Validation!TypeOK
    /\ Validation!SuccessIsEarned /\ Validation!HonestReportAccepted
    /\ Validation!FirstFailureStops /\ Validation!NothingLeft

(* A call of another program that succeeds has drained its output, and     *)
(* with a selector has all of it; a call that has returned leaves nobody   *)
(* who holds an inherited lock or works in the container.                  *)
CallsAreHonest ==
  part = "process" =>
    /\ Program!TypeOK
    /\ Program!SuccessIsDrained /\ Program!NobodyLeft
    /\ adapter \in {"sandbox", "runner", "retrieval"} => Program!WholeOutput

(* Only a closed session loses an event or its name; a push child that     *)
(* outlives its process writes the ref while nobody else reads or          *)
(* publishes.                                                              *)
StepsRespectOwners ==
  [][/\ (part = "session" /\ at = "named" /\ ~(Session!Chain \subseteq have' /\ at' = "named"))
          => "closed" \in reported \/ "created" \notin reported
     /\ \A who \in RefProcesses :
          (part = "ref" /\ push[who] = "locked" /\ push'[who] = "0") =>
            \A other \in RefProcesses \ {who} : pc[other] = "idle"]_vars

(* A creator that dies leaves no staging directory for ever, and an        *)
(* expired session goes or ends as a remnant; every operation on the ref   *)
(* ends; the host decides though the container hangs, the container ends   *)
(* though the host has died, and a call returns though its program does    *)
(* nothing any more.                                                       *)
EverythingSettles ==
  []<>CASE part = "session" ->
              /\ at # "staging"
              /\ "closed" \in reported => at = "gone" \/ Session!Remnant
        [] part = "ref" -> \A who \in RefProcesses : result[who] # "pending"
        [] part = "host" -> host \in {"done", "error"}
        [] part = "container" -> container # "running"
        [] part = "process" -> pc = "ended"
        [] OTHER -> TRUE
=============================================================================
