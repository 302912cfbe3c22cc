----------------------------- MODULE SandboxRun -----------------------------
(***************************************************************************)
(* One validation run as the host sees it: the probe of the sandbox in a   *)
(* container of its own, then the start of the validation container, its   *)
(* report, what docker says of it, the outcome and the removal.  The       *)
(* container runs ValidationRunner.  Every docker command is a client      *)
(* process with a deadline (BoundedProcess) that may fail by itself.       *)
(*                                                                         *)
(* How the container is created and registered in the session, and what    *)
(* the session makes of the outcome, is RepairWorkflow.                    *)
(***************************************************************************)
EXTENDS ValidationRunner

CONSTANT Checks  \* the capabilities the probe looks at

VARIABLES
  host,    \* where the host is
  probe,   \* the container of the probe: none, created, removed, leaked
  client,  \* what the start command gave
  late,    \* the deadline of the start command has passed
  seen,    \* what inspect said of the container
  outcome, \* the report the host goes on with
  pending  \* the removal has failed

hostside == <<host, probe, client, late, seen, outcome, pending>>
vars == <<container, exit, input, inside, hostside>>

Codes == {Nothing, "0", "70", "137"}
Clients == {Nothing, "whole", "failed", "noisy", "timed_out"}
States == {"none", "running", "exited"} \X Codes \X BOOLEAN
NoState == <<"none", Nothing, FALSE>>

HostKinds == Kinds \cup {"sandbox_report_invalid"}
Outcomes == [authentic : BOOLEAN, success : BOOLEAN, kind : HostKinds, oom : BOOLEAN]

NoOutcome == [authentic |-> FALSE, success |-> FALSE, kind |-> Nothing, oom |-> FALSE]

HostPcs == {"prepare", "probed", "create", "start", "attached", "stop", "judge", "inspect", "wait",
            "record", "remove", "done", "error"}

Init ==
  /\ RunnerInit
  /\ container = "absent" /\ exit = Nothing /\ input \in {"candidate", "other"}
  /\ host = "prepare" /\ probe = Nothing /\ client = Nothing /\ late = FALSE
  /\ seen = NoState /\ outcome = NoOutcome /\ pending = FALSE

-----------------------------------------------------------------------------
(* The host.                                                               *)

HostAt(where) == host = where
Still(kept) == UNCHANGED <<kept, input, inside>>

(* _inspect_sandbox_capabilities, and the container of the probe.          *)
Prepare ==
  /\ HostAt("prepare")
  /\ \/ host' = "error" /\ UNCHANGED probe
     \/ host' = "probed" /\ probe' = "created"
  /\ Still(<<container, exit, client, late, seen, outcome, pending>>)

(* _run_checks adds the name of every capability it finds.                 *)
Completed == SUBSET Checks

(* The probe completes some of its checks; all of them must be in its      *)
(* report, docker must agree, and the container must go.                   *)
ReadProbe ==
  /\ HostAt("probed")
  /\ \E completed \in Completed, agrees \in BOOLEAN, removed \in BOOLEAN :
       /\ probe' = IF removed THEN "removed" ELSE "leaked"
       /\ host' = IF completed = Checks /\ agrees /\ removed THEN "create" ELSE "error"
  /\ Still(<<container, exit, client, late, seen, outcome, pending>>)

(* docker create, registered in the session, inspected and compared with   *)
(* what was asked for; a client that fails may have created it.            *)
Create ==
  /\ HostAt("create")
  /\ \/ container' = "created" /\ host' \in {"start", "remove"}
     \/ host' = "error" /\ UNCHANGED container
  /\ Still(<<exit, probe, client, late, seen, outcome, pending>>)

(* docker start --attach with the bootstrap on standard input.             *)
Start ==
  /\ HostAt("start")
  /\ \/ container' = "running" /\ host' = "attached" /\ UNCHANGED client
     \/ client' = "failed" /\ host' = "judge" /\ UNCHANGED container
     \/ host' = "remove" /\ UNCHANGED <<container, client>>
  /\ Still(<<exit, probe, late, seen, outcome, pending>>)

(* The client ends after the container.                                    *)
ClientEnds ==
  /\ HostAt("attached") /\ ~Running
  /\ client' = IF exit = "0" THEN "whole" ELSE "failed"
  /\ host' = "judge"
  /\ Still(<<container, exit, probe, late, seen, outcome, pending>>)

(* It may also fail before, or write to its standard error.                *)
ClientFails ==
  /\ HostAt("attached")
  /\ \/ client' = "noisy" /\ host' = "stop"
     \/ client' = "failed" /\ host' = "judge"
  /\ Still(<<container, exit, probe, late, seen, outcome, pending>>)

(* The deadline of the host has the length of the total time of the        *)
(* runner and starts before it.                                            *)
TimesOut ==
  /\ HostAt("attached")
  /\ late' = TRUE /\ client' = "timed_out" /\ host' = "stop"
  /\ Still(<<container, exit, probe, seen, outcome, pending>>)

(* docker stop, then kill; each may fail.                                  *)
Stop ==
  /\ HostAt("stop") /\ host' = "judge"
  /\ \/ Killed
     \/ UNCHANGED <<container, exit, input, inside>>
  /\ UNCHANGED <<probe, client, late, seen, outcome, pending>>

(* _validate_report_semantics, for a report of this runner.                *)
Passed(end) == end.exit = "zero" /\ ~end.timed /\ ~end.cut
Some(run, Holds(_)) == \E i \in DOMAIN run : Holds(run[i])

Evidence(found, run) ==
  \/ found = "command_exit_nonzero" /\ Some(run, LAMBDA e : e.exit = "nonzero")
  \/ found = "command_timeout" /\ (Some(run, LAMBDA e : e.timed) \/ Len(run) < Count)
  \/ found = "command_signal" /\ Some(run, LAMBDA e : e.exit = "signal")
  \/ found = "output_limit" /\ Some(run, LAMBDA e : e.cut)
  \/ found = "residual_process" /\ report.residual > 0
  \/ found = "tracked_tree_changed" /\ ~report.clean
  \/ found \in {"resource_limit", "sandbox_runtime_failed"}

Accepted ==
  IF report.success
  THEN /\ report.kind = Nothing /\ Len(report.results) = Count
       /\ ~report.oom /\ report.residual = 0 /\ report.clean
       /\ \A i \in DOMAIN report.results : Passed(report.results[i])
  ELSE report.kind # Nothing /\ Evidence(report.kind, report.results)

Failed(found, killed) ==
  [authentic |-> FALSE, success |-> FALSE, kind |-> found, oom |-> killed]

(* The report of the start command, before docker is asked.                *)
Judge ==
  /\ HostAt("judge") /\ host' = "inspect"
  /\ outcome' =
       CASE client = "timed_out" -> Failed("command_timeout", FALSE)
         [] client = "noisy" -> Failed("sandbox_report_invalid", FALSE)
         [] client = "failed" -> Failed("sandbox_runtime_failed", FALSE)
         [] client = "whole" /\ Accepted ->
              [authentic |-> TRUE, success |-> report.success, kind |-> report.kind,
               oom |-> report.oom]
         [] OTHER -> Failed("sandbox_report_invalid", FALSE)
  /\ Still(<<container, exit, probe, client, late, seen, pending>>)

(* Docker learns of a kill for memory from the cgroup, and may miss it.    *)
Inspect ==
  /\ HostAt("inspect")
  /\ \/ /\ seen' \in {<<IF Running THEN "running" ELSE "exited", exit, killed>> :
                        killed \in {oom, FALSE}}
        /\ host' = "wait"
     \/ host' = "remove" /\ UNCHANGED seen
  /\ Still(<<container, exit, probe, client, late, outcome, pending>>)

(* docker wait, then _corroborate_container_result.  A container that is   *)
(* still running, or whose states differ, has no valid report.             *)
Wait ==
  /\ HostAt("wait")
  /\ \/ /\ ~Running /\ host' = "record"
        /\ outcome' =
             IF container = "created" \/ seen[1] = "running" \/ seen[2] # exit
             THEN Failed("sandbox_report_invalid", FALSE)
             ELSE IF outcome.authentic /\ (exit # "0" \/ seen[3] # outcome.oom)
             THEN Failed("sandbox_report_invalid", FALSE)
             ELSE IF ~outcome.authentic /\ seen[3] THEN Failed("resource_limit", TRUE)
             ELSE outcome
     \/ host' = "remove" /\ outcome' = NoOutcome
  /\ Still(<<container, exit, probe, client, late, seen, pending>>)

(* before_remove: the session records the outcome while the container is   *)
(* still there.                                                            *)
Record ==
  /\ HostAt("record")
  /\ host' = "remove"
  /\ Still(<<container, exit, probe, client, late, seen, outcome, pending>>)

(* docker rm --force ends a container that is still running.               *)
Remove ==
  /\ HostAt("remove")
  /\ host' = IF outcome = NoOutcome \/ seen = NoState THEN "error" ELSE "done"
  /\ \/ /\ container' = "removed" /\ alive' = 0 /\ orphans' = 0
        /\ pending' = FALSE
     \/ pending' = TRUE /\ UNCHANGED <<container, processes>>
  /\ UNCHANGED <<exit, input, runner, tree, over, oom, spent>>
  /\ UNCHANGED <<probe, client, late, seen, outcome>>

HostStep ==
  \/ Prepare \/ ReadProbe \/ Create \/ Start \/ ClientEnds \/ TimesOut \/ Stop \/ Judge \/ Inspect \/ Wait
  \/ Record \/ Remove

(* Inside the container, while it runs.                                    *)
InContainer == RunnerStep /\ UNCHANGED hostside

(* Nothing promises that the program or the kernel does these.             *)
World ==
  \/ (Program \/ TimePasses \/ CommandEnds \/ Raises \/ SendFails \/ Killed) /\ UNCHANGED hostside
  \/ ClientFails

(* The host may be killed as well: it is simply never scheduled again.     *)
Finished == host \in {"done", "error"} /\ ~Running /\ UNCHANGED vars

Next == HostStep \/ InContainer \/ World \/ Finished

Spec == Init /\ [][Next]_vars

-----------------------------------------------------------------------------
(* Types.                                                                  *)
TypeOK ==
  /\ container \in {"absent", "created", "running", "exited", "removed"}
  /\ exit \in Codes /\ input \in {"candidate", "other"}
  /\ step \in Steps /\ kind \in Kinds /\ clean \in BOOLEAN
  /\ tree \in {Nothing, "clean", "dirty"} /\ {over, oom, spent} \subseteq BOOLEAN
  /\ alive + orphans \in 0..Offspring /\ residual \in 0..(Count * Offspring)
  /\ Len(results) <= Count /\ \A i \in DOMAIN results : results[i] \in Ends
  /\ report.kind \in Kinds /\ report.success = (report # NoReport /\ report.kind = Nothing)
  /\ host \in HostPcs /\ probe \in {Nothing, "created", "removed", "leaked"}
  /\ client \in Clients /\ {late, pending} \subseteq BOOLEAN
  /\ seen \in States /\ outcome \in Outcomes
  /\ (exit # Nothing) => container \in {"exited", "removed"}

(* A validation that succeeds was earned: the host holds the report of a   *)
(* runner that ran every command of the policy to exit code 0, the         *)
(* container ended by itself, nothing of it runs any more, and the tracked *)
(* files are, now and not only when they were looked at, the candidate.    *)
(* Whatever a command leaves running, and whatever the host mounted        *)
(* (M5-safe-repair.md:771).                                                *)
SuccessIsEarned ==
  (host \in {"record", "remove", "done"} /\ outcome # NoOutcome /\ seen # NoState /\ outcome.success) =>
    /\ container \in {"exited", "removed"} /\ exit = "0" /\ alive = 0
    /\ input = "candidate" /\ tree = "clean" /\ ~oom
    /\ Len(results) = Count /\ \A i \in 1..Count : Passed(results[i])

(* The host never refuses what its own runner wrote: every report the      *)
(* runner can build has the evidence the host asks of its failure kind, so *)
(* sandbox_report_invalid means the report did not arrive or docker        *)
(* disagrees.                                                              *)
HonestReportAccepted ==
  host = "judge" /\ client = "whole" => report # NoReport /\ Accepted

(* A failed command is the last one: no command runs in a container in     *)
(* which one has failed, left a process or broken a limit.                 *)
FirstFailureStops ==
  /\ step = "run" => kind = Nothing /\ residual = 0
  /\ \A i \in 1..(Len(results) - 1) : Passed(results[i])

(* A container is removed or its removal is pending when the host ends,    *)
(* and it is not running unless the removal failed.                        *)
NothingLeft ==
  host \in {"done", "error"} => container \in {"absent", "removed"} \/ pending
=============================================================================
