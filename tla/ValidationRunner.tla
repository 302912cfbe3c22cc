-------------------------- MODULE ValidationRunner --------------------------
(***************************************************************************)
(* The runner that is PID 1 of the validation container: it copies and     *)
(* checks the candidate, runs the commands of the policy one after the     *)
(* other, sweeps the processes each one leaves, looks at the tree, and     *)
(* writes one authenticated report.                                        *)
(*                                                                         *)
(* A command is an arbitrary program: it and its descendants change the    *)
(* tracked files, fill the workspace and run the container out of memory.  *)
(* How one command is run to its end (pipes, deadline, process group) is   *)
(* the runner adapter of BoundedProcess; here it ends with any result.     *)
(***************************************************************************)
EXTENDS Naturals, Sequences, FiniteSets

CONSTANTS
  Count,     \* the number of commands of the policy
  Offspring  \* bound: descendants a command may leave at a time

CountAssumption == Count \in Nat \ {0} /\ Offspring \in Nat

VARIABLES
  container,  \* absent, created, running, exited, removed
  exit,       \* its exit code
  input,      \* what is mounted: the candidate, or something else
  step,       \* where the runner is
  tree,       \* the tracked files of the workspace: none, clean, dirty
  over,       \* the workspace exceeds its entries or inodes
  oom,        \* the kernel has killed for memory
  alive,      \* descendants of ended commands that still run
  orphans,    \* descendants that have ended and nobody has waited for
  spent,      \* the total time of the policy has passed
  results,    \* the results of the commands that were run
  kind,       \* the failure kind, so far
  residual,   \* processes the sweeps have found
  clean,      \* what the look at the tree said
  report      \* what was written to standard output

runner == <<step, results, kind, residual, clean, report>>
processes == <<alive, orphans>>
inside == <<runner, processes, tree, over, oom, spent>>

Nothing == "none"

Ends == [exit : {"zero", "nonzero", "signal"}, timed : BOOLEAN, cut : BOOLEAN]

Kinds == {Nothing, "command_exit_nonzero", "command_timeout", "command_signal", "output_limit",
          "resource_limit", "residual_process", "tracked_tree_changed",
          "sandbox_runtime_failed"}

Steps == {"boot", "copy", "next", "run", "sweep", "count", "look", "sample", "send", "over"}

NoReport == [success |-> FALSE, kind |-> Nothing, results |-> <<>>, oom |-> FALSE, residual |-> 0,
             clean |-> FALSE]

RunnerInit ==
  /\ step = "boot" /\ results = <<>> /\ kind = Nothing /\ residual = 0
  /\ clean = FALSE /\ report = NoReport
  /\ alive = 0 /\ orphans = 0
  /\ tree = Nothing /\ over = FALSE /\ oom = FALSE /\ spent = FALSE

Running == container = "running"
At(where) == Running /\ step = where
Goto(next) == step' = next
Keep == UNCHANGED <<container, exit, input>>

-----------------------------------------------------------------------------
(* The commands, and what they leave behind.                               *)

(* Whoever runs may write to the workspace, fork, end, or exhaust memory.  *)
(* The parent of a descendant that has ended may or may not wait for it.   *)
Program ==
  /\ Running /\ (step = "run" \/ alive > 0)
  /\ \/ tree' \in {"clean", "dirty"} /\ UNCHANGED <<processes, over, oom>>
     \/ over' \in BOOLEAN /\ UNCHANGED <<processes, tree, oom>>
     \/ oom' = TRUE /\ UNCHANGED <<processes, tree, over>>
     \/ /\ alive + orphans < Offspring /\ alive' = alive + 1
        /\ UNCHANGED <<orphans, tree, over, oom>>
     \/ /\ alive > 0 /\ alive' = alive - 1
        /\ orphans' \in {orphans, orphans + 1}
        /\ UNCHANGED <<tree, over, oom>>
  /\ UNCHANGED <<runner, spent>> /\ Keep

TimePasses ==
  /\ Running /\ ~spent /\ spent' = TRUE
  /\ UNCHANGED <<runner, processes, tree, over, oom>> /\ Keep

-----------------------------------------------------------------------------
(* The runner.                                                             *)

(* main: whatever raises inside _execute is reported without its results.  *)
Failure == [success |-> FALSE, kind |-> "sandbox_runtime_failed", results |-> <<>>,
            oom |-> FALSE, residual |-> 0, clean |-> FALSE]

Raises ==
  /\ step \in {"copy", "run", "sweep", "count", "sample"} /\ Running
  /\ report' = Failure /\ Goto("send")
  /\ UNCHANGED <<results, kind, residual, clean, processes, tree, over, oom, spent>> /\ Keep

Dies(code) ==
  /\ container' = "exited" /\ exit' = code
  /\ alive' = 0 /\ orphans' = 0 /\ Goto("over")
  /\ UNCHANGED <<input, results, kind, residual, clean, tree, over, oom, spent>>

(* main and _read_bootstrap: exactly one whole frame, or exit code 70.     *)
Boot ==
  /\ At("boot")
  /\ \/ Goto("copy") /\ UNCHANGED <<results, kind, residual, clean, report, processes>>
        /\ UNCHANGED <<tree, over, oom, spent>> /\ Keep
     \/ Dies("70") /\ UNCHANGED report

(* The copy compares paths, modes, contents and the index with the         *)
(* bootstrap, and raises when one differs.                                 *)
CopyCandidate ==
  /\ At("copy")
  /\ IF input = "candidate" THEN tree' = "clean" /\ Goto("next") /\ UNCHANGED report
     ELSE report' = Failure /\ Goto("send") /\ UNCHANGED tree
  /\ UNCHANGED <<results, kind, residual, clean, processes, over, oom, spent>> /\ Keep

(* The top of the loop over the commands.                                  *)
NextCommand ==
  /\ At("next")
  /\ IF Len(results) = Count THEN Goto("look") /\ UNCHANGED kind
     ELSE IF spent THEN kind' = "command_timeout" /\ Goto("look")
     ELSE Goto("run") /\ UNCHANGED kind
  /\ UNCHANGED <<results, residual, clean, report, processes, tree, over, oom, spent>> /\ Keep

Stopped(end) == end.timed \/ end.cut

(* _run_command: the command ends, or passes its limit of output or time   *)
(* and then everything in the container is killed and waited for, a        *)
(* descendant that forks at the wrong moment excepted.                     *)
Ended(end) ==
  /\ results' = Append(results, end) /\ Goto("sweep")
  /\ IF Stopped(end) THEN alive' \in 0..alive /\ orphans' = 0 ELSE UNCHANGED processes
  /\ UNCHANGED <<kind, residual, clean, report, tree, over, oom, spent>> /\ Keep

CommandEnds == At("run") /\ \E end \in Ends : ~end.timed /\ Ended(end)
Watchdog == At("run") /\ \E end \in Ends : end.timed /\ Ended(end)

(* Bug: the sweep looks for descendants in the group of the command only.  *)
SweepGroup ==
  /\ At("sweep")
  /\ Goto("count")
  /\ orphans' = 0
  /\ UNCHANGED <<alive, results, kind, residual, clean, report, tree, over, oom, spent>> /\ Keep

(* _remove_residual_processes: list every process but PID 1, kill those,   *)
(* reap.  A child forked between the list and the kill stays; one that has *)
(* ended and was not waited for is in the list.                            *)
Sweep ==
  /\ At("sweep")
  /\ residual' = residual + alive + orphans
  /\ alive' \in 0..alive /\ orphans' = 0
  /\ IF alive + orphans > 0 THEN kind' = "residual_process" /\ Goto("look")
     ELSE Goto("count") /\ UNCHANGED kind
  /\ UNCHANGED <<results, clean, report, tree, over, oom, spent>> /\ Keep

(* _command_failure_kind, in its order.                                    *)
FailureKind(end) ==
  CASE end.timed -> "command_timeout"
    [] ~end.timed /\ end.cut -> "output_limit"
    [] ~Stopped(end) /\ end.exit = "signal" -> "command_signal"
    [] ~Stopped(end) /\ end.exit = "nonzero" -> "command_exit_nonzero"
    [] OTHER -> Nothing

(* The counts of the workspace, then the result of the command.            *)
Counts ==
  /\ At("count")
  /\ kind' = IF over THEN "resource_limit" ELSE FailureKind(results[Len(results)])
  /\ Goto(IF kind' = Nothing THEN "next" ELSE "look")
  /\ UNCHANGED <<results, residual, clean, report, processes, tree, over, oom, spent>> /\ Keep

(* _tracked_tree_is_clean: an error is not clean.                          *)
LookAtTree ==
  /\ At("look")
  /\ clean' \in {FALSE, tree = "clean"}
  /\ Goto("sample")
  /\ UNCHANGED <<results, kind, residual, report, processes, tree, over, oom, spent>> /\ Keep

(* The end of _execute.                                                    *)
Sample ==
  /\ At("sample")
  /\ LET found == IF kind # Nothing THEN kind
                  ELSE IF oom \/ over THEN "resource_limit"
                  ELSE IF ~clean THEN "tracked_tree_changed"
                  ELSE IF Len(results) # Count THEN "command_timeout" ELSE Nothing
     IN  /\ kind' = found
         /\ report' = [success |-> found = Nothing, kind |-> found, results |-> results,
                       oom |-> oom, residual |-> residual, clean |-> clean]
  /\ Goto("send")
  /\ UNCHANGED <<results, residual, clean, processes, tree, over, oom, spent>> /\ Keep

(* _write_all of the frame, and the end of PID 1, which ends the others.   *)
Send == At("send") /\ Dies("0") /\ UNCHANGED report

SendFails == At("send") /\ Dies("70") /\ report' = NoReport

Killed == Running /\ Dies("137") /\ report' = NoReport

RunnerStep ==
  \/ Boot \/ CopyCandidate \/ NextCommand \/ Watchdog \/ Sweep \/ Counts \/ LookAtTree \/ Sample
  \/ Send
=============================================================================
