----------------------------- MODULE RepairRef ------------------------------
(***************************************************************************)
(* The repair ref in the user's repository, file by file: how              *)
(* _repair_git.py reads it without running git (_read_repair_ref_at),      *)
(* publishes it (_publish_repair_ref) through a git push child, and what   *)
(* other programs of the user (git pack-refs, update-ref, a deletion) do   *)
(* to the same files in between.                                           *)
(*                                                                         *)
(* Every process is an application or a recovery of the session.  They     *)
(* hold the session lock, which a push child inherits: the next one starts *)
(* when the last one and its child have ended.  refs/repoguard/repairs is  *)
(* one directory; a file is known by a generation, which stands for inode, *)
(* size and times.                                                         *)
(***************************************************************************)
EXTENDS Naturals, FiniteSets

CONSTANTS
  Procs,        \* processes of RepoGuard
  ForeignBound, \* bound: operations of other programs on the ref
  CrashBound    \* bound: processes of RepoGuard that die

BoundsAssumption == ForeignBound \in Nat /\ CrashBound \in Nat

(* A process is none of the other things that can have a lock file.        *)
ProcsAssumption == Procs \cap {"nobody", "foreign", "stale"} = {}

VARIABLES
  packed,      \* packed-refs: its generation (0: no file) and the oid it gives the ref
  packedLock,  \* packed-refs.lock exists
  dir,         \* generation of the namespace directory (0: there is none)
  loose,       \* the loose ref: generation (0: no file) and oid
  looseLock,   \* who has <candidate>.lock: "nobody", "foreign", "stale" or a process
  reflog,      \* a reflog of the ref exists
  clock,       \* generations given out
  foreign,     \* what another program is in the middle of, and how often it began
  pc, job,     \* of each process
  push,        \* the push child of each process: none, started, checked, locked, 0, 1
  snap,        \* what a process has opened: packed, dir, loose
  pin,         \* the namespace directory pinned while the child runs
  answer,      \* what the last read gave
  result,      \* what the operation returned
  seen,        \* values the ref had since the last read started
  crashes

storage == <<packed, packedLock, dir, loose, looseLock, reflog, clock>>
control == <<pc, job, snap, pin, answer, result>>
vars == <<storage, foreign, control, push, seen, crashes>>

Ours == "ours"      \* the commit of the candidate
Other == "other"    \* any other commit
NoOid == "none"
Oids == {Ours, Other, NoOid}

NoFile == [gen |-> 0, oid |-> NoOid]

(* What git says the ref is.                                               *)
RefOf(l, k) == IF l.gen # 0 THEN l.oid ELSE k.oid
Ref == RefOf(loose, packed)

Running(p) == push[p] \in {"started", "checked", "locked"}

(* A step that may change the ref adds its value for everybody at work.    *)
Observe ==
  seen' = [p \in Procs |-> seen[p] \cup IF pc[p] = "idle" THEN {} ELSE {RefOf(loose', packed')}]
Quiet == UNCHANGED <<storage, foreign, push, seen, crashes>>

Fresh == clock + 1

-----------------------------------------------------------------------------
(* Reading: one step for each look at the directory.                       *)

Idle(p) == pc[p] = "idle"

(* Bug: the child does not inherit the lock.                               *)
SessionLockFreeOfProcesses == \A q \in Procs : Idle(q)

(* The session lock is free: nobody else is at work, no child runs.        *)
SessionLockFree == \A q \in Procs : Idle(q) /\ ~Running(q)

Begin(p, what) ==
  /\ SessionLockFree
  /\ job' = [job EXCEPT ![p] = what] /\ pc' = [pc EXCEPT ![p] = "lock"]
  /\ pin' = [pin EXCEPT ![p] = 0]
  /\ answer' = [answer EXCEPT ![p] = NoOid] /\ result' = [result EXCEPT ![p] = "pending"]
  /\ seen' = [seen EXCEPT ![p] = {Ref}]
  /\ UNCHANGED <<storage, foreign, push, snap, crashes>>

Goto(p, next) == pc' = [pc EXCEPT ![p] = next]
Return(p, r) == result' = [result EXCEPT ![p] = r] /\ Goto(p, "idle")
Fail(p) == Return(p, "failed") /\ UNCHANGED <<job, snap, pin, answer>>
Proceed(p, next) == Goto(p, next) /\ UNCHANGED <<job, snap, pin, answer, result>>

CheckPackedLock(p) ==
  /\ pc[p] = "lock"
  /\ IF packedLock THEN Fail(p) ELSE Proceed(p, "packed")
  /\ Quiet

OpenPacked(p) ==
  /\ pc[p] = "packed"
  /\ snap' = [snap EXCEPT ![p].packed = packed]
  /\ Goto(p, "dir") /\ UNCHANGED <<job, pin, answer, result>> /\ Quiet

OpenNamespace(p) ==
  /\ pc[p] = "dir"
  /\ LET d == IF pin[p] # 0 THEN pin[p] ELSE dir IN
       /\ snap' = [snap EXCEPT ![p].dir = d, ![p].loose = NoFile]
       /\ Goto(p, IF d = 0 THEN "log" ELSE "looselock")
  /\ UNCHANGED <<job, pin, answer, result>> /\ Quiet

(* A directory that was removed is empty for those who still have it open. *)
HasLock(d) == d = dir /\ looseLock # "nobody"
LooseIn(d) == IF d = dir THEN loose ELSE NoFile

(* Bug: waits for the lock file to go.                                     *)
WaitLooseLock(p) ==
  /\ pc[p] = "looselock" /\ ~HasLock(snap[p].dir) /\ Proceed(p, "loose") /\ Quiet

CheckLooseLock(p) ==
  /\ pc[p] = "looselock"
  /\ IF HasLock(snap[p].dir) THEN Fail(p) ELSE Proceed(p, "loose")
  /\ Quiet

OpenLoose(p) ==
  /\ pc[p] = "loose"
  /\ snap' = [snap EXCEPT ![p].loose = LooseIn(snap[p].dir)]
  /\ Goto(p, "log") /\ UNCHANGED <<job, pin, answer, result>> /\ Quiet

(* A reflog of the ref fails the read, before and after the commit is      *)
(* looked up.                                                              *)
CheckLog(p) ==
  /\ pc[p] \in {"log", "relog"}
  /\ IF reflog THEN Fail(p) ELSE Proceed(p, IF pc[p] = "log" THEN "relog" ELSE "files")
  /\ Quiet

(* Bug: packed-refs may have been replaced.                                *)
RecheckFilesNot(p) ==
  /\ pc[p] = "files" /\ Proceed(p, "files2") /\ Quiet

(* packed-refs first, then the loose file: what was opened is still there. *)
RecheckFiles(p) ==
  /\ pc[p] = "files"
  /\ IF snap[p].packed.gen # 0 /\ packed.gen # snap[p].packed.gen THEN Fail(p)
     ELSE Proceed(p, "files2")
  /\ Quiet

RecheckLoose(p) ==
  /\ pc[p] = "files2"
  /\ IF snap[p].loose.gen # 0 /\ LooseIn(snap[p].dir).gen # snap[p].loose.gen THEN Fail(p)
     ELSE Proceed(p, "dirs")
  /\ Quiet

RecheckDirectories(p) ==
  /\ pc[p] = "dirs"
  /\ IF pin[p] = 0 /\ snap[p].dir # 0 /\ dir # snap[p].dir THEN Fail(p) ELSE Proceed(p, "absent")
  /\ Quiet

(* What was absent still is: packed-refs.lock, packed-refs, then the       *)
(* namespace or the lock and the loose file in it.                         *)
RecheckAbsentPacked(p) ==
  /\ pc[p] = "absent"
  /\ IF packedLock \/ (snap[p].packed.gen = 0 /\ packed.gen # 0) THEN Fail(p)
     ELSE Proceed(p, "absent2")
  /\ Quiet

RecheckAbsentLoose(p) ==
  /\ pc[p] = "absent2"
  /\ LET d == snap[p].dir IN
       IF \/ d = 0 /\ dir # 0
          \/ d # 0 /\ HasLock(d)
          \/ d # 0 /\ snap[p].loose.gen = 0 /\ LooseIn(d).gen # 0
       THEN Fail(p)
       ELSE /\ answer' = [answer EXCEPT ![p] = RefOf(snap[p].loose, snap[p].packed)]
            /\ Goto(p, "answer") /\ UNCHANGED <<job, snap, pin, result>>
  /\ Quiet

-----------------------------------------------------------------------------
(* Using the answer.                                                       *)

(* Recovery reports it; a publication stops at a ref that exists.          *)
UseAnswer(p) ==
  /\ pc[p] = "answer"
  /\ \/ job[p] = "read" /\ Return(p, answer[p]) /\ UNCHANGED <<job, snap, pin, answer>>
     \/ /\ job[p] = "publish" /\ pin[p] = 0
        /\ IF answer[p] = NoOid THEN Proceed(p, "mkdir")
           ELSE /\ Return(p, IF answer[p] = Ours THEN "already" ELSE "conflict")
                /\ UNCHANGED <<job, snap, pin, answer>>
     \/ job[p] = "publish" /\ pin[p] # 0 /\ Proceed(p, "unpin")
  /\ Quiet

(* _pinned_repair_ref_namespace: make the directory if there is none, open *)
(* it, and look that it is the one the name leads to.                      *)
MakeNamespace(p) ==
  /\ pc[p] = "mkdir"
  /\ dir' = (IF dir = 0 THEN Fresh ELSE dir) /\ clock' = (IF dir = 0 THEN Fresh ELSE clock)
  /\ Proceed(p, "pin")
  /\ UNCHANGED <<packed, packedLock, loose, looseLock, reflog, foreign, push, seen, crashes>>

PinNamespace(p) ==
  /\ pc[p] = "pin"
  /\ IF dir = 0 \/ HasLock(dir) THEN Fail(p)
     ELSE pin' = [pin EXCEPT ![p] = dir] /\ Goto(p, "push") /\ UNCHANGED <<job, snap, answer, result>>
  /\ Quiet

StartPush(p) ==
  /\ pc[p] = "push"
  /\ push' = [push EXCEPT ![p] = "started"]
  /\ Proceed(p, "wait")
  /\ UNCHANGED <<storage, foreign, seen, crashes>>

(* The child has ended: read the ref back, whatever it said.               *)
PushEnds(p) ==
  /\ pc[p] = "wait" /\ ~Running(p)
  /\ Proceed(p, "lock")
  /\ seen' = [seen EXCEPT ![p] = {Ref}]
  /\ UNCHANGED <<storage, foreign, push, crashes>>

(* The deadline or the output limit: the whole process group is killed.    *)
(* The lock file of a child that held it stays.                            *)
KillPush(p) ==
  /\ pc[p] = "wait" /\ Running(p)
  /\ push' = [push EXCEPT ![p] = "none"]
  /\ looseLock' = IF looseLock = p THEN "stale" ELSE looseLock
  /\ Fail(p)
  /\ UNCHANGED <<packed, packedLock, dir, loose, reflog, clock, foreign, seen, crashes>>

Unpin(p) ==
  /\ pc[p] = "unpin"
  /\ IF dir # pin[p] \/ HasLock(pin[p]) \/ answer[p] = NoOid THEN Fail(p)
     ELSE /\ Return(p, CASE answer[p] = Other -> "conflict"
                         [] answer[p] = Ours /\ push[p] = "0" -> "published"
                         [] answer[p] = Ours /\ push[p] # "0" -> "already")
          /\ UNCHANGED <<job, snap, pin, answer>>
  /\ Quiet

-----------------------------------------------------------------------------
(* The push child: git push with a lease for "no such ref", and the        *)
(* receive-pack it starts.                                                 *)

Exit(p, status) == push' = [push EXCEPT ![p] = status]

PushChecks(p) ==
  /\ push[p] = "started"
  /\ Exit(p, IF Ref = Ours THEN "0" ELSE IF Ref = Other THEN "1" ELSE "checked")
  /\ UNCHANGED <<storage, foreign, control, seen, crashes>>

(* receive-pack refuses for reasons of its own.                            *)
PushRefused(p) ==
  /\ push[p] = "checked"
  /\ Exit(p, "1")
  /\ UNCHANGED <<storage, foreign, control, seen, crashes>>

PushLocks(p) ==
  /\ push[p] = "checked"
  /\ IF looseLock # "nobody"
     THEN Exit(p, "1") /\ UNCHANGED <<dir, looseLock, clock>>
     ELSE /\ Exit(p, "locked") /\ looseLock' = p
          /\ dir' = (IF dir = 0 THEN Fresh ELSE dir) /\ clock' = (IF dir = 0 THEN Fresh ELSE clock)
  /\ UNCHANGED <<packed, packedLock, loose, reflog, foreign, control, seen, crashes>>

(* Under the lock: still no such ref, and the lock file becomes the ref.   *)
PushWrites(p) ==
  /\ push[p] = "locked"
  /\ looseLock' = "nobody"
  /\ IF Ref # NoOid
     THEN Exit(p, "1") /\ UNCHANGED <<loose, clock>>
     ELSE Exit(p, "0") /\ loose' = [gen |-> Fresh, oid |-> Ours] /\ clock' = Fresh
  /\ UNCHANGED <<packed, packedLock, dir, reflog, foreign, control, crashes>>
  /\ Observe

-----------------------------------------------------------------------------
(* Other programs of the user.                                             *)

BeginForeign(what) ==
  /\ foreign.at = "idle" /\ foreign.count < ForeignBound
  /\ foreign' = [at |-> what, count |-> foreign.count + 1]

Foreign(from, to) == foreign.at = from /\ foreign' = [foreign EXCEPT !.at = to]

(* git update-ref: lock, then the lock file becomes the ref.               *)
UpdateLocks ==
  /\ looseLock = "nobody" /\ looseLock' = "foreign"
  /\ BeginForeign("update")
  /\ dir' = (IF dir = 0 THEN Fresh ELSE dir) /\ clock' = (IF dir = 0 THEN Fresh ELSE clock)
  /\ UNCHANGED <<packed, packedLock, loose, reflog>>

UpdateWrites ==
  /\ Foreign("update", "idle")
  /\ loose' = [gen |-> Fresh, oid |-> Other] /\ clock' = Fresh /\ looseLock' = "nobody"
  /\ reflog' \in {reflog, TRUE}
  /\ UNCHANGED <<packed, packedLock, dir>>

(* git pack-refs: a new packed-refs with the loose value, then the loose   *)
(* ref is removed if it still has that value.                              *)
PackLocks ==
  /\ ~packedLock /\ packedLock' = TRUE /\ BeginForeign("pack")
  /\ UNCHANGED <<packed, dir, loose, looseLock, reflog, clock>>

PackWrites ==
  /\ Foreign("pack", IF loose.gen # 0 THEN "prune" ELSE "idle")
  /\ packed' = [gen |-> Fresh, oid |-> Ref] /\ clock' = Fresh /\ packedLock' = FALSE
  /\ UNCHANGED <<dir, loose, looseLock, reflog>>

PruneLocks ==
  /\ IF looseLock = "nobody" /\ loose.gen # 0 /\ loose.oid = packed.oid
     THEN Foreign("prune", "unlink") /\ looseLock' = "foreign"
     ELSE Foreign("prune", "idle") /\ UNCHANGED looseLock
  /\ UNCHANGED <<packed, packedLock, dir, loose, reflog, clock>>

(* git update-ref -d: out of packed-refs first, then the loose ref.        *)
DeleteLocks ==
  /\ looseLock = "nobody" /\ ~packedLock /\ Ref # NoOid
  /\ looseLock' = "foreign" /\ packedLock' = TRUE /\ BeginForeign("delete")
  /\ dir' = (IF dir = 0 THEN Fresh ELSE dir) /\ clock' = (IF dir = 0 THEN Fresh ELSE clock)
  /\ UNCHANGED <<packed, loose, reflog>>

DeletePacked ==
  /\ Foreign("delete", "unlink")
  /\ packedLock' = FALSE
  /\ IF packed.oid # NoOid
     THEN packed' = [gen |-> Fresh, oid |-> NoOid] /\ clock' = Fresh
     ELSE UNCHANGED <<packed, clock>>
  /\ UNCHANGED <<dir, loose, looseLock, reflog>>

UnlinkLoose ==
  /\ Foreign("unlink", "rmdir")
  /\ loose' = NoFile /\ looseLock' = "nobody"
  /\ UNCHANGED <<packed, packedLock, dir, reflog, clock>>

(* An empty directory of refs is removed, or left.                         *)
RemoveNamespace ==
  /\ Foreign("rmdir", "idle")
  /\ dir' \in {dir, IF loose.gen = 0 /\ looseLock = "nobody" THEN 0 ELSE dir}
  /\ UNCHANGED <<packed, packedLock, loose, looseLock, reflog, clock>>

(* The user removes a lock file nobody holds any more.                     *)
RemoveStaleLock ==
  /\ looseLock = "stale" /\ looseLock' = "nobody" /\ UNCHANGED foreign
  /\ UNCHANGED <<packed, packedLock, dir, loose, reflog, clock>>

ForeignStep ==
  /\ \/ UpdateLocks \/ UpdateWrites \/ PackLocks \/ PackWrites \/ PruneLocks
     \/ DeleteLocks \/ DeletePacked \/ UnlinkLoose \/ RemoveNamespace \/ RemoveStaleLock
  /\ Observe
  /\ UNCHANGED <<control, push, crashes>>

-----------------------------------------------------------------------------
(* A process dies; its push child lives on.                                *)
Crash(p) ==
  /\ ~Idle(p) /\ crashes < CrashBound
  /\ crashes' = crashes + 1
  /\ Return(p, "crashed")
  /\ UNCHANGED <<storage, foreign, push, seen, job, snap, pin, answer>>

Init ==
  /\ packed \in {NoFile, [gen |-> 1, oid |-> NoOid]}
  /\ packedLock = FALSE /\ dir = 0 /\ loose = NoFile /\ looseLock = "nobody" /\ reflog = FALSE
  /\ clock = 1 /\ foreign = [at |-> "idle", count |-> 0]
  /\ pc = [p \in Procs |-> "idle"] /\ job = [p \in Procs |-> "none"]
  /\ push = [p \in Procs |-> "none"]
  /\ snap = [p \in Procs |-> [packed |-> NoFile, dir |-> 0, loose |-> NoFile]]
  /\ pin = [p \in Procs |-> 0] /\ answer = [p \in Procs |-> NoOid]
  /\ result = [p \in Procs |-> "pending"] /\ seen = [p \in Procs |-> {NoOid}]
  /\ crashes = 0

Read(p) ==
  \/ CheckPackedLock(p) \/ OpenPacked(p) \/ OpenNamespace(p) \/ CheckLooseLock(p) \/ OpenLoose(p)
  \/ CheckLog(p) \/ RecheckFiles(p) \/ RecheckLoose(p) \/ RecheckDirectories(p)
  \/ RecheckAbsentPacked(p) \/ RecheckAbsentLoose(p)

Publish(p) ==
  \/ UseAnswer(p) \/ MakeNamespace(p) \/ PinNamespace(p) \/ StartPush(p) \/ PushEnds(p)
  \/ KillPush(p) \/ Unpin(p)

PushChild(p) == PushChecks(p) \/ PushRefused(p) \/ PushLocks(p) \/ PushWrites(p)

(* Each process runs once; which job it has is open.                       *)
Start(p) == result[p] = "pending" /\ Idle(p) /\ \E what \in {"read", "publish"} : Begin(p, what)

AllDone ==
  /\ \A p \in Procs : Idle(p) /\ result[p] # "pending" /\ ~Running(p)
  /\ UNCHANGED vars

Next ==
  \/ \E p \in Procs : Start(p) \/ Read(p) \/ Publish(p) \/ PushChild(p) \/ Crash(p)
  \/ ForeignStep
  \/ AllDone

Spec == Init /\ [][Next]_vars

FairSpec ==
  /\ Spec
  /\ \A p \in Procs : WF_vars(Start(p)) /\ WF_vars(Read(p) \/ Publish(p)) /\ WF_vars(PushChild(p))

-----------------------------------------------------------------------------
(* Properties.                                                             *)

File == [gen : Nat, oid : Oids]
Results == {"pending", NoOid, "failed", "crashed", Ours, Other, "already", "conflict", "published"}

Pcs ==
  {"idle", "lock", "packed", "dir", "looselock", "loose", "log", "relog", "files", "files2", "dirs",
   "absent", "absent2", "answer", "mkdir", "pin", "push", "wait", "unpin"}

(* The type of every variable; a loose ref is in a directory, and a lock   *)
(* file that is not stale belongs to a child that runs.                    *)
TypeOK ==
  /\ pc \in [Procs -> Pcs] /\ job \in [Procs -> {"none", "read", "publish"}]
  /\ packed \in File /\ packedLock \in BOOLEAN /\ dir \in Nat /\ loose \in File
  /\ looseLock \in {"nobody", "foreign", "stale"} \cup Procs
  /\ reflog \in BOOLEAN /\ clock \in Nat
  /\ foreign.at \in {"idle", "update", "pack", "prune", "delete", "unlink", "rmdir"}
  /\ foreign.count \in 0..ForeignBound
  /\ push \in [Procs -> {"none", "started", "checked", "locked", "0", "1"}]
  /\ snap \in [Procs -> [packed : File, dir : Nat, loose : File]]
  /\ pin \in [Procs -> Nat] /\ answer \in [Procs -> Oids]
  /\ result \in [Procs -> Results] /\ seen \in [Procs -> SUBSET Oids]
  /\ crashes \in 0..CrashBound
  /\ loose.gen # 0 => dir # 0
  /\ \A p \in Procs : looseLock = p => push[p] = "locked"

Says(p, what) == Idle(p) /\ result[p] \in what

(* _read_repair_ref_at reads packed-refs, the directory and the loose file *)
(* one after the other while other programs pack, update and delete the    *)
(* ref.  What it returns, and what the publication concludes from it, is a *)
(* value the ref had at one moment of that read.                           *)
AnswerWasTrue ==
  \A p \in Procs :
    /\ \A oid \in Oids : Says(p, {oid}) => oid \in seen[p]
    /\ Says(p, {"published", "already"}) => Ours \in seen[p]
    /\ Says(p, {"conflict"}) => Other \in seen[p]
=============================================================================
