-------------------------- MODULE SessionDirectory --------------------------
(***************************************************************************)
(* The directory of one repair session, entry by entry.                    *)
(*                                                                         *)
(* create() fills a staging directory under the manager lock and renames   *)
(* it to the session id.  Commands open the directory, its events, its     *)
(* private directory and its lock file one after the other, wait for the   *)
(* lock, and check that what they opened still has its name.  propose()    *)
(* writes into the private directory with no lock at all.  recover() and   *)
(* cleanup() clear what a dead creator left, and cleanup() removes expired *)
(* sessions.  All of them meet in one directory, and each of them can die  *)
(* between two calls.                                                      *)
(*                                                                         *)
(* One session is enough: ids are random and never used twice, and only    *)
(* the manager lock, which is modelled, is shared between sessions.        *)
(* Directory operations reach the disk in their order, at some time until  *)
(* the next sync of that directory.                                        *)
(***************************************************************************)
EXTENDS Naturals, Sequences

CONSTANTS
  Processes,   \* processes that run commands
  FaultBound,  \* bound: failing calls, lock timeouts and crashes together
  PowerBound,  \* bound: power failures
  None         \* no process

ProcessesAssumption == None \notin Processes

BoundsAssumption == FaultBound \in Nat /\ PowerBound \in Nat

(* What is in the directory.  e0 is the event of the creation, e1 the one  *)
(* that closes the session, e2 the one that calls it clean; the repository *)
(* is what propose() writes.                                               *)
EventFiles == {"e0", "e1", "e2"}
Payload == {"repository", "request"}
Top == {"events", "private", "lock", "cache"}
Entries == EventFiles \cup Payload \cup Top

CreationOrder == <<"events", "private", "request", "lock", "e0", "cache">>

(* Names sorted, the contents of a directory before the directory.         *)
RemovalOrder ==
  <<"e0", "e1", "e2", "events", "repository", "request", "private", "lock", "cache">>

ContentsOf(entry) == CASE entry = "events"  -> EventFiles
                       [] entry = "private" -> Payload
                       [] OTHER             -> {}

VARIABLES
  at,       \* the name of the directory: none yet, staging, named, gone
  have,     \* the entries in it
  disk,     \* the name and the entries when their directory was last synced
  manager,  \* holder of the manager lock
  flock,    \* holder of the lock on the inode of session.lock
  pr,       \* program counter and locals of every process
  faults,   \* failing calls, timeouts and crashes so far
  powers,   \* power failures so far
  reported  \* what finished calls have reported (history)

vars == <<at, have, disk, manager, flock, pr, faults, powers, reported>>

Places == {"none", "staging", "named", "gone"}

Pcs == {"idle", "fill", "rename", "sync_created", "unstage",
        "clear_staging", "list",
        "open_session", "open_events", "open_private", "open_lock", "flock",
        "revalidate", "load", "close_session", "clean_private",
        "record_cleanup", "sync_cache",
        "guard", "generate", "stat", "open_lock_to_remove", "flock_to_remove",
        "check_named", "remove", "rmdir", "sync_removed"}

Roles == {"none", "create", "decide", "propose", "recover", "cleanup"}

Idle == [pc |-> "idle", role |-> "none", private |-> FALSE, todo |-> {}]

Reports == {"created", "closed", "cleaned", "removed", "missed"}

At(p, pc) == pr[p].pc = pc
Goto(p, pc) == pr' = [pr EXCEPT ![p].pc = pc]

(* The end of a command, whatever its result: every descriptor is closed.  *)
Released(p, lock) == IF lock = p THEN None ELSE lock
Return(p) ==
  /\ pr' = [pr EXCEPT ![p] = Idle]
  /\ manager' = Released(p, manager)
  /\ flock' = Released(p, flock)

Report(what) == reported' = reported \cup {what}

directory == <<at, have, disk>>
locks == <<manager, flock>>
counters == <<faults, powers>>

Chain == have \cap EventFiles
Chains == {{"e0"}, {"e0", "e1"}, EventFiles}
Loadable == Chain \in Chains
Closed == "e1" \in Chain
-----------------------------------------------------------------------------
(* create(): _create_session_store under the manager lock.                 *)

CreateStaging(p) ==
  /\ At(p, "idle") /\ at = "none" /\ manager = None
  /\ manager' = p
  /\ at' = "staging"
  /\ pr' = [pr EXCEPT ![p] = [Idle EXCEPT !.pc = "fill", !.role = "create"]]
  /\ UNCHANGED <<have, disk, flock, counters, reported>>

Missing == {i \in DOMAIN CreationOrder : CreationOrder[i] \notin have}

FillStaging(p) ==
  /\ At(p, "fill")
  /\ LET next == CHOOSE i \in Missing : \A j \in Missing : i <= j
     IN have' = have \cup {CreationOrder[next]}
  /\ IF Missing' # {}
     THEN UNCHANGED <<disk, pr>>
     ELSE /\ disk' = [disk EXCEPT !.top = have' \cap Top,
                                  !.events = have' \cap EventFiles,
                                  !.private = have' \cap Payload]
          /\ Goto(p, "rename")
  /\ UNCHANGED <<at, locks, counters, reported>>

RenameStaging(p) ==
  /\ At(p, "rename")
  /\ at' = "named"
  /\ Goto(p, "sync_created")
  /\ UNCHANGED <<have, disk, locks, counters, reported>>

SyncCreated(p) ==
  /\ At(p, "sync_created")
  /\ disk' = [disk EXCEPT !.at = at]
  /\ Report("created")
  /\ Return(p)
  /\ UNCHANGED <<at, have, counters>>

(* A failed creation removes its staging directory; after the rename it    *)
(* finds none, syncs, and fails all the same.                              *)
Unstage(p) ==
  /\ At(p, "unstage")
  /\ IF at = "staging"
     THEN /\ pr' = [pr EXCEPT ![p].pc = "remove", ![p].todo = have]
          /\ UNCHANGED <<disk, locks>>
     ELSE /\ disk' = [disk EXCEPT !.at = at]
          /\ Return(p)
  /\ UNCHANGED <<at, have, counters, reported>>

-----------------------------------------------------------------------------
(* recover() and cleanup(): the manager lock, _cleanup_staging_stores and  *)
(* _list_session_ids.  recover() gives the lock back before it turns to    *)
(* the sessions, cleanup() keeps it.                                       *)

StartMaintenance(p) ==
  /\ At(p, "idle") /\ at # "none" /\ manager = None
  /\ manager' = p
  /\ \E role \in {"recover", "cleanup"} :
       pr' = [pr EXCEPT ![p] = [Idle EXCEPT !.pc = "clear_staging", !.role = role]]
  /\ UNCHANGED <<directory, flock, counters, reported>>

ClearStaging(p) ==
  /\ At(p, "clear_staging")
  /\ IF at = "staging"
     THEN pr' = [pr EXCEPT ![p].pc = "remove", ![p].todo = have]
     ELSE Goto(p, "list")
  /\ UNCHANGED <<directory, locks, counters, reported>>

ListSessions(p) ==
  /\ At(p, "list")
  /\ IF at = "named"
     THEN /\ Goto(p, "open_session")
          /\ manager' = IF pr[p].role = "recover" THEN None ELSE manager
          /\ UNCHANGED flock
     ELSE Return(p)
  /\ UNCHANGED <<directory, counters, reported>>

-----------------------------------------------------------------------------
(* _locked_session: open everything, wait for the lock, look again.        *)

StartCommand(p) ==
  /\ At(p, "idle") /\ "created" \in reported
  /\ \E role \in {"decide", "propose"} :
       pr' = [pr EXCEPT ![p] = [Idle EXCEPT !.pc = "open_session", !.role = role]]
  /\ UNCHANGED <<directory, locks, counters, reported>>

(* A name that is not there ends the command: the session was not found.   *)
(* It is missed if it is there all the same.                               *)
Open(p, pc, present, next) ==
  /\ At(p, pc)
  /\ IF present
     THEN Goto(p, next) /\ UNCHANGED <<locks, reported>>
     ELSE /\ Return(p)
          /\ IF at = "named" /\ Loadable /\ "lock" \in have
             THEN Report("missed") ELSE UNCHANGED reported
  /\ UNCHANGED <<directory, counters>>

OpenSession(p) == Open(p, "open_session", at = "named", "open_events")
OpenEvents(p) == Open(p, "open_events", "events" \in have, "open_private")
OpenLock(p) == Open(p, "open_lock", "lock" \in have, "flock")

OpenPrivate(p) ==
  /\ At(p, "open_private")
  /\ pr' = [pr EXCEPT ![p].pc = "open_lock", ![p].private = "private" \in have]
  /\ UNCHANGED <<directory, locks, counters, reported>>

(* The lock is that of the inode, which a name may no longer lead to.      *)
Flock(p) ==
  /\ At(p, "flock") /\ flock = None
  /\ flock' = p
  /\ Goto(p, "revalidate")
  /\ UNCHANGED <<directory, manager, counters, reported>>

StillNamed(p) ==
  at = "named" /\ "lock" \in have /\ (pr[p].private => "private" \in have)

RevalidateLockedSession(p) == Open(p, "revalidate", StillNamed(p), "load")

(* load(), and where each command goes from the state it found.            *)
Load(p) ==
  /\ At(p, "load")
  /\ CASE ~Loadable -> Return(p)
       [] Loadable /\ Closed /\ pr[p].role \in {"recover", "cleanup"} ->
            Goto(p, "clean_private") /\ UNCHANGED locks
       [] Loadable /\ ~Closed /\ pr[p].role \in {"recover", "decide"} ->
            Goto(p, "close_session") /\ UNCHANGED locks
       [] Loadable /\ ~Closed /\ pr[p].role = "propose" ->
            Goto(p, "guard") /\ flock' = None /\ UNCHANGED manager
       [] OTHER -> Return(p)
  /\ UNCHANGED <<directory, counters, reported>>

(* The event that closes the session is durable when append returns.       *)
CloseSession(p) ==
  /\ At(p, "close_session")
  /\ have' = have \cup {"e1"}
  /\ disk' = [disk EXCEPT !.events = have' \cap EventFiles]
  /\ Report("closed")
  /\ Goto(p, "clean_private")
  /\ UNCHANGED <<at, locks, counters>>

(* cleanup_private: with no descriptor there must be no name either.       *)
CleanPrivate(p) ==
  /\ At(p, "clean_private")
  /\ IF pr[p].private
     THEN /\ pr' = [pr EXCEPT ![p].pc = "remove", ![p].todo = (have \cap Payload) \cup {"private"}]
          /\ UNCHANGED locks
     ELSE IF "private" \in have THEN Return(p) ELSE Goto(p, "record_cleanup") /\ UNCHANGED locks
  /\ UNCHANGED <<directory, counters, reported>>

(* A command that decides ends after the cleanup; cleanup() gives the lock *)
(* back and goes on if the session has expired.                            *)
AfterCleaning(p) ==
  \/ Return(p)
  \/ /\ pr[p].role = "cleanup"
     /\ pr' = [pr EXCEPT ![p].pc = "stat", ![p].private = FALSE]
     /\ flock' = None /\ UNCHANGED manager

(* append("cleanup_complete"): the event first, then the cache, whose      *)
(* rename syncs the session directory.  A session called clean before is   *)
(* left as it is.                                                          *)
RecordCleanup(p) ==
  /\ At(p, "record_cleanup")
  /\ IF "e2" \in have
     THEN AfterCleaning(p) /\ UNCHANGED <<have, disk>>
     ELSE /\ have' = have \cup {"e2"}
          /\ disk' = [disk EXCEPT !.events = have' \cap EventFiles]
          /\ Goto(p, "sync_cache") /\ UNCHANGED locks
  /\ UNCHANGED <<at, counters, reported>>

(* Bug: the session directory is not synced.                               *)
SyncCacheNever(p) ==
  /\ At(p, "sync_cache")
  /\ Report("cleaned")
  /\ AfterCleaning(p)
  /\ UNCHANGED <<directory, counters>>

SyncCache(p) ==
  /\ At(p, "sync_cache")
  /\ disk' = [disk EXCEPT !.top = have \cap Top]
  /\ Report("cleaned")
  /\ AfterCleaning(p)
  /\ UNCHANGED <<at, have, counters>>

-----------------------------------------------------------------------------
(* propose() between its two locked sections: _session_path_guard holds    *)
(* the private directory and the generation writes through it.             *)

OpenGuard(p) ==
  /\ At(p, "guard")
  /\ IF at = "named" /\ "private" \in have
     THEN Goto(p, "generate") /\ UNCHANGED locks
     ELSE Return(p)
  /\ UNCHANGED <<directory, counters, reported>>

(* Writing below a removed directory fails.                                *)
GenerateCandidate(p) ==
  /\ At(p, "generate")
  /\ \/ /\ "private" \in have
        /\ have' = have \cup {"repository"}
        /\ UNCHANGED <<pr, locks>>
     \/ Return(p) /\ UNCHANGED have
  /\ UNCHANGED <<at, disk, counters, reported>>

-----------------------------------------------------------------------------
(* _remove_session_store and _remove_staging_store.                        *)

StatSession(p) ==
  /\ At(p, "stat")
  /\ IF at = "named"
     THEN Goto(p, "open_lock_to_remove") /\ UNCHANGED <<disk, locks, reported>>
     ELSE disk' = [disk EXCEPT !.at = at] /\ Return(p) /\ Report("removed")
  /\ UNCHANGED <<at, have, counters>>

OpenLockToRemove(p) ==
  Open(p, "open_lock_to_remove", "lock" \in have, "flock_to_remove")

FlockToRemove(p) ==
  /\ At(p, "flock_to_remove") /\ flock = None
  /\ flock' = p
  /\ Goto(p, "check_named")
  /\ UNCHANGED <<directory, manager, counters, reported>>

CheckNamed(p) ==
  /\ At(p, "check_named")
  /\ IF at = "named" /\ "lock" \in have
     THEN pr' = [pr EXCEPT ![p].pc = "remove", ![p].todo = have] /\ UNCHANGED locks
     ELSE Return(p)
  /\ UNCHANGED <<directory, counters, reported>>

Todo(p) == {i \in DOMAIN RemovalOrder : RemovalOrder[i] \in pr[p].todo}

(* _remove_tree_contents, one entry at a time in the order of the names; a *)
(* directory that is not empty stops it.                                   *)
RemoveEntry(p) ==
  /\ At(p, "remove") /\ Todo(p) # {}
  /\ LET entry == RemovalOrder[CHOOSE i \in Todo(p) : \A j \in Todo(p) : i <= j]
     IN IF have \cap ContentsOf(entry) = {}
        THEN /\ have' = have \ {entry}
             /\ pr' = [pr EXCEPT ![p].todo = @ \ {entry}]
             /\ UNCHANGED locks
        ELSE Return(p) /\ UNCHANGED have
  /\ UNCHANGED <<at, disk, counters, reported>>

(* Of the private directory nothing is left; the session directory is      *)
(* synced.                                                                 *)
EndPrivate(p) ==
  /\ At(p, "remove") /\ Todo(p) = {} /\ pr[p].private
  /\ disk' = [disk EXCEPT !.top = have \cap Top]
  /\ Goto(p, "record_cleanup")
  /\ UNCHANGED <<at, have, locks, counters, reported>>

RemoveDirectory(p) ==
  /\ At(p, "remove") /\ Todo(p) = {} /\ ~pr[p].private
  /\ IF have = {}
     THEN at' = "gone" /\ Goto(p, "sync_removed") /\ UNCHANGED locks
     ELSE Return(p) /\ UNCHANGED at
  /\ UNCHANGED <<have, disk, counters, reported>>

(* With one session nothing is left to list after its staging directory    *)
(* was cleared.                                                            *)
SyncRemoved(p) ==
  /\ At(p, "sync_removed")
  /\ disk' = [disk EXCEPT !.at = at]
  /\ Report("removed")
  /\ Return(p)
  /\ UNCHANGED <<at, have, counters>>

-----------------------------------------------------------------------------
(* Failing calls, crashes and power failures.                              *)

(* A call fails, the lock times out, or the process dies: descriptors and  *)
(* locks go back, names stay.                                              *)
Stops(p) ==
  /\ ~At(p, "idle") /\ faults < FaultBound
  /\ faults' = faults + 1
  /\ Return(p)
  /\ UNCHANGED <<directory, powers, reported>>

(* A creation that fails, and does not die, clears its staging directory.  *)
CreateFails(p) ==
  /\ \E pc \in {"fill", "rename", "sync_created"} : At(p, pc)
  /\ faults < FaultBound
  /\ faults' = faults + 1
  /\ Goto(p, "unstage")
  /\ UNCHANGED <<directory, locks, powers, reported>>

(* Every directory comes back as it was synced or as it is.  A session     *)
(* whose name is lost was never created: its id is not used again.         *)
LeftAt == {disk.at, at} \cup (IF disk.at = "none" /\ at = "named" THEN {"staging"} ELSE {})
Left(directoryEntry, synced, now) == IF directoryEntry THEN {synced, now} ELSE {{}}

PowerFailure ==
  /\ powers < PowerBound
  /\ powers' = powers + 1
  /\ \E place \in LeftAt, top \in {disk.top, have \cap Top} :
       IF place \in {"none", "gone"}
       THEN at' = "gone" /\ have' = {}
       ELSE /\ at' = place
            /\ \E e \in Left("events" \in top, disk.events, Chain),
                  v \in Left("private" \in top, disk.private, have \cap Payload) :
                 have' = top \cup e \cup v
  /\ disk' = [at |-> at', top |-> have' \cap Top,
              events |-> have' \cap EventFiles, private |-> have' \cap Payload]
  /\ pr' = [p \in Processes |-> Idle]
  /\ manager' = None /\ flock' = None
  /\ UNCHANGED <<faults, reported>>

-----------------------------------------------------------------------------
Init ==
  /\ at = "none" /\ have = {}
  /\ disk = [at |-> "none", top |-> {}, events |-> {}, private |-> {}]
  /\ manager = None /\ flock = None
  /\ pr = [p \in Processes |-> Idle]
  /\ faults = 0 /\ powers = 0
  /\ reported = {}

Create(p) ==
  CreateStaging(p) \/ FillStaging(p) \/ RenameStaging(p) \/ SyncCreated(p) \/ Unstage(p)

Maintain(p) == StartMaintenance(p) \/ ClearStaging(p) \/ ListSessions(p)

Enter(p) ==
  \/ StartCommand(p) \/ OpenSession(p) \/ OpenEvents(p) \/ OpenPrivate(p)
  \/ OpenLock(p) \/ Flock(p) \/ RevalidateLockedSession(p)

Work(p) ==
  \/ Load(p) \/ CloseSession(p) \/ CleanPrivate(p) \/ RecordCleanup(p) \/ SyncCache(p)
  \/ OpenGuard(p) \/ GenerateCandidate(p)

Remove(p) ==
  \/ StatSession(p) \/ OpenLockToRemove(p) \/ FlockToRemove(p) \/ CheckNamed(p)
  \/ RemoveEntry(p) \/ EndPrivate(p) \/ RemoveDirectory(p) \/ SyncRemoved(p)

Step(p) == Create(p) \/ Maintain(p) \/ Enter(p) \/ Work(p) \/ Remove(p)

Next ==
  \/ \E p \in Processes : Step(p) \/ Stops(p) \/ CreateFails(p)
  \/ PowerFailure

Spec == Init /\ [][Next]_vars

(* A running process takes its next step and a generation ends, a lock     *)
(* that is free again and again is taken by one that polls for it, the     *)
(* operator runs cleanup() again and again, and sessions expire.           *)
Expires(p) == (RecordCleanup(p) \/ SyncCache(p)) /\ pr'[p].pc = "stat"

Fairness ==
  /\ \A p \in Processes :
       /\ WF_vars(Step(p) /\ ~At(p, "idle"))
       /\ WF_vars(GenerateCandidate(p) /\ pr'[p].pc = "idle")
       /\ SF_vars(Flock(p) \/ FlockToRemove(p))
  /\ SF_vars(\E p \in Processes : StartMaintenance(p) /\ pr'[p].role = "cleanup")
  /\ SF_vars(\E p \in Processes : Expires(p))

FairSpec == Spec /\ Fairness

-----------------------------------------------------------------------------
(* Properties.                                                             *)

(* The type of every variable; a finished command holds no lock.           *)
TypeOK ==
  /\ at \in Places /\ have \subseteq Entries
  /\ disk \in [at : Places, top : SUBSET Top,
               events : SUBSET EventFiles, private : SUBSET Payload]
  /\ manager \in Processes \cup {None} /\ flock \in Processes \cup {None}
  /\ pr \in [Processes -> [pc : Pcs, role : Roles, private : BOOLEAN, todo : SUBSET Entries]]
  /\ faults \in 0..FaultBound /\ powers \in 0..PowerBound
  /\ reported \subseteq Reports
  /\ \A p \in Processes : At(p, "idle") => manager # p /\ flock # p

(* Whoever works on a loaded session has the lock of the directory that    *)
(* has the name, and its events are a whole chain: a descriptor that was   *)
(* opened before a removal never gets that far (_revalidate_locked_session *)
(* and load).                                                              *)
Working(p) ==
  \/ \E pc \in {"close_session", "clean_private", "record_cleanup", "sync_cache"} : At(p, pc)
  \/ At(p, "remove") /\ pr[p].private

HolderSeesWhole ==
  \A p \in Processes : Working(p) =>
    flock = p /\ at = "named" /\ "lock" \in have /\ Loadable

(* While a creator that is alive fills its staging directory, nobody       *)
(* clears it (_cleanup_staging_stores under the manager lock).             *)
StagingIsCreators ==
  \A p \in Processes : At(p, "fill") \/ At(p, "rename") =>
    /\ at = "staging"
    /\ \A q \in Processes : ~At(q, "remove")

(* A session that was closed is never loaded as open again, whatever a     *)
(* half-done removal or a power failure has left of it.                    *)
ClosedStaysClosed ==
  \A p \in Processes : At(p, "load") /\ Loadable /\ "closed" \in reported => Closed

(* An open session with a name has all that a command needs.               *)
OpenIsWhole ==
  at = "named" /\ "closed" \notin reported =>
    {"e0", "events", "private", "request", "lock", "cache"} \subseteq have

(* A session whose id was given to the caller survives a power failure.    *)
CreatedIsDurable ==
  "created" \in reported /\ "closed" \notin reported => disk.at = "named" /\ at = "named"

(* Once a session was reported as clean there is no private directory, now *)
(* or after a power failure; a generation that still runs cannot bring it  *)
(* back.                                                                   *)
CleanedStaysClean ==
  "cleaned" \in reported => have \cap (Payload \cup {"private"}) = {}

(* What removal can leave for ever: a directory without a whole chain or   *)
(* without its lock file, which no command opens.                          *)
Remnant == at = "named" /\ ~(Loadable /\ {"events", "lock"} \subseteq have)
=============================================================================
