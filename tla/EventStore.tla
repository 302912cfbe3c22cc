----------------------------- MODULE EventStore -----------------------------
(***************************************************************************)
(* The event files of one session directory.                               *)
(*                                                                         *)
(* An event is published by _write_event_immutable: write a temporary file,*)
(* fsync it, make it read-only, hard-link it under its sequence number,    *)
(* unlink the temporary name, fsync the directory.  A process can die, or  *)
(* a system call can fail, between any two of these steps, and a power     *)
(* failure takes back whatever was not fsynced.  The next load removes the *)
(* temporary names it finds before it reads the chain.  Writers hold the   *)
(* session flock exclusively, readers share it.                            *)
(*                                                                         *)
(* A file is a record (its content and its inode), so a temporary name and *)
(* a sequence number are linked if they name the same record.  The cache   *)
(* state.json is compared with the chain and rewritten at every load, so   *)
(* nothing depends on its content: it is a step that can fail, no state.   *)
(*                                                                         *)
(* Assumption: directory updates reach the disk in the order in which they *)
(* were made, so that a power failure leaves no gap in the chain.          *)
(***************************************************************************)
EXTENDS Naturals, Sequences

CONSTANTS
  Writers,   \* processes that load or append under the exclusive lock
  Readers,   \* processes that load under the shared lock
  Records,   \* event files that are ever created
  None       \* no record

ASSUME StoreAssumption ==
  /\ Writers \cap Readers = {}
  /\ None \notin Records

VARIABLES
  finals,   \* records linked under the sequence numbers 1, 2, ...
  temps,    \* records with a temporary name
  ghosts,   \* records whose temporary name was removed, not yet durably
  inode,    \* how much of each record is written
  synced,   \* how many of finals are durable
  locked,   \* processes that hold the flock
  acked,    \* how many events an append has reported as written
  pr        \* program counter and locals of every process

directory == <<finals, temps, ghosts, synced>>
vars == <<directory, inode, locked, acked, pr>>

Procs == Writers \cup Readers

Pcs == {"idle", "list", "clean", "unlink", "load", "loaded", "corrupt",
        "write", "seal", "link", "drop", "sync", "cache"}

Locals ==
  [ pc   : Pcs,
    todo : SUBSET Records,             \* listed temporary names still to remove
    rec  : Records \cup {None},        \* the record in hand
    seen : Nat ]                       \* how many events the chain had

Idle == [pc |-> "idle", todo |-> {}, rec |-> None, seen |-> 0]

At(p, pc) == pr[p].pc = pc

Goto(p, pc, todo, rec, seen) ==
  pr' = [pr EXCEPT ![p] = [pc |-> pc, todo |-> todo, rec |-> rec, seen |-> seen]]

Step(p, from, to) ==
  At(p, from) /\ Goto(p, to, pr[p].todo, pr[p].rec, pr[p].seen)

Published(r) == \E n \in DOMAIN finals : finals[n] = r

-----------------------------------------------------------------------------
(* Loading.                                                                *)

(* Bug: a reader does not take the lock.                                   *)
LockUnshared(p) ==
  /\ At(p, "idle")
  /\ p \in Writers => locked \cap Writers = {}
  /\ locked' = locked \cup {p}
  /\ Goto(p, "list", {}, None, 0)
  /\ UNCHANGED <<directory, inode, acked>>

(* Take the flock, exclusively or shared.                                  *)
Lock(p) ==
  /\ At(p, "idle")
  /\ IF p \in Writers THEN locked = {} ELSE locked \cap Writers = {}
  /\ locked' = locked \cup {p}
  /\ Goto(p, "list", {}, None, 0)
  /\ UNCHANGED <<directory, inode, acked>>

(* Bug: a temporary name that is linked to an event is left alone.         *)
ListTempsUnlinked(p) ==
  /\ At(p, "list")
  /\ Goto(p, "clean", {r \in temps : ~Published(r)}, None, 0)
  /\ UNCHANGED <<directory, inode, locked, acked>>

ListTemps(p) ==
  /\ At(p, "list")
  /\ Goto(p, "clean", temps, None, 0)
  /\ UNCHANGED <<directory, inode, locked, acked>>

(* Look at one listed name; it must still be there, and a linked one must  *)
(* be a finished record.                                                   *)
StatTemp(p) ==
  /\ At(p, "clean")
  /\ \E r \in pr[p].todo :
       Goto(p, IF r \in temps /\ (Published(r) => inode[r] = "sealed")
               THEN "unlink" ELSE "corrupt",
            pr[p].todo, r, 0)
  /\ UNCHANGED <<directory, inode, locked, acked>>

UnlinkTemp(p) ==
  /\ At(p, "unlink")
  /\ LET r == pr[p].rec IN
     /\ temps' = temps \ {r}
     /\ ghosts' = IF r \in temps THEN ghosts \cup {r} ELSE ghosts
     /\ Goto(p, IF r \in temps THEN "clean" ELSE "corrupt", pr[p].todo \ {r}, r, 0)
  /\ UNCHANGED <<finals, inode, synced, locked, acked>>

Fsync == ghosts' = {} /\ synced' = Len(finals) /\ UNCHANGED <<finals, temps>>

(* Every name has been dealt with; the directory is fsynced if any was.    *)
EndCleanup(p) ==
  /\ At(p, "clean")
  /\ pr[p].todo = {}
  /\ IF pr[p].rec = None THEN UNCHANGED directory ELSE Fsync
  /\ Goto(p, "load", {}, None, 0)
  /\ UNCHANGED <<inode, locked, acked>>

(* Read the chain: nothing but complete, read-only files with one name.    *)
LoadEventChain(p) ==
  /\ At(p, "load")
  /\ Goto(p, IF temps = {} /\ \A n \in DOMAIN finals : inode[finals[n]] = "sealed"
             THEN "loaded" ELSE "corrupt",
          {}, None, Len(finals))
  /\ UNCHANGED <<directory, inode, locked, acked>>

Release(p) == locked' = locked \ {p} /\ Goto(p, "idle", {}, None, 0)

(* The caller needed no more than the state, or gets an error.             *)
EndLoad(p) ==
  /\ At(p, "loaded") \/ At(p, "corrupt")
  /\ Release(p)
  /\ UNCHANGED <<directory, inode, acked>>

-----------------------------------------------------------------------------
(* Appending.                                                              *)

CreateTemp(p) ==
  /\ p \in Writers
  /\ At(p, "loaded")
  /\ \E r \in Records :
       /\ inode[r] = "none"
       /\ inode' = [inode EXCEPT ![r] = "partial"]
       /\ temps' = temps \cup {r}
       /\ Goto(p, "write", {}, r, pr[p].seen)
  /\ UNCHANGED <<finals, ghosts, synced, locked, acked>>

WriteTemp(p) ==
  /\ Step(p, "write", "seal")
  /\ inode' = [inode EXCEPT ![pr[p].rec] = "written"]
  /\ UNCHANGED <<directory, locked, acked>>

(* Bug: the file is made read-only without being fsynced.                  *)
SealTempUnsynced(p) ==
  /\ Step(p, "seal", "link")
  /\ UNCHANGED <<directory, inode, locked, acked>>

(* fsync, chmod 0400, fsync.                                               *)
SealTemp(p) ==
  /\ Step(p, "seal", "link")
  /\ inode' = [inode EXCEPT ![pr[p].rec] = "sealed"]
  /\ UNCHANGED <<directory, locked, acked>>

(* link(2) needs the source name and refuses a sequence number in use.     *)
LinkEvent(p) ==
  /\ Step(p, "link", "drop")
  /\ pr[p].rec \in temps
  /\ Len(finals) = pr[p].seen
  /\ finals' = Append(finals, pr[p].rec)
  /\ UNCHANGED <<temps, ghosts, synced, inode, locked, acked>>

DropTemp(p) ==
  /\ Step(p, "drop", "sync")
  /\ temps' = temps \ {pr[p].rec}
  /\ ghosts' = ghosts \cup {pr[p].rec}
  /\ UNCHANGED <<finals, synced, inode, locked, acked>>

(* Bug: the directory is not fsynced.                                      *)
SyncDirectorySkipped(p) ==
  Step(p, "sync", "cache") /\ UNCHANGED <<directory, inode, locked, acked>>

SyncDirectory(p) ==
  Step(p, "sync", "cache") /\ Fsync /\ UNCHANGED <<inode, locked, acked>>

(* The cache is written, and the append returns.  Its caller gives the     *)
(* lock up, or appends another event first, which loads the chain anew.    *)
ReturnAppend(p) ==
  /\ At(p, "cache")
  /\ acked' = pr[p].seen + 1
  /\ \/ Release(p)
     \/ Goto(p, "list", {}, None, 0) /\ UNCHANGED locked
  /\ UNCHANGED <<directory, inode>>

-----------------------------------------------------------------------------
(* Failures.                                                               *)

(* A system call fails: an append removes its temporary name, if it can.   *)
CallFails(p) ==
  /\ ~At(p, "idle")
  /\ \/ UNCHANGED <<temps, ghosts>>
     \/ /\ pr[p].pc \in {"write", "seal", "link", "drop", "sync", "cache"}
        /\ temps' = temps \ {pr[p].rec}
        /\ ghosts' = ghosts \cup (temps \cap {pr[p].rec})
  /\ Release(p)
  /\ UNCHANGED <<finals, synced, inode, acked>>

Crash(p) ==
  /\ ~At(p, "idle")
  /\ Release(p)
  /\ UNCHANGED <<directory, inode, acked>>

(* Nothing runs after a power failure.  Events that were not fsynced may   *)
(* be gone, removed names may be back, unsynced content may be torn.       *)
PowerFailure ==
  /\ \E n \in synced..Len(finals) : finals' = SubSeq(finals, 1, n) /\ synced' = n
  /\ temps' \in SUBSET (temps \cup ghosts)
  /\ ghosts' = {}
  /\ inode' = [r \in Records |-> IF inode[r] = "written" THEN "partial" ELSE inode[r]]
  /\ locked' = {}
  /\ pr' = [p \in Procs |-> Idle]
  /\ UNCHANGED acked

-----------------------------------------------------------------------------
Init ==
  /\ finals = <<>> /\ temps = {} /\ ghosts = {}
  /\ inode = [r \in Records |-> "none"]
  /\ synced = 0
  /\ locked = {}
  /\ acked = 0
  /\ pr = [p \in Procs |-> Idle]

Load(p) ==
  \/ Lock(p) \/ ListTemps(p) \/ StatTemp(p) \/ UnlinkTemp(p) \/ EndCleanup(p)
  \/ LoadEventChain(p) \/ EndLoad(p)

AppendEvent(p) ==
  \/ CreateTemp(p) \/ WriteTemp(p) \/ SealTemp(p) \/ LinkEvent(p) \/ DropTemp(p)
  \/ SyncDirectory(p) \/ ReturnAppend(p)

Next ==
  \/ \E p \in Procs : Load(p) \/ AppendEvent(p) \/ CallFails(p) \/ Crash(p)
  \/ PowerFailure

Spec == Init /\ [][Next]_vars

-----------------------------------------------------------------------------
(* Properties.                                                             *)

(* The state is well typed, and the flock is held by the processes that    *)
(* are between taking and releasing it: one writer, or any readers.        *)
TypeOK ==
  /\ finals \in Seq(Records)
  /\ temps \subseteq Records /\ ghosts \subseteq Records
  /\ inode \in [Records -> {"none", "partial", "written", "sealed"}]
  /\ synced \in 0..Len(finals)
  /\ acked \in Nat
  /\ pr \in [Procs -> Locals]
  /\ locked \subseteq Procs
  /\ \A p \in Procs : p \in locked <=> ~At(p, "idle")
  /\ \A p \in Writers : p \in locked => locked = {p}

(* Every event a loader can see is complete and durable in content, after  *)
(* any crash, failed call or power failure.                                *)
EventsAreWhole == \A n \in DOMAIN finals : inode[finals[n]] = "sealed"

(* A temporary file a live append works on is nobody else's to remove.     *)
LiveTempIsKept ==
  \A p \in Writers : pr[p].pc \in {"write", "seal", "link", "drop"} => pr[p].rec \in temps

(* Files and temporary files agree with what the appends have done.        *)
FilesAreSound == EventsAreWhole /\ LiveTempIsKept

(* A load under the exclusive lock never reports corruption, whatever the  *)
(* processes before it left behind.                                        *)
ExclusiveLoadSucceeds == \A p \in Writers : ~At(p, "corrupt")

(* A load that succeeds under either lock shows the whole chain.           *)
LoadIsCurrent ==
  \A p \in Procs : At(p, "loaded") => pr[p].seen = Len(finals) /\ acked <= pr[p].seen

(* A read-only load neither creates nor repairs anything: that is what     *)
(* read_repair_snapshot says of itself, and the code does not keep it.     *)
ReadersRepairNothing ==
  [][\A p \in Readers : Load(p) => UNCHANGED <<finals, temps>>]_vars

(* The event files implement a log that keeps what was acknowledged.       *)
Durable == INSTANCE DurableLog WITH log <- finals
KeepsAcknowledged == Durable!Spec
=============================================================================
