------------------------ MODULE PublicationRecords ------------------------
(***************************************************************************)
(* The records of one GitHub publication, call by call.                    *)
(*                                                                         *)
(* A proposal has a directory with the files binding.json, proposal.json,  *)
(* approval.json, branch.json and result.json.  Each is written once: a    *)
(* temporary file is filled, synced, made read-only, synced, linked to its *)
(* name, unlinked, and the directory is synced.  Whoever opens the         *)
(* directory next clears what a dead writer left.  All of it happens under *)
(* the lock of the state root, which the kernel gives back when a process  *)
(* dies.                                                                   *)
(*                                                                         *)
(* Directory operations reach the disk in their order, at some time until  *)
(* the next sync of the directory.  A power failure leaves the last synced *)
(* state or the present one; a state in between is what an earlier power   *)
(* failure leaves.  Of a file that is not synced it may leave less than    *)
(* was written, or the old mode.                                           *)
(***************************************************************************)
EXTENDS Naturals, FiniteSets

CONSTANTS
  Processes,   \* processes that work on this proposal
  Repair,      \* TRUE for a repair proposal, FALSE for a check
  PowerBound,  \* bound: how many power failures there are
  None         \* no process, no file

ProcessesAssumption ==
  /\ None \notin Processes /\ "proposal" \notin Processes /\ None # "proposal"

ParametersAssumption == Repair \in BOOLEAN /\ PowerBound \in Nat

(* The records, what each needs, and what must not be there before it.     *)
Names == {"proposal", "approval", "result"} \cup
         (IF Repair THEN {"binding", "branch"} ELSE {})

Needs == [n \in Names |->
            CASE n = "binding"  -> {}
              [] n = "proposal" -> IF Repair THEN {"binding"} ELSE {}
              [] n = "approval" -> {"proposal"}
              [] OTHER          -> {"proposal", "approval"}]

Bars == [n \in Names |-> IF n = "branch" THEN {"result"} ELSE {}]

(* What a process would write: the proposal is the same for everybody; the *)
(* session, the approval and the results are its own.                      *)
Values == Processes \cup {"proposal"}
ValueOf(p, n) == IF n = "proposal" THEN "proposal" ELSE p

(* A file: how much of it and which mode there is, and is on disk.         *)
Sizes == {"none", "part", "full"}
Modes == {"rw", "ro"}
Files == [name : Names, value : Values,
          size : Sizes, mode : Modes, diskSize : Sizes, diskMode : Modes]

(* None is neither a record nor a file.                                    *)
FilesAssumption == None \notin Names /\ None \notin Files

NewFile(p, n) == [name |-> n, value |-> ValueOf(p, n), size |-> "none", mode |-> "rw",
                  diskSize |-> "none", diskMode |-> "rw"]

(* The directories down to the proposal and the lock files in them, in the *)
(* order of their creation.                                                *)
Path == <<"github", "manager.lock", "alias", "publisher.lock",
          "publications", "proposal", "publication.lock">>
Depth == 7
LockEntries == {2, 4, 7}

VARIABLES
  path,      \* how many entries of Path exist
  records,   \* records[n]: the file with this name, or None
  temp,      \* the temporary file, or None; it may be linked to its record
  disk,      \* path and records when the directory was last synced
  kept,      \* records that are durable (history)
  broken,    \* commands that were told the state is corrupt (history)
  failures,  \* how many power failures there were
  lock,      \* the process that holds the root lock
  pr         \* program counter and locals of every process

directory == <<path, records, temp>>
history == <<kept, broken>>
vars == <<directory, disk, history, failures, lock, pr>>

Pcs == {"idle", "open", "open_sync", "recover", "recover_sync", "load", "choose",
        "create", "write", "fill", "sync", "chmod", "sync_mode", "link", "unlink",
        "dir_sync", "written"}

Idle == [pc |-> "idle", create |-> FALSE, name |-> None]

At(p, pc) == pr[p].pc = pc
Goto(p, pc) == pr' = [pr EXCEPT ![p].pc = pc] /\ UNCHANGED lock
Return(p) == pr' = [pr EXCEPT ![p] = Idle] /\ lock' = None

Present == {n \in Names : records[n] # None}
Linked == temp # None /\ records[temp.name] # None

(* After a sync of the directory.  A temporary file is never there then.   *)
Synced ==
  /\ disk' = [path |-> path, records |-> records]
  /\ kept' = Present

(* A call that ends because the state is corrupt.  It counts as broken if  *)
(* it would have created what is missing, or if the proposal was durable.  *)
Corrupt(p) ==
  /\ broken' = IF pr[p].create THEN broken \cup {"propose"}
               ELSE IF "proposal" \in kept THEN broken \cup {"load"} ELSE broken
  /\ Return(p)

-----------------------------------------------------------------------------
(* _locked: the lock, the path, the recovery.                              *)

Lock(p) ==
  /\ At(p, "idle")
  /\ lock = None /\ lock' = p
  /\ \E create \in BOOLEAN :
       pr' = [pr EXCEPT ![p] = [Idle EXCEPT !.pc = "open", !.create = create]]
  /\ UNCHANGED <<directory, disk, history, failures>>

(* _open_or_create_directory and _open_state_lock, entry by entry: record_ *)
(* proposal creates what is missing, other calls find nothing or, where    *)
(* only a lock is missing, a corrupt state.                                *)
OpenPath(p) ==
  /\ At(p, "open")
  /\ IF path = Depth
     THEN Goto(p, "recover") /\ UNCHANGED <<directory, disk, history>>
     ELSE \/ /\ pr[p].create
             /\ path' = path + 1
             /\ UNCHANGED <<records, temp, disk, history>>
             /\ Goto(p, "open_sync")
          \/ /\ ~pr[p].create
             /\ IF path + 1 \in LockEntries THEN Corrupt(p) ELSE Return(p) /\ UNCHANGED broken
             /\ UNCHANGED <<directory, disk, kept>>
  /\ UNCHANGED failures

SyncPath(p) ==
  /\ At(p, "open_sync")
  /\ Synced
  /\ Goto(p, "open")
  /\ UNCHANGED <<directory, broken, failures>>

(* _recover_record_temporary: a temporary file with one name was never     *)
(* published; with two it is a whole, read-only record.                    *)
SafeTemporary == ~(temp.mode = "ro" /\ temp.size = "none")
SafeRecord(f) == f.mode = "ro" /\ f.size # "none"

Recover(p) ==
  /\ At(p, "recover")
  /\ IF temp = None
     THEN Goto(p, "load") /\ UNCHANGED <<directory, disk, broken>>
     ELSE IF IF Linked THEN SafeRecord(temp) ELSE SafeTemporary
     THEN /\ temp' = None
          /\ UNCHANGED <<path, records, disk, broken>>
          /\ Goto(p, "recover_sync")
     ELSE Corrupt(p) /\ UNCHANGED <<directory, disk>>
  /\ UNCHANGED <<kept, failures>>

SyncRecovery(p) ==
  /\ At(p, "recover_sync")
  /\ Synced
  /\ Goto(p, "load")
  /\ UNCHANGED <<directory, broken, failures>>

-----------------------------------------------------------------------------
(* _load_status, _validate_loaded_state, and what may be written then.     *)

Readable(n) == records[n] # None => SafeRecord(records[n])

Loadable ==
  /\ \A n \in Names : Readable(n)
  /\ \A n \in Present : Needs[n] \subseteq Present
  /\ "proposal" \in Present

(* _record_proposal: no record without a proposal, no proposal without its *)
(* binding.                                                                *)
Proposable ==
  /\ Readable("proposal") /\ (Repair => Readable("binding"))
  /\ "proposal" \in Present => Needs["proposal"] \subseteq Present
  /\ Present \subseteq {"proposal", "binding"} \/ "proposal" \in Present

(* An equal record may stay as it is.                                      *)
Agrees(p, n) == records[n] # None => records[n].value = ValueOf(p, n)

(* record_proposal goes on with the binding, the others with a load.       *)
Load(p) ==
  /\ At(p, "load")
  /\ IF pr[p].create
     THEN IF ~Proposable THEN Corrupt(p)
          ELSE /\ IF \A n \in Names \cap {"binding", "proposal"} : Agrees(p, n)
                  THEN /\ pr' = [pr EXCEPT ![p].pc = "create",
                                           ![p].name = IF Repair THEN "binding" ELSE "proposal"]
                       /\ UNCHANGED lock
                  ELSE Return(p)
               /\ UNCHANGED broken
     ELSE IF ~Loadable THEN Corrupt(p) ELSE Goto(p, "choose") /\ UNCHANGED broken
  /\ UNCHANGED <<directory, disk, kept, failures>>

(* The holder of the lock reports what it read, writes the next record, or *)
(* leaves.  record_partial_result and record_result need the approval.     *)
Choose(p) ==
  /\ At(p, "choose")
  /\ \/ Return(p)
     \/ \E n \in Names \ {"binding", "proposal"} :
          /\ Needs[n] \subseteq Present
          /\ records[n] = None => Bars[n] \cap Present = {}
          /\ pr' = [pr EXCEPT ![p].pc = "create", ![p].name = n]
          /\ UNCHANGED lock
  /\ UNCHANGED <<directory, disk, history, failures>>

-----------------------------------------------------------------------------
(* _write_cas_record.                                                      *)

(* An equal record is accepted, another one is a conflict.                 *)
CreateTemp(p) ==
  /\ At(p, "create")
  /\ LET n == pr[p].name
     IN  IF records[n] # None
         THEN /\ IF Agrees(p, n) THEN Goto(p, "written") ELSE Return(p)
              /\ UNCHANGED <<directory, disk>>
         ELSE /\ temp' = NewFile(p, n)
              /\ UNCHANGED <<path, records, disk>>
              /\ Goto(p, "write")
  /\ UNCHANGED <<history, failures>>

WriteTemp(p) ==
  /\ pr[p].pc \in {"write", "fill"}
  /\ temp' = [temp EXCEPT !.size = IF At(p, "write") THEN "part" ELSE "full"]
  /\ UNCHANGED <<path, records, disk>>
  /\ Goto(p, IF At(p, "write") THEN "fill" ELSE "sync")
  /\ UNCHANGED <<history, failures>>

(* Bug: the file is not synced.                                            *)
SyncTempNever(p) ==
  /\ pr[p].pc \in {"sync", "sync_mode"}
  /\ UNCHANGED <<directory, disk>>
  /\ Goto(p, IF At(p, "sync") THEN "chmod" ELSE "link")
  /\ UNCHANGED <<history, failures>>

(* The two syncs of the file, before and after the change of its mode.     *)
SyncTemp(p) ==
  /\ pr[p].pc \in {"sync", "sync_mode"}
  /\ temp' = [temp EXCEPT !.diskSize = temp.size, !.diskMode = temp.mode]
  /\ UNCHANGED <<path, records, disk>>
  /\ Goto(p, IF At(p, "sync") THEN "chmod" ELSE "link")
  /\ UNCHANGED <<history, failures>>

ChmodTemp(p) ==
  /\ At(p, "chmod")
  /\ temp' = [temp EXCEPT !.mode = "ro"]
  /\ UNCHANGED <<path, records, disk>>
  /\ Goto(p, "sync_mode")
  /\ UNCHANGED <<history, failures>>

LinkRecord(p) ==
  /\ At(p, "link")
  /\ records' = [records EXCEPT ![temp.name] = temp]
  /\ UNCHANGED <<path, temp, disk>>
  /\ Goto(p, "unlink")
  /\ UNCHANGED <<history, failures>>

UnlinkTemp(p) ==
  /\ At(p, "unlink")
  /\ temp' = None
  /\ UNCHANGED <<path, records, disk>>
  /\ Goto(p, "dir_sync")
  /\ UNCHANGED <<history, failures>>

(* Bug: the directory is not synced, though the record is taken as kept.   *)
SyncDirectoryNever(p) ==
  /\ At(p, "dir_sync")
  /\ kept' = Present
  /\ Goto(p, "written")
  /\ UNCHANGED <<directory, disk, broken, failures>>

SyncDirectory(p) ==
  /\ At(p, "dir_sync")
  /\ Synced
  /\ Goto(p, "written")
  /\ UNCHANGED <<directory, broken, failures>>

(* The call succeeds; record_proposal goes on with the proposal.           *)
Written(p) ==
  /\ At(p, "written")
  /\ IF pr[p].name = "binding"
     THEN pr' = [pr EXCEPT ![p].pc = "create", ![p].name = "proposal"]
     ELSE pr' = [pr EXCEPT ![p].pc = "load", ![p].create = FALSE]
  /\ UNCHANGED <<directory, disk, history, failures, lock>>

-----------------------------------------------------------------------------
(* Faults.                                                                 *)

(* A call fails: a temporary file that is not linked is removed, unless    *)
(* that fails too.                                                         *)
CallFails(p) ==
  /\ ~At(p, "idle")
  /\ Return(p)
  /\ \/ UNCHANGED <<directory, disk>>
     \/ /\ pr[p].pc \in {"write", "fill", "sync", "chmod", "sync_mode", "link"}
        /\ temp' = None
        /\ UNCHANGED <<path, records, disk>>
  /\ UNCHANGED <<history, failures>>

Crash(p) ==
  /\ ~At(p, "idle")
  /\ Return(p)
  /\ UNCHANGED <<directory, disk, history, failures>>

(* What is left of a file.                                                 *)
Left(f, data, mode) ==
  IF f = None THEN None
  ELSE LET s == IF data THEN f.size ELSE f.diskSize
           m == IF mode THEN f.mode ELSE f.diskMode
       IN  [f EXCEPT !.size = s, !.mode = m, !.diskSize = s, !.diskMode = m]

PowerFailure ==
  /\ failures < PowerBound
  /\ failures' = failures + 1
  /\ \/ path' = disk.path /\ records' = disk.records /\ temp' = None
     \/ \E data \in BOOLEAN, mode \in BOOLEAN :
          /\ records' = [n \in Names |-> Left(records[n], data, mode)]
          /\ temp' = Left(temp, data, mode)
          /\ UNCHANGED path
  /\ disk' = [path |-> path', records |-> records']
  /\ kept' = {n \in Names : records'[n] # None}
  /\ lock' = None
  /\ pr' = [p \in Processes |-> Idle]
  /\ UNCHANGED broken

-----------------------------------------------------------------------------
Init ==
  /\ path = 0 /\ records = [n \in Names |-> None] /\ temp = None
  /\ disk = [path |-> path, records |-> records]
  /\ kept = {} /\ broken = {}
  /\ failures = 0
  /\ lock = None
  /\ pr = [p \in Processes |-> Idle]

Next ==
  \/ \E p \in Processes :
       \/ Lock(p) \/ OpenPath(p) \/ SyncPath(p) \/ Recover(p) \/ SyncRecovery(p)
       \/ Load(p) \/ Choose(p) \/ CreateTemp(p) \/ WriteTemp(p) \/ SyncTemp(p)
       \/ ChmodTemp(p) \/ LinkRecord(p) \/ UnlinkTemp(p) \/ SyncDirectory(p) \/ Written(p)
       \/ CallFails(p) \/ Crash(p)
  \/ PowerFailure

Spec == Init /\ [][Next]_vars

-----------------------------------------------------------------------------
(* Safety.                                                                 *)

TypeOK ==
  /\ path \in 0..Depth
  /\ records \in [Names -> Files \cup {None}]
  /\ temp \in Files \cup {None}
  /\ disk \in [path : 0..Depth, records : [Names -> Files \cup {None}]]
  /\ kept \subseteq Names /\ broken \subseteq {"propose", "load"}
  /\ failures \in 0..PowerBound
  /\ lock \in Processes \cup {None}
  /\ \A p \in Processes :
       /\ pr[p].pc \in Pcs /\ pr[p].create \in BOOLEAN /\ pr[p].name \in Names \cup {None}
       /\ At(p, "idle") <=> lock # p

(* Under its name a record is always whole and read-only, and on disk so   *)
(* before it gets its name.                                                *)
RecordsAreWhole ==
  \A n \in Present :
    /\ records[n].size = "full" /\ records[n].diskSize = "full"
    /\ records[n].mode = "ro" /\ records[n].diskMode = "ro"

(* Whatever a crash, a failed call or a power failure leaves, the proposal *)
(* can be recorded again, and what has been durable can be loaded.         *)
NothingIsBroken == broken = {}

(* The files implement records that are written once, in order, and never  *)
(* lost after their directory was synced.                                  *)
Records == INSTANCE WriteOnceRecords
             WITH record <- [n \in Names |-> IF records[n] = None THEN None ELSE records[n].value]

ImplementsRecords == Records!Spec
=============================================================================
