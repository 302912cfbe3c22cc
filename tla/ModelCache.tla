------------------------------ MODULE ModelCache ------------------------------
(***************************************************************************)
(* _initialize_fastembed of _embedding.py: the fixed embedding model is     *)
(* found in, or downloaded into, a cache directory of the caller, copied    *)
(* into a private snapshot, loaded from there and bound to the provider.    *)
(*                                                                         *)
(* Callers in the threads of one process exclude each other by _MODEL_LOCK; *)
(* processes that share the cache directory do not.  A file is an inode     *)
(* with a few blocks, and the names temp, partial/ and model/ refer to      *)
(* inodes, so that a process may go on writing to a file that another one   *)
(* has renamed.                                                             *)
(***************************************************************************)
EXTENDS Integers, Sequences, FiniteSets

CONSTANTS
  Callers,      \* the calls of _initialize_fastembed, one thread each
  Process,      \* the process a caller is a thread of
  MayDownload,  \* the callers with allow_download
  Files,        \* the number of files of the manifest
  Blocks,       \* the number of blocks of a file
  Network       \* what a block of a response may be: "good", perhaps "bad"

CallersAssumption ==
  Process \in [Callers -> {Process[c] : c \in Callers}] /\ MayDownload \subseteq Callers
SizeAssumption == {Files, Blocks} \subseteq Nat \ {0} /\ Network \subseteq {"good", "bad"}

VARIABLES
  content,   \* inode |-> its blocks
  temp,      \* file |-> inode of .<file>.partial in the namespace
  partial,   \* the directory partial/
  model,     \* the directory model/
  modelLock, \* process |-> the holder of its _MODEL_LOCK
  pc,        \* where a caller is
  at,        \* the file a caller is concerned with
  handle,    \* the inode a caller has open for writing
  stream,    \* what a caller has read of a response
  copy,      \* the snapshot of a caller: file |-> blocks
  snapshot,  \* the snapshot directory of a caller exists
  native,    \* the native model a caller has loaded
  backend    \* provider._backend

store == <<content, temp, partial, model>>
vars == <<content, temp, partial, model, modelLock, pc, at, handle, stream,
          copy, snapshot, native, backend>>

None == <<>>
Items == 1 .. Files
Inodes == Callers \X Items
Empty == [b \in 1 .. Blocks |-> "none"]
Right == [b \in 1 .. Blocks |-> "good"]
NoDirectory == [made |-> FALSE, has |-> [f \in Items |-> None]]
Held == {"look", "verify_model", "ensure", "make", "item", "verify_file", "open",
         "read", "replace", "verify_partial", "rename", "snapshot", "copy",
         "device", "tokenizer", "embedding", "check", "bind"}
Idle == {"start", "ended", "dead"}
Points == Held \cup Idle \cup {"lock", "cleanup"}

Init ==
  /\ content = [i \in Inodes |-> Empty]
  /\ temp = [f \in Items |-> None]
  /\ partial = NoDirectory
  /\ model = NoDirectory
  /\ modelLock = [p \in {Process[c] : c \in Callers} |-> None]
  /\ pc = [c \in Callers |-> "start"]
  /\ at = [c \in Callers |-> 1]
  /\ handle = [c \in Callers |-> None]
  /\ stream = [c \in Callers |-> <<>>]
  /\ copy = [c \in Callers |-> [f \in Items |-> Empty]]
  /\ snapshot = [c \in Callers |-> FALSE]
  /\ native = [c \in Callers |-> FALSE]
  /\ backend = [c \in Callers |-> "unbound"]

Goto(c, point) == pc' = [pc EXCEPT ![c] = point]
At(c, f) == at' = [at EXCEPT ![c] = f]
KeepStore == UNCHANGED store
KeepLoad == UNCHANGED <<copy, snapshot, native, backend>>
KeepDownload == UNCHANGED <<handle, stream>>
KeepLock == UNCHANGED modelLock

-----------------------------------------------------------------------------
Start(c) ==
  /\ pc[c] = "start"
  /\ Goto(c, "lock")
  /\ UNCHANGED <<at>> /\ KeepStore /\ KeepLoad /\ KeepDownload /\ KeepLock

Lock(c) ==
  /\ pc[c] = "lock"
  /\ modelLock[Process[c]] = None
  /\ modelLock' = [modelLock EXCEPT ![Process[c]] = <<c>>]
  /\ Goto(c, "look")
  /\ UNCHANGED at /\ KeepStore /\ KeepLoad /\ KeepDownload

(* acquire(timeout=remaining) returns false: nothing has been touched yet.  *)
LockTimesOut(c) ==
  /\ pc[c] = "lock"
  /\ modelLock[Process[c]] # None
  /\ Goto(c, "ended")
  /\ UNCHANGED at /\ KeepStore /\ KeepLoad /\ KeepDownload /\ KeepLock

(* Any step under the lock may fail or find the deadline exceeded; the last *)
(* of them, before the provider is bound, is the removal of the snapshot.   *)
Fail(c) ==
  /\ pc[c] \in Held
  /\ Goto(c, "cleanup")
  /\ UNCHANGED at /\ KeepStore /\ KeepLoad /\ KeepDownload /\ KeepLock

(* _prepare_model_directory *)
Look(c) ==
  /\ pc[c] = "look"
  /\ Goto(c, IF model.made THEN "verify_model"
             ELSE IF c \in MayDownload THEN "ensure" ELSE "cleanup")
  /\ UNCHANGED at /\ KeepStore /\ KeepLoad /\ KeepDownload /\ KeepLock

Whole(inode) == inode # None /\ content[inode] = Right
WholeDirectory(directory) == directory.made /\ \A f \in Items : Whole(directory.has[f])

VerifyModel(c) ==
  /\ pc[c] = "verify_model"
  /\ Goto(c, IF WholeDirectory(model) THEN "snapshot" ELSE "cleanup")
  /\ UNCHANGED at /\ KeepStore /\ KeepLoad /\ KeepDownload /\ KeepLock

(* _ensure_directory: the directory is looked for and then made. *)
Ensure(c) ==
  /\ pc[c] = "ensure"
  /\ Goto(c, IF partial.made THEN "item" ELSE "make")
  /\ UNCHANGED at /\ KeepStore /\ KeepLoad /\ KeepDownload /\ KeepLock

Make(c) ==
  /\ pc[c] = "make"
  /\ IF partial.made
       THEN Goto(c, "cleanup") /\ UNCHANGED partial
       ELSE Goto(c, "item") /\ partial' = [NoDirectory EXCEPT !.made = TRUE]
  /\ UNCHANGED <<at, content, temp, model>> /\ KeepLoad /\ KeepDownload /\ KeepLock

(* The next file of the manifest. *)
NextFile(c) ==
  IF at[c] = Files
    THEN Goto(c, "verify_partial") /\ At(c, 1)
    ELSE Goto(c, "item") /\ At(c, at[c] + 1)

Item(c) ==
  /\ pc[c] = "item"
  /\ Goto(c, IF partial.has[at[c]] # None THEN "verify_file" ELSE "open")
  /\ UNCHANGED at /\ KeepStore /\ KeepLoad /\ KeepDownload /\ KeepLock

VerifyFile(c) ==
  /\ pc[c] = "verify_file"
  /\ IF Whole(partial.has[at[c]])
       THEN NextFile(c)
       ELSE Goto(c, "cleanup") /\ UNCHANGED at
  /\ KeepStore /\ KeepLoad /\ KeepDownload /\ KeepLock

(* O_CREAT | O_TRUNC: the file of another process is emptied and shared.    *)
Open(c) ==
  /\ pc[c] = "open"
  /\ LET inode == IF temp[at[c]] = None THEN <<c, at[c]>> ELSE temp[at[c]]
     IN  /\ temp' = [temp EXCEPT ![at[c]] = inode]
         /\ content' = [content EXCEPT ![inode] = Empty]
         /\ handle' = [handle EXCEPT ![c] = inode]
  /\ stream' = [stream EXCEPT ![c] = <<>>]
  /\ Goto(c, "read")
  /\ UNCHANGED <<at, partial, model>> /\ KeepLoad /\ KeepLock

Read(c) ==
  /\ pc[c] = "read"
  /\ Len(stream[c]) < Blocks
  /\ \E block \in Network :
       /\ stream' = [stream EXCEPT ![c] = Append(@, block)]
       /\ content' = [content EXCEPT ![handle[c]][Len(stream[c]) + 1] = block]
  /\ UNCHANGED <<pc, at, temp, partial, model, handle>> /\ KeepLoad /\ KeepLock

(* The digest is that of what was received, not of what is in the file.     *)
Received(c) == stream[c] = Right

Close(c) ==
  /\ pc[c] = "read"
  /\ Len(stream[c]) = Blocks
  /\ Goto(c, IF Received(c) THEN "replace" ELSE "cleanup")
  /\ UNCHANGED at /\ KeepStore /\ KeepLoad /\ KeepDownload /\ KeepLock

(* os.replace goes by the name: what is there now becomes the file. *)
Replace(c) ==
  /\ pc[c] = "replace"
  /\ IF temp[at[c]] # None /\ partial.made
       THEN /\ partial' = [partial EXCEPT !.has[at[c]] = temp[at[c]]]
            /\ temp' = [temp EXCEPT ![at[c]] = None]
            /\ Goto(c, "verify_file")
       ELSE Goto(c, "cleanup") /\ UNCHANGED <<partial, temp>>
  /\ UNCHANGED <<at, content, model>> /\ KeepLoad /\ KeepDownload /\ KeepLock

VerifyPartial(c) ==
  /\ pc[c] = "verify_partial"
  /\ Goto(c, IF WholeDirectory(partial) THEN "rename" ELSE "cleanup")
  /\ UNCHANGED at /\ KeepStore /\ KeepLoad /\ KeepDownload /\ KeepLock

(* Onto a directory that is not empty, rename fails with EEXIST or with     *)
(* ENOTEMPTY, as the file system likes; only the first is a FileExistsError *)
Rename(c) ==
  /\ pc[c] = "rename"
  /\ \/ /\ partial.made /\ ~model.made
        /\ model' = partial
        /\ partial' = NoDirectory
        /\ Goto(c, "verify_model")
     \/ /\ model.made \/ ~partial.made
        /\ Goto(c, "cleanup")
        /\ UNCHANGED <<model, partial>>
     \/ /\ model.made /\ partial.made
        /\ Goto(c, "verify_model")
        /\ UNCHANGED <<model, partial>>
  /\ UNCHANGED <<at, content, temp>> /\ KeepLoad /\ KeepDownload /\ KeepLock

-----------------------------------------------------------------------------
(* _snapshot_model_directory: the digest of each file is checked once more, *)
(* of the bytes that are copied.                                            *)
Snapshot(c) ==
  /\ pc[c] = "snapshot"
  /\ snapshot' = [snapshot EXCEPT ![c] = TRUE]
  /\ Goto(c, "copy")
  /\ At(c, 1)
  /\ UNCHANGED <<copy, native, backend>> /\ KeepStore /\ KeepDownload /\ KeepLock

Copied(c) ==
  LET inode == model.has[at[c]]
  IN  /\ inode # None
      /\ content[inode] = Right

Copy(c) ==
  /\ pc[c] = "copy"
  /\ IF Copied(c)
       THEN /\ copy' = [copy EXCEPT ![c][at[c]] = content[model.has[at[c]]]]
            /\ IF at[c] = Files
                 THEN Goto(c, "device") /\ UNCHANGED at
                 ELSE UNCHANGED pc /\ At(c, at[c] + 1)
       ELSE Goto(c, "cleanup") /\ UNCHANGED <<copy, at>>
  /\ UNCHANGED <<snapshot, native, backend>> /\ KeepStore /\ KeepDownload /\ KeepLock

(* The device, the tokenizer, the model and the provider it really uses.    *)
Load(c) ==
  /\ pc[c] \in {"device", "tokenizer", "embedding", "check"}
  /\ Goto(c, CASE pc[c] = "device" -> "tokenizer"
               [] pc[c] = "tokenizer" -> "embedding"
               [] pc[c] = "embedding" -> "check"
               [] pc[c] = "check" -> "bind")
  /\ native' = [native EXCEPT ![c] = @ \/ pc[c] = "embedding"]
  /\ UNCHANGED <<at, copy, snapshot, backend>> /\ KeepStore /\ KeepDownload /\ KeepLock

Unlocked(c) == modelLock' = [modelLock EXCEPT ![Process[c]] = None]

(* The end of a call that failed: the snapshot is removed, or it stays if   *)
(* that fails, because nobody tries again; the model is released, and the   *)
(* provider can never be initialized again.                                 *)
Cleanup(c) ==
  /\ pc[c] = "cleanup"
  /\ snapshot' \in {snapshot, [snapshot EXCEPT ![c] = FALSE]}
  /\ native' = [native EXCEPT ![c] = FALSE]
  /\ backend' = [backend EXCEPT ![c] = "closed"]
  /\ handle' = [handle EXCEPT ![c] = None]
  /\ Goto(c, "ended")
  /\ Unlocked(c)
  /\ UNCHANGED <<at, copy, stream>> /\ KeepStore

(* A call succeeds only if its snapshot could be removed.                   *)
Bind(c) ==
  /\ pc[c] = "bind"
  /\ snapshot' = [snapshot EXCEPT ![c] = FALSE]
  /\ backend' = [backend EXCEPT ![c] = "live"]
  /\ Goto(c, "ended")
  /\ Unlocked(c)
  /\ UNCHANGED <<at, copy, native>> /\ KeepStore /\ KeepDownload

(* The process dies: its threads stop, its files stay as they are.          *)
Crash(p) ==
  /\ \E c \in Callers : Process[c] = p /\ pc[c] \notin Idle
  /\ pc' = [c \in Callers |-> IF Process[c] = p THEN "dead" ELSE pc[c]]
  /\ handle' = [c \in Callers |-> IF Process[c] = p THEN None ELSE handle[c]]
  /\ native' = [c \in Callers |-> Process[c] # p /\ native[c]]
  /\ modelLock' = [modelLock EXCEPT ![p] = None]
  /\ UNCHANGED <<at, stream, copy, snapshot, backend>> /\ KeepStore

Step(c) ==
  \/ Lock(c) \/ Look(c) \/ VerifyModel(c) \/ Ensure(c) \/ Make(c) \/ Item(c)
  \/ VerifyFile(c) \/ Open(c) \/ Read(c) \/ Close(c) \/ Replace(c)
  \/ VerifyPartial(c) \/ Rename(c) \/ Snapshot(c) \/ Copy(c) \/ Load(c)
  \/ Cleanup(c) \/ Bind(c)

Next ==
  \/ \E c \in Callers : Start(c) \/ Step(c) \/ LockTimesOut(c) \/ Fail(c)
  \/ \E p \in DOMAIN modelLock : Crash(p)

Spec == Init /\ [][Next]_vars

(* The threads run and the server answers.  Neither a failure nor a timeout *)
(* is owed to a caller.                                                     *)
Fairness == \A c \in Callers : WF_vars(Step(c)) /\ SF_vars(Lock(c))
FairSpec == Spec /\ Fairness

-----------------------------------------------------------------------------
Kinds == {"none", "good", "bad"}
Directories == [made : BOOLEAN, has : [Items -> Inodes \cup {None}]]
TypeOK ==
  /\ content \in [Inodes -> [1 .. Blocks -> Kinds]]
  /\ temp \in [Items -> Inodes \cup {None}]
  /\ partial \in Directories
  /\ model \in Directories
  /\ \A p \in DOMAIN modelLock : modelLock[p] \in {None} \cup {<<c>> : c \in Callers}
  /\ pc \in [Callers -> Points]
  /\ at \in [Callers -> Items]
  /\ handle \in [Callers -> Inodes \cup {None}]
  /\ \A c \in Callers : Len(stream[c]) <= Blocks
  /\ {snapshot, native} \subseteq [Callers -> BOOLEAN]
  /\ backend \in [Callers -> {"unbound", "live", "closed"}]
  /\ \A c \in Callers : pc[c] = "read" => handle[c] # None

(***************************************************************************)
(* What is loaded has been copied from files with the digests of the        *)
(* manifest, whatever other processes do to the files of the cache after    *)
(* the directory was verified (_embedding.py:631).                          *)
(***************************************************************************)
LoadedIsExact ==
  \A c \in Callers :
    native[c] \/ backend[c] = "live" => \A f \in Items : copy[c][f] = Right

(***************************************************************************)
(* A call that has ended has given back the lock.  It holds a native model  *)
(* exactly when the provider is live, and a call that made the provider     *)
(* live has left no snapshot; one that failed may have (_embedding.py:193). *)
(***************************************************************************)
InitializationIsAtomic ==
  \A c \in Callers : pc[c] = "ended" =>
    /\ modelLock[Process[c]] # <<c>>
    /\ native[c] <=> backend[c] = "live"
    /\ backend[c] = "live" => ~snapshot[c]
=============================================================================
