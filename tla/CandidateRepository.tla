------------------------ MODULE CandidateRepository -------------------------
(***************************************************************************)
(* How a repair candidate is built, kept, opened again and read:           *)
(*                                                                         *)
(*   propose    capture HEAD, copy its objects to an isolated repository,  *)
(*              apply one or two patches to its index, fix the commit,     *)
(*              harden the files, export the ordinary files for the        *)
(*              sandbox, and only then persist the candidate;              *)
(*   recover    open the persisted candidate and read its tree again;      *)
(*   apply      open it once more and push its commit;                     *)
(*   publish    read a blob of the applied commit from the source alone.   *)
(*                                                                         *)
(* The source repository belongs to the user: its HEAD moves, its objects  *)
(* are pruned, its directory is replaced, the repair ref is moved or       *)
(* deleted, at any moment.  Every call of git and of the file system can   *)
(* fail, and the process can die.  A commit is the tree it names and its   *)
(* parent: object ids do not collide.                                      *)
(***************************************************************************)
EXTENDS Naturals, Sequences, FiniteSets

CONSTANTS
  Paths,       \* paths of the repository
  Contents,    \* contents of a file
  MaxChanged,  \* paths a candidate may change
  MoveBound,   \* bound: things that happen to the source
  CrashBound   \* bound: deaths of the process

CONSTANT None  \* no such file, tree, commit

NoneAssumption == None \notin Contents
BoundsAssumption == MaxChanged \in Nat /\ MoveBound \in Nat /\ CrashBound \in Nat

VARIABLES
  head,      \* the commit the session is about: contents of every path
  kind,      \* what a path is in it: file, link or module
  source,    \* the user's repository: HEAD at that commit, objects there, same directory
  ref,       \* the repair ref in it: a commit or None
  patches,   \* the patches applied so far, in order
  repo,      \* the isolated repository: index, worktree, tree, diff, commit, modes
  export,    \* the files of candidate-input
  todo,      \* paths still to export
  candidate, \* the persisted candidate, or None
  pc, job,   \* the step the process is at, and what it was asked for
  result,    \* what came of it
  blob,      \* the content read for publication
  moves, crashes

inputs == <<head, kind>>
world == <<source, ref, moves>>
disk == <<repo, export, candidate>>
vars == <<inputs, world, disk, patches, todo, pc, job, result, blob, crashes>>

Trees == [Paths -> Contents \cup {None}]
NoTree == [p \in Paths |-> None]
Absent == [made |-> FALSE, objects |-> FALSE, controls |-> FALSE, index |-> NoTree, worktree |-> {},
           tree |-> NoTree, diff |-> {}, commit |-> None, modes |-> FALSE]

(* A patch: for the paths it touches, a new file or a change of content.   *)
Edits == [new : {TRUE}, to : Contents]
           \cup {e \in [new : {FALSE}, from : Contents, to : Contents] : e.from # e.to}
Patches == UNION {[S -> Edits] : S \in (SUBSET Paths) \ {{}}}

CommitOf(tree) == [tree |-> tree, parent |-> head]
Changed(tree) == {p \in Paths : tree[p] # head[p]}
Ordinary(tree) == {p \in Paths : tree[p] # None /\ kind[p] = "file"}

Goto(next) == pc' = next
Say(r) == result' = r /\ Goto("idle")
Busy == pc # "idle"

(* A step of the code: it goes on, or it fails and leaves the rest.        *)
Step(at, next, ok) ==
  /\ pc = at /\ ok /\ Goto(next)
  /\ UNCHANGED <<inputs, world, job, result, blob, crashes>>

-----------------------------------------------------------------------------
(* Capturing the source.                                                   *)

(* The request freezes the commit; HEAD is looked at before and after the  *)
(* tree is read when the session is made.                                  *)
CaptureRepository ==
  /\ Step("capture", "revalidate", source.objects)
  /\ UNCHANGED <<disk, patches, todo>>

(* _revalidate_source: same directories, the commit and its whole tree.    *)
SourceIntact == source.objects /\ source.same

RevalidateSource ==
  /\ Step("revalidate", "init", SourceIntact)
  /\ UNCHANGED <<disk, patches, todo>>

-----------------------------------------------------------------------------
(* The isolated repository.                                                *)

InitializeIsolated ==
  /\ Step("init", "pack", TRUE)
  /\ repo' = [Absent EXCEPT !.made = TRUE]
  /\ UNCHANGED <<export, candidate, patches, todo>>

(* The objects are read from the source by their ids.                      *)
CopyExactObjects ==
  /\ Step("pack", "controls", source.objects)
  /\ repo' = [repo EXCEPT !.objects = TRUE]
  /\ UNCHANGED <<export, candidate, patches, todo>>

WriteControls ==
  /\ Step("controls", "readtree", TRUE)
  /\ repo' = [repo EXCEPT !.controls = TRUE]
  /\ UNCHANGED <<export, candidate, patches, todo>>

(* The tree is read back from the copy, into the index and to the files.   *)
ReadTree ==
  /\ Step("readtree", "patch", repo.objects)
  /\ repo' = [repo EXCEPT !.index = head, !.worktree = {p \in Paths : head[p] # None}]
  /\ UNCHANGED <<export, candidate, patches, todo>>

(* Every patch is judged by the commit, then applied to the index as the   *)
(* patches before it have left it.                                         *)
PreconditionsHold(patch) ==
  \A p \in DOMAIN patch :
    IF patch[p].new THEN head[p] = None ELSE head[p] # None /\ kind[p] = "file"

Applies(patch, index) ==
  \A p \in DOMAIN patch : index[p] = IF patch[p].new THEN None ELSE patch[p].from

Patched(patch, index) ==
  [p \in Paths |-> IF p \in DOMAIN patch THEN patch[p].to ELSE index[p]]

(* One or two patches: the fixed one of the plan, then the provider's.     *)
ApplyPatch ==
  /\ Len(patches) < 2
  /\ \E patch \in Patches, next \in {"patch", "diff"} :
       /\ Step("patch", next, PreconditionsHold(patch) /\ Applies(patch, repo.index))
       /\ repo' = [repo EXCEPT !.index = Patched(patch, repo.index)]
       /\ patches' = Append(patches, patch)
  /\ UNCHANGED <<export, candidate, todo>>

(* Bug: every path a patch touches counts as changed.                      *)
ReadDiffTouched ==
  /\ Step("diff", "commit", Changed(repo.index) # {} /\ Cardinality(Changed(repo.index)) <= MaxChanged)
  /\ repo' = [repo EXCEPT !.diff = UNION {DOMAIN patches[i] : i \in DOMAIN patches}]
  /\ UNCHANGED <<export, candidate, patches, todo>>

(* The diff and the changed paths of the index against the commit.  Files  *)
(* that did not change do not count; a candidate without a change is none. *)
ReadDiff ==
  /\ Step("diff", "commit", Changed(repo.index) # {} /\ Cardinality(Changed(repo.index)) <= MaxChanged)
  /\ repo' = [repo EXCEPT !.diff = Changed(repo.index)]
  /\ UNCHANGED <<export, candidate, patches, todo>>

WriteCommit ==
  /\ Step("commit", "checkout", TRUE)
  /\ repo' = [repo EXCEPT !.tree = repo.index, !.commit = CommitOf(repo.index)]
  /\ UNCHANGED <<export, candidate, patches, todo>>

CheckoutIndex ==
  /\ Step("checkout", "verify", TRUE)
  /\ repo' = [repo EXCEPT !.worktree = {p \in Paths : repo.index[p] # None}]
  /\ UNCHANGED <<export, candidate, patches, todo>>

VerifyIndexTree ==
  /\ Step("verify", "harden", repo.index = repo.tree)
  /\ UNCHANGED <<disk, patches, todo>>

(* Exactly the ordinary files of the commit and of the changed paths, and  *)
(* nothing that is neither a file nor a directory.                         *)
ExpectedFiles == {p \in Paths : head[p] # None /\ kind[p] = "file"} \cup repo.diff
TreeIsSafe ==
  /\ ~\E p \in repo.worktree : kind[p] = "link"
  /\ {p \in repo.worktree : kind[p] = "file"} = ExpectedFiles

HardenCandidateTree ==
  /\ Step("harden", "files", TreeIsSafe)
  /\ repo' = [repo EXCEPT !.modes = TRUE]
  /\ UNCHANGED <<export, candidate, patches, todo>>

-----------------------------------------------------------------------------
(* The changed files are read from the tree, then every ordinary file is   *)
(* written to candidate-input, one after the other; only then the          *)
(* candidate is persisted.                                                 *)

ReadMaterializedFiles ==
  /\ Step("files", "export", \A p \in repo.diff : p \in Ordinary(repo.tree))
  /\ todo' = Ordinary(repo.tree) /\ export' = [made |-> TRUE, files |-> NoTree]
  /\ UNCHANGED <<repo, candidate, patches>>

WriteProjectionBlob ==
  /\ \E p \in todo :
       /\ export' = [export EXCEPT !.files[p] = repo.tree[p]]
       /\ todo' = todo \ {p}
  /\ Step("export", "export", TRUE)
  /\ UNCHANGED <<repo, candidate, patches>>

EndExport ==
  /\ Step("export", "checkpoint", todo = {})
  /\ UNCHANGED <<disk, patches, todo>>

PersistCandidateCheckpoint ==
  /\ Step("checkpoint", "sandbox", TRUE)
  /\ candidate' = [tree |-> repo.tree, commit |-> repo.commit, changed |-> repo.diff]
  /\ UNCHANGED <<repo, export, patches, todo>>

(* The sandbox is SandboxRun's.                                            *)
ValidateCandidate ==
  /\ pc = "sandbox"
  /\ Say("proposed")
  /\ UNCHANGED <<inputs, world, disk, patches, todo, job, blob, crashes>>

-----------------------------------------------------------------------------
(* Opening a persisted candidate.                                          *)

VerifyHardened ==
  /\ Step("open", "controls2", repo.made /\ repo.modes /\ SourceIntact)
  /\ UNCHANGED <<disk, patches, todo>>

VerifyIsolatedControls ==
  /\ Step("controls2", "verify2", repo.controls)
  /\ UNCHANGED <<disk, patches, todo>>

VerifyCommit ==
  /\ Step("verify2", IF job = "recover" THEN "treefiles" ELSE "push",
          candidate.commit = CommitOf(candidate.tree) /\ repo.objects)
  /\ UNCHANGED <<disk, patches, todo>>

(* _read_candidate_tree_files: what the sandbox has to find in             *)
(* candidate-input.  A link or a module ends the recovery.                 *)
ReadCandidateTreeFiles ==
  /\ pc = "treefiles"
  /\ \A p \in Paths : candidate.tree[p] # None => kind[p] = "file"
  /\ Say("recovered")
  /\ UNCHANGED <<inputs, world, disk, patches, todo, job, blob, crashes>>

(* The push is RepairRef's; here it creates the ref or finds it.           *)
PushCommit ==
  /\ pc = "push"
  /\ source.objects
  /\ IF ref \in {None, candidate.commit}
     THEN ref' = candidate.commit /\ Say("applied")
     ELSE UNCHANGED ref /\ Say("conflict")
  /\ UNCHANGED <<inputs, source, moves, disk, patches, todo, job, blob, crashes>>

-----------------------------------------------------------------------------
(* Reading a blob of the applied commit.                                   *)

(* _inspect_repair_publication: the commit, its parent and its changed     *)
(* paths from the objects of the source, then the ref.                     *)
InspectObjects ==
  /\ Step("inspect", "inspectref",
          source.objects /\ candidate.commit = CommitOf(candidate.tree)
            /\ Changed(candidate.tree) = candidate.changed
            /\ candidate.changed \subseteq Ordinary(candidate.tree))
  /\ UNCHANGED <<disk, patches, todo>>

RefIsOurs == ref = candidate.commit

InspectRef ==
  /\ Step("inspectref", "blobref", RefIsOurs /\ SourceIntact)
  /\ UNCHANGED <<disk, patches, todo>>

BlobRef ==
  /\ Step("blobref", "blob", SourceIntact /\ RefIsOurs)
  /\ UNCHANGED <<disk, patches, todo>>

ReadBlob ==
  /\ pc = "blob" /\ source.objects
  /\ \E p \in candidate.changed : blob' = [path |-> p, content |-> candidate.tree[p]]
  /\ Goto("blobref2")
  /\ UNCHANGED <<inputs, world, disk, patches, todo, job, result, crashes>>

BlobRefAgain ==
  /\ pc = "blobref2" /\ SourceIntact /\ RefIsOurs
  /\ Say("published")
  /\ UNCHANGED <<inputs, world, disk, patches, todo, job, blob, crashes>>

-----------------------------------------------------------------------------
(* Failure.                                                                *)

Materializing ==
  {"init", "pack", "controls", "readtree", "patch", "diff", "commit", "checkout", "verify", "harden"}

(* A candidate that could not be built is hardened as far as it can be; a  *)
(* projection that could not be written is removed.                        *)
StepFails ==
  /\ Busy
  /\ Say("failed")
  /\ repo' = IF pc \in Materializing /\ repo.made THEN [repo EXCEPT !.modes = TRUE] ELSE repo
  /\ export' = IF pc = "export" THEN [made |-> FALSE, files |-> NoTree] ELSE export
  /\ UNCHANGED <<inputs, world, candidate, patches, todo, job, blob, crashes>>

Crash ==
  /\ Busy /\ crashes < CrashBound
  /\ crashes' = crashes + 1
  /\ Say("crashed")
  /\ UNCHANGED <<inputs, world, disk, patches, todo, job, blob>>

-----------------------------------------------------------------------------
(* What is asked of the program.                                           *)

Start(what, at, allowed) ==
  /\ ~Busy /\ allowed
  /\ job' = what /\ Goto(at) /\ result' = "none" /\ blob' = None
  /\ UNCHANGED <<inputs, world, disk, patches, todo, crashes>>

Ask ==
  \/ Start("propose", "capture", job = "none")
  \/ Start("recover", "open", job = "propose" /\ result = "crashed" /\ candidate # None)
  \/ Start("apply", "open", result \in {"proposed", "recovered"})
  \/ Start("publish", "inspect", result = "applied")

(* What the user does to the source meanwhile.  The repair ref keeps the   *)
(* objects of its commit and of the parent.                                *)
Foreign == [tree |-> NoTree, parent |-> NoTree]
SourceMoves ==
  /\ moves < MoveBound /\ moves' = moves + 1
  /\ \/ /\ ref \in {None, Foreign}
        /\ source' = [source EXCEPT !.objects = FALSE] /\ UNCHANGED ref
     \/ source' = [source EXCEPT !.same = ~source.same] /\ UNCHANGED ref
     \/ ref' \in {None, Foreign} \ {ref} /\ UNCHANGED source
  /\ UNCHANGED <<inputs, disk, patches, todo, pc, job, result, blob, crashes>>

(* Links and modules have no content that a patch could change.            *)
Init ==
  /\ head \in Trees /\ kind \in [Paths -> {"file", "link", "module"}]
  /\ \A p \in Paths : kind[p] # "file" => head[p] # None
  /\ patches = <<>>
  /\ source = [objects |-> TRUE, same |-> TRUE] /\ ref = None
  /\ repo = Absent /\ export = [made |-> FALSE, files |-> NoTree] /\ todo = {} /\ candidate = None
  /\ pc = "idle" /\ job = "none" /\ result = "none" /\ blob = None
  /\ moves = 0 /\ crashes = 0

Build ==
  \/ CaptureRepository \/ RevalidateSource \/ InitializeIsolated \/ CopyExactObjects \/ WriteControls
  \/ ReadTree \/ ApplyPatch \/ ReadDiff \/ WriteCommit \/ CheckoutIndex \/ VerifyIndexTree
  \/ HardenCandidateTree \/ ReadMaterializedFiles \/ WriteProjectionBlob \/ EndExport
  \/ PersistCandidateCheckpoint \/ ValidateCandidate

Use ==
  \/ VerifyHardened \/ VerifyIsolatedControls \/ VerifyCommit \/ ReadCandidateTreeFiles \/ PushCommit
  \/ InspectObjects \/ InspectRef \/ BlobRef \/ ReadBlob \/ BlobRefAgain

Over == ~Busy /\ job # "none" /\ UNCHANGED vars

Next == Ask \/ Build \/ Use \/ StepFails \/ Crash \/ SourceMoves \/ Over

Spec == Init /\ [][Next]_vars

-----------------------------------------------------------------------------
(* Properties.                                                             *)

Commits == [tree : Trees, parent : Trees]

(* The type of every variable.                                             *)
TypeOK ==
  /\ head \in Trees /\ kind \in [Paths -> {"file", "link", "module"}]
  /\ source \in [objects : BOOLEAN, same : BOOLEAN] /\ ref \in Commits \cup {None}
  /\ repo.index \in Trees /\ repo.worktree \subseteq Paths /\ repo.tree \in Trees
  /\ repo.diff \subseteq Paths /\ repo.commit \in Commits \cup {None}
  /\ export.made \in BOOLEAN /\ export.files \in Trees
  /\ candidate \in [tree : Trees, commit : Commits, changed : SUBSET Paths] \cup {None}
  /\ result \in {"none", "failed", "crashed", "proposed", "recovered", "applied", "conflict",
                 "published"}
  /\ moves \in 0..MoveBound /\ crashes \in 0..CrashBound

Final ==
  IF Len(patches) = 1 THEN Patched(patches[1], head)
  ELSE Patched(patches[2], Patched(patches[1], head))

(* The candidate is HEAD with the patches, one after the other, whatever   *)
(* happened to the source meanwhile; its changed paths are those whose     *)
(* content differs, all of them ordinary files, and there is at least one. *)
CandidateIsPatchedHead ==
  candidate # None =>
    /\ candidate.tree = Final /\ candidate.commit = [tree |-> Final, parent |-> head]
    /\ candidate.changed = {p \in Paths : Final[p] # head[p]}
    /\ candidate.changed # {} /\ candidate.changed \subseteq Ordinary(Final)

(* A persisted candidate has everything that its recovery and application  *)
(* need, whenever the process died: a hardened repository with its         *)
(* objects, and a candidate-input with exactly the ordinary files of the   *)
(* tree.                                                                   *)
CandidateIsWhole ==
  candidate # None =>
    /\ repo.objects /\ repo.controls /\ repo.modes /\ repo.index = candidate.tree
    /\ export.made
    /\ export.files = [p \in Paths |-> IF p \in Ordinary(candidate.tree) THEN candidate.tree[p] ELSE None]

(* A recovery checks the sandbox against the whole tree: it goes on only   *)
(* if candidate-input has the whole tree, with no link or module left out. *)
RecoveredIsExported == result = "recovered" => export.files = candidate.tree

(* What is read for publication is the content the patches gave the path,  *)
(* and no step after the application reads it under another ref.           *)
PublishedIsApplied ==
  result = "published" =>
    /\ blob.path \in candidate.changed /\ blob.content = Final[blob.path]
    /\ candidate.commit.tree = Final
=============================================================================
