------------------------- MODULE RepairMachineProofs -------------------------
(***************************************************************************)
(* Proofs about RepairMachine.  A behaviour of the machine is about one    *)
(* part from beginning to end, so each part has an inductive invariant of  *)
(* its own: every step of the machine that part takes is a step of that    *)
(* part's module, and preserves it.                                        *)
(***************************************************************************)
EXTENDS RepairMachine, SequenceTheorems, TLAPS

-----------------------------------------------------------------------------
(* What holds between the steps of a candidate's life.                     *)

Trees == Repository!Trees
PatchedBy(patch, t) == Repository!Patched(patch, t)

(* The patches that were applied, one after the other.                     *)
FinalTree ==
  IF Len(patches) = 0 THEN head
  ELSE IF Len(patches) = 1 THEN PatchedBy(patches[1], head)
  ELSE PatchedBy(patches[2], PatchedBy(patches[1], head))

Exported(t, left) ==
  [path \in Paths |->
     IF path \in Repository!Ordinary(t) \ left THEN t[path] ELSE None]

(* The program counters of the steps that build a candidate: those from    *)
(* the objects on, from the controls on, and so forth.                     *)
Ending == {"checkpoint"}
Exporting == {"export"} \cup Ending
Reading == {"files"} \cup Exporting
Committed == {"checkout", "verify", "harden"} \cup Reading
Compared == {"commit"} \cup Committed
Applied == {"diff"} \cup Compared
Patching == {"patch"} \cup Applied
Controlled == {"readtree"} \cup Patching
Copied == {"controls"} \cup Controlled
Made == {"pack"} \cup Copied
Unpatched == {"capture", "revalidate", "init", "pack", "controls", "readtree"}
Building == Unpatched \cup Patching

(* Those of the steps that use it.                                         *)
Using == {"sandbox", "open", "controls2", "verify2", "treefiles", "push", "inspect",
          "inspectref", "blobref", "blob", "blobref2"}

(* The persisted candidate is the final tree, and what it needs is there.  *)
Persisted ==
  /\ candidate = [tree |-> FinalTree, commit |-> [tree |-> FinalTree, parent |-> head],
                  changed |-> Repository!Changed(FinalTree)]
  /\ Repository!Changed(FinalTree) # {}
  /\ Repository!Changed(FinalTree) \subseteq Repository!Ordinary(FinalTree)
  /\ repo.objects /\ repo.controls /\ repo.modes /\ repo.index = FinalTree
  /\ export = [made |-> TRUE, files |-> Exported(FinalTree, {})]
  /\ Len(patches) \in {1, 2}

CandidateTyped ==
  /\ head \in Trees /\ kind \in [Paths -> {"file", "link", "module"}]
  /\ source \in [objects : BOOLEAN, same : BOOLEAN]
  /\ ref \in Repository!Commits \cup {None}
  /\ repo \in [made : BOOLEAN, objects : BOOLEAN, controls : BOOLEAN, index : Trees,
               worktree : SUBSET Paths, tree : Trees, diff : SUBSET Paths,
               commit : Repository!Commits \cup {None}, modes : BOOLEAN]
  /\ export \in [made : BOOLEAN, files : Trees]
  /\ candidate \in [tree : Trees, commit : Repository!Commits, changed : SUBSET Paths]
                   \cup {None}
  /\ patches \in Seq(Repository!Patches) /\ Len(patches) <= 2
  /\ todo \subseteq Paths
  /\ pc \in {"idle"} \cup Building \cup Using
  /\ result \in {"none", "failed", "crashed", "proposed", "recovered", "applied", "conflict",
                 "published"}
  /\ moves \in 0..MoveBound /\ crashes \in 0..CrashBound

(* What the steps so far have brought about.                               *)
CandidateKnows ==
  /\ pc # "idle" => result = "none"
  /\ job = "none" => pc = "idle" /\ result = "none" /\ candidate = None /\ patches = <<>>
  /\ pc \in Building => candidate = None
  /\ pc \in Unpatched => patches = <<>>
  /\ pc \in Applied => Len(patches) \in {1, 2}
  /\ pc \in Controlled => repo.objects /\ repo.controls
  /\ pc \in Copied => repo.objects
  /\ pc \in Patching => repo.index = FinalTree
  /\ pc \in Compared => repo.diff = Repository!Changed(FinalTree) /\ repo.diff # {}
  /\ pc \in Committed =>
       repo.tree = FinalTree /\ repo.commit = [tree |-> FinalTree, parent |-> head]
  /\ pc \in Reading => repo.modes
  /\ pc \in Exporting =>
       /\ repo.diff \subseteq Repository!Ordinary(FinalTree)
       /\ todo \subseteq Repository!Ordinary(FinalTree)
       /\ export = [made |-> TRUE, files |-> Exported(FinalTree, todo)]
  /\ pc \in Ending => todo = {}
  /\ pc = "blobref2" =>
       blob.path \in candidate.changed /\ blob.content = candidate.tree[blob.path]

CandidateOutcome ==
  /\ candidate # None \/ pc \in Using
       \/ result \in {"proposed", "recovered", "applied", "published"} => Persisted
  /\ result = "recovered" => export.files = candidate.tree
  /\ result = "published" =>
       blob.path \in candidate.changed /\ blob.content = candidate.tree[blob.path]

CandidateInv == CandidateTyped /\ CandidateKnows /\ CandidateOutcome

LEMMA TreesPatched ==
  ASSUME NEW patch \in Repository!Patches, NEW t \in Trees
  PROVE  PatchedBy(patch, t) \in Trees
<1>1. ASSUME NEW path \in DOMAIN patch
      PROVE  patch[path].to \in Contents
  BY <1>1 DEF Repository!Patches, Repository!Edits
<1>. QED  BY <1>1 DEF PatchedBy, Repository!Patched, Trees, Repository!Trees

LEMMA FinalIsTree ==
  ASSUME CandidateTyped
  PROVE  FinalTree \in Trees
<1>1. /\ head \in Trees /\ patches \in Seq(Repository!Patches)
      /\ Len(patches) \in Nat /\ Len(patches) <= 2
  BY LenProperties DEF CandidateTyped
<1>2. \A i \in 1..Len(patches) : patches[i] \in Repository!Patches
  BY <1>1, ElementOfSeq
<1>3. CASE Len(patches) = 0
  BY <1>1, <1>3 DEF FinalTree
<1>4. CASE Len(patches) = 1
  <2>1. PatchedBy(patches[1], head) \in Trees
    BY <1>1, <1>2, <1>4, TreesPatched
  <2>. QED  BY <1>4, <2>1 DEF FinalTree
<1>5. CASE Len(patches) = 2
  <2>1. PatchedBy(patches[1], head) \in Trees /\ patches[2] \in Repository!Patches
    BY <1>1, <1>2, <1>5, TreesPatched
  <2>2. PatchedBy(patches[2], PatchedBy(patches[1], head)) \in Trees
    BY <2>1, TreesPatched
  <2>3. FinalTree = PatchedBy(patches[2], PatchedBy(patches[1], head))
    BY <1>5 DEF FinalTree
  <2>. QED  BY <2>2, <2>3
<1>6. Len(patches) \in Nat /\ Len(patches) <= 2
  BY <1>1
<1>7. \A n \in Nat : n <= 2 => n \in {0, 1, 2}
  OBVIOUS
<1>8. Len(patches) \in {0, 1, 2}
  BY <1>6, <1>7
<1>. QED  BY <1>3, <1>4, <1>5, <1>8

(* The capture, and what a step of the building may leave alone.           *)
LEMMA FinalStays ==
  ASSUME UNCHANGED <<head, kind, patches>>
  PROVE  /\ FinalTree' = FinalTree
         /\ \A t : Repository!Changed(t)' = Repository!Changed(t)
         /\ \A t : Repository!Ordinary(t)' = Repository!Ordinary(t)
         /\ \A t, left : Exported(t, left)' = Exported(t, left)
BY DEF FinalTree, PatchedBy, Repository!Patched, Repository!Changed, Repository!Ordinary, Exported

LEMMA Builds ==
  ASSUME pc \in Building, UNCHANGED <<candidate, result>>, pc' \in Building, CandidateInv
  PROVE  CandidateOutcome'
<1>1. result' = "none" /\ candidate' = None
  BY DEF CandidateInv, CandidateKnows, Building, Unpatched, Patching, Applied, Compared,
         Committed, Reading, Exporting, Ending
<1>. QED  BY <1>1 DEF CandidateOutcome, Using, Building, Unpatched, Patching, Applied, Compared,
                      Committed, Reading, Exporting, Ending

(* The first steps, before a patch is applied.                             *)
LEMMA CandidateSeeds ==
  ASSUME CandidateInv,
         \/ Repository!CaptureRepository \/ Repository!RevalidateSource
         \/ Repository!InitializeIsolated \/ Repository!CopyExactObjects
         \/ Repository!WriteControls \/ Repository!ReadTree
  PROVE  CandidateInv'
<1>1. /\ CandidateTyped /\ CandidateKnows
      /\ pc \in {"capture", "revalidate", "init", "pack", "controls", "readtree"}
      /\ pc' = CASE pc = "capture" -> "revalidate" [] pc = "revalidate" -> "init"
                 [] pc = "init" -> "pack" [] pc = "pack" -> "controls"
                 [] pc = "controls" -> "readtree" [] pc = "readtree" -> "patch"
      /\ UNCHANGED <<head, kind, source, ref, moves, job, result, blob, crashes, export,
                     candidate, patches, todo>>
  BY DEF CandidateInv, Repository!CaptureRepository, Repository!RevalidateSource,
         Repository!InitializeIsolated, Repository!CopyExactObjects, Repository!WriteControls,
         Repository!ReadTree, Repository!Step, Repository!Goto, Repository!inputs,
         Repository!world, Repository!disk
<1>2. /\ patches = <<>> /\ Len(patches) = 0 /\ result = "none" /\ candidate = None
      /\ FinalTree = head /\ job # "none"
  BY <1>1, EmptySeq DEF CandidateKnows, Building, Unpatched, FinalTree
<1>3. /\ repo' \in [made : BOOLEAN, objects : BOOLEAN, controls : BOOLEAN, index : Trees,
                    worktree : SUBSET Paths, tree : Trees, diff : SUBSET Paths,
                    commit : Repository!Commits \cup {None}, modes : BOOLEAN]
      /\ pc' \in Controlled => repo'.objects /\ repo'.controls
      /\ pc' \in Copied => repo'.objects
      /\ pc' = "patch" => repo'.index = head
  <2>1. CASE pc \in {"capture", "revalidate"}
    BY <1>1, <2>1 DEF CandidateTyped, Repository!CaptureRepository, Repository!RevalidateSource,
       Repository!InitializeIsolated, Repository!CopyExactObjects, Repository!WriteControls,
       Repository!ReadTree, Repository!Step, Repository!disk, Controlled, Copied, Patching,
       Applied, Compared, Committed, Reading, Exporting, Ending
  <2>2. CASE pc = "init"
    <3>1. repo' = [Repository!Absent EXCEPT !.made = TRUE] /\ pc' = "pack"
      BY <1>1, <2>2 DEF Repository!CaptureRepository, Repository!RevalidateSource,
         Repository!InitializeIsolated, Repository!CopyExactObjects, Repository!WriteControls,
         Repository!ReadTree, Repository!Step
    <3>2. Repository!NoTree \in Trees
      BY DEF Repository!NoTree, Trees, Repository!Trees
    <3>. QED  BY <3>1, <3>2 DEF Repository!Absent, Controlled, Copied, Patching,
              Applied, Compared, Committed, Reading, Exporting, Ending
  <2>3. CASE pc = "pack"
    <3>1. repo' = [repo EXCEPT !.objects = TRUE] /\ pc' = "controls"
      BY <1>1, <2>3 DEF Repository!CaptureRepository, Repository!RevalidateSource,
         Repository!InitializeIsolated, Repository!CopyExactObjects, Repository!WriteControls,
         Repository!ReadTree, Repository!Step
    <3>. QED  BY <1>1, <3>1 DEF CandidateTyped, Controlled, Copied, Patching,
              Applied, Compared, Committed, Reading, Exporting, Ending
  <2>4. CASE pc = "controls"
    <3>1. repo' = [repo EXCEPT !.controls = TRUE] /\ pc' = "readtree" /\ repo.objects
      BY <1>1, <2>4 DEF CandidateKnows, Copied, Repository!CaptureRepository,
         Repository!RevalidateSource,
         Repository!InitializeIsolated, Repository!CopyExactObjects, Repository!WriteControls,
         Repository!ReadTree, Repository!Step
    <3>. QED  BY <1>1, <3>1 DEF CandidateTyped, Controlled, Copied, Patching,
              Applied, Compared, Committed, Reading, Exporting, Ending
  <2>5. CASE pc = "readtree"
    <3>1. /\ repo' = [repo EXCEPT !.index = head, !.worktree = {p \in Paths : head[p] # None}]
          /\ pc' = "patch" /\ repo.objects /\ repo.controls
      BY <1>1, <2>5 DEF CandidateKnows, Controlled, Repository!CaptureRepository,
         Repository!RevalidateSource,
         Repository!InitializeIsolated, Repository!CopyExactObjects, Repository!WriteControls,
         Repository!ReadTree, Repository!Step
    <3>. QED  BY <1>1, <3>1 DEF CandidateTyped
  <2>. QED  BY <1>1, <2>1, <2>2, <2>3, <2>4, <2>5
<1>4. pc' \in Unpatched \cup {"patch"} /\ pc \in Building /\ pc' \in Building
  BY <1>1 DEF Building, Unpatched, Patching
<1>5. CandidateTyped'
  BY <1>1, <1>3, <1>4 DEF CandidateTyped
<1>6. FinalTree' = FinalTree
  BY <1>1, FinalStays
<1>7. CandidateKnows'
  BY <1>1, <1>2, <1>3, <1>4, <1>6
     DEF CandidateKnows, Unpatched, Patching, Applied, Compared, Committed, Reading,
         Exporting, Ending
<1>. QED  BY <1>1, <1>4, <1>5, <1>7, Builds DEF CandidateInv

RepoTypes == [made : BOOLEAN, objects : BOOLEAN, controls : BOOLEAN, index : Trees,
              worktree : SUBSET Paths, tree : Trees, diff : SUBSET Paths,
              commit : Repository!Commits \cup {None}, modes : BOOLEAN]

(* A patch more is applied to what the patches before it have left.        *)
LEMMA FinalGrows ==
  ASSUME CandidateTyped, Len(patches) < 2, NEW patch \in Repository!Patches,
         patches' = Append(patches, patch), head' = head
  PROVE  /\ FinalTree' = PatchedBy(patch, FinalTree)
         /\ patches' \in Seq(Repository!Patches) /\ Len(patches') \in {1, 2}
<1>1. /\ patches \in Seq(Repository!Patches) /\ Len(patches) \in Nat /\ Len(patches) < 2
  BY LenProperties DEF CandidateTyped
<1>2. /\ patches' \in Seq(Repository!Patches) /\ Len(patches') = Len(patches) + 1
      /\ patches'[Len(patches) + 1] = patch
      /\ \A i \in 1..Len(patches) : patches'[i] = patches[i]
  BY <1>1, AppendProperties
<1>3. \A n \in Nat : n < 2 => n \in {0, 1}
  OBVIOUS
<1>4. Len(patches) \in {0, 1}
  BY <1>1, <1>3
<1>5. \A t : PatchedBy(patch, t)' = PatchedBy(patch, t)
  BY DEF PatchedBy, Repository!Patched
<1>6. CASE Len(patches) = 0
  <2>1. Len(patches') = 1 /\ patches'[1] = patch
    BY <1>2, <1>6
  <2>2. FinalTree = head
    BY <1>6 DEF FinalTree
  <2>3. FinalTree' = PatchedBy(patches'[1], head')
    BY <2>1 DEF FinalTree, PatchedBy, Repository!Patched
  <2>. QED  BY <1>2, <2>1, <2>2, <2>3
<1>7. CASE Len(patches) = 1
  <2>1. Len(patches') = 2 /\ patches'[2] = patch /\ patches'[1] = patches[1]
    BY <1>2, <1>7
  <2>2. FinalTree = PatchedBy(patches[1], head)
    BY <1>7 DEF FinalTree
  <2>3. FinalTree' = PatchedBy(patches'[2], PatchedBy(patches'[1], head'))
    BY <2>1 DEF FinalTree, PatchedBy, Repository!Patched
  <2>. QED  BY <1>2, <2>1, <2>2, <2>3
<1>. QED  BY <1>4, <1>6, <1>7

LEMMA CandidatePatches ==
  ASSUME CandidateInv, Repository!ApplyPatch
  PROVE  CandidateInv'
<1>1. PICK patch \in Repository!Patches, pcNext \in {"patch", "diff"} :
         /\ Len(patches) < 2
         /\ pc = "patch" /\ pc' = pcNext
         /\ repo' = [repo EXCEPT !.index = Repository!Patched(patch, repo.index)]
         /\ patches' = Append(patches, patch)
         /\ UNCHANGED <<head, kind, source, ref, moves, job, result, blob, crashes, export,
                        candidate, todo>>
  BY DEF Repository!ApplyPatch, Repository!Step, Repository!Goto, Repository!inputs,
         Repository!world
<1>2. /\ CandidateTyped /\ CandidateKnows
      /\ repo \in RepoTypes /\ repo.index = FinalTree /\ repo.objects /\ repo.controls
      /\ result = "none" /\ job # "none"
  BY <1>1 DEF CandidateInv, CandidateTyped, CandidateKnows, RepoTypes, Controlled, Patching
<1>3. /\ FinalTree' = PatchedBy(patch, FinalTree)
      /\ patches' \in Seq(Repository!Patches) /\ Len(patches') \in {1, 2}
  BY <1>1, <1>2, FinalGrows
<1>4. FinalTree' \in Trees
  BY <1>2, <1>3, FinalIsTree, TreesPatched
<1>5. repo' = [repo EXCEPT !.index = FinalTree']
  BY <1>1, <1>2, <1>3 DEF PatchedBy
<1>6. /\ repo' \in RepoTypes /\ repo'.index = FinalTree' /\ repo'.objects /\ repo'.controls
  BY <1>2, <1>4, <1>5 DEF RepoTypes
<1>7. pc' \in {"patch", "diff"} /\ pc \in Building /\ pc' \in Building
  BY <1>1 DEF Building, Patching, Applied
<1>8. Len(patches') <= 2
  <2>1. \A n \in {1, 2} : n <= 2
    OBVIOUS
  <2>. QED  BY <1>3, <2>1
<1>9. CandidateTyped'
  BY <1>1, <1>2, <1>3, <1>6, <1>7, <1>8 DEF CandidateTyped, RepoTypes
<1>10. CandidateKnows'
  BY <1>1, <1>2, <1>3, <1>6, <1>7
     DEF CandidateKnows, Unpatched, Patching, Applied, Compared, Committed, Reading,
         Exporting, Ending, Building, Controlled, Copied
<1>. QED  BY <1>1, <1>7, <1>9, <1>10, Builds DEF CandidateInv

(* The steps between the patches and the reading of the files.             *)
LEMMA CandidateCommits ==
  ASSUME CandidateInv,
         \/ Repository!ReadDiff \/ Repository!WriteCommit \/ Repository!CheckoutIndex
         \/ Repository!VerifyIndexTree \/ Repository!HardenCandidateTree
  PROVE  CandidateInv'
<1>1. /\ CandidateTyped /\ CandidateKnows
      /\ pc \in {"diff", "commit", "checkout", "verify", "harden"}
      /\ pc' = CASE pc = "diff" -> "commit" [] pc = "commit" -> "checkout"
                 [] pc = "checkout" -> "verify" [] pc = "verify" -> "harden"
                 [] pc = "harden" -> "files"
      /\ UNCHANGED <<head, kind, source, ref, moves, job, result, blob, crashes, export,
                     candidate, patches, todo>>
  BY DEF CandidateInv, Repository!ReadDiff, Repository!WriteCommit, Repository!CheckoutIndex,
         Repository!VerifyIndexTree, Repository!HardenCandidateTree, Repository!Step,
         Repository!Goto, Repository!inputs, Repository!world, Repository!disk
<1>2. /\ repo \in RepoTypes /\ repo.index = FinalTree /\ repo.objects /\ repo.controls
      /\ result = "none" /\ job # "none" /\ Len(patches) \in {1, 2}
      /\ pc # "diff" => repo.diff = Repository!Changed(FinalTree) /\ repo.diff # {}
      /\ pc \in Committed =>
           repo.tree = FinalTree /\ repo.commit = [tree |-> FinalTree, parent |-> head]
  BY <1>1 DEF CandidateTyped, CandidateKnows, RepoTypes, Controlled, Patching, Applied,
         Compared, Committed
<1>3. /\ FinalTree \in Trees /\ head \in Trees /\ FinalTree' = FinalTree
      /\ Repository!Changed(FinalTree)' = Repository!Changed(FinalTree)
  BY <1>1, FinalIsTree, FinalStays DEF CandidateTyped
<1>4. /\ repo' \in RepoTypes /\ repo'.index = FinalTree /\ repo'.objects /\ repo'.controls
      /\ repo'.diff = Repository!Changed(FinalTree) /\ repo'.diff # {}
      /\ pc' \in Committed =>
           repo'.tree = FinalTree /\ repo'.commit = [tree |-> FinalTree, parent |-> head]
      /\ pc' = "files" => repo'.modes
  <2>1. CASE pc = "diff"
    <3>1. /\ repo' = [repo EXCEPT !.diff = Repository!Changed(repo.index)] /\ pc' = "commit"
          /\ Repository!Changed(repo.index) # {}
      BY <2>1, <1>1 DEF Repository!ReadDiff, Repository!WriteCommit, Repository!CheckoutIndex,
         Repository!VerifyIndexTree, Repository!HardenCandidateTree, Repository!Step
    <3>2. Repository!Changed(repo.index) \subseteq Paths
      BY DEF Repository!Changed
    <3>. QED  BY <1>2, <3>1, <3>2 DEF RepoTypes, Committed, Reading, Exporting, Ending
  <2>2. CASE pc = "commit"
    <3>1. /\ repo' = [repo EXCEPT !.tree = repo.index,
                                  !.commit = [tree |-> repo.index, parent |-> head]]
          /\ pc' = "checkout"
      BY <2>2, <1>1 DEF Repository!ReadDiff, Repository!WriteCommit, Repository!CheckoutIndex,
         Repository!VerifyIndexTree, Repository!HardenCandidateTree, Repository!Step,
         Repository!CommitOf
    <3>2. [tree |-> FinalTree, parent |-> head] \in Repository!Commits
      BY <1>3 DEF Trees, Repository!Commits
    <3>. QED  BY <1>2, <1>3, <2>2, <3>1, <3>2 DEF RepoTypes
  <2>3. CASE pc = "checkout"
    <3>1. /\ repo' = [repo EXCEPT !.worktree = {p \in Paths : repo.index[p] # None}]
          /\ pc' = "verify"
      BY <2>3, <1>1 DEF Repository!ReadDiff, Repository!WriteCommit, Repository!CheckoutIndex,
         Repository!VerifyIndexTree, Repository!HardenCandidateTree, Repository!Step
    <3>2. {p \in Paths : repo.index[p] # None} \in SUBSET Paths
      OBVIOUS
    <3>. QED  BY <1>2, <2>3, <3>1, <3>2 DEF RepoTypes, Committed
  <2>4. CASE pc = "verify"
    <3>1. repo' = repo /\ pc' = "harden"
      BY <2>4, <1>1 DEF Repository!ReadDiff, Repository!WriteCommit, Repository!CheckoutIndex,
         Repository!VerifyIndexTree, Repository!HardenCandidateTree, Repository!Step,
         Repository!disk
    <3>. QED  BY <1>2, <2>4, <3>1 DEF Committed
  <2>5. CASE pc = "harden"
    <3>1. repo' = [repo EXCEPT !.modes = TRUE] /\ pc' = "files"
      BY <2>5, <1>1 DEF Repository!ReadDiff, Repository!WriteCommit, Repository!CheckoutIndex,
         Repository!VerifyIndexTree, Repository!HardenCandidateTree, Repository!Step
    <3>. QED  BY <1>2, <2>5, <3>1 DEF RepoTypes, Committed
  <2>. QED  BY <1>1, <2>1, <2>2, <2>3, <2>4, <2>5
<1>5. /\ pc' \in {"commit", "checkout", "verify", "harden", "files"}
      /\ pc \in Building /\ pc' \in Building
  BY <1>1 DEF Building, Patching, Applied, Compared, Committed, Reading
<1>6. CandidateTyped'
  BY <1>1, <1>4, <1>5 DEF CandidateTyped, RepoTypes
<1>7. CandidateKnows'
  BY <1>1, <1>2, <1>3, <1>4, <1>5
     DEF CandidateKnows, Unpatched, Patching, Applied, Compared, Committed, Reading,
         Exporting, Ending, Building, Controlled, Copied
<1>. QED  BY <1>1, <1>5, <1>6, <1>7, Builds DEF CandidateInv

(* The files are read and written to candidate-input.                      *)
LEMMA CandidateExports ==
  ASSUME CandidateInv,
         \/ Repository!ReadMaterializedFiles \/ Repository!WriteProjectionBlob
         \/ Repository!EndExport
  PROVE  CandidateInv'
<1>1. /\ CandidateTyped /\ CandidateKnows /\ pc \in {"files", "export"}
      /\ UNCHANGED <<head, kind, source, ref, moves, job, result, blob, crashes, repo,
                     candidate, patches>>
  BY DEF CandidateInv, Repository!ReadMaterializedFiles, Repository!WriteProjectionBlob,
         Repository!EndExport, Repository!Step, Repository!inputs, Repository!world,
         Repository!disk
<1>2. /\ repo.index = FinalTree /\ repo.objects /\ repo.controls
      /\ result = "none" /\ job # "none" /\ Len(patches) \in {1, 2}
      /\ repo.diff = Repository!Changed(FinalTree) /\ repo.diff # {}
      /\ repo.tree = FinalTree /\ repo.commit = [tree |-> FinalTree, parent |-> head]
      /\ repo.modes
      /\ pc = "export" => /\ repo.diff \subseteq Repository!Ordinary(FinalTree)
                          /\ todo \subseteq Repository!Ordinary(FinalTree)
                          /\ export = [made |-> TRUE, files |-> Exported(FinalTree, todo)]
  BY <1>1 DEF CandidateKnows, Controlled, Patching, Applied, Compared, Committed, Reading,
         Exporting
<1>3. /\ FinalTree \in Trees /\ FinalTree' = FinalTree
      /\ Repository!Changed(FinalTree)' = Repository!Changed(FinalTree)
      /\ Repository!Ordinary(FinalTree)' = Repository!Ordinary(FinalTree)
      /\ \A left : Exported(FinalTree, left)' = Exported(FinalTree, left)
  BY <1>1, FinalIsTree, FinalStays
<1>4. Repository!Ordinary(FinalTree) \subseteq Paths
  BY DEF Repository!Ordinary
<1>5. \A left : Exported(FinalTree, left) \in Trees
  BY <1>3, <1>4 DEF Exported, Trees, Repository!Trees
<1>6. /\ pc' \in {"export", "checkpoint"} /\ todo' \subseteq Repository!Ordinary(FinalTree)
      /\ repo.diff \subseteq Repository!Ordinary(FinalTree)
      /\ export' = [made |-> TRUE, files |-> Exported(FinalTree, todo')]
      /\ pc' = "checkpoint" => todo' = {}
  <2>1. CASE Repository!ReadMaterializedFiles
    <3>1. /\ pc' = "export" /\ todo' = Repository!Ordinary(repo.tree)
          /\ export' = [made |-> TRUE, files |-> Repository!NoTree]
          /\ \A path \in repo.diff : path \in Repository!Ordinary(repo.tree)
      BY <2>1 DEF Repository!ReadMaterializedFiles, Repository!Step, Repository!Goto
    <3>2. Repository!NoTree = Exported(FinalTree, Repository!Ordinary(FinalTree))
      BY DEF Repository!NoTree, Exported
    <3>. QED  BY <1>2, <1>4, <3>1, <3>2
  <2>2. CASE Repository!WriteProjectionBlob
    <3>1. /\ pc = "export" /\ pc' = "export"
      BY <2>2 DEF Repository!WriteProjectionBlob, Repository!Step, Repository!Goto
    <3>2. PICK path \in todo : /\ export' = [export EXCEPT !.files[path] = repo.tree[path]]
                               /\ todo' = todo \ {path}
      BY <2>2 DEF Repository!WriteProjectionBlob
    <3>3. PICK files : files = Exported(FinalTree, todo)
      OBVIOUS
    <3>4. export = [made |-> TRUE, files |-> files]
      BY <1>2, <3>1, <3>3
    <3>5. export' = [made |-> TRUE, files |-> [files EXCEPT ![path] = FinalTree[path]]]
      BY <1>2, <3>2, <3>4
    <3>6. [files EXCEPT ![path] = FinalTree[path]] = Exported(FinalTree, todo \ {path})
      BY <1>2, <3>1, <3>3 DEF Exported
    <3>. QED  BY <1>2, <3>1, <3>2, <3>5, <3>6
  <2>3. CASE Repository!EndExport
    <3>1. pc' = "checkpoint" /\ pc = "export" /\ todo = {} /\ todo' = todo /\ export' = export
      BY <2>3 DEF Repository!EndExport, Repository!Step, Repository!Goto, Repository!disk
    <3>. QED  BY <1>2, <3>1
  <2>. QED  BY <2>1, <2>2, <2>3
<1>7. pc \in Building /\ pc' \in Building
  BY <1>1, <1>6 DEF Building, Patching, Applied, Compared, Committed, Reading, Exporting, Ending
<1>8. export' \in [made : BOOLEAN, files : Trees]
  BY <1>5, <1>6
<1>9. CandidateTyped'
  BY <1>1, <1>4, <1>6, <1>7, <1>8 DEF CandidateTyped
<1>10. CandidateKnows'
  BY <1>1, <1>2, <1>3, <1>6
     DEF CandidateKnows, Unpatched, Patching, Applied, Compared, Committed, Reading,
         Exporting, Ending, Building, Controlled, Copied
<1>. QED  BY <1>1, <1>7, <1>9, <1>10, Builds DEF CandidateInv

LEMMA PersistedStays ==
  ASSUME UNCHANGED <<head, kind, patches, repo, export, candidate>>, Persisted
  PROVE  Persisted'
<1>1. /\ FinalTree' = FinalTree
      /\ Repository!Changed(FinalTree)' = Repository!Changed(FinalTree)
      /\ Repository!Ordinary(FinalTree)' = Repository!Ordinary(FinalTree)
      /\ \A left : Exported(FinalTree, left)' = Exported(FinalTree, left)
  BY FinalStays
<1>. QED  BY <1>1 DEF Persisted

(* The candidate is persisted.                                             *)
LEMMA CandidatePersists ==
  ASSUME CandidateInv, Repository!PersistCandidateCheckpoint
  PROVE  CandidateInv'
<1>1. /\ CandidateTyped /\ CandidateKnows /\ pc = "checkpoint" /\ pc' = "sandbox"
      /\ candidate' = [tree |-> repo.tree, commit |-> repo.commit, changed |-> repo.diff]
      /\ UNCHANGED <<head, kind, source, ref, moves, job, result, blob, crashes, repo, export,
                     todo, patches>>
  BY DEF CandidateInv, Repository!PersistCandidateCheckpoint, Repository!Step, Repository!Goto,
         Repository!inputs, Repository!world
<1>2. /\ repo.index = FinalTree /\ repo.objects /\ repo.controls
      /\ result = "none" /\ job # "none" /\ Len(patches) \in {1, 2}
      /\ repo.diff = Repository!Changed(FinalTree) /\ repo.diff # {}
      /\ repo.tree = FinalTree /\ repo.commit = [tree |-> FinalTree, parent |-> head]
      /\ repo.modes /\ repo.diff \subseteq Repository!Ordinary(FinalTree)
      /\ todo = {} /\ export = [made |-> TRUE, files |-> Exported(FinalTree, {})]
  BY <1>1 DEF CandidateKnows, Controlled, Patching, Applied, Compared, Committed, Reading,
         Exporting, Ending
<1>3. /\ FinalTree \in Trees /\ FinalTree' = FinalTree /\ head \in Trees
      /\ Repository!Changed(FinalTree)' = Repository!Changed(FinalTree)
      /\ Repository!Ordinary(FinalTree)' = Repository!Ordinary(FinalTree)
      /\ \A left : Exported(FinalTree, left)' = Exported(FinalTree, left)
  BY <1>1, FinalIsTree, FinalStays DEF CandidateTyped
<1>4. Persisted'
  BY <1>1, <1>2, <1>3 DEF Persisted
<1>5. candidate' \in [tree : Trees, commit : Repository!Commits, changed : SUBSET Paths]
  <2>1. [tree |-> FinalTree, parent |-> head] \in Repository!Commits
    BY <1>3 DEF Trees, Repository!Commits
  <2>2. Repository!Changed(FinalTree) \in SUBSET Paths
    BY DEF Repository!Changed
  <2>. QED  BY <1>1, <1>2, <1>3, <2>1, <2>2
<1>6. CandidateTyped'
  <2>1. pc' \in Using
    BY <1>1 DEF Using
  <2>. QED  BY <1>1, <1>5, <2>1 DEF CandidateTyped
<1>7. CandidateKnows'
  BY <1>1, <1>2 DEF CandidateKnows, Unpatched, Patching, Applied, Compared, Committed, Reading,
     Exporting, Ending, Building, Controlled, Copied
<1>8. CandidateOutcome'
  BY <1>1, <1>2, <1>4 DEF CandidateOutcome
<1>. QED  BY <1>6, <1>7, <1>8 DEF CandidateInv

(* What only looks at the persisted candidate keeps it.                    *)
LEMMA CandidateKeeps ==
  ASSUME CandidateInv, pc \in Using, pc' \in Using \cup {"idle"},
         pc' # "idle" => result' = "none",
         result' \in {"none", "failed", "crashed", "proposed", "recovered", "applied",
                      "conflict", "published"},
         crashes' \in 0..CrashBound, ref' \in Repository!Commits \cup {None},
         UNCHANGED <<head, kind, source, moves, job, repo, export, todo, patches, candidate>>,
         pc' = "blobref2" \/ result' = "published" =>
           blob'.path \in candidate.changed /\ blob'.content = candidate.tree[blob'.path],
         result' = "recovered" => export.files = candidate.tree
  PROVE  CandidateInv'
<1>1. CandidateTyped /\ CandidateKnows /\ CandidateOutcome /\ Persisted
  BY DEF CandidateInv, CandidateOutcome
<1>2. job # "none"
  BY <1>1 DEF CandidateKnows, Using
<1>3. Persisted'
  BY <1>1, PersistedStays
<1>4. CandidateTyped'
  BY <1>1 DEF CandidateTyped
<1>5. CandidateKnows'
  BY <1>1, <1>2 DEF CandidateKnows, Unpatched, Patching, Applied, Compared, Committed, Reading,
     Exporting, Ending, Building, Controlled, Copied, Using
<1>6. CandidateOutcome'
  BY <1>3 DEF CandidateOutcome
<1>. QED  BY <1>4, <1>5, <1>6 DEF CandidateInv

LEMMA CandidateIsUsed ==
  ASSUME CandidateInv, Repository!ValidateCandidate \/ Repository!Use
  PROVE  CandidateInv'
<1>1. CandidateTyped /\ CandidateKnows /\ CandidateOutcome
  BY DEF CandidateInv
<1>2. SUFFICES ASSUME pc \in Using, Persisted
               PROVE  CandidateInv'
  BY <1>1 DEF CandidateOutcome, Using, Repository!ValidateCandidate, Repository!Use,
     Repository!VerifyHardened, Repository!VerifyIsolatedControls, Repository!VerifyCommit,
     Repository!ReadCandidateTreeFiles, Repository!PushCommit, Repository!InspectObjects,
     Repository!InspectRef, Repository!BlobRef, Repository!ReadBlob, Repository!BlobRefAgain,
     Repository!Step
<1>3. /\ result = "none" /\ crashes \in 0..CrashBound
      /\ ref \in Repository!Commits \cup {None}
  BY <1>1, <1>2 DEF CandidateKnows, CandidateTyped, Using
<1>4. CASE \/ Repository!VerifyHardened \/ Repository!VerifyIsolatedControls
           \/ Repository!VerifyCommit \/ Repository!InspectObjects \/ Repository!InspectRef
           \/ Repository!BlobRef \/ Repository!ValidateCandidate
  <2>1. /\ pc' \in (Using \ {"blobref2"}) \cup {"idle"}
        /\ pc' # "idle" => result' = "none"
        /\ result' \in {"none", "proposed"}
        /\ UNCHANGED <<head, kind, source, ref, moves, job, repo, export, todo, patches,
                       candidate, crashes>>
    BY <1>2, <1>3, <1>4 DEF Repository!VerifyHardened, Repository!VerifyIsolatedControls,
       Repository!VerifyCommit, Repository!InspectObjects, Repository!InspectRef,
       Repository!BlobRef, Repository!ValidateCandidate, Repository!Step, Repository!Goto,
       Repository!Say, Repository!inputs, Repository!world, Repository!disk, Using
  <2>. QED  BY <1>2, <1>3, <2>1, CandidateKeeps
<1>5. CASE Repository!ReadCandidateTreeFiles
  <2>1. /\ pc' = "idle" /\ result' = "recovered"
        /\ \A path \in Paths : candidate.tree[path] # None => kind[path] = "file"
        /\ UNCHANGED <<head, kind, source, ref, moves, job, repo, export, todo, patches,
                       candidate, crashes>>
    BY <1>5 DEF Repository!ReadCandidateTreeFiles, Repository!Goto, Repository!Say,
       Repository!inputs, Repository!world, Repository!disk
  <2>2. candidate.tree = FinalTree /\ FinalTree \in Trees
    BY <1>1, <1>2, FinalIsTree DEF Persisted
  <2>3. \A path \in Paths : path \notin Repository!Ordinary(FinalTree) => FinalTree[path] = None
    BY <2>1, <2>2 DEF Repository!Ordinary
  <2>4. Exported(FinalTree, {}) = FinalTree
    BY <2>2, <2>3 DEF Exported, Trees, Repository!Trees
  <2>5. export.files = candidate.tree
    BY <1>2, <2>2, <2>4 DEF Persisted
  <2>. QED  BY <1>2, <1>3, <2>1, <2>5, CandidateKeeps
<1>6. CASE Repository!PushCommit
  <2>1. /\ pc' = "idle" /\ result' \in {"applied", "conflict"} /\ ref' \in {ref, candidate.commit}
        /\ UNCHANGED <<head, kind, source, moves, job, repo, export, todo, patches,
                       candidate, crashes>>
    BY <1>6 DEF Repository!PushCommit, Repository!Goto, Repository!Say,
       Repository!inputs, Repository!world, Repository!disk
  <2>2. candidate.commit \in Repository!Commits
    BY <1>1, <1>2, FinalIsTree DEF CandidateTyped, Persisted, Repository!Commits, Trees
  <2>. QED  BY <1>2, <1>3, <2>1, <2>2, CandidateKeeps
<1>7. CASE Repository!ReadBlob
  <2>1. /\ pc' = "blobref2" /\ result' = result
        /\ UNCHANGED <<head, kind, source, ref, moves, job, repo, export, todo, patches,
                       candidate, crashes>>
    BY <1>7 DEF Repository!ReadBlob, Repository!Goto, Repository!inputs, Repository!world,
       Repository!disk
  <2>2. PICK path \in candidate.changed :
           blob' = [path |-> path, content |-> candidate.tree[path]]
    BY <1>7 DEF Repository!ReadBlob
  <2>3. blob'.path \in candidate.changed /\ blob'.content = candidate.tree[blob'.path]
    BY <2>2
  <2>4. pc' \in Using
    BY <2>1 DEF Using
  <2>. QED  BY <1>2, <1>3, <2>1, <2>3, <2>4, CandidateKeeps
<1>8. CASE Repository!BlobRefAgain
  <2>1. /\ pc = "blobref2" /\ pc' = "idle" /\ result' = "published" /\ blob' = blob
        /\ UNCHANGED <<head, kind, source, ref, moves, job, repo, export, todo, patches,
                       candidate, crashes>>
    BY <1>8 DEF Repository!BlobRefAgain, Repository!Goto, Repository!Say, Repository!inputs,
       Repository!world, Repository!disk
  <2>2. blob'.path \in candidate.changed /\ blob'.content = candidate.tree[blob'.path]
    BY <1>1, <2>1 DEF CandidateKnows
  <2>. QED  BY <1>2, <1>3, <2>1, <2>2, CandidateKeeps
<1>. QED  BY <1>4, <1>5, <1>6, <1>7, <1>8 DEF Repository!Use

(* A failure or a death, wherever it happens.                              *)
LEMMA CandidateFails ==
  ASSUME CandidateInv, Repository!StepFails \/ Repository!Crash
  PROVE  CandidateInv'
<1>1. /\ CandidateTyped /\ CandidateKnows /\ CandidateOutcome
      /\ pc # "idle" /\ pc' = "idle" /\ result' \in {"failed", "crashed"}
      /\ UNCHANGED <<head, kind, source, ref, moves, job, todo, patches, candidate, blob>>
  BY DEF CandidateInv, Repository!StepFails, Repository!Crash, Repository!Busy, Repository!Goto,
     Repository!Say, Repository!inputs, Repository!world, Repository!disk
<1>2. crashes' \in 0..CrashBound
  <2>1. CASE Repository!StepFails
    BY <1>1, <2>1 DEF Repository!StepFails, CandidateTyped
  <2>2. CASE Repository!Crash
    BY <1>1, <2>2, RepositoryAssumption DEF Repository!Crash, CandidateTyped,
       Repository!BoundsAssumption
  <2>. QED  BY <2>1, <2>2
<1>3. /\ repo' \in RepoTypes /\ export' \in [made : BOOLEAN, files : Trees]
      /\ pc \in Using => UNCHANGED <<repo, export>>
  <2>1. CASE Repository!StepFails
    <3>1. repo' \in RepoTypes
      <4>1. repo \in RepoTypes /\ repo' \in {repo, [repo EXCEPT !.modes = TRUE]}
        BY <1>1, <2>1 DEF CandidateTyped, RepoTypes, Repository!StepFails
      <4>. QED  BY <4>1 DEF RepoTypes
    <3>2. export' \in [made : BOOLEAN, files : Trees]
      <4>1. Repository!NoTree \in Trees
        BY DEF Repository!NoTree, Trees, Repository!Trees
      <4>. QED  BY <1>1, <2>1, <4>1 DEF CandidateTyped, Repository!StepFails
    <3>3. pc \in Using => UNCHANGED <<repo, export>>
      BY <2>1 DEF Repository!StepFails, Using, Repository!Materializing
    <3>. QED  BY <3>1, <3>2, <3>3
  <2>2. CASE Repository!Crash
    BY <1>1, <2>2 DEF CandidateTyped, RepoTypes, Repository!Crash, Repository!disk
  <2>. QED  BY <2>1, <2>2
<1>4. CASE pc \in Using
  <2>1. pc' # "blobref2" /\ result' # "published" /\ result' # "recovered"
    BY <1>1
  <2>2. ref' \in Repository!Commits \cup {None}
    BY <1>1 DEF CandidateTyped
  <2>. QED  BY <1>1, <1>2, <1>3, <1>4, <2>1, <2>2, CandidateKeeps
<1>5. CASE pc \in Building
  <2>1. candidate = None /\ job # "none"
    BY <1>1, <1>5 DEF CandidateKnows
  <2>2. CandidateTyped'
    BY <1>1, <1>2, <1>3 DEF CandidateTyped, RepoTypes
  <2>3. CandidateKnows'
    BY <1>1, <2>1 DEF CandidateKnows, Unpatched, Patching, Applied, Compared, Committed,
       Reading, Exporting, Ending, Building, Controlled, Copied
  <2>4. CandidateOutcome'
    BY <1>1, <2>1 DEF CandidateOutcome, Using
  <2>. QED  BY <2>2, <2>3, <2>4 DEF CandidateInv
<1>. QED  BY <1>1, <1>4, <1>5 DEF CandidateTyped

(* What is asked of the program, and what the user does to the source.     *)
LEMMA CandidateIsAsked ==
  ASSUME CandidateInv, Repository!Ask
  PROVE  CandidateInv'
<1>1. /\ CandidateTyped /\ CandidateKnows /\ CandidateOutcome
      /\ pc = "idle" /\ result' = "none" /\ job' # "none"
      /\ UNCHANGED <<head, kind, source, ref, moves, repo, export, todo, patches, candidate,
                     crashes>>
      /\ \/ pc' = "capture" /\ job = "none"
         \/ pc' = "open" /\ candidate # None
         \/ pc' \in {"open", "inspect"} /\ result \in {"proposed", "recovered", "applied"}
  BY DEF CandidateInv, Repository!Ask, Repository!Start, Repository!Busy, Repository!Goto,
     Repository!inputs, Repository!world, Repository!disk
<1>2. pc' = "capture" => candidate = None /\ patches = <<>>
  BY <1>1 DEF CandidateKnows
<1>3. pc' # "capture" => Persisted
  BY <1>1 DEF CandidateOutcome
<1>4. pc' # "capture" => Persisted'
  BY <1>1, <1>3, PersistedStays
<1>5. pc' \in {"capture", "open", "inspect"}
  BY <1>1
<1>6. CandidateTyped'
  BY <1>1, <1>5 DEF CandidateTyped, Building, Unpatched, Using
<1>7. CandidateKnows'
  BY <1>1, <1>2, <1>5 DEF CandidateKnows, Unpatched, Patching, Applied, Compared, Committed,
     Reading, Exporting, Ending, Building, Controlled, Copied
<1>8. CandidateOutcome'
  BY <1>1, <1>2, <1>4, <1>5 DEF CandidateOutcome, Using
<1>. QED  BY <1>6, <1>7, <1>8 DEF CandidateInv

LEMMA CandidateSourceMoves ==
  ASSUME CandidateInv, Repository!SourceMoves
  PROVE  CandidateInv'
<1>1. /\ CandidateTyped /\ CandidateKnows /\ CandidateOutcome
      /\ moves < MoveBound /\ moves' = moves + 1
      /\ UNCHANGED <<head, kind, repo, export, todo, patches, candidate, crashes, pc, job,
                     result, blob>>
      /\ ref' \in {ref, None, Repository!Foreign}
      /\ \/ source' = source
         \/ source' = [source EXCEPT !.objects = FALSE]
         \/ source' = [source EXCEPT !.same = ~source.same]
  BY DEF CandidateInv, Repository!SourceMoves, Repository!inputs, Repository!disk
<1>2. source' \in [objects : BOOLEAN, same : BOOLEAN]
  BY <1>1 DEF CandidateTyped
<1>3. Repository!Foreign \in Repository!Commits
  BY DEF Repository!Foreign, Repository!Commits, Repository!NoTree, Repository!Trees
<1>4. moves' \in 0..MoveBound
  BY <1>1, RepositoryAssumption DEF CandidateTyped, Repository!BoundsAssumption
<1>5. CandidateTyped'
  BY <1>1, <1>2, <1>3, <1>4 DEF CandidateTyped
<1>6. /\ FinalTree' = FinalTree
      /\ Repository!Changed(FinalTree)' = Repository!Changed(FinalTree)
      /\ Repository!Ordinary(FinalTree)' = Repository!Ordinary(FinalTree)
      /\ \A left : Exported(FinalTree, left)' = Exported(FinalTree, left)
  BY <1>1, FinalStays
<1>7. CandidateKnows'
  BY <1>1, <1>6 DEF CandidateKnows
<1>8. Persisted => Persisted'
  BY <1>1, PersistedStays
<1>9. CandidateOutcome'
  BY <1>1, <1>8 DEF CandidateOutcome
<1>. QED  BY <1>5, <1>7, <1>9 DEF CandidateInv

LEMMA CandidateStarts ==
  ASSUME Repository!Init
  PROVE  CandidateInv
<1>1. Repository!NoTree \in Trees
  BY DEF Repository!NoTree, Trees, Repository!Trees
<1>2. patches \in Seq(Repository!Patches) /\ Len(patches) <= 2
  BY EmptySeq DEF Repository!Init
<1>3. 0 \in 0..MoveBound /\ 0 \in 0..CrashBound
  BY RepositoryAssumption DEF Repository!BoundsAssumption
<1>4. CandidateTyped
  BY <1>1, <1>2, <1>3 DEF Repository!Init, CandidateTyped, Repository!Absent, Trees
<1>5. CandidateKnows /\ CandidateOutcome
  BY DEF Repository!Init, CandidateKnows, CandidateOutcome, Unpatched, Patching, Applied,
     Compared, Committed, Reading, Exporting, Ending, Building, Controlled, Copied, Using
<1>. QED  BY <1>4, <1>5 DEF CandidateInv

LEMMA CandidateStays ==
  ASSUME CandidateInv,
         UNCHANGED <<head, source, ref, patches, repo, export, todo, candidate, blob, moves, pc,
                     job, result, crashes, kind>>
  PROVE  CandidateInv'
BY FinalStays DEF CandidateInv, CandidateTyped, CandidateKnows, CandidateOutcome, Persisted

(* Every step of the candidate's part keeps it.                            *)
LEMMA CandidateSteps ==
  ASSUME CandidateInv, Repository!Next
  PROVE  CandidateInv'
<1>1. CASE Repository!Over
  BY <1>1, CandidateStays DEF Repository!Over, Repository!vars, Repository!inputs,
     Repository!world, Repository!disk
<1>. QED
  BY <1>1, CandidateSeeds, CandidatePatches, CandidateCommits, CandidateExports,
     CandidatePersists, CandidateIsUsed, CandidateFails, CandidateIsAsked, CandidateSourceMoves
     DEF Repository!Next, Repository!Build

(* What is checked of the candidate.                                       *)
LEMMA CandidateIsRight ==
  ASSUME CandidateInv
  PROVE  /\ Repository!TypeOK
         /\ Repository!CandidateIsPatchedHead /\ Repository!CandidateIsWhole
         /\ Repository!RecoveredIsExported /\ Repository!PublishedIsApplied
<1>1. CandidateTyped /\ CandidateKnows /\ CandidateOutcome
  BY DEF CandidateInv
<1>2. Repository!TypeOK
  BY <1>1 DEF CandidateTyped, Repository!TypeOK, Trees
<1>3. Repository!RecoveredIsExported
  BY <1>1 DEF CandidateOutcome, Repository!RecoveredIsExported
<1>4. Persisted => Repository!Final = FinalTree
  BY DEF Persisted, Repository!Final, FinalTree, PatchedBy
<1>5. Repository!CandidateIsPatchedHead
  BY <1>1, <1>4 DEF CandidateOutcome, Persisted, Repository!CandidateIsPatchedHead,
     Repository!Changed
<1>6. Repository!CandidateIsWhole
  BY <1>1 DEF CandidateOutcome, Persisted, Repository!CandidateIsWhole, Exported
<1>7. Repository!PublishedIsApplied
  BY <1>1, <1>4 DEF CandidateOutcome, Persisted, Repository!PublishedIsApplied
<1>. QED  BY <1>2, <1>3, <1>5, <1>6, <1>7

(* A step of the machine is one of the part the behaviour is about.        *)
LEMMA CandidateInvariant == Spec => [](part = "candidate" => CandidateInv)
<1>1. Init => (part = "candidate" => CandidateInv)
  BY CandidateStarts DEF Init
<1>2. (part = "candidate" => CandidateInv) /\ [Next]_vars
        => (part = "candidate" => CandidateInv)'
  <2> SUFFICES ASSUME part = "candidate" => CandidateInv, [Next]_vars, part' = "candidate"
               PROVE  CandidateInv'
    OBVIOUS
  <2>1. CASE Next
    <3>1. part = "candidate" /\ Repository!Next
      BY <2>1 DEF Next, IsSession, IsCandidate, IsRef, IsSandbox, IsHost, IsContainer, IsProcess
    <3>. QED  BY <3>1, CandidateSteps
  <2>2. CASE UNCHANGED vars
    BY <2>2, CandidateStays DEF vars, candidateVars
  <2>. QED  BY <2>1, <2>2
<1>. QED  BY <1>1, <1>2, PTL DEF Spec

(* The candidate is HEAD with its patches, is whole once it is persisted,  *)
(* and is what a recovery and a publication find, however the source moves *)
(* and wherever a call fails or the process dies.                          *)
THEOREM RepairMachineCandidate == Spec => []CandidateIsPatchedHead
<1>1. (part = "candidate" => CandidateInv) => CandidateIsPatchedHead
  BY CandidateIsRight DEF CandidateIsPatchedHead
<1>. QED  BY <1>1, CandidateInvariant, PTL

-----------------------------------------------------------------------------
(* What holds while a program is run.                                      *)

(* No byte is lost between the program and the caller.                     *)
ProgramBytes ==
  /\ pipe \in Nat /\ sent \in 0..SentBound /\ total \in Nat /\ total + pipe = sent
  /\ got = (IF total <= Limit THEN total ELSE Limit)
  /\ limited \in BOOLEAN /\ (limited <=> total > Limit)

ProgramTyped ==
  /\ adapter \in Adapters /\ traits \in Program!Traits
  /\ leader \in {"running", "exiting", "zombie", "reaped"} /\ code \in {"none", "own", "killed"}
  /\ descendant \in {"none", "running", "dead"} /\ holds \subseteq {"leader", "descendant"}
  /\ reading \in BOOLEAN /\ late \in BOOLEAN
  /\ pc \in Program!Pcs /\ verdict \in Program!Verdicts

Drained == pipe = 0 /\ holds = {}

(* A reader that has stopped has seen the end, or has been told to stop;   *)
(* what each adapter has made sure of before it goes on.                   *)
ProgramKnows ==
  /\ ~reading => Drained \/ (adapter = "evidence" /\ (limited \/ verdict \in {"limit", "timeout"}))
  /\ verdict = "ok" => pc \in {"join", "ended"} /\ (adapter # "blobs" => ~reading)
  /\ adapter = "repair_git" =>
       /\ pc = "stop" => ~reading
       /\ pc \in {"join", "ended"} =>
            leader = "reaped" /\ (descendant = "running" => traits.escaped)
  /\ adapter = "evidence" => pc \in {"run", "poll", "join", "ended"}
                             /\ (pc \in {"run", "poll"} => verdict = "none")
  /\ adapter = "sandbox" =>
       /\ pc = "after" => ~reading
       /\ verdict = "ok" => ~limited
  /\ adapter = "runner" =>
       /\ pc = "after" /\ verdict = "none" => ~reading
       /\ verdict = "ok" \/ (verdict = "none" /\ pc # "stop") => ~limited
       /\ pc = "ended" => leader = "reaped" /\ descendant # "running"
  /\ adapter = "retrieval" =>
       /\ pc \in {"run", "wait"} => ~limited
       /\ pc = "wait" => ~reading
       /\ verdict = "ok" => ~limited

ProgramInv == ProgramTyped /\ ProgramBytes /\ ProgramKnows

(* What a signal, a wait or a read does.                                   *)
Signalled ==
  /\ leader' \in {"running", "exiting", "zombie", "reaped"} /\ code' \in {"none", "own", "killed"}
  /\ descendant' \in {"none", "running", "dead"} /\ holds' \subseteq holds
  /\ UNCHANGED <<pipe, sent>>
  /\ leader = "reaped" => leader' = "reaped"
  /\ descendant' = "running" => descendant = "running"

LEMMA ProgramIsKilled ==
  ASSUME ProgramTyped, NEW killed, Program!Kill(killed)
  PROVE  /\ Signalled
         /\ "leader" \in killed => leader' = "reaped"
         /\ "descendant" \in killed => descendant' # "running"
BY DEF ProgramTyped, Program!Kill, Signalled

LEMMA ProgramIsReaped ==
  ASSUME ProgramTyped, Program!Reap
  PROVE  Signalled
BY DEF ProgramTyped, Program!Reap, Program!Exited, Signalled

LEMMA ProgramStaysAlive ==
  ASSUME ProgramTyped, UNCHANGED Program!program
  PROVE  Signalled
BY DEF ProgramTyped, Program!program, Signalled

LEMMA ProgramIsTerminated ==
  ASSUME ProgramTyped, Program!Terminate
  PROVE  Signalled
<1>1. CASE Program!Reap
  BY <1>1, ProgramIsReaped
<1>2. CASE Program!Kill(Program!Group)
  BY <1>2, ProgramIsKilled
<1>3. CASE Program!Kill(Program!Group \ traits.stubborn)
  BY <1>3, ProgramIsKilled
<1>. QED  BY <1>1, <1>2, <1>3 DEF Program!Terminate

LEMMA GroupIsKilled ==
  ASSUME ProgramTyped, Program!Kill(Program!Group)
  PROVE  /\ Signalled /\ leader' = "reaped"
         /\ descendant' = "running" => traits.escaped
<1>1. Signalled /\ leader' = "reaped"
  BY ProgramIsKilled DEF Program!Group
<1>2. ASSUME descendant' = "running", ~traits.escaped
      PROVE  FALSE
  <2>1. "descendant" \in Program!Group
    BY <1>1, <1>2 DEF Program!Group, Program!InGroup, Signalled
  <2>. QED  BY <1>2, <2>1, ProgramIsKilled
<1>. QED  BY <1>1, <1>2 DEF ProgramTyped, Program!Traits

LEMMA ProgramIsRead ==
  ASSUME ProgramBytes, NEW bound \in Int, Program!Read(bound), sent' = sent
  PROVE  ProgramBytes' /\ (limited => limited') /\ pipe > 0
<1>1. PICK n \in 1..Program!AtMost(pipe, bound) :
         /\ pipe' = pipe - n /\ total' = total + n
         /\ got' = Program!AtMost(got + n, Limit)
         /\ limited' = (limited \/ total' > Limit)
  BY DEF Program!Read
<1>2. pipe \in Nat /\ pipe > 0
  BY DEF ProgramBytes, Program!Read
<1>3. n \in Nat /\ n <= pipe
  BY <1>2 DEF Program!AtMost
<1>4. /\ sent \in 0..SentBound /\ total \in Nat /\ total + pipe = sent /\ Limit \in Nat
      /\ got = (IF total <= Limit THEN total ELSE Limit)
      /\ limited \in BOOLEAN /\ (limited <=> total > Limit)
  BY ProgramAssumption DEF ProgramBytes, Program!BoundsAssumption
<1>5. pipe' \in Nat /\ total' \in Nat /\ total' + pipe' = sent' /\ total' >= total
  BY <1>1, <1>2, <1>3, <1>4
<1>6. got' = (IF total' <= Limit THEN total' ELSE Limit)
  BY <1>1, <1>3, <1>4 DEF Program!AtMost
<1>7. limited' \in BOOLEAN /\ (limited' <=> total' > Limit) /\ (limited => limited')
  <2>1. total > Limit => total' > Limit
    BY <1>4, <1>5
  <2>2. limited' = (limited \/ total' > Limit)
    BY <1>1
  <2>3. (limited <=> total > Limit) /\ limited \in BOOLEAN
    BY <1>4
  <2>. QED  BY <2>1, <2>2, <2>3, Zenon
<1>. QED  BY <1>2, <1>4, <1>5, <1>6, <1>7 DEF ProgramBytes

LEMMA BytesStay ==
  ASSUME ProgramBytes, UNCHANGED <<pipe, sent, got, total, limited>>
  PROVE  ProgramBytes'
BY DEF ProgramBytes

(* The program itself, the clock, and the threads that drain a pipe.       *)
LEMMA ProgramRuns ==
  ASSUME ProgramInv, Program!ProgramStep
  PROVE  ProgramInv'
<1>1. /\ ProgramTyped /\ ProgramBytes /\ ProgramKnows
      /\ UNCHANGED <<adapter, traits, got, total, reading, limited, late, pc, verdict>>
  BY DEF ProgramInv, Program!ProgramStep, Program!reader
<1>2. /\ leader' \in {"running", "exiting", "zombie", "reaped"}
      /\ code' \in {"none", "own", "killed"}
      /\ descendant' \in {"none", "running", "dead"}
      /\ holds' \subseteq {"leader", "descendant"} /\ (holds = {} => holds' = {})
      /\ leader = "reaped" =>
           leader' = "reaped" /\ (descendant' = "running" => descendant = "running")
      /\ \/ UNCHANGED <<pipe, sent>>
         \/ holds # {} /\ sent < SentBound /\ sent' = sent + 1 /\ pipe' = pipe + 1
  <2>1. CASE Program!Write
    BY <1>1, <2>1 DEF ProgramTyped, Program!Write, Program!WriterOpen
  <2>2. CASE Program!Fork
    BY <1>1, <2>2 DEF ProgramTyped, Program!Fork
  <2>3. CASE Program!CloseOutput
    BY <1>1, <2>3 DEF ProgramTyped, Program!CloseOutput
  <2>4. CASE Program!DescendantExits
    BY <1>1, <2>4 DEF ProgramTyped, Program!DescendantExits
  <2>5. CASE Program!LeaderExits
    BY <1>1, <2>5 DEF ProgramTyped, Program!LeaderExits
  <2>. QED  BY <2>1, <2>2, <2>3, <2>4, <2>5 DEF Program!ProgramStep
<1>3. ProgramTyped'
  BY <1>1, <1>2 DEF ProgramTyped
<1>4. ProgramBytes'
  BY <1>1, <1>2, ProgramAssumption DEF ProgramBytes, Program!BoundsAssumption
<1>5. Drained => Drained'
  BY <1>2 DEF Drained
<1>6. ProgramKnows'
  BY <1>1, <1>2, <1>5 DEF ProgramKnows
<1>. QED  BY <1>3, <1>4, <1>6 DEF ProgramInv

LEMMA ProgramIsTimed ==
  ASSUME ProgramInv, Program!Passes
  PROVE  ProgramInv'
BY DEF ProgramInv, ProgramTyped, ProgramBytes, ProgramKnows, Drained, Program!Passes,
   Program!program, Program!reader

LEMMA ProgramDrains ==
  ASSUME ProgramInv, Program!Drain
  PROVE  ProgramInv'
<1>1. /\ ProgramTyped /\ ProgramBytes /\ ProgramKnows
      /\ adapter \in {"repair_git", "evidence"} /\ reading
      /\ UNCHANGED <<adapter, leader, code, descendant, holds, sent, traits, late, pc, verdict>>
  BY DEF ProgramInv, Program!Drain, Program!Threads
<1>2. /\ ProgramBytes' /\ (limited => limited') /\ reading' \in BOOLEAN
      /\ ~reading' =>
           Drained' \/ (adapter = "evidence" /\ (limited' \/ verdict \in {"limit", "timeout"}))
  <2>1. CASE adapter = "repair_git" /\ Program!Read(SentBound) /\ UNCHANGED reading
    BY <1>1, <2>1, ProgramIsRead, ProgramAssumption DEF Program!BoundsAssumption
  <2>2. CASE adapter = "evidence" /\ Program!Read(Limit + 1 - total) /\ reading' = ~limited'
    <3>1. Limit + 1 - total \in Int
      BY <1>1, ProgramAssumption DEF ProgramBytes, Program!BoundsAssumption
    <3>2. ProgramBytes' /\ (limited => limited')
      BY <1>1, <2>2, <3>1, ProgramIsRead
    <3>3. reading' = ~limited' /\ adapter = "evidence"
      BY <2>2
    <3>. QED  BY <3>2, <3>3, Zenon
  <2>3. CASE /\ Program!EndOfOutput
                \/ (adapter = "evidence" /\ verdict \in {"limit", "timeout"})
             /\ reading' = FALSE /\ UNCHANGED <<pipe, got, total, limited>>
    BY <1>1, <2>3, BytesStay DEF Program!EndOfOutput, Program!WriterOpen, Drained
  <2>. QED  BY <2>1, <2>2, <2>3 DEF Program!Drain
<1>3. ProgramTyped'
  BY <1>1, <1>2 DEF ProgramTyped
<1>4. ProgramKnows'
  <2>1. verdict = "ok" => ~reading
    BY <1>1 DEF ProgramKnows
  <2>2. ~(adapter = "repair_git" /\ pc = "stop")
    BY <1>1 DEF ProgramKnows
  <2>. QED  BY <1>1, <1>2, <2>1, <2>2 DEF ProgramKnows
<1>. QED  BY <1>2, <1>3, <1>4 DEF ProgramInv

LEMMA ProgramCannotStart ==
  ASSUME ProgramInv, Program!StartFails
  PROVE  ProgramInv'
<1>1. /\ ProgramTyped /\ ProgramBytes /\ ProgramKnows
      /\ pc' = "ended" /\ verdict' = "failed" /\ descendant = "none"
      /\ UNCHANGED <<adapter, traits, got, total, reading, limited, late>>
  BY DEF ProgramInv, Program!StartFails, Program!Decide, Program!reader
<1>2. /\ Signalled /\ leader' = "reaped" /\ (descendant' = "running" => traits.escaped)
  BY <1>1, GroupIsKilled DEF Program!StartFails
<1>3. descendant' # "running" /\ holds' \subseteq holds /\ UNCHANGED <<pipe, sent>>
  BY <1>1, <1>2 DEF Signalled, Program!StartFails
<1>4. ProgramTyped'
  BY <1>1, <1>2 DEF ProgramTyped, Signalled, Program!Pcs, Program!Verdicts
<1>5. ProgramBytes'
  BY <1>1, <1>3, BytesStay
<1>6. ProgramKnows'
  <2>1. Drained => Drained'
    BY <1>3 DEF Drained
  <2>2. adapter = "evidence" => verdict = "none"
    BY <1>1 DEF ProgramKnows, Program!StartFails
  <2>. QED  BY <1>1, <1>2, <1>3, <2>1, <2>2 DEF ProgramKnows
<1>. QED  BY <1>4, <1>5, <1>6 DEF ProgramInv

(* A step of the caller that reads nothing.                                *)
LEMMA ProgramGoesOn ==
  ASSUME ProgramInv, Signalled, pc' \in Program!Pcs, verdict' \in Program!Verdicts,
         UNCHANGED <<adapter, traits, late, got, total, reading, limited>>,
         ProgramKnows'
  PROVE  ProgramInv'
<1>1. ProgramTyped /\ ProgramBytes
  BY DEF ProgramInv
<1>2. ProgramTyped'
  BY <1>1 DEF ProgramTyped, Signalled
<1>3. ProgramBytes'
  BY <1>1, BytesStay DEF Signalled
<1>. QED  BY <1>2, <1>3 DEF ProgramInv

LEMMA DrainedStays ==
  ASSUME Signalled, Drained
  PROVE  Drained'
BY DEF Signalled, Drained

(* _invoke_git.                                                            *)
LEMMA GitRuns ==
  ASSUME ProgramInv, Program!GitPolls \/ Program!GitWaits \/ Program!GitStops,
         UNCHANGED <<adapter, traits, late>>
  PROVE  ProgramInv'
<1>1. /\ ProgramTyped /\ ProgramKnows /\ adapter = "repair_git"
      /\ UNCHANGED <<adapter, traits, late, got, total, reading, limited>>
  BY DEF ProgramInv, Program!GitPolls, Program!GitWaits, Program!GitStops, Program!reader
<1>2. /\ Signalled /\ pc' \in Program!Pcs /\ verdict' \in Program!Verdicts
      /\ verdict' = "ok" => pc' = "join" /\ ~reading
      /\ pc' = "stop" => ~reading
      /\ pc' \in {"join", "ended"} =>
           leader' = "reaped" /\ (descendant' = "running" => traits.escaped)
  <2>1. CASE Program!GitPolls
    <3>1. /\ Signalled /\ verdict' = verdict /\ pc = "run"
          /\ pc' \in {"stop", "poll"} /\ (pc' = "stop" => ~reading)
      BY <1>1, <2>1, ProgramIsReaped DEF Program!GitPolls, Program!Goto
    <3>2. verdict \in Program!Verdicts /\ verdict # "ok"
      BY <1>1, <3>1 DEF ProgramTyped, ProgramKnows
    <3>. QED  BY <3>1, <3>2 DEF Program!Pcs
  <2>2. CASE Program!GitWaits
    <3>1. \/ /\ Program!Kill(Program!Group) /\ pc' = "join" /\ verdict' \in {"timeout", "limit"}
          \/ /\ Program!program' = Program!program /\ pc' = "run" /\ verdict' = verdict
             /\ pc = "poll"
      BY <2>2 DEF Program!GitWaits, Program!Goto, Program!Decide
    <3>2. verdict \in Program!Verdicts /\ (pc = "poll" => verdict # "ok")
      BY <1>1 DEF ProgramTyped, ProgramKnows
    <3>. QED  BY <1>1, <3>1, <3>2, GroupIsKilled, ProgramStaysAlive
              DEF Program!Pcs, Program!Verdicts
  <2>3. CASE Program!GitStops
    <3>1. /\ Program!Kill(Program!Group) /\ pc' = "join" /\ verdict' \in {"residual", "ok"}
          /\ pc = "stop"
      BY <2>3 DEF Program!GitStops, Program!Decide
    <3>2. ~reading
      BY <1>1, <3>1 DEF ProgramKnows
    <3>. QED  BY <1>1, <3>1, <3>2, GroupIsKilled DEF Program!Pcs, Program!Verdicts
  <2>. QED  BY <2>1, <2>2, <2>3
<1>3. ~reading => Drained'
  BY <1>1, <1>2, DrainedStays DEF ProgramKnows
<1>4. ProgramKnows'
  BY <1>1, <1>2, <1>3 DEF ProgramKnows
<1>. QED  BY <1>1, <1>2, <1>4, ProgramGoesOn

(* _invoke_bounded_process, and the end of both.                           *)
LEMMA EvidenceRuns ==
  ASSUME ProgramInv, Program!EvidenceChecks \/ Program!EvidencePolls \/ Program!Joins,
         UNCHANGED <<adapter, traits, late>>
  PROVE  ProgramInv'
<1>1. /\ ProgramTyped /\ ProgramKnows /\ adapter \in {"repair_git", "evidence"}
      /\ UNCHANGED <<adapter, traits, late, got, total, reading, limited>>
  BY DEF ProgramInv, Program!EvidenceChecks, Program!EvidencePolls, Program!Joins,
     Program!reader, Program!Threads
<1>2. CASE Program!Joins
  <2>1. /\ pc = "join" /\ pc' = "ended" /\ UNCHANGED <<leader, code, descendant, holds, pipe, sent>>
        /\ \/ reading /\ verdict' = "failed"
           \/ ~reading /\ verdict' = verdict
           \/ ~reading /\ verdict' = "timeout" /\ adapter = "evidence"
    BY <1>2 DEF Program!Joins, Program!Decide, Program!program
  <2>2. Signalled
    BY <1>1, <2>1, ProgramStaysAlive DEF Program!program
  <2>3. ProgramKnows'
    BY <1>1, <2>1 DEF ProgramKnows, Drained
  <2>4. pc' \in Program!Pcs /\ verdict' \in Program!Verdicts
    BY <1>1, <2>1 DEF ProgramTyped, Program!Pcs, Program!Verdicts
  <2>. QED  BY <1>1, <2>2, <2>3, <2>4, ProgramGoesOn
<1>3. CASE Program!EvidenceChecks \/ Program!EvidencePolls
  <2>1. /\ adapter = "evidence" /\ pc \in {"run", "poll"}
        /\ \/ Program!Kill(Program!Group) \/ Program!program' = Program!program \/ Program!Reap
        /\ \/ pc' = "join" /\ verdict' \in {"limit", "timeout"}
           \/ pc' \in {"run", "poll"} /\ verdict' = verdict
           \/ pc' = "join" /\ verdict' = "ok" /\ ~reading
    BY <1>3 DEF Program!EvidenceChecks, Program!EvidencePolls, Program!Decide, Program!Goto
  <2>2. Signalled
    BY <1>1, <2>1, ProgramIsKilled, ProgramIsReaped, ProgramStaysAlive
  <2>3. verdict = "none"
    BY <1>1, <2>1 DEF ProgramKnows
  <2>4. ~reading => Drained' \/ limited
    BY <1>1, <2>2, <2>3, DrainedStays DEF ProgramKnows
  <2>5. ProgramKnows'
    BY <1>1, <2>1, <2>3, <2>4 DEF ProgramKnows
  <2>6. pc' \in Program!Pcs /\ verdict' \in Program!Verdicts
    BY <2>1, <2>3 DEF Program!Pcs, Program!Verdicts
  <2>. QED  BY <1>1, <2>2, <2>5, <2>6, ProgramGoesOn
<1>. QED  BY <1>2, <1>3

(* A step of the caller that reads, or sees the end of the output.         *)
LEMMA ProgramReads ==
  ASSUME ProgramInv, pc' \in Program!Pcs, verdict' \in Program!Verdicts,
         UNCHANGED <<adapter, traits, late, leader, code, descendant, holds, sent>>,
         \/ UNCHANGED reading /\ \E bound \in Int : Program!Read(bound)
         \/ Program!EndOfOutput /\ reading' = FALSE /\ UNCHANGED <<pipe, got, total, limited>>,
         ProgramKnows'
  PROVE  ProgramInv'
<1>1. ProgramTyped /\ ProgramBytes
  BY DEF ProgramInv
<1>2. ProgramTyped'
  BY <1>1 DEF ProgramTyped
<1>3. ProgramBytes'
  BY <1>1, BytesStay, ProgramIsRead
<1>. QED  BY <1>2, <1>3 DEF ProgramInv

(* _run_bounded_process.                                                   *)
LEMMA SandboxRuns ==
  ASSUME ProgramInv,
         \/ Program!SandboxLoops \/ Program!SandboxSelects \/ Program!SandboxStops
         \/ Program!SandboxEnds,
         UNCHANGED <<adapter, traits, late>>
  PROVE  ProgramInv'
<1>1. /\ ProgramTyped /\ ProgramBytes /\ ProgramKnows /\ adapter = "sandbox"
      /\ UNCHANGED <<adapter, traits, late>> /\ pc \in {"run", "select", "stop", "after"}
  BY DEF ProgramInv, Program!SandboxLoops, Program!SandboxSelects, Program!SandboxStops,
     Program!SandboxEnds
<1>2. verdict # "ok" /\ verdict \in Program!Verdicts
  BY <1>1 DEF ProgramKnows, ProgramTyped
<1>3. CASE Program!SandboxLoops \/ Program!SandboxStops \/ Program!SandboxEnds
  <2>1. /\ \/ Program!program' = Program!program \/ Program!Terminate
        /\ UNCHANGED <<got, total, reading, limited>>
        /\ \/ pc' \in {"run", "select"} /\ verdict' = verdict
           \/ pc' = "select" /\ verdict' = "timeout"
           \/ pc' = "after" /\ verdict' = verdict /\ ~reading
           \/ pc = "after" /\ pc' = "ended" /\ verdict' \in {"timeout", "limit"}
           \/ pc = "after" /\ pc' = "ended" /\ verdict' = "ok" /\ ~limited
    BY <1>3 DEF Program!SandboxLoops, Program!SandboxStops, Program!SandboxEnds, Program!Goto,
       Program!Decide, Program!reader
  <2>2. Signalled
    BY <1>1, <2>1, ProgramIsTerminated, ProgramStaysAlive
  <2>3. ~reading => Drained'
    BY <1>1, <2>2, DrainedStays DEF ProgramKnows
  <2>4. ProgramKnows'
    BY <1>1, <1>2, <2>1, <2>3 DEF ProgramKnows
  <2>5. pc' \in Program!Pcs /\ verdict' \in Program!Verdicts
    BY <1>2, <2>1 DEF Program!Pcs, Program!Verdicts
  <2>. QED  BY <1>1, <2>1, <2>2, <2>4, <2>5, ProgramGoesOn
<1>4. CASE Program!SandboxSelects
  <2>1. verdict' = verdict /\ pc' \in {"run", "stop"}
    BY <1>4 DEF Program!SandboxSelects, Program!Goto
  <2>2. pc' \in Program!Pcs
    BY <2>1 DEF Program!Pcs
  <2>3. CASE /\ Program!Read(SentBound)
             /\ UNCHANGED <<reading, leader, code, descendant, holds, sent>>
    <3>1. pipe > 0
      BY <2>3 DEF Program!Read
    <3>2. ProgramKnows'
      BY <1>1, <1>2, <2>1, <2>3, <3>1 DEF ProgramKnows, Drained
    <3>3. SentBound \in Int
      BY ProgramAssumption DEF Program!BoundsAssumption
    <3>. QED  BY <1>1, <1>2, <2>1, <2>2, <2>3, <3>2, <3>3, ProgramReads
  <2>4. CASE /\ Program!EndOfOutput /\ reading' = FALSE
             /\ UNCHANGED <<Program!program, got, total, limited>>
    <3>1. ProgramKnows'
      BY <1>1, <1>2, <2>1, <2>4
         DEF ProgramKnows, Drained, Program!EndOfOutput, Program!WriterOpen, Program!program
    <3>. QED  BY <1>1, <1>2, <2>1, <2>2, <2>4, <3>1, ProgramReads DEF Program!program
  <2>5. CASE UNCHANGED <<Program!program, Program!reader>>
    <3>1. Signalled
      BY <1>1, <2>5, ProgramStaysAlive
    <3>2. ProgramKnows'
      BY <1>1, <1>2, <2>1, <2>5 DEF ProgramKnows, Drained, Program!program, Program!reader
    <3>. QED  BY <1>1, <1>2, <2>1, <2>2, <2>5, <3>1, <3>2, ProgramGoesOn DEF Program!reader
  <2>. QED  BY <1>4, <2>3, <2>4, <2>5 DEF Program!SandboxSelects
<1>. QED  BY <1>3, <1>4

(* _run_command.                                                           *)
LEMMA RunnerRuns ==
  ASSUME ProgramInv,
         \/ Program!RunnerLoops \/ Program!RunnerSelects \/ Program!RunnerStops
         \/ Program!RunnerEnds,
         UNCHANGED <<adapter, traits, late>>
  PROVE  ProgramInv'
<1>1. /\ ProgramTyped /\ ProgramBytes /\ ProgramKnows /\ adapter = "runner"
      /\ UNCHANGED <<adapter, traits, late>> /\ pc \in {"run", "select", "stop", "after"}
  BY DEF ProgramInv, Program!RunnerLoops, Program!RunnerSelects, Program!RunnerStops,
     Program!RunnerEnds
<1>2. /\ verdict # "ok" /\ verdict \in Program!Verdicts
      /\ verdict = "none" /\ pc # "stop" => ~limited
  BY <1>1 DEF ProgramKnows, ProgramTyped
<1>3. CASE Program!RunnerLoops \/ Program!RunnerStops
  <2>1. /\ \/ Program!program' = Program!program \/ Program!Reap
           \/ Program!Kill(Program!Everybody)
        /\ UNCHANGED <<got, total, reading, limited>>
        /\ \/ pc = "run" /\ pc' = "select" /\ verdict' \in {verdict, "timeout"}
           \/ pc = "run" /\ pc' = "after" /\ verdict' = verdict /\ ~reading
           \/ pc' = "run" /\ verdict' = "limit"
    BY <1>3 DEF Program!RunnerLoops, Program!RunnerStops, Program!Goto, Program!Decide,
       Program!reader
  <2>2. Signalled
    BY <1>1, <2>1, ProgramIsKilled, ProgramIsReaped, ProgramStaysAlive
  <2>3. ~reading => Drained'
    BY <1>1, <2>2, DrainedStays DEF ProgramKnows
  <2>4. ProgramKnows'
    BY <1>1, <1>2, <2>1, <2>3 DEF ProgramKnows
  <2>5. pc' \in Program!Pcs /\ verdict' \in Program!Verdicts
    BY <1>2, <2>1 DEF Program!Pcs, Program!Verdicts
  <2>. QED  BY <1>1, <2>1, <2>2, <2>4, <2>5, ProgramGoesOn
<1>4. CASE Program!RunnerEnds
  <2>1. /\ Program!Kill(Program!Everybody) /\ pc = "after" /\ pc' = "ended"
        /\ UNCHANGED <<got, total, reading, limited>>
        /\ verdict' \in {"residual", verdict} \cup (IF verdict = "none" THEN {"ok"} ELSE {})
        /\ verdict' # "none"
    BY <1>4 DEF Program!RunnerEnds, Program!Decide, Program!reader
  <2>2. Signalled /\ leader' = "reaped" /\ descendant' # "running"
    BY <1>1, <2>1, ProgramIsKilled DEF Program!Everybody
  <2>3. ~reading => Drained'
    BY <1>1, <2>2, DrainedStays DEF ProgramKnows
  <2>4. verdict' = "ok" => ~reading /\ ~limited
    BY <1>1, <1>2, <2>1 DEF ProgramKnows
  <2>5. ProgramKnows'
    BY <1>1, <1>2, <2>1, <2>2, <2>3, <2>4 DEF ProgramKnows
  <2>6. pc' \in Program!Pcs /\ verdict' \in Program!Verdicts
    BY <1>2, <2>1 DEF Program!Pcs, Program!Verdicts
  <2>. QED  BY <1>1, <2>1, <2>2, <2>5, <2>6, ProgramGoesOn
<1>5. CASE Program!RunnerSelects
  <2>1. /\ pc = "select" /\ verdict' = verdict /\ pc' \in {"run", "stop", "after"}
        /\ pc' = "after" => verdict # "none"
    BY <1>5 DEF Program!RunnerSelects, Program!Goto
  <2>2. pc' \in Program!Pcs
    BY <2>1 DEF Program!Pcs
  <2>3. CASE /\ reading /\ Program!Read(SentBound)
             /\ UNCHANGED <<reading, leader, code, descendant, holds, sent>>
             /\ Program!Goto(IF limited' /\ ~limited /\ verdict = "none" THEN "stop" ELSE "run")
    <3>1. verdict = "none" /\ pc' # "stop" => ~limited'
      BY <1>2, <2>1, <2>3 DEF Program!Goto
    <3>2. ProgramKnows'
      BY <1>1, <1>2, <2>1, <2>3, <3>1 DEF ProgramKnows, Drained
    <3>3. SentBound \in Int
      BY ProgramAssumption DEF Program!BoundsAssumption
    <3>. QED  BY <1>1, <1>2, <2>1, <2>2, <2>3, <3>2, <3>3, ProgramReads
  <2>4. CASE /\ Program!EndOfOutput /\ reading' = FALSE
             /\ UNCHANGED <<Program!program, got, total, limited>>
    <3>1. ProgramKnows'
      BY <1>1, <1>2, <2>1, <2>4
         DEF ProgramKnows, Drained, Program!EndOfOutput, Program!WriterOpen, Program!program
    <3>. QED  BY <1>1, <1>2, <2>1, <2>2, <2>4, <3>1, ProgramReads DEF Program!program
  <2>5. CASE UNCHANGED <<Program!program, Program!reader>>
    <3>1. Signalled
      BY <1>1, <2>5, ProgramStaysAlive
    <3>2. ProgramKnows'
      BY <1>1, <1>2, <2>1, <2>5 DEF ProgramKnows, Drained, Program!program, Program!reader
    <3>. QED  BY <1>1, <1>2, <2>1, <2>2, <2>5, <3>1, <3>2, ProgramGoesOn DEF Program!reader
  <2>. QED  BY <1>5, <2>3, <2>4, <2>5 DEF Program!RunnerSelects
<1>. QED  BY <1>3, <1>4, <1>5

(* _run_git of the retrieval, and _read_blobs.                             *)
LEMMA RetrievalRuns ==
  ASSUME ProgramInv,
         Program!RetrievalReads \/ Program!RetrievalWaits \/ Program!RetrievalStops,
         UNCHANGED <<adapter, traits, late>>
  PROVE  ProgramInv'
<1>1. /\ ProgramTyped /\ ProgramBytes /\ ProgramKnows /\ adapter = "retrieval"
      /\ UNCHANGED <<adapter, traits, late>> /\ pc \in {"run", "wait", "stop"}
  BY DEF ProgramInv, Program!RetrievalReads, Program!RetrievalWaits, Program!RetrievalStops
<1>2. /\ verdict # "ok" /\ verdict \in Program!Verdicts
      /\ pc \in {"run", "wait"} => ~limited
      /\ pc = "wait" => ~reading
  BY <1>1 DEF ProgramKnows, ProgramTyped
<1>3. CASE Program!RetrievalWaits \/ Program!RetrievalStops
  <2>1. /\ \/ Program!program' = Program!program \/ Program!Reap
           \/ Program!Kill({"leader"})
        /\ UNCHANGED <<got, total, reading, limited>>
        /\ \/ pc = "wait" /\ pc' = "ended" /\ verdict' = "ok"
           \/ pc' = "stop" /\ verdict' = "timeout"
           \/ pc' = "ended" /\ verdict' = verdict
    BY <1>3 DEF Program!RetrievalWaits, Program!RetrievalStops, Program!Goto, Program!Decide,
       Program!reader
  <2>2. Signalled
    BY <1>1, <2>1, ProgramIsKilled, ProgramIsReaped, ProgramStaysAlive
  <2>3. ~reading => Drained'
    BY <1>1, <2>2, DrainedStays DEF ProgramKnows
  <2>4. ProgramKnows'
    BY <1>1, <1>2, <2>1, <2>3 DEF ProgramKnows
  <2>5. pc' \in Program!Pcs /\ verdict' \in Program!Verdicts
    BY <1>2, <2>1 DEF Program!Pcs, Program!Verdicts
  <2>. QED  BY <1>1, <2>1, <2>2, <2>4, <2>5, ProgramGoesOn
<1>4. CASE Program!RetrievalReads
  <2>1. CASE /\ Program!Read(Limit + 1 - total)
             /\ UNCHANGED <<reading, leader, code, descendant, holds, sent>>
             /\ IF limited' THEN Program!Decide("limit", "stop") ELSE Program!Goto("run")
    <3>1. \/ pc' = "stop" /\ verdict' = "limit"
          \/ pc' = "run" /\ verdict' = verdict /\ ~limited'
      BY <2>1 DEF Program!Decide, Program!Goto
    <3>2. pc' \in Program!Pcs /\ verdict' \in Program!Verdicts
      BY <1>2, <3>1 DEF Program!Pcs, Program!Verdicts
    <3>3. ProgramKnows'
      BY <1>1, <1>2, <2>1, <3>1 DEF ProgramKnows, Drained, Program!Read
    <3>4. Limit + 1 - total \in Int
      BY <1>1, ProgramAssumption DEF ProgramBytes, Program!BoundsAssumption
    <3>. QED  BY <1>1, <2>1, <3>2, <3>3, <3>4, ProgramReads
  <2>2. CASE /\ Program!EndOfOutput /\ reading' = FALSE /\ Program!Goto("wait")
             /\ UNCHANGED <<Program!program, got, total, limited>>
    <3>1. pc = "run" /\ pc' = "wait" /\ verdict' = verdict
      BY <1>4, <2>2 DEF Program!Goto, Program!RetrievalReads
    <3>2. pc' \in Program!Pcs
      BY <3>1 DEF Program!Pcs
    <3>3. ProgramKnows'
      BY <1>1, <1>2, <2>2, <3>1
         DEF ProgramKnows, Drained, Program!EndOfOutput, Program!WriterOpen, Program!program
    <3>. QED  BY <1>1, <1>2, <2>2, <3>1, <3>2, <3>3, ProgramReads DEF Program!program
  <2>3. CASE Program!Decide("timeout", "stop") /\ UNCHANGED <<Program!program, Program!reader>>
    <3>1. Signalled
      BY <1>1, <2>3, ProgramStaysAlive
    <3>2. pc' = "stop" /\ verdict' = "timeout"
      BY <2>3 DEF Program!Decide
    <3>3. pc' \in Program!Pcs /\ verdict' \in Program!Verdicts
      BY <3>2 DEF Program!Pcs, Program!Verdicts
    <3>4. ProgramKnows'
      BY <1>1, <1>2, <2>3, <3>2 DEF ProgramKnows, Drained, Program!program, Program!reader
    <3>. QED  BY <1>1, <2>3, <3>1, <3>3, <3>4, ProgramGoesOn DEF Program!reader
  <2>. QED  BY <1>4, <2>1, <2>2, <2>3 DEF Program!RetrievalReads
<1>. QED  BY <1>3, <1>4

LEMMA BlobsRun ==
  ASSUME ProgramInv,
         Program!BlobsAsk \/ Program!BlobsRead \/ Program!BlobsWait \/ Program!BlobsStop,
         UNCHANGED <<adapter, traits, late>>
  PROVE  ProgramInv'
<1>1. /\ ProgramTyped /\ ProgramBytes /\ ProgramKnows /\ adapter = "blobs"
      /\ UNCHANGED <<adapter, traits, late>> /\ pc \in {"run", "select", "wait", "stop"}
  BY DEF ProgramInv, Program!BlobsAsk, Program!BlobsRead, Program!BlobsWait, Program!BlobsStop
<1>2. verdict # "ok" /\ verdict \in Program!Verdicts
  BY <1>1 DEF ProgramKnows, ProgramTyped
<1>3. /\ \/ Program!program' = Program!program \/ Program!Reap \/ Program!Kill({"leader"})
      /\ UNCHANGED <<got, total, reading, limited>>
      /\ \/ pc' \in {"wait", "select", "stop"} /\ verdict' = verdict
         \/ pc' = "stop" /\ verdict' \in {"timeout", "failed"}
         \/ pc' = "ended" /\ verdict' \in {"timeout", "ok", verdict}
      => ProgramInv'
  <2>. SUFFICES ASSUME \/ Program!program' = Program!program \/ Program!Reap
                       \/ Program!Kill({"leader"}),
                       UNCHANGED <<got, total, reading, limited>>,
                       \/ pc' \in {"wait", "select", "stop"} /\ verdict' = verdict
                       \/ pc' = "stop" /\ verdict' \in {"timeout", "failed"}
                       \/ pc' = "ended" /\ verdict' \in {"timeout", "ok", verdict}
                PROVE  ProgramInv'
    OBVIOUS
  <2>1. Signalled
    BY <1>1, ProgramIsKilled, ProgramIsReaped, ProgramStaysAlive
  <2>2. ~reading => Drained'
    BY <1>1, <2>1, DrainedStays DEF ProgramKnows
  <2>3. ProgramKnows'
    BY <1>1, <1>2, <2>2 DEF ProgramKnows
  <2>4. pc' \in Program!Pcs /\ verdict' \in Program!Verdicts
    BY <1>2 DEF Program!Pcs, Program!Verdicts
  <2>. QED  BY <1>1, <2>1, <2>3, <2>4, ProgramGoesOn
<1>4. CASE Program!BlobsAsk \/ Program!BlobsWait \/ Program!BlobsStop
  BY <1>1, <1>3, <1>4 DEF Program!BlobsAsk, Program!BlobsWait, Program!BlobsStop, Program!Goto,
     Program!Decide, Program!reader
<1>5. CASE Program!BlobsRead
  <2>1. CASE /\ Program!Read(1) /\ Program!Goto("run")
             /\ UNCHANGED <<reading, leader, code, descendant, holds, sent>>
    <3>1. pc' = "run" /\ verdict' = verdict /\ pc' \in Program!Pcs
      BY <2>1 DEF Program!Goto, Program!Pcs
    <3>2. ProgramKnows'
      BY <1>1, <1>2, <2>1, <3>1 DEF ProgramKnows, Drained, Program!Read
    <3>3. \E bound \in Int : Program!Read(bound)
      BY <2>1
    <3>. QED  BY <1>1, <1>2, <2>1, <3>1, <3>2, <3>3, ProgramReads
  <2>2. CASE Program!Decide("failed", "stop") /\ UNCHANGED <<Program!program, Program!reader>>
    BY <1>3, <2>2 DEF Program!Decide, Program!reader
  <2>. QED  BY <1>5, <2>1, <2>2 DEF Program!BlobsRead
<1>. QED  BY <1>4, <1>5

LEMMA ProgramStarts ==
  ASSUME Program!Init
  PROVE  ProgramInv
<1>1. ProgramTyped
  BY DEF Program!Init, ProgramTyped, Program!Pcs, Program!Verdicts
<1>2. ProgramBytes
  <2>1. /\ 0 \in Nat /\ 0 \in 0..SentBound /\ 0 + 0 = 0
        /\ 0 <= Limit /\ ~(0 > Limit)
    BY ProgramAssumption DEF Program!BoundsAssumption
  <2>. QED  BY <2>1 DEF Program!Init, ProgramBytes
<1>3. ProgramKnows
  BY DEF Program!Init, ProgramKnows
<1>. QED  BY <1>1, <1>2, <1>3 DEF ProgramInv

LEMMA ProgramStays ==
  ASSUME ProgramInv,
         UNCHANGED <<adapter, leader, code, descendant, holds, pipe, sent, traits, got, total,
                     reading, limited, late, pc, verdict>>
  PROVE  ProgramInv'
BY DEF ProgramInv, ProgramTyped, ProgramBytes, ProgramKnows, Drained

LEMMA ProgramSteps ==
  ASSUME ProgramInv, Program!Next
  PROVE  ProgramInv'
<1>1. CASE Program!Returned
  BY <1>1, ProgramStays DEF Program!Returned, Program!vars, Program!program, Program!reader
<1>2. CASE Program!CallerStep
  BY <1>2, GitRuns, EvidenceRuns, SandboxRuns, RunnerRuns, RetrievalRuns, BlobsRun
     DEF Program!CallerStep
<1>. QED
  BY <1>1, <1>2, ProgramRuns, ProgramIsTimed, ProgramDrains, ProgramCannotStart DEF Program!Next

LEMMA ProgramIsRight ==
  ASSUME ProgramInv
  PROVE  /\ Program!TypeOK /\ Program!SuccessIsDrained /\ Program!NobodyLeft
         /\ adapter \in {"sandbox", "runner", "retrieval"} => Program!WholeOutput
<1>1. ProgramTyped /\ ProgramBytes /\ ProgramKnows
  BY DEF ProgramInv
<1>2. Program!TypeOK
  <2>1. got \in 0..Limit /\ pipe \in 0..SentBound /\ total \in 0..SentBound
    BY <1>1, ProgramAssumption DEF ProgramBytes, Program!BoundsAssumption
  <2>. QED  BY <1>1, <2>1 DEF ProgramTyped, ProgramBytes, Program!TypeOK
<1>3. Program!SuccessIsDrained
  BY <1>1 DEF ProgramKnows, Drained, Program!SuccessIsDrained, Program!Success, Program!Ended,
     Program!WriterOpen
<1>4. Program!NobodyLeft
  BY <1>1 DEF ProgramKnows, Program!NobodyLeft, Program!Ended, Program!InGroup
<1>5. ASSUME adapter \in {"sandbox", "runner", "retrieval"}
      PROVE  Program!WholeOutput
  <2>1. Program!Success => Drained /\ ~limited
    BY <1>1, <1>5 DEF ProgramKnows, Program!Success
  <2>2. Drained /\ ~limited => got = sent
    BY <1>1, ProgramAssumption DEF ProgramBytes, Drained, Program!BoundsAssumption
  <2>. QED  BY <2>1, <2>2 DEF Program!WholeOutput, Program!WriterOpen, Drained
<1>. QED  BY <1>2, <1>3, <1>4, <1>5

LEMMA ProgramInvariant == Spec => [](part = "process" => ProgramInv)
<1>1. Init => (part = "process" => ProgramInv)
  BY ProgramStarts DEF Init
<1>2. (part = "process" => ProgramInv) /\ [Next]_vars
        => (part = "process" => ProgramInv)'
  <2> SUFFICES ASSUME part = "process" => ProgramInv, [Next]_vars, part' = "process"
               PROVE  ProgramInv'
    OBVIOUS
  <2>1. CASE Next
    <3>1. part = "process" /\ Program!Next
      BY <2>1 DEF Next, IsSession, IsCandidate, IsRef, IsSandbox, IsHost, IsContainer, IsProcess
    <3>. QED  BY <3>1, ProgramSteps
  <2>2. CASE UNCHANGED vars
    BY <2>2, ProgramStays DEF vars, processVars
  <2>. QED  BY <2>1, <2>2
<1>. QED  BY <1>1, <1>2, PTL DEF Spec

(* A call of another program that succeeds has read its output to the end, *)
(* or to the limit, and nobody is left who could still write or hold a     *)
(* lock, for each of the six adapters and whatever the program does.       *)
THEOREM RepairMachineCalls == Spec => []CallsAreHonest
<1>1. (part = "process" => ProgramInv) => CallsAreHonest
  BY ProgramIsRight DEF CallsAreHonest
<1>. QED  BY <1>1, ProgramInvariant, PTL

-----------------------------------------------------------------------------
(* What holds between the steps of the repair ref's readers and writers.   *)

(* The program counters of a read once packed-refs has been opened, once   *)
(* the directory has, and once the loose ref has; those of a read that has *)
(* looked at the files again, and at the directory.                        *)
LookedAgain == {"absent", "absent2"}
FilesAgain == {"files2", "dirs"} \cup LookedAgain
LooseOpen == {"log", "relog", "files"} \cup FilesAgain
DirOpen == {"looselock", "loose"} \cup LooseOpen
PackedOpen == {"dir"} \cup DirOpen

Generations == 0..clock

RefTyped ==
  /\ pc \in [RefProcesses -> Reference!Pcs]
  /\ job \in [RefProcesses -> {"none", "read", "publish"}]
  /\ packed \in [gen : Generations, oid : Reference!Oids]
  /\ loose \in [gen : Generations, oid : Reference!Oids]
  /\ packedLock \in BOOLEAN /\ reflog \in BOOLEAN /\ clock \in Nat /\ dir \in Generations
  /\ looseLock \in {"nobody", "foreign", "stale"} \cup RefProcesses
  /\ foreign \in [at : {"idle", "update", "pack", "prune", "delete", "unlink", "rmdir"},
                  count : 0..ForeignBound]
  /\ push \in [RefProcesses -> {"none", "started", "checked", "locked", "0", "1"}]
  /\ snap \in [RefProcesses -> [packed : [gen : Generations, oid : Reference!Oids],
                                dir : Generations,
                                loose : [gen : Generations, oid : Reference!Oids]]]
  /\ pin \in [RefProcesses -> Generations] /\ answer \in [RefProcesses -> Reference!Oids]
  /\ result \in [RefProcesses -> Reference!Results]
  /\ seen \in [RefProcesses -> SUBSET Reference!Oids]
  /\ crashes \in 0..CrashBound

(* Who has the lock file, and that a loose ref and a lock file are in a    *)
(* directory.                                                              *)
RefLocked ==
  /\ loose.gen # 0 \/ looseLock # "nobody" => dir # 0
  /\ foreign.at \in {"update", "delete", "unlink"} => looseLock = "foreign"
  /\ \A who \in RefProcesses : looseLock = who <=> push[who] = "locked"

(* The session lock: one process with its child at a time.                 *)
Engaged(who) == pc[who] # "idle" \/ push[who] \in {"started", "checked", "locked"}
RefShared ==
  \A who, other \in RefProcesses : Engaged(who) /\ Engaged(other) => who = other

(* What the checks that a read has still to make would tell it: that       *)
(* packed-refs is the one it opened, and the directory too.                *)
SamePacked(who) ==
  \/ packed.gen = snap[who].packed.gen
  \/ snap[who].packed.gen # 0 /\ pc[who] \in FilesAgain
  \/ pc[who] = "absent2"
SameDir(who) ==
  \/ snap[who].dir = 0 \/ dir = snap[who].dir
  \/ pin[who] = 0 /\ pc[who] \in LookedAgain

(* Why an answer is true: the value of a loose ref was the ref's when it   *)
(* was opened; that of packed-refs was it when there was no loose ref, if  *)
(* neither packed-refs nor the directory has been replaced since.          *)
RefKnows(who) ==
  /\ pc[who] # "idle" => Reference!Ref \in seen[who]
  /\ pc[who] \in PackedOpen =>
       (packed.gen = snap[who].packed.gen => packed = snap[who].packed)
  /\ pc[who] \in DirOpen /\ pin[who] # 0 => snap[who].dir = pin[who]
  /\ pc[who] \in {"looselock", "loose"} => snap[who].dir # 0
  /\ pc[who] \in LooseOpen =>
       /\ snap[who].loose.gen # 0 => snap[who].loose.oid \in seen[who]
       /\ snap[who].loose.gen = 0 /\ SamePacked(who) /\ SameDir(who)
            => snap[who].packed.oid \in seen[who]
  /\ pc[who] \in {"answer", "unpin"} =>
       (pin[who] = 0 \/ dir = pin[who] => answer[who] \in seen[who])
  /\ pc[who] = "unpin" => pin[who] # 0
  /\ pc[who] \in {"mkdir", "pin", "push", "wait", "unpin"} => job[who] = "publish"
  /\ job[who] = "read" => pin[who] = 0
  /\ pc[who] = "idle" =>
       /\ result[who] \in Reference!Oids => result[who] \in seen[who]
       /\ result[who] \in {"published", "already"} => "ours" \in seen[who]
       /\ result[who] = "conflict" => "other" \in seen[who]

(* A push child that runs is waited for, or its process has died.          *)
RefChild ==
  \A who \in RefProcesses :
    push[who] \in {"started", "checked", "locked"} =>
      \/ pc[who] = "wait"
      \/ pc[who] = "idle" /\ result[who] # "pending"

RefInv == RefTyped /\ RefLocked /\ RefShared /\ RefChild /\ \A who \in RefProcesses : RefKnows(who)

(* What a process has read stays worth as much while others work.          *)
LEMMA RefKnowsMoves ==
  ASSUME RefTyped, NEW who \in RefProcesses, RefKnows(who),
         UNCHANGED <<pc[who], job[who], snap[who], pin[who], answer[who], result[who]>>,
         packed' = packed \/ packed'.gen = clock + 1,
         dir' = dir \/ dir' = 0 \/ dir' = clock + 1,
         seen[who] \subseteq seen'[who],
         pc[who] # "idle" => Reference!Ref' \in seen'[who]
  PROVE  RefKnows(who)'
<1>1. /\ snap[who].packed.gen \in Generations /\ snap[who].dir \in Generations
      /\ pin[who] \in Generations /\ clock \in Nat
  BY DEF RefTyped
<1>2. /\ snap[who].packed.gen # clock + 1 /\ snap[who].dir # clock + 1 /\ pin[who] # clock + 1
  BY <1>1 DEF Generations
<1>3. SamePacked(who)' => SamePacked(who)
  BY <1>2 DEF SamePacked
<1>4. SameDir(who)' => SameDir(who)
  BY <1>2 DEF SameDir
<1>5. /\ pc[who] \in PackedOpen /\ packed'.gen = snap[who].packed.gen
           => packed' = snap[who].packed
  BY <1>2 DEF RefKnows
<1>6. pin[who] = 0 \/ dir' = pin[who] => pin[who] = 0 \/ dir = pin[who]
  BY <1>2
<1>. QED  BY <1>3, <1>4, <1>5, <1>6 DEF RefKnows

LEMMA RefKnowsStays ==
  ASSUME RefTyped, NEW who \in RefProcesses, RefKnows(who),
         UNCHANGED <<pc[who], job[who], snap[who], pin[who], answer[who], result[who], packed,
                     dir, loose, seen[who]>>
  PROVE  RefKnows(who)'
<1>1. Reference!Ref' = Reference!Ref
  BY DEF Reference!Ref, Reference!RefOf
<1>. QED  BY <1>1, RefKnowsMoves DEF RefKnows

(* A step of a process that only looks.                                    *)
LEMMA RefLooks ==
  ASSUME RefInv, NEW who \in RefProcesses, pc[who] \notin {"idle", "wait"}, Reference!Quiet,
         pc' \in [RefProcesses -> Reference!Pcs], UNCHANGED job,
         snap' \in [RefProcesses -> [packed : [gen : Generations, oid : Reference!Oids],
                                     dir : Generations,
                                     loose : [gen : Generations, oid : Reference!Oids]]],
         pin' \in [RefProcesses -> Generations], answer' \in [RefProcesses -> Reference!Oids],
         result' \in [RefProcesses -> Reference!Results],
         \A other \in RefProcesses \ {who} :
           UNCHANGED <<pc[other], snap[other], pin[other], answer[other], result[other]>>,
         RefKnows(who)'
  PROVE  RefInv'
<1>1. /\ RefTyped /\ RefLocked /\ RefShared /\ RefChild
      /\ \A one \in RefProcesses : RefKnows(one)
      /\ UNCHANGED <<packed, packedLock, dir, loose, looseLock, reflog, clock, foreign, push,
                     seen, crashes>>
  BY DEF RefInv, Reference!Quiet, Reference!storage
<1>2. RefTyped'
  BY <1>1 DEF RefTyped, Generations
<1>3. RefLocked'
  BY <1>1 DEF RefLocked
<1>4. \A one \in RefProcesses : Engaged(one)' => Engaged(one)
  BY <1>1 DEF Engaged
<1>5. RefShared'
  BY <1>1, <1>4 DEF RefShared
<1>6. ASSUME NEW other \in RefProcesses \ {who}
      PROVE  RefKnows(other)'
  BY <1>1, <1>6, RefKnowsStays
<1>7. \A one \in RefProcesses : RefKnows(one)'
  BY <1>6
<1>8. RefChild'
  BY <1>1 DEF RefChild
<1>. QED  BY <1>2, <1>3, <1>5, <1>7, <1>8 DEF RefInv

LEMMA RefFails ==
  ASSUME RefInv, NEW who \in RefProcesses, pc[who] \notin {"idle", "wait"}, Reference!Quiet,
         Reference!Fail(who)
  PROVE  RefInv'
<1>1. /\ RefTyped /\ RefKnows(who)
      /\ pc' = [pc EXCEPT ![who] = "idle"] /\ result' = [result EXCEPT ![who] = "failed"]
      /\ UNCHANGED <<job, snap, pin, answer, clock>>
  BY DEF RefInv, Reference!Fail, Reference!Return, Reference!Goto, Reference!Quiet,
     Reference!storage
<1>2. /\ pc' \in [RefProcesses -> Reference!Pcs] /\ result' \in [RefProcesses -> Reference!Results]
  BY <1>1 DEF RefTyped, Reference!Pcs, Reference!Results
<1>3. pc'[who] = "idle" /\ result'[who] = "failed"
  BY <1>1 DEF RefTyped
<1>4. RefKnows(who)'
  BY <1>1, <1>3
     DEF RefKnows, PackedOpen, DirOpen, LooseOpen, FilesAgain, LookedAgain, Reference!Oids,
     Reference!Ours, Reference!Other, Reference!NoOid
<1>5. \A other \in RefProcesses \ {who} : pc'[other] = pc[other] /\ result'[other] = result[other]
  BY <1>1 DEF RefTyped
<1>6. \A other \in RefProcesses \ {who} :
        UNCHANGED <<pc[other], snap[other], pin[other], answer[other], result[other]>>
  BY <1>1, <1>5
<1>7. /\ snap' \in [RefProcesses -> [packed : [gen : Generations, oid : Reference!Oids],
                                     dir : Generations,
                                     loose : [gen : Generations, oid : Reference!Oids]]]
      /\ pin' \in [RefProcesses -> Generations] /\ answer' \in [RefProcesses -> Reference!Oids]
  BY <1>1 DEF RefTyped, Generations
<1>. QED  BY <1>1, <1>2, <1>4, <1>6, <1>7, RefLooks

LEMMA RefProceeds ==
  ASSUME RefInv, NEW who \in RefProcesses, pc[who] \notin {"idle", "wait"}, Reference!Quiet,
         NEW next \in Reference!Pcs, Reference!Proceed(who, next),
         pc'[who] = next => RefKnows(who)'
  PROVE  RefInv'
<1>1. /\ RefTyped
      /\ pc' = [pc EXCEPT ![who] = next] /\ UNCHANGED <<job, snap, pin, answer, result, clock>>
  BY DEF RefInv, Reference!Proceed, Reference!Goto, Reference!Quiet, Reference!storage
<1>2. /\ pc' \in [RefProcesses -> Reference!Pcs] /\ pc'[who] = next
      /\ \A other \in RefProcesses \ {who} : pc'[other] = pc[other]
  BY <1>1 DEF RefTyped
<1>3. \A other \in RefProcesses \ {who} :
        UNCHANGED <<pc[other], snap[other], pin[other], answer[other], result[other]>>
  BY <1>1, <1>2
<1>4. /\ snap' \in [RefProcesses -> [packed : [gen : Generations, oid : Reference!Oids],
                                     dir : Generations,
                                     loose : [gen : Generations, oid : Reference!Oids]]]
      /\ pin' \in [RefProcesses -> Generations] /\ answer' \in [RefProcesses -> Reference!Oids]
      /\ result' \in [RefProcesses -> Reference!Results]
  BY <1>1 DEF RefTyped, Generations
<1>. QED  BY <1>1, <1>2, <1>3, <1>4, RefLooks

(* The looks of a read at the lock of packed-refs, at packed-refs, at the  *)
(* directory and at the loose ref.                                         *)
SnapTypes == [RefProcesses -> [packed : [gen : Generations, oid : Reference!Oids],
                               dir : Generations,
                               loose : [gen : Generations, oid : Reference!Oids]]]

LEMMA SnapOpened ==
  ASSUME snap \in SnapTypes, NEW who \in RefProcesses, NEW d \in Generations,
         NEW f \in [gen : Generations, oid : Reference!Oids]
  PROVE  /\ [snap EXCEPT ![who].packed = f] \in SnapTypes
         /\ [snap EXCEPT ![who].dir = d, ![who].loose = f] \in SnapTypes
         /\ [snap EXCEPT ![who].loose = f] \in SnapTypes
<1>1. PICK one : one = snap[who]
  OBVIOUS
<1>2. one \in [packed : [gen : Generations, oid : Reference!Oids], dir : Generations,
               loose : [gen : Generations, oid : Reference!Oids]]
  BY <1>1 DEF SnapTypes
<1>3. /\ [one EXCEPT !.packed = f] \in [packed : [gen : Generations, oid : Reference!Oids],
            dir : Generations, loose : [gen : Generations, oid : Reference!Oids]]
      /\ [one EXCEPT !.dir = d, !.loose = f] \in
           [packed : [gen : Generations, oid : Reference!Oids],
            dir : Generations, loose : [gen : Generations, oid : Reference!Oids]]
      /\ [one EXCEPT !.loose = f] \in [packed : [gen : Generations, oid : Reference!Oids],
            dir : Generations, loose : [gen : Generations, oid : Reference!Oids]]
  BY <1>2
<1>4. \A g \in [packed : [gen : Generations, oid : Reference!Oids], dir : Generations,
                loose : [gen : Generations, oid : Reference!Oids]] :
        [snap EXCEPT ![who] = g] \in SnapTypes
  BY DEF SnapTypes
<1>5. [snap EXCEPT ![who].packed = f] = [snap EXCEPT ![who] = [one EXCEPT !.packed = f]]
  BY <1>1
<1>6. [snap EXCEPT ![who].dir = d, ![who].loose = f]
        = [snap EXCEPT ![who] = [one EXCEPT !.dir = d, !.loose = f]]
  BY <1>1 DEF SnapTypes
<1>7. [snap EXCEPT ![who].loose = f] = [snap EXCEPT ![who] = [one EXCEPT !.loose = f]]
  BY <1>1
<1>. QED  BY <1>3, <1>4, <1>5, <1>6, <1>7

LEMMA RefOpens ==
  ASSUME RefInv, NEW who \in RefProcesses,
         \/ Reference!CheckPackedLock(who) \/ Reference!OpenPacked(who)
         \/ Reference!OpenNamespace(who) \/ Reference!CheckLooseLock(who)
         \/ Reference!OpenLoose(who)
  PROVE  RefInv'
<1>1. /\ RefTyped /\ RefLocked /\ RefKnows(who) /\ Reference!Quiet
      /\ pc[who] \notin {"idle", "wait"}
      /\ UNCHANGED <<packed, packedLock, dir, loose, looseLock, reflog, clock, foreign, push,
                     seen, crashes>>
  BY DEF RefInv, Reference!CheckPackedLock, Reference!OpenPacked, Reference!OpenNamespace,
     Reference!CheckLooseLock, Reference!OpenLoose, Reference!Quiet, Reference!storage
<1>2. Reference!Ref' = Reference!Ref /\ Reference!Ref \in seen[who]
  BY <1>1 DEF Reference!Ref, Reference!RefOf, RefKnows
<1>3. CASE Reference!CheckPackedLock(who)
  <2>1. "packed" \in Reference!Pcs
    BY DEF Reference!Pcs
  <2>2. Reference!Proceed(who, "packed") /\ pc'[who] = "packed" => RefKnows(who)'
    BY <1>1, <1>2 DEF RefKnows, PackedOpen, DirOpen, LooseOpen, FilesAgain, LookedAgain,
       Reference!Proceed
  <2>3. CASE Reference!Fail(who)
    BY <1>1, <2>3, RefFails
  <2>4. CASE Reference!Proceed(who, "packed")
    BY <1>1, <2>1, <2>2, <2>4, RefProceeds
  <2>. QED  BY <1>3, <2>3, <2>4 DEF Reference!CheckPackedLock
<1>4. CASE Reference!CheckLooseLock(who)
  <2>1. "loose" \in Reference!Pcs /\ pc[who] = "looselock"
    BY <1>4 DEF Reference!Pcs, Reference!CheckLooseLock
  <2>2. Reference!Proceed(who, "loose") /\ pc'[who] = "loose" => RefKnows(who)'
    BY <1>1, <1>2, <2>1 DEF RefKnows, PackedOpen, DirOpen, LooseOpen, FilesAgain, LookedAgain,
       Reference!Proceed
  <2>3. CASE Reference!Fail(who)
    BY <1>1, <2>3, RefFails
  <2>4. CASE Reference!Proceed(who, "loose")
    BY <1>1, <2>1, <2>2, <2>4, RefProceeds
  <2>. QED  BY <1>4, <2>3, <2>4 DEF Reference!CheckLooseLock
<1>5. CASE Reference!OpenPacked(who)
  <2>1. /\ pc' = [pc EXCEPT ![who] = "dir"] /\ snap' = [snap EXCEPT ![who].packed = packed]
        /\ UNCHANGED <<job, pin, answer, result>>
    BY <1>5 DEF Reference!OpenPacked, Reference!Goto
  <2>2. /\ pc' \in [RefProcesses -> Reference!Pcs] /\ snap' \in SnapTypes
    <3>1. 0 \in Generations /\ snap \in SnapTypes
      BY <1>1 DEF RefTyped, SnapTypes, Generations
    <3>2. snap' \in SnapTypes
      BY <1>1, <2>1, <3>1, SnapOpened DEF RefTyped
    <3>. QED  BY <1>1, <2>1, <3>2 DEF RefTyped, Reference!Pcs
  <2>3. /\ pc'[who] = "dir" /\ snap'[who].packed = packed
        /\ \A other \in RefProcesses \ {who} : pc'[other] = pc[other] /\ snap'[other] = snap[other]
    BY <1>1, <2>1 DEF RefTyped
  <2>4. RefKnows(who)'
    BY <1>1, <1>2, <2>1, <2>3 DEF RefKnows, PackedOpen, DirOpen, LooseOpen, FilesAgain, LookedAgain
  <2>5. \A other \in RefProcesses \ {who} :
          UNCHANGED <<pc[other], snap[other], pin[other], answer[other], result[other]>>
    BY <2>1, <2>3
  <2>6. /\ pin' \in [RefProcesses -> Generations] /\ answer' \in [RefProcesses -> Reference!Oids]
        /\ result' \in [RefProcesses -> Reference!Results]
    BY <1>1, <2>1 DEF RefTyped
  <2>. QED  BY <1>1, <2>1, <2>2, <2>4, <2>5, <2>6, RefLooks DEF SnapTypes
<1>6. CASE Reference!OpenNamespace(who)
  <2>1. PICK d \in {pin[who], dir} :
           /\ d = (IF pin[who] # 0 THEN pin[who] ELSE dir)
           /\ snap' = [snap EXCEPT ![who].dir = d, ![who].loose = Reference!NoFile]
           /\ pc' = [pc EXCEPT ![who] = IF d = 0 THEN "log" ELSE "looselock"]
           /\ UNCHANGED <<job, pin, answer, result>> /\ pc[who] = "dir"
    BY <1>6 DEF Reference!OpenNamespace, Reference!Goto
  <2>2. d \in Generations /\ Reference!NoFile \in [gen : Generations, oid : Reference!Oids]
    BY <1>1, <2>1 DEF RefTyped, Reference!NoFile, Reference!Oids, Generations
  <2>3. /\ pc' \in [RefProcesses -> Reference!Pcs] /\ snap' \in SnapTypes
    <3>1. 0 \in Generations /\ snap \in SnapTypes
      BY <1>1 DEF RefTyped, SnapTypes, Generations
    <3>2. snap' \in SnapTypes
      BY <2>1, <2>2, <3>1, SnapOpened
    <3>. QED  BY <1>1, <2>1, <3>2 DEF RefTyped, Reference!Pcs
  <2>4. /\ pc'[who] = (IF d = 0 THEN "log" ELSE "looselock")
        /\ snap'[who].packed = snap[who].packed
        /\ snap'[who].dir = d /\ snap'[who].loose = Reference!NoFile
        /\ \A other \in RefProcesses \ {who} : pc'[other] = pc[other] /\ snap'[other] = snap[other]
    BY <1>1, <2>1 DEF RefTyped
  <2>5. d = 0 => loose.gen = 0
    BY <1>1, <2>1 DEF RefLocked
  <2>6. /\ packed.gen = snap[who].packed.gen => packed = snap[who].packed
        /\ loose.gen = 0 => Reference!Ref = packed.oid
    BY <1>1, <2>1 DEF RefKnows, PackedOpen, Reference!Ref, Reference!RefOf
  <2>7. ASSUME d = 0
        PROVE  RefKnows(who)'
    <3>1. SamePacked(who)' => packed.gen = snap[who].packed.gen
      BY <1>1, <2>4, <2>7 DEF SamePacked, FilesAgain, LookedAgain
    <3>2. SamePacked(who)' => snap'[who].packed.oid \in seen'[who]
      BY <1>1, <1>2, <2>4, <2>5, <2>6, <2>7, <3>1
    <3>3. snap'[who].loose.gen = 0 /\ pin'[who] = 0
      BY <2>1, <2>4, <2>7 DEF Reference!NoFile
    <3>. QED
      BY <1>1, <1>2, <2>4, <2>6, <2>7, <3>2, <3>3
         DEF RefKnows, PackedOpen, DirOpen, LooseOpen, FilesAgain, LookedAgain
  <2>8. ASSUME d # 0
        PROVE  RefKnows(who)'
    BY <1>1, <1>2, <2>1, <2>4, <2>6, <2>8
       DEF RefKnows, PackedOpen, DirOpen, LooseOpen, FilesAgain, LookedAgain
  <2>9. RefKnows(who)' => RefInv'
    <3>1. \A other \in RefProcesses \ {who} :
            UNCHANGED <<pc[other], snap[other], pin[other], answer[other], result[other]>>
      BY <2>1, <2>4
    <3>2. /\ pin' \in [RefProcesses -> Generations] /\ answer' \in [RefProcesses -> Reference!Oids]
          /\ result' \in [RefProcesses -> Reference!Results]
      BY <1>1, <2>1 DEF RefTyped
    <3>. QED  BY <1>1, <2>1, <2>3, <3>1, <3>2, RefLooks DEF SnapTypes
  <2>. QED  BY <2>7, <2>8, <2>9
<1>7. CASE Reference!OpenLoose(who)
  <2>1. PICK l \in {loose, Reference!NoFile} :
           /\ l = (IF snap[who].dir = dir THEN loose ELSE Reference!NoFile)
           /\ snap' = [snap EXCEPT ![who].loose = l]
           /\ pc' = [pc EXCEPT ![who] = "log"]
           /\ UNCHANGED <<job, pin, answer, result>> /\ pc[who] = "loose"
    BY <1>7 DEF Reference!OpenLoose, Reference!Goto, Reference!LooseIn
  <2>2. l \in [gen : Generations, oid : Reference!Oids]
    BY <1>1, <2>1 DEF RefTyped, Reference!NoFile, Reference!Oids, Generations
  <2>3. /\ pc' \in [RefProcesses -> Reference!Pcs] /\ snap' \in SnapTypes
    <3>1. 0 \in Generations /\ snap \in SnapTypes
      BY <1>1 DEF RefTyped, SnapTypes, Generations
    <3>2. snap' \in SnapTypes
      BY <2>1, <2>2, <3>1, SnapOpened
    <3>. QED  BY <1>1, <2>1, <3>2 DEF RefTyped, Reference!Pcs
  <2>4. /\ pc'[who] = "log"
        /\ snap'[who].packed = snap[who].packed
        /\ snap'[who].dir = snap[who].dir /\ snap'[who].loose = l
        /\ \A other \in RefProcesses \ {who} : pc'[other] = pc[other] /\ snap'[other] = snap[other]
    BY <1>1, <2>1 DEF RefTyped
  <2>5. l.gen # 0 => l = loose /\ l.oid = Reference!Ref
    BY <2>1 DEF Reference!NoFile, Reference!Ref, Reference!RefOf
  <2>6. SamePacked(who)' /\ SameDir(who)'
          => packed.gen = snap[who].packed.gen /\ dir = snap[who].dir
    BY <1>1, <2>1, <2>4 DEF SamePacked, SameDir, RefKnows, FilesAgain, LookedAgain
  <2>7. packed.gen = snap[who].packed.gen => packed = snap[who].packed
    BY <1>1, <2>1 DEF RefKnows, PackedOpen, DirOpen
  <2>8. ASSUME l.gen = 0, SamePacked(who)', SameDir(who)'
        PROVE  snap'[who].packed.oid \in seen'[who]
    <3>1. l = loose /\ packed = snap[who].packed
      BY <2>1, <2>6, <2>7, <2>8
    <3>2. Reference!Ref = packed.oid
      BY <2>8, <3>1 DEF Reference!Ref, Reference!RefOf
    <3>. QED  BY <1>1, <1>2, <2>4, <3>1, <3>2
  <2>9. RefKnows(who)'
    BY <1>1, <1>2, <2>1, <2>4, <2>5, <2>7, <2>8
       DEF RefKnows, PackedOpen, DirOpen, LooseOpen, FilesAgain, LookedAgain
  <2>10. \A other \in RefProcesses \ {who} :
           UNCHANGED <<pc[other], snap[other], pin[other], answer[other], result[other]>>
    BY <2>1, <2>4
  <2>11. /\ pin' \in [RefProcesses -> Generations] /\ answer' \in [RefProcesses -> Reference!Oids]
         /\ result' \in [RefProcesses -> Reference!Results]
    BY <1>1, <2>1 DEF RefTyped
  <2>. QED  BY <1>1, <2>1, <2>3, <2>9, <2>10, <2>11, RefLooks DEF SnapTypes
<1>. QED  BY <1>3, <1>4, <1>5, <1>6, <1>7

(* A read looks again at what it has opened.                               *)
LEMMA RefLooksAgain ==
  ASSUME RefInv, NEW who \in RefProcesses,
         \/ Reference!CheckLog(who) \/ Reference!RecheckFiles(who)
         \/ Reference!RecheckLoose(who) \/ Reference!RecheckDirectories(who)
         \/ Reference!RecheckAbsentPacked(who)
  PROVE  RefInv'
<1>1. /\ RefTyped /\ RefKnows(who) /\ Reference!Quiet /\ pc[who] \notin {"idle", "wait"}
      /\ UNCHANGED <<packed, packedLock, dir, loose, looseLock, reflog, clock, foreign, push,
                     seen, crashes>>
  BY DEF RefInv, Reference!CheckLog, Reference!RecheckFiles, Reference!RecheckLoose,
     Reference!RecheckDirectories, Reference!RecheckAbsentPacked, Reference!Quiet,
     Reference!storage
<1>2. Reference!Ref' = Reference!Ref
  BY <1>1 DEF Reference!Ref, Reference!RefOf
<1>3. CASE Reference!Fail(who)
  BY <1>1, <1>3, RefFails
<1>4. CASE ~Reference!Fail(who)
  <2>1. PICK next \in {"relog", "files", "files2", "dirs", "absent", "absent2"} :
           /\ Reference!Proceed(who, next)
           /\ \/ next \in {"relog", "files"} /\ pc[who] \in {"log", "relog"}
              \/ /\ next = "files2" /\ pc[who] = "files"
                 /\ snap[who].packed.gen # 0 => packed.gen = snap[who].packed.gen
              \/ next = "dirs" /\ pc[who] = "files2"
              \/ /\ next = "absent" /\ pc[who] = "dirs"
                 /\ pin[who] = 0 /\ snap[who].dir # 0 => dir = snap[who].dir
              \/ /\ next = "absent2" /\ pc[who] = "absent"
                 /\ snap[who].packed.gen = 0 => packed.gen = 0
    BY <1>4 DEF Reference!CheckLog, Reference!RecheckFiles, Reference!RecheckLoose,
       Reference!RecheckDirectories, Reference!RecheckAbsentPacked
  <2>2. next \in Reference!Pcs
    BY <2>1 DEF Reference!Pcs
  <2>3. UNCHANGED <<job, snap, pin, answer, result>>
    BY <2>1 DEF Reference!Proceed
  <2>4. ASSUME pc'[who] = next
        PROVE  RefKnows(who)'
    <3>1. SamePacked(who)' => SamePacked(who)
      BY <1>1, <2>1, <2>3, <2>4 DEF SamePacked, FilesAgain, LookedAgain
    <3>2. SameDir(who)' => SameDir(who)
      BY <1>1, <2>1, <2>3, <2>4 DEF SameDir, LookedAgain
    <3>3. pc[who] \in LooseOpen /\ pc'[who] \in LooseOpen
      BY <2>1, <2>4 DEF LooseOpen, FilesAgain, LookedAgain
    <3>. QED
      BY <1>1, <1>2, <2>1, <2>3, <2>4, <3>1, <3>2, <3>3
         DEF RefKnows, PackedOpen, DirOpen, LooseOpen, FilesAgain, LookedAgain
  <2>. QED  BY <1>1, <2>1, <2>2, <2>4, RefProceeds
<1>. QED  BY <1>3, <1>4

(* It answers, and the answer is used.                                     *)
LEMMA RefAnswers ==
  ASSUME RefInv, NEW who \in RefProcesses, Reference!RecheckAbsentLoose(who)
  PROVE  RefInv'
<1>1. /\ RefTyped /\ RefKnows(who) /\ Reference!Quiet /\ pc[who] = "absent2"
      /\ UNCHANGED <<packed, packedLock, dir, loose, looseLock, reflog, clock, foreign, push,
                     seen, crashes>>
  BY DEF RefInv, Reference!RecheckAbsentLoose, Reference!Quiet, Reference!storage
<1>2. CASE Reference!Fail(who)
  BY <1>1, <1>2, RefFails
<1>3. CASE ~Reference!Fail(who)
  <2>1. PICK oid : /\ oid = Reference!RefOf(snap[who].loose, snap[who].packed)
                   /\ answer' = [answer EXCEPT ![who] = oid]
                   /\ pc' = [pc EXCEPT ![who] = "answer"]
                   /\ UNCHANGED <<job, snap, pin, result>>
    BY <1>3 DEF Reference!RecheckAbsentLoose, Reference!Goto
  <2>2. oid \in Reference!Oids
    BY <1>1, <2>1 DEF RefTyped, Reference!RefOf
  <2>3. /\ pc' \in [RefProcesses -> Reference!Pcs] /\ answer' \in [RefProcesses -> Reference!Oids]
        /\ pc'[who] = "answer" /\ answer'[who] = oid
        /\ \A other \in RefProcesses \ {who} :
             pc'[other] = pc[other] /\ answer'[other] = answer[other]
    BY <1>1, <2>1, <2>2 DEF RefTyped, Reference!Pcs
  <2>4. pin[who] = 0 \/ dir = pin[who] => oid \in seen[who]
    <3>1. pin[who] # 0 => snap[who].dir = pin[who]
      BY <1>1 DEF RefKnows, DirOpen, LooseOpen, FilesAgain, LookedAgain
    <3>2. SamePacked(who) /\ (pin[who] = 0 \/ dir = pin[who] => SameDir(who))
      BY <1>1, <3>1 DEF SamePacked, SameDir, LookedAgain
    <3>. QED
      BY <1>1, <2>1, <3>2 DEF RefKnows, LooseOpen, FilesAgain, LookedAgain, Reference!RefOf
  <2>5. Reference!Ref' = Reference!Ref /\ Reference!Ref \in seen[who]
    BY <1>1 DEF Reference!Ref, Reference!RefOf, RefKnows
  <2>6. RefKnows(who)'
    BY <1>1, <2>1, <2>3, <2>4, <2>5
       DEF RefKnows, PackedOpen, DirOpen, LooseOpen, FilesAgain, LookedAgain
  <2>7. \A other \in RefProcesses \ {who} :
          UNCHANGED <<pc[other], snap[other], pin[other], answer[other], result[other]>>
    BY <2>1, <2>3
  <2>8. /\ snap' \in SnapTypes /\ pin' \in [RefProcesses -> Generations]
        /\ result' \in [RefProcesses -> Reference!Results]
    BY <1>1, <2>1 DEF RefTyped, SnapTypes, Generations
  <2>. QED  BY <1>1, <2>1, <2>3, <2>6, <2>7, <2>8, RefLooks DEF SnapTypes
<1>. QED  BY <1>2, <1>3

LEMMA RefReturns ==
  ASSUME RefInv, NEW who \in RefProcesses, pc[who] \notin {"idle", "wait"}, Reference!Quiet,
         NEW r \in Reference!Results, Reference!Return(who, r),
         UNCHANGED <<job, snap, pin, answer>>,
         r \in Reference!Oids => r \in seen[who],
         r \in {"published", "already"} => "ours" \in seen[who],
         r = "conflict" => "other" \in seen[who]
  PROVE  RefInv'
<1>1. /\ RefTyped /\ RefKnows(who)
      /\ pc' = [pc EXCEPT ![who] = "idle"] /\ result' = [result EXCEPT ![who] = r]
      /\ UNCHANGED <<clock, seen>>
  BY DEF RefInv, Reference!Return, Reference!Goto, Reference!Quiet, Reference!storage
<1>2. /\ pc' \in [RefProcesses -> Reference!Pcs] /\ result' \in [RefProcesses -> Reference!Results]
  BY <1>1 DEF RefTyped, Reference!Pcs
<1>3. pc'[who] = "idle" /\ result'[who] = r
  BY <1>1 DEF RefTyped
<1>4. RefKnows(who)'
  BY <1>1, <1>3 DEF RefKnows, PackedOpen, DirOpen, LooseOpen, FilesAgain, LookedAgain
<1>5. \A other \in RefProcesses \ {who} : pc'[other] = pc[other] /\ result'[other] = result[other]
  BY <1>1 DEF RefTyped
<1>6. \A other \in RefProcesses \ {who} :
        UNCHANGED <<pc[other], snap[other], pin[other], answer[other], result[other]>>
  BY <1>1, <1>5
<1>7. /\ snap' \in SnapTypes
      /\ pin' \in [RefProcesses -> Generations] /\ answer' \in [RefProcesses -> Reference!Oids]
  BY <1>1 DEF RefTyped, SnapTypes, Generations
<1>. QED  BY <1>1, <1>2, <1>4, <1>6, <1>7, RefLooks DEF SnapTypes

(* A step that changes the files of the ref, or who is at work.            *)
LEMMA RefMoves ==
  ASSUME RefInv, clock' = clock \/ clock' = clock + 1,
         packed' \in [gen : 0..clock', oid : Reference!Oids],
         loose' \in [gen : 0..clock', oid : Reference!Oids], dir' \in 0..clock',
         packedLock' \in BOOLEAN, reflog' \in BOOLEAN,
         looseLock' \in {"nobody", "foreign", "stale"} \cup RefProcesses,
         foreign' \in [at : {"idle", "update", "pack", "prune", "delete", "unlink", "rmdir"},
                       count : 0..ForeignBound],
         push' \in [RefProcesses -> {"none", "started", "checked", "locked", "0", "1"}],
         crashes' \in 0..CrashBound, seen' \in [RefProcesses -> SUBSET Reference!Oids],
         packed' = packed \/ packed'.gen = clock + 1,
         dir' = dir \/ dir' = 0 \/ dir' = clock + 1,
         pc' \in [RefProcesses -> Reference!Pcs],
         job' \in [RefProcesses -> {"none", "read", "publish"}],
         pin' \in [RefProcesses -> Generations], answer' \in [RefProcesses -> Reference!Oids],
         result' \in [RefProcesses -> Reference!Results], UNCHANGED snap,
         RefLocked', RefShared', RefChild',
         NEW Movers \in SUBSET RefProcesses,
         \A one \in Movers : RefKnows(one)',
         \A other \in RefProcesses \ Movers :
           /\ UNCHANGED <<pc[other], job[other], snap[other], pin[other], answer[other],
                          result[other]>>
           /\ seen[other] \subseteq seen'[other]
           /\ pc[other] # "idle" => Reference!Ref' \in seen'[other]
  PROVE  RefInv'
<1>1. RefTyped /\ \A one \in RefProcesses : RefKnows(one)
  BY DEF RefInv
<1>2. /\ clock \in Nat /\ clock' \in Nat
      /\ Generations' = 0..clock' /\ Generations \subseteq Generations'
  BY <1>1 DEF RefTyped, Generations
<1>3. snap' \in SnapTypes'
  <2>1. snap \in SnapTypes
    BY <1>1 DEF RefTyped, SnapTypes
  <2>. QED  BY <1>2, <2>1 DEF SnapTypes
<1>4. pin' \in [RefProcesses -> Generations']
  BY <1>2
<1>5. RefTyped'
  BY <1>2, <1>3, <1>4 DEF RefTyped, SnapTypes
<1>6. ASSUME NEW one \in RefProcesses
      PROVE  RefKnows(one)'
  <2>1. CASE one \in Movers
    BY <2>1
  <2>2. CASE one \notin Movers
    <3>1. one \in RefProcesses \ Movers
      BY <2>2
    <3>. QED  BY <1>1, <3>1, RefKnowsMoves
  <2>. QED  BY <2>1, <2>2
<1>. QED  BY <1>5, <1>6 DEF RefInv

(* The publication: what it makes of the answer, and the namespace.        *)
LEMMA RefIsUsed ==
  ASSUME RefInv, NEW who \in RefProcesses, Reference!UseAnswer(who) \/ Reference!Unpin(who)
  PROVE  RefInv'
<1>1. /\ RefTyped /\ RefKnows(who) /\ Reference!Quiet /\ pc[who] \in {"answer", "unpin"}
      /\ UNCHANGED <<packed, dir, loose, seen, clock>>
      /\ answer[who] \in {"ours", "other", "none"} /\ Reference!Oids = {"ours", "other", "none"}
  BY DEF RefInv, RefTyped, Reference!UseAnswer, Reference!Unpin, Reference!Quiet,
     Reference!storage, Reference!Oids, Reference!Ours, Reference!Other, Reference!NoOid
<1>2. Reference!Ref' = Reference!Ref /\ Reference!Ref \in seen[who]
  BY <1>1 DEF Reference!Ref, Reference!RefOf, RefKnows
<1>3. CASE Reference!UseAnswer(who)
  <2>1. pc[who] = "answer" /\ (job[who] = "read" => pin[who] = 0)
        /\ (pin[who] = 0 => answer[who] \in seen[who])
    BY <1>1, <1>3 DEF RefKnows, Reference!UseAnswer
  <2>2. CASE /\ job[who] = "read" /\ Reference!Return(who, answer[who])
             /\ UNCHANGED <<job, snap, pin, answer>>
    <3>1. PICK oid \in Reference!Oids : oid = answer[who]
      BY <1>1
    <3>2. oid \in Reference!Results
      BY <1>1 DEF Reference!Results, Reference!Oids, Reference!Ours, Reference!Other,
         Reference!NoOid
    <3>3. oid \notin {"published", "already", "conflict"}
      BY <1>1
    <3>. QED  BY <1>1, <2>1, <2>2, <3>1, <3>2, <3>3, RefReturns
  <2>3. CASE pin[who] = 0 /\ job[who] = "publish" /\ Reference!Proceed(who, "mkdir")
    <3>1. pc'[who] = "mkdir" => RefKnows(who)'
      BY <1>1, <1>2, <2>3 DEF RefKnows, PackedOpen, DirOpen, LooseOpen, FilesAgain, LookedAgain,
         Reference!Proceed
    <3>. QED  BY <1>1, <2>3, <3>1, RefProceeds DEF Reference!Pcs
  <2>4. CASE /\ pin[who] = 0 /\ answer[who] # "none"
             /\ Reference!Return(who, IF answer[who] = "ours" THEN "already" ELSE "conflict")
             /\ UNCHANGED <<job, snap, pin, answer>>
    <3>1. PICK r \in {"already", "conflict"} :
             r = IF answer[who] = "ours" THEN "already" ELSE "conflict"
      OBVIOUS
    <3>2. /\ r \in Reference!Results /\ r \notin Reference!Oids
          /\ r \in {"published", "already"} => "ours" \in seen[who]
          /\ r = "conflict" => "other" \in seen[who]
      BY <1>1, <2>1, <2>4, <3>1 DEF Reference!Results
    <3>. QED  BY <1>1, <2>4, <3>1, <3>2, RefReturns
  <2>5. CASE pin[who] # 0 /\ job[who] = "publish" /\ Reference!Proceed(who, "unpin")
    <3>1. pc'[who] = "unpin" => RefKnows(who)'
      BY <1>1, <1>2, <2>1, <2>5 DEF RefKnows, PackedOpen, DirOpen, LooseOpen, FilesAgain,
         LookedAgain, Reference!Proceed
    <3>. QED  BY <1>1, <2>5, <3>1, RefProceeds DEF Reference!Pcs
  <2>. QED  BY <1>3, <2>2, <2>3, <2>4, <2>5 DEF Reference!UseAnswer, Reference!Ours,
            Reference!Other, Reference!NoOid
<1>4. CASE Reference!Unpin(who)
  <2>1. CASE Reference!Fail(who)
    BY <1>1, <2>1, RefFails
  <2>2. CASE ~Reference!Fail(who)
    <3>1. /\ dir = pin[who] /\ answer[who] # "none" /\ pc[who] = "unpin"
          /\ UNCHANGED <<job, snap, pin, answer>>
          /\ Reference!Return(who, CASE answer[who] = "other" -> "conflict"
                                     [] answer[who] = "ours" /\ push[who] = "0" -> "published"
                                     [] answer[who] = "ours" /\ push[who] # "0" -> "already")
      BY <1>4, <2>2 DEF Reference!Unpin, Reference!Ours, Reference!Other, Reference!NoOid
    <3>2. PICK r : r = CASE answer[who] = "other" -> "conflict"
                         [] answer[who] = "ours" /\ push[who] = "0" -> "published"
                         [] answer[who] = "ours" /\ push[who] # "0" -> "already"
      OBVIOUS
    <3>3. \/ r = "conflict" /\ answer[who] = "other"
          \/ r \in {"published", "already"} /\ answer[who] = "ours"
      BY <1>1, <3>1, <3>2
    <3>4. answer[who] \in seen[who]
      BY <1>1, <3>1 DEF RefKnows
    <3>5. /\ r \in Reference!Results /\ r \notin Reference!Oids
          /\ r \in {"published", "already"} => "ours" \in seen[who]
          /\ r = "conflict" => "other" \in seen[who]
      BY <1>1, <3>3, <3>4 DEF Reference!Results
    <3>. QED  BY <1>1, <3>1, <3>2, <3>5, RefReturns
  <2>. QED  BY <2>1, <2>2
<1>. QED  BY <1>3, <1>4

LEMMA RefGrows ==
  ASSUME RefTyped, clock' = clock \/ clock' = clock + 1
  PROVE  /\ packed \in [gen : 0..clock', oid : Reference!Oids]
         /\ loose \in [gen : 0..clock', oid : Reference!Oids] /\ dir \in 0..clock'
         /\ 0 \in 0..clock' /\ (clock' = clock + 1 => clock + 1 \in 0..clock')
<1>1. clock \in Nat /\ Generations \subseteq 0..clock' /\ 0 \in 0..clock'
  BY DEF RefTyped, Generations
<1>2. clock' = clock + 1 => clock + 1 \in 0..clock'
  BY <1>1
<1>. QED  BY <1>1, <1>2 DEF RefTyped

LEMMA RefMakesNamespace ==
  ASSUME RefInv, NEW who \in RefProcesses,
         Reference!MakeNamespace(who) \/ Reference!PinNamespace(who)
  PROVE  RefInv'
<1>1. /\ RefTyped /\ RefLocked /\ RefShared /\ RefChild /\ RefKnows(who)
      /\ \A one \in RefProcesses : RefKnows(one)
  BY DEF RefInv
<1>2. CASE Reference!MakeNamespace(who)
  <2>1. /\ pc[who] = "mkdir" /\ pc' = [pc EXCEPT ![who] = "pin"]
        /\ \/ dir # 0 /\ dir' = dir /\ clock' = clock
           \/ dir = 0 /\ dir' = clock + 1 /\ clock' = clock + 1
        /\ UNCHANGED <<job, snap, pin, answer, result, packed, packedLock, loose, looseLock,
                       reflog, foreign, push, seen, crashes>>
    BY <1>2 DEF Reference!MakeNamespace, Reference!Proceed, Reference!Goto, Reference!Fresh
  <2>2. Reference!Ref' = Reference!Ref
    BY <2>1 DEF Reference!Ref, Reference!RefOf
  <2>3. /\ pc' \in [RefProcesses -> Reference!Pcs] /\ pc'[who] = "pin"
        /\ \A other \in RefProcesses \ {who} : pc'[other] = pc[other]
    BY <1>1, <2>1 DEF RefTyped, Reference!Pcs
  <2>4. RefKnows(who)'
    BY <1>1, <2>1, <2>2, <2>3 DEF RefKnows, PackedOpen, DirOpen, LooseOpen, FilesAgain, LookedAgain
  <2>5. dir' # 0
    BY <1>1, <2>1 DEF RefTyped
  <2>6. RefLocked'
    BY <1>1, <2>1, <2>5 DEF RefLocked
  <2>7. RefShared'
    <3>1. \A one \in RefProcesses : Engaged(one)' => Engaged(one)
      BY <2>1, <2>3 DEF Engaged
    <3>. QED  BY <1>1, <3>1 DEF RefShared
  <2>12. RefChild'
    BY <1>1, <2>1, <2>3 DEF RefChild
  <2>8. \A other \in RefProcesses \ {who} :
           /\ UNCHANGED <<pc[other], job[other], snap[other], pin[other], answer[other],
                          result[other]>>
           /\ seen[other] \subseteq seen'[other]
           /\ pc[other] # "idle" => Reference!Ref' \in seen'[other]
    BY <1>1, <2>1, <2>2, <2>3 DEF RefKnows
  <2>9. {who} \in SUBSET RefProcesses /\ \A one \in {who} : RefKnows(one)'
    BY <2>4
  <2>10. /\ packed' \in [gen : 0..clock', oid : Reference!Oids]
         /\ loose' \in [gen : 0..clock', oid : Reference!Oids] /\ dir' \in 0..clock'
    BY <1>1, <2>1, RefGrows
  <2>11. /\ packedLock' \in BOOLEAN /\ reflog' \in BOOLEAN
         /\ looseLock' \in {"nobody", "foreign", "stale"} \cup RefProcesses
         /\ foreign' \in [at : {"idle", "update", "pack", "prune", "delete", "unlink", "rmdir"},
                          count : 0..ForeignBound]
         /\ push' \in [RefProcesses -> {"none", "started", "checked", "locked", "0", "1"}]
         /\ crashes' \in 0..CrashBound /\ seen' \in [RefProcesses -> SUBSET Reference!Oids]
         /\ job' \in [RefProcesses -> {"none", "read", "publish"}]
         /\ pin' \in [RefProcesses -> Generations] /\ answer' \in [RefProcesses -> Reference!Oids]
         /\ result' \in [RefProcesses -> Reference!Results]
    BY <1>1, <2>1 DEF RefTyped
  <2>. QED  BY <2>1, <2>3, <2>6, <2>7, <2>8, <2>9, <2>10, <2>11, <2>12, RefMoves
<1>3. CASE Reference!PinNamespace(who)
  <2>1. Reference!Quiet /\ pc[who] = "pin" /\ UNCHANGED <<packed, dir, loose, seen, clock>>
    BY <1>3 DEF Reference!PinNamespace, Reference!Quiet, Reference!storage
  <2>2. CASE Reference!Fail(who)
    BY <2>1, <2>2, RefFails
  <2>3. CASE ~Reference!Fail(who)
    <3>1. /\ pin' = [pin EXCEPT ![who] = dir] /\ pc' = [pc EXCEPT ![who] = "push"]
          /\ UNCHANGED <<job, snap, answer, result>>
      BY <1>3, <2>3 DEF Reference!PinNamespace, Reference!Goto
    <3>2. /\ pc' \in [RefProcesses -> Reference!Pcs] /\ pin' \in [RefProcesses -> Generations]
          /\ pc'[who] = "push"
          /\ \A other \in RefProcesses \ {who} : pc'[other] = pc[other] /\ pin'[other] = pin[other]
      BY <1>1, <3>1 DEF RefTyped, Reference!Pcs
    <3>3. Reference!Ref' = Reference!Ref
      BY <2>1 DEF Reference!Ref, Reference!RefOf
    <3>4. RefKnows(who)'
      BY <1>1, <2>1, <3>1, <3>2, <3>3
         DEF RefKnows, PackedOpen, DirOpen, LooseOpen, FilesAgain, LookedAgain
    <3>5. \A other \in RefProcesses \ {who} :
            UNCHANGED <<pc[other], snap[other], pin[other], answer[other], result[other]>>
      BY <3>1, <3>2
    <3>6. /\ snap' \in SnapTypes /\ answer' \in [RefProcesses -> Reference!Oids]
          /\ result' \in [RefProcesses -> Reference!Results]
      BY <1>1, <3>1 DEF RefTyped, SnapTypes, Generations
    <3>. QED  BY <2>1, <3>1, <3>2, <3>4, <3>5, <3>6, RefLooks DEF SnapTypes
  <2>. QED  BY <2>2, <2>3
<1>. QED  BY <1>2, <1>3

(* A step that leaves the files of the ref alone, but may break the lock   *)
(* of a loose ref.                                                         *)
LEMMA RefControls ==
  ASSUME RefInv, NEW who \in RefProcesses,
         UNCHANGED <<packed, packedLock, dir, loose, reflog, clock, foreign, snap>>,
         looseLock' \in {looseLock, "stale"},
         push' \in [RefProcesses -> {"none", "started", "checked", "locked", "0", "1"}],
         crashes' \in 0..CrashBound, seen' \in [RefProcesses -> SUBSET Reference!Oids],
         pc' \in [RefProcesses -> Reference!Pcs],
         job' \in [RefProcesses -> {"none", "read", "publish"}],
         pin' \in [RefProcesses -> Generations], answer' \in [RefProcesses -> Reference!Oids],
         result' \in [RefProcesses -> Reference!Results],
         RefLocked', RefShared', RefChild', RefKnows(who)',
         \A other \in RefProcesses \ {who} :
           UNCHANGED <<pc[other], job[other], snap[other], pin[other], answer[other],
                       result[other], seen[other]>>
  PROVE  RefInv'
<1>1. RefTyped /\ \A one \in RefProcesses : RefKnows(one)
  BY DEF RefInv
<1>2. Reference!Ref' = Reference!Ref
  BY DEF Reference!Ref, Reference!RefOf
<1>3. {who} \in SUBSET RefProcesses /\ \A one \in {who} : RefKnows(one)'
  OBVIOUS
<1>4. \A other \in RefProcesses \ {who} :
        /\ UNCHANGED <<pc[other], job[other], snap[other], pin[other], answer[other],
                       result[other]>>
        /\ seen[other] \subseteq seen'[other]
        /\ pc[other] # "idle" => Reference!Ref' \in seen'[other]
  BY <1>1, <1>2 DEF RefKnows
<1>5. /\ packed' \in [gen : 0..clock', oid : Reference!Oids]
      /\ loose' \in [gen : 0..clock', oid : Reference!Oids] /\ dir' \in 0..clock'
  BY <1>1, RefGrows
<1>6. /\ packedLock' \in BOOLEAN /\ reflog' \in BOOLEAN
      /\ looseLock' \in {"nobody", "foreign", "stale"} \cup RefProcesses
      /\ foreign' \in [at : {"idle", "update", "pack", "prune", "delete", "unlink", "rmdir"},
                       count : 0..ForeignBound]
  BY <1>1 DEF RefTyped
<1>. QED  BY <1>3, <1>4, <1>5, <1>6, RefMoves

(* A process begins, under the session lock.                               *)
LEMMA RefBegins ==
  ASSUME RefInv, NEW who \in RefProcesses, Reference!Start(who)
  PROVE  RefInv'
<1>1. RefTyped /\ RefLocked /\ RefShared /\ RefChild /\ RefKnows(who)
  BY DEF RefInv
<1>2. PICK what \in {"read", "publish"} : Reference!Begin(who, what)
  BY DEF Reference!Start
<1>3. /\ \A one \in RefProcesses : ~Engaged(one)
      /\ pc' = [pc EXCEPT ![who] = "lock"] /\ job' = [job EXCEPT ![who] = what]
      /\ pin' = [pin EXCEPT ![who] = 0] /\ answer' = [answer EXCEPT ![who] = "none"]
      /\ result' = [result EXCEPT ![who] = "pending"]
      /\ seen' = [seen EXCEPT ![who] = {Reference!Ref}]
      /\ UNCHANGED <<packed, packedLock, dir, loose, looseLock, reflog, clock, foreign, push,
                     snap, crashes>>
  BY <1>2 DEF Reference!Begin, Reference!SessionLockFree, Reference!Idle, Reference!Running,
     Engaged, Reference!storage, Reference!NoOid
<1>4. Reference!Ref' = Reference!Ref /\ Reference!Ref \in Reference!Oids
  BY <1>1, <1>3 DEF Reference!Ref, Reference!RefOf, RefTyped
<1>5. /\ pc' \in [RefProcesses -> Reference!Pcs]
      /\ job' \in [RefProcesses -> {"none", "read", "publish"}]
      /\ pin' \in [RefProcesses -> Generations] /\ answer' \in [RefProcesses -> Reference!Oids]
      /\ result' \in [RefProcesses -> Reference!Results]
      /\ seen' \in [RefProcesses -> SUBSET Reference!Oids]
      /\ push' \in [RefProcesses -> {"none", "started", "checked", "locked", "0", "1"}]
      /\ crashes' \in 0..CrashBound
  <2>1. 0 \in Generations /\ "none" \in Reference!Oids /\ {Reference!Ref} \subseteq Reference!Oids
    BY <1>1, <1>4 DEF RefTyped, Generations, Reference!Oids, Reference!NoOid
  <2>. QED  BY <1>1, <1>3, <2>1 DEF RefTyped, Reference!Pcs, Reference!Results
<1>6. /\ pc'[who] = "lock" /\ job'[who] = what /\ pin'[who] = 0
      /\ seen'[who] = {Reference!Ref}
      /\ \A other \in RefProcesses \ {who} :
           UNCHANGED <<pc[other], job[other], snap[other], pin[other], answer[other],
                       result[other], seen[other]>>
  BY <1>1, <1>3 DEF RefTyped
<1>7. RefKnows(who)'
  BY <1>4, <1>6 DEF RefKnows, PackedOpen, DirOpen, LooseOpen, FilesAgain, LookedAgain
<1>8. RefLocked'
  BY <1>1, <1>3 DEF RefLocked
<1>9. RefShared' /\ RefChild'
  BY <1>3, <1>6 DEF RefShared, RefChild, Engaged
<1>. QED  BY <1>3, <1>5, <1>6, <1>7, <1>8, <1>9, RefControls

(* It starts its push child, sees it end, kills it, or dies.               *)
LEMMA RefPushes ==
  ASSUME RefInv, NEW who \in RefProcesses,
         Reference!StartPush(who) \/ Reference!PushEnds(who)
  PROVE  RefInv'
<1>1. RefTyped /\ RefLocked /\ RefShared /\ RefChild /\ RefKnows(who)
  BY DEF RefInv
<1>2. PICK next \in {"wait", "lock"} :
        /\ pc[who] # "idle" /\ pc[who] = IF next = "wait" THEN "push" ELSE "wait"
        /\ push[who] \notin {"started", "checked", "locked"}
        /\ pc' = [pc EXCEPT ![who] = next]
        /\ push' = IF next = "wait" THEN [push EXCEPT ![who] = "started"] ELSE push
        /\ seen' = IF next = "lock" THEN [seen EXCEPT ![who] = {Reference!Ref}] ELSE seen
        /\ UNCHANGED <<job, snap, pin, answer, result, packed, packedLock, dir, loose,
                       looseLock, reflog, clock, foreign, crashes>>
  <2>1. CASE Reference!StartPush(who)
    BY <1>1, <2>1 DEF Reference!StartPush, Reference!Proceed, Reference!Goto, Reference!storage,
       RefChild
  <2>2. CASE Reference!PushEnds(who)
    BY <2>2 DEF Reference!PushEnds, Reference!Proceed, Reference!Goto, Reference!storage,
       Reference!Running
  <2>. QED  BY <2>1, <2>2
<1>3. Reference!Ref' = Reference!Ref /\ Reference!Ref \in Reference!Oids
  BY <1>1, <1>2 DEF Reference!Ref, Reference!RefOf, RefTyped
<1>4. /\ pc' \in [RefProcesses -> Reference!Pcs]
      /\ push' \in [RefProcesses -> {"none", "started", "checked", "locked", "0", "1"}]
      /\ seen' \in [RefProcesses -> SUBSET Reference!Oids]
      /\ pc'[who] = next /\ (next = "wait" => push'[who] = "started")
      /\ \A other \in RefProcesses \ {who} : push'[other] = push[other]
      /\ \A other \in RefProcesses \ {who} :
           UNCHANGED <<pc[other], job[other], snap[other], pin[other], answer[other],
                       result[other], seen[other]>>
  BY <1>1, <1>2, <1>3 DEF RefTyped, Reference!Pcs
<1>5. Reference!Ref \in seen'[who]
  BY <1>1, <1>2 DEF RefTyped, RefKnows
<1>6. RefKnows(who)'
  BY <1>1, <1>2, <1>3, <1>4, <1>5
     DEF RefKnows, PackedOpen, DirOpen, LooseOpen, FilesAgain, LookedAgain
<1>7. \A one \in RefProcesses : push'[one] = "locked" <=> push[one] = "locked"
  BY <1>2, <1>4
<1>8. RefLocked'
  BY <1>1, <1>2, <1>7 DEF RefLocked
<1>9. RefShared'
  <2>1. \A one \in RefProcesses : Engaged(one)' => Engaged(one)
    BY <1>2, <1>4 DEF Engaged
  <2>. QED  BY <1>1, <2>1 DEF RefShared
<1>10. RefChild'
  BY <1>1, <1>2, <1>4 DEF RefChild
<1>11. /\ job' \in [RefProcesses -> {"none", "read", "publish"}]
       /\ pin' \in [RefProcesses -> Generations] /\ answer' \in [RefProcesses -> Reference!Oids]
       /\ result' \in [RefProcesses -> Reference!Results] /\ crashes' \in 0..CrashBound
  BY <1>1, <1>2 DEF RefTyped
<1>. QED  BY <1>2, <1>4, <1>6, <1>8, <1>9, <1>10, <1>11, RefControls

LEMMA RefStops ==
  ASSUME RefInv, NEW who \in RefProcesses, Reference!KillPush(who) \/ Reference!Crash(who)
  PROVE  RefInv'
<1>1. RefTyped /\ RefLocked /\ RefShared /\ RefChild /\ RefKnows(who)
  BY DEF RefInv
<1>2. PICK r \in {"failed", "crashed"} :
        /\ pc[who] # "idle" /\ pc' = [pc EXCEPT ![who] = "idle"]
        /\ result' = [result EXCEPT ![who] = r]
        /\ push' = IF r = "failed" THEN [push EXCEPT ![who] = "none"] ELSE push
        /\ looseLock' = IF r = "failed" /\ looseLock = who THEN "stale" ELSE looseLock
        /\ crashes' \in 0..CrashBound
        /\ UNCHANGED <<job, snap, pin, answer, packed, packedLock, dir, loose,
                       reflog, clock, foreign, seen>>
  <2>1. CASE Reference!KillPush(who)
    BY <1>1, <2>1 DEF Reference!KillPush, Reference!Fail, Reference!Return, Reference!Goto, RefTyped
  <2>2. CASE Reference!Crash(who)
    <3>1. CrashBound \in Nat
      BY ReferenceAssumption DEF Reference!BoundsAssumption
    <3>2. crashes' \in 0..CrashBound
      BY <1>1, <2>2, <3>1 DEF RefTyped, Reference!Crash
    <3>. QED
      BY <2>2, <3>2 DEF Reference!Crash, Reference!Return, Reference!Goto, Reference!Idle,
         Reference!storage
  <2>. QED  BY <2>1, <2>2
<1>3. /\ pc' \in [RefProcesses -> Reference!Pcs] /\ result' \in [RefProcesses -> Reference!Results]
      /\ push' \in [RefProcesses -> {"none", "started", "checked", "locked", "0", "1"}]
      /\ pc'[who] = "idle" /\ result'[who] = r /\ (r = "failed" => push'[who] = "none")
      /\ \A other \in RefProcesses \ {who} : push'[other] = push[other]
      /\ \A other \in RefProcesses \ {who} :
           UNCHANGED <<pc[other], job[other], snap[other], pin[other], answer[other],
                       result[other], seen[other]>>
  BY <1>1, <1>2 DEF RefTyped, Reference!Pcs, Reference!Results
<1>4. RefKnows(who)'
  BY <1>1, <1>2, <1>3 DEF RefKnows, PackedOpen, DirOpen, LooseOpen, FilesAgain, LookedAgain,
     Reference!Oids, Reference!Ours, Reference!Other, Reference!NoOid
<1>5. RefLocked'
  <2>1. \A one \in RefProcesses : one \notin {"nobody", "foreign", "stale"}
    BY ReferenceAssumption DEF Reference!ProcsAssumption
  <2>2. \A one \in RefProcesses : looseLock' = one <=> push'[one] = "locked"
    BY <1>1, <1>2, <1>3, <2>1 DEF RefLocked
  <2>3. looseLock' # "nobody" => looseLock # "nobody"
    BY <1>2, <2>1
  <2>4. looseLock = "foreign" => looseLock' = "foreign"
    BY <1>2, <2>1
  <2>. QED  BY <1>1, <1>2, <2>2, <2>3, <2>4 DEF RefLocked
<1>6. RefShared'
  <2>1. \A one \in RefProcesses : Engaged(one)' => Engaged(one)
    BY <1>2, <1>3 DEF Engaged
  <2>. QED  BY <1>1, <2>1 DEF RefShared
<1>7. RefChild'
  BY <1>1, <1>2, <1>3 DEF RefChild
<1>8. /\ job' \in [RefProcesses -> {"none", "read", "publish"}]
      /\ pin' \in [RefProcesses -> Generations] /\ answer' \in [RefProcesses -> Reference!Oids]
      /\ seen' \in [RefProcesses -> SUBSET Reference!Oids] /\ looseLock' \in {looseLock, "stale"}
  BY <1>1, <1>2 DEF RefTyped
<1>. QED  BY <1>2, <1>3, <1>4, <1>5, <1>6, <1>7, <1>8, RefControls

(* A step that changes the files of the ref: every read in progress has    *)
(* seen the value the ref then has.                                        *)
LEMMA RefWrites ==
  ASSUME RefInv, Reference!Observe \/ UNCHANGED <<Reference!Ref, seen>>,
         UNCHANGED <<pc, job, snap, pin, answer, result, crashes>>,
         clock' = clock \/ clock' = clock + 1,
         packed' \in [gen : 0..clock', oid : Reference!Oids],
         loose' \in [gen : 0..clock', oid : Reference!Oids], dir' \in 0..clock',
         packedLock' \in BOOLEAN, reflog' \in BOOLEAN,
         looseLock' \in {"nobody", "foreign", "stale"} \cup RefProcesses,
         foreign' \in [at : {"idle", "update", "pack", "prune", "delete", "unlink", "rmdir"},
                       count : 0..ForeignBound],
         push' \in [RefProcesses -> {"none", "started", "checked", "locked", "0", "1"}],
         packed' = packed \/ packed'.gen = clock + 1,
         dir' = dir \/ dir' = 0 \/ dir' = clock + 1,
         \A one \in RefProcesses :
           push'[one] \in {"started", "checked", "locked"} =>
             push[one] \in {"started", "checked", "locked"},
         RefLocked'
  PROVE  RefInv'
<1>1. RefTyped /\ RefShared /\ RefChild /\ \A one \in RefProcesses : RefKnows(one)
  BY DEF RefInv
<1>2. Reference!Ref' \in Reference!Oids
  BY DEF Reference!Ref, Reference!RefOf
<1>3. /\ seen' \in [RefProcesses -> SUBSET Reference!Oids]
      /\ \A one \in RefProcesses :
           /\ seen[one] \subseteq seen'[one]
           /\ pc[one] # "idle" => Reference!Ref' \in seen'[one]
  <2>1. CASE Reference!Observe
    <3>1. seen' = [one \in RefProcesses |->
                     seen[one] \cup IF pc[one] = "idle" THEN {} ELSE {Reference!Ref'}]
      BY <2>1 DEF Reference!Observe, Reference!Ref, Reference!RefOf
    <3>2. \A one \in RefProcesses : seen[one] \in SUBSET Reference!Oids
      BY <1>1 DEF RefTyped
    <3>3. \A one \in RefProcesses :
            /\ seen'[one] \in SUBSET Reference!Oids /\ seen[one] \subseteq seen'[one]
            /\ pc[one] # "idle" => Reference!Ref' \in seen'[one]
      BY <1>2, <3>1, <3>2
    <3>. QED  BY <3>1, <3>3
  <2>2. CASE UNCHANGED <<Reference!Ref, seen>>
    BY <1>1, <2>2 DEF RefTyped, RefKnows
  <2>. QED  BY <2>1, <2>2
<1>4. RefShared'
  <2>1. \A one \in RefProcesses : Engaged(one)' => Engaged(one)
    BY DEF Engaged
  <2>. QED  BY <1>1, <2>1 DEF RefShared
<1>5. RefChild'
  BY <1>1 DEF RefChild
<1>6. /\ {} \in SUBSET RefProcesses /\ \A one \in {} : RefKnows(one)'
      /\ \A other \in RefProcesses \ {} :
           /\ UNCHANGED <<pc[other], job[other], snap[other], pin[other], answer[other],
                          result[other]>>
           /\ seen[other] \subseteq seen'[other]
           /\ pc[other] # "idle" => Reference!Ref' \in seen'[other]
  BY <1>3
<1>7. /\ pc' \in [RefProcesses -> Reference!Pcs]
      /\ job' \in [RefProcesses -> {"none", "read", "publish"}]
      /\ pin' \in [RefProcesses -> Generations] /\ answer' \in [RefProcesses -> Reference!Oids]
      /\ result' \in [RefProcesses -> Reference!Results] /\ crashes' \in 0..CrashBound
  BY <1>1 DEF RefTyped
<1>. QED  BY <1>3, <1>4, <1>5, <1>6, <1>7, RefMoves

(* The push child.                                                         *)
LEMMA RefIsPushed ==
  ASSUME RefInv, NEW who \in RefProcesses, Reference!PushChild(who)
  PROVE  RefInv'
<1>1. RefTyped /\ RefLocked
  BY DEF RefInv
<1>2. /\ push[who] \in {"started", "checked", "locked"}
      /\ UNCHANGED <<pc, job, snap, pin, answer, result, crashes, foreign, packed, packedLock,
                     reflog>>
      /\ \A one \in RefProcesses : one \notin {"nobody", "foreign", "stale"}
  BY ReferenceAssumption
     DEF Reference!PushChild, Reference!PushChecks, Reference!PushRefused, Reference!PushLocks,
         Reference!PushWrites, Reference!storage, Reference!control, Reference!ProcsAssumption
<1>3. CASE \/ Reference!PushChecks(who) \/ Reference!PushRefused(who)
           \/ Reference!PushLocks(who) /\ looseLock # "nobody"
  <2>1. PICK status \in {"0", "1", "checked"} : push' = [push EXCEPT ![who] = status]
    BY <1>3 DEF Reference!PushChecks, Reference!PushRefused, Reference!PushLocks, Reference!Exit
  <2>2. /\ push[who] \in {"started", "checked"} /\ UNCHANGED <<dir, loose, looseLock, clock, seen>>
    BY <1>3 DEF Reference!PushChecks, Reference!PushRefused, Reference!PushLocks,
       Reference!storage
  <2>3. /\ push' \in [RefProcesses -> {"none", "started", "checked", "locked", "0", "1"}]
        /\ push'[who] = status
        /\ \A other \in RefProcesses \ {who} : push'[other] = push[other]
    BY <1>1, <2>1 DEF RefTyped
  <2>4. \A one \in RefProcesses : looseLock = one <=> push'[one] = "locked"
    BY <1>1, <2>2, <2>3 DEF RefLocked
  <2>5. RefLocked'
    BY <1>1, <1>2, <2>2, <2>4 DEF RefLocked
  <2>6. UNCHANGED <<Reference!Ref, seen>>
    BY <1>2, <2>2 DEF Reference!Ref, Reference!RefOf
  <2>7. \A one \in RefProcesses :
           push'[one] \in {"started", "checked", "locked"} =>
             push[one] \in {"started", "checked", "locked"}
    BY <1>2, <2>3
  <2>8. /\ packed' \in [gen : 0..clock', oid : Reference!Oids]
        /\ loose' \in [gen : 0..clock', oid : Reference!Oids] /\ dir' \in 0..clock'
    BY <1>1, <1>2, <2>2, RefGrows
  <2>9. /\ packedLock' \in BOOLEAN /\ reflog' \in BOOLEAN
        /\ looseLock' \in {"nobody", "foreign", "stale"} \cup RefProcesses
        /\ foreign' \in [at : {"idle", "update", "pack", "prune", "delete", "unlink", "rmdir"},
                         count : 0..ForeignBound]
    BY <1>1, <1>2, <2>2 DEF RefTyped
  <2>. QED  BY <1>2, <2>2, <2>3, <2>5, <2>6, <2>7, <2>8, <2>9, RefWrites
<1>4. CASE Reference!PushLocks(who) /\ looseLock = "nobody"
  <2>1. /\ push' = [push EXCEPT ![who] = "locked"] /\ looseLock' = who
        /\ \/ dir # 0 /\ dir' = dir /\ clock' = clock
           \/ dir = 0 /\ dir' = clock + 1 /\ clock' = clock + 1
        /\ UNCHANGED <<loose, seen>>
    BY <1>4 DEF Reference!PushLocks, Reference!Exit, Reference!Fresh
  <2>2. /\ push' \in [RefProcesses -> {"none", "started", "checked", "locked", "0", "1"}]
        /\ push'[who] = "locked"
        /\ \A other \in RefProcesses \ {who} : push'[other] = push[other]
    BY <1>1, <2>1 DEF RefTyped
  <2>3. \A one \in RefProcesses : looseLock' = one <=> push'[one] = "locked"
    BY <1>1, <1>2, <1>4, <2>1, <2>2 DEF RefLocked
  <2>4. dir' # 0
    BY <1>1, <2>1 DEF RefTyped
  <2>5. RefLocked'
    BY <1>1, <1>2, <1>4, <2>1, <2>3, <2>4 DEF RefLocked
  <2>6. UNCHANGED <<Reference!Ref, seen>>
    BY <1>2, <2>1 DEF Reference!Ref, Reference!RefOf
  <2>7. \A one \in RefProcesses :
           push'[one] \in {"started", "checked", "locked"} =>
             push[one] \in {"started", "checked", "locked"}
    BY <1>2, <2>2
  <2>8. /\ packed' \in [gen : 0..clock', oid : Reference!Oids]
        /\ loose' \in [gen : 0..clock', oid : Reference!Oids] /\ dir' \in 0..clock'
    BY <1>1, <1>2, <2>1, RefGrows
  <2>9. /\ packedLock' \in BOOLEAN /\ reflog' \in BOOLEAN
        /\ looseLock' \in {"nobody", "foreign", "stale"} \cup RefProcesses
        /\ foreign' \in [at : {"idle", "update", "pack", "prune", "delete", "unlink", "rmdir"},
                         count : 0..ForeignBound]
    BY <1>1, <1>2, <2>1 DEF RefTyped
  <2>. QED  BY <1>2, <2>1, <2>2, <2>5, <2>6, <2>7, <2>8, <2>9, RefWrites
<1>5. CASE Reference!PushWrites(who)
  <2>1. PICK status \in {"0", "1"} :
          /\ push' = [push EXCEPT ![who] = status] /\ push[who] = "locked"
          /\ looseLock' = "nobody"
          /\ \/ status = "1" /\ UNCHANGED <<loose, clock>>
             \/ status = "0" /\ loose' = [gen |-> clock + 1, oid |-> "ours"] /\ clock' = clock + 1
          /\ UNCHANGED dir /\ Reference!Observe
    BY <1>5 DEF Reference!PushWrites, Reference!Exit, Reference!Fresh, Reference!Ours
  <2>2. /\ push' \in [RefProcesses -> {"none", "started", "checked", "locked", "0", "1"}]
        /\ push'[who] = status
        /\ \A other \in RefProcesses \ {who} : push'[other] = push[other]
    BY <1>1, <2>1 DEF RefTyped
  <2>3. looseLock = who
    BY <1>1, <2>1 DEF RefLocked
  <2>4. \A one \in RefProcesses : looseLock' = one <=> push'[one] = "locked"
    BY <1>1, <1>2, <2>1, <2>2, <2>3 DEF RefLocked
  <2>5. dir # 0 /\ foreign.at \notin {"update", "delete", "unlink"}
    BY <1>1, <1>2, <2>3 DEF RefLocked
  <2>6. RefLocked'
    BY <1>2, <2>1, <2>4, <2>5 DEF RefLocked
  <2>7. \A one \in RefProcesses :
           push'[one] \in {"started", "checked", "locked"} =>
             push[one] \in {"started", "checked", "locked"}
    BY <1>2, <2>2
  <2>8. /\ packed' \in [gen : 0..clock', oid : Reference!Oids]
        /\ loose' \in [gen : 0..clock', oid : Reference!Oids] /\ dir' \in 0..clock'
    <3>1. "ours" \in Reference!Oids
      BY DEF Reference!Oids, Reference!Ours
    <3>. QED  BY <1>1, <1>2, <2>1, <3>1, RefGrows
  <2>9. /\ packedLock' \in BOOLEAN /\ reflog' \in BOOLEAN
        /\ looseLock' \in {"nobody", "foreign", "stale"} \cup RefProcesses
        /\ foreign' \in [at : {"idle", "update", "pack", "prune", "delete", "unlink", "rmdir"},
                         count : 0..ForeignBound]
    BY <1>1, <1>2, <2>1 DEF RefTyped
  <2>. QED  BY <1>2, <2>1, <2>2, <2>6, <2>7, <2>8, <2>9, RefWrites
<1>. QED  BY <1>3, <1>4, <1>5 DEF Reference!PushChild

(* Other programs: with the lock of the loose ref, with that of            *)
(* packed-refs, and with neither.                                          *)
LEMMA ForeignWrites ==
  ASSUME RefInv, Reference!ForeignStep
  PROVE  RefInv'
<1>1. RefTyped /\ RefLocked
  BY DEF RefInv
<1>2. /\ Reference!Observe
      /\ UNCHANGED <<pc, job, snap, pin, answer, result, push, crashes>>
      /\ \A one \in RefProcesses : one \notin {"nobody", "foreign", "stale"}
  BY ReferenceAssumption
     DEF Reference!ForeignStep, Reference!control, Reference!ProcsAssumption
<1>3. foreign' \in [at : {"idle", "update", "pack", "prune", "delete", "unlink", "rmdir"},
                    count : 0..ForeignBound]
  <2>1. ForeignBound \in Nat
    BY ReferenceAssumption DEF Reference!BoundsAssumption
  <2>2. PICK to \in {"idle", "update", "pack", "prune", "delete", "unlink", "rmdir"} :
          \/ Reference!BeginForeign(to) \/ UNCHANGED foreign
          \/ \E from \in {"update", "pack", "prune", "delete", "unlink", "rmdir"} :
               Reference!Foreign(from, to)
    BY DEF Reference!ForeignStep, Reference!UpdateLocks, Reference!UpdateWrites,
       Reference!PackLocks, Reference!PackWrites, Reference!PruneLocks, Reference!DeleteLocks,
       Reference!DeletePacked, Reference!UnlinkLoose, Reference!RemoveNamespace,
       Reference!RemoveStaleLock
  <2>3. CASE Reference!BeginForeign(to)
    <3>1. foreign.count + 1 \in 0..ForeignBound
      BY <1>1, <2>1, <2>3 DEF RefTyped, Reference!BeginForeign
    <3>. QED  BY <2>3, <3>1 DEF Reference!BeginForeign
  <2>. QED  BY <1>1, <2>2, <2>3 DEF RefTyped, Reference!Foreign
<1>4. \A one \in RefProcesses :
        push'[one] \in {"started", "checked", "locked"} =>
          push[one] \in {"started", "checked", "locked"}
  BY <1>2
<1>5. clock' = clock \/ clock' = clock + 1
  BY DEF Reference!ForeignStep, Reference!UpdateLocks, Reference!UpdateWrites,
     Reference!PackLocks, Reference!PackWrites, Reference!PruneLocks, Reference!DeleteLocks,
     Reference!DeletePacked, Reference!UnlinkLoose, Reference!RemoveNamespace,
     Reference!RemoveStaleLock, Reference!Fresh
<1>6. /\ packedLock' \in BOOLEAN /\ reflog' \in BOOLEAN
  BY <1>1 DEF RefTyped, Reference!ForeignStep, Reference!UpdateLocks, Reference!UpdateWrites,
     Reference!PackLocks, Reference!PackWrites, Reference!PruneLocks, Reference!DeleteLocks,
     Reference!DeletePacked, Reference!UnlinkLoose, Reference!RemoveNamespace,
     Reference!RemoveStaleLock
<1>7. /\ packed' \in [gen : 0..clock', oid : Reference!Oids]
      /\ packed' = packed \/ packed'.gen = clock + 1
  <2>1. /\ Reference!Ref \in Reference!Oids /\ "none" \in Reference!Oids
        /\ Reference!NoOid = "none"
    BY <1>1 DEF RefTyped, Reference!Ref, Reference!RefOf, Reference!Oids, Reference!NoOid
  <2>2. \/ UNCHANGED packed
        \/ \E oid \in Reference!Oids : /\ packed' = [gen |-> clock + 1, oid |-> oid]
                                       /\ clock' = clock + 1
    BY <2>1 DEF Reference!ForeignStep, Reference!UpdateLocks, Reference!UpdateWrites,
       Reference!PackLocks, Reference!PackWrites, Reference!PruneLocks, Reference!DeleteLocks,
       Reference!DeletePacked, Reference!UnlinkLoose, Reference!RemoveNamespace,
       Reference!RemoveStaleLock, Reference!Fresh
  <2>. QED  BY <1>1, <1>5, <2>2, RefGrows
<1>8. /\ dir' \in 0..clock' /\ (dir' = dir \/ dir' = 0 \/ dir' = clock + 1)
  <2>1. \/ dir' = dir \/ dir' = 0
        \/ dir' = clock + 1 /\ clock' = clock + 1
    BY DEF Reference!ForeignStep, Reference!UpdateLocks, Reference!UpdateWrites,
       Reference!PackLocks, Reference!PackWrites, Reference!PruneLocks, Reference!DeleteLocks,
       Reference!DeletePacked, Reference!UnlinkLoose, Reference!RemoveNamespace,
       Reference!RemoveStaleLock, Reference!Fresh
  <2>. QED  BY <1>1, <1>5, <2>1, RefGrows
<1>9. loose' \in [gen : 0..clock', oid : Reference!Oids]
  <2>1. \/ UNCHANGED loose \/ loose' = [gen |-> 0, oid |-> "none"]
        \/ loose' = [gen |-> clock + 1, oid |-> "other"] /\ clock' = clock + 1
    BY DEF Reference!ForeignStep, Reference!UpdateLocks, Reference!UpdateWrites,
       Reference!PackLocks, Reference!PackWrites, Reference!PruneLocks, Reference!DeleteLocks,
       Reference!DeletePacked, Reference!UnlinkLoose, Reference!RemoveNamespace,
       Reference!RemoveStaleLock, Reference!Fresh, Reference!NoFile, Reference!NoOid,
       Reference!Other
  <2>2. {"none", "other"} \subseteq Reference!Oids
    BY DEF Reference!Oids, Reference!NoOid, Reference!Other
  <2>. QED  BY <1>1, <1>5, <2>1, <2>2, RefGrows
<1>10. RefLocked' /\ looseLock' \in {"nobody", "foreign", "stale"} \cup RefProcesses
  <2>1. \/ /\ looseLock = "nobody" /\ looseLock' = "foreign" /\ dir' # 0
           /\ foreign.at \notin {"update", "delete", "unlink"}
        \/ /\ looseLock = "foreign" /\ looseLock' = "nobody" /\ UNCHANGED dir
           /\ foreign'.at \in {"idle", "rmdir"} /\ dir # 0
        \/ /\ looseLock = "stale" /\ looseLock' = "nobody" /\ UNCHANGED <<dir, loose, foreign>>
        \/ /\ UNCHANGED <<looseLock, loose>>
           /\ (foreign'.at \in {"update", "delete", "unlink"} =>
                 foreign.at \in {"update", "delete", "unlink"})
           /\ \/ UNCHANGED dir
              \/ loose.gen = 0 /\ looseLock = "nobody"
    <3>1. dir = 0 => dir' \in {0, clock + 1}
      BY <1>8
    <3>2. clock + 1 # 0
      BY <1>1 DEF RefTyped
    <3>3. CASE Reference!UpdateLocks \/ Reference!DeleteLocks
      BY <1>1, <3>2, <3>3 DEF RefTyped, RefLocked, Reference!UpdateLocks, Reference!DeleteLocks,
         Reference!BeginForeign, Reference!Fresh
    <3>4. CASE Reference!UpdateWrites \/ Reference!UnlinkLoose
      BY <1>1, <3>4 DEF RefTyped, RefLocked, Reference!UpdateWrites, Reference!UnlinkLoose,
         Reference!Foreign
    <3>5. CASE Reference!RemoveStaleLock
      BY <3>5 DEF Reference!RemoveStaleLock
    <3>6. CASE Reference!PruneLocks
      <4>1. foreign.at = "prune" /\ UNCHANGED <<dir, loose>>
        BY <3>6 DEF Reference!PruneLocks, Reference!Foreign
      <4>2. CASE looseLock' = looseLock
        <5>1. foreign' = [foreign EXCEPT !.at = "idle"]
          BY <3>6, <4>2 DEF Reference!PruneLocks, Reference!Foreign
        <5>. QED  BY <1>1, <4>1, <4>2, <5>1 DEF RefTyped
      <4>3. CASE looseLock' # looseLock
        BY <1>1, <3>6, <4>1, <4>3 DEF RefLocked, Reference!PruneLocks
      <4>. QED  BY <4>2, <4>3
    <3>7. CASE \/ Reference!PackLocks \/ Reference!PackWrites \/ Reference!DeletePacked
               \/ Reference!RemoveNamespace
      <4>1. UNCHANGED <<looseLock, loose>>
        BY <3>7 DEF Reference!PackLocks, Reference!PackWrites, Reference!DeletePacked,
           Reference!RemoveNamespace
      <4>2. UNCHANGED dir \/ (loose.gen = 0 /\ looseLock = "nobody")
        BY <3>7 DEF Reference!PackLocks, Reference!PackWrites, Reference!DeletePacked,
           Reference!RemoveNamespace
      <4>3. CASE Reference!PackLocks
        BY <4>1, <4>2, <4>3 DEF Reference!PackLocks, Reference!BeginForeign
      <4>4. CASE Reference!PackWrites
        <5>1. \E to \in {"idle", "prune"} : foreign' = [foreign EXCEPT !.at = to]
          BY <4>4 DEF Reference!PackWrites, Reference!Foreign
        <5>. QED  BY <1>1, <4>1, <4>2, <5>1 DEF RefTyped
      <4>5. CASE Reference!DeletePacked
        BY <4>1, <4>2, <4>5 DEF Reference!DeletePacked, Reference!Foreign
      <4>6. CASE Reference!RemoveNamespace
        BY <1>1, <4>1, <4>2, <4>6 DEF RefTyped, Reference!RemoveNamespace, Reference!Foreign
      <4>. QED  BY <3>7, <4>3, <4>4, <4>5, <4>6
    <3>. QED  BY <3>3, <3>4, <3>5, <3>6, <3>7 DEF Reference!ForeignStep
  <2>2. \A one \in RefProcesses : looseLock' = one <=> looseLock = one
    BY <1>2, <2>1
  <2>3. looseLock' \in {"nobody", "foreign", "stale"} \cup RefProcesses
    BY <1>1, <2>1 DEF RefTyped
  <2>4. RefLocked'
    BY <1>1, <1>2, <2>1, <2>2 DEF RefLocked
  <2>. QED  BY <2>3, <2>4
<1>11. push' \in [RefProcesses -> {"none", "started", "checked", "locked", "0", "1"}]
  BY <1>1, <1>2 DEF RefTyped
<1>. QED  BY <1>2, <1>3, <1>4, <1>5, <1>6, <1>7, <1>8, <1>9, <1>10, <1>11, RefWrites

(* Readers and writers start with nothing read.                            *)
LEMMA RefStarts == Reference!Init => RefInv
<1> SUFFICES ASSUME Reference!Init
             PROVE  RefInv
  OBVIOUS
<1>1. ForeignBound \in Nat /\ CrashBound \in Nat
  BY ReferenceAssumption DEF Reference!BoundsAssumption
<1>2. \A who \in RefProcesses : who \notin {"nobody", "foreign", "stale"}
  BY ReferenceAssumption DEF Reference!ProcsAssumption
<1>3. clock = 1 /\ Generations = 0..1
  BY DEF Reference!Init, Generations
<1>4. RefTyped
  <2>1. /\ packed \in [gen : Generations, oid : Reference!Oids]
        /\ loose \in [gen : Generations, oid : Reference!Oids] /\ dir \in Generations
    BY <1>3 DEF Reference!Init, Reference!NoFile, Reference!Oids
  <2>2. /\ pc \in [RefProcesses -> Reference!Pcs]
        /\ job \in [RefProcesses -> {"none", "read", "publish"}]
        /\ push \in [RefProcesses -> {"none", "started", "checked", "locked", "0", "1"}]
        /\ pin \in [RefProcesses -> Generations]
        /\ result \in [RefProcesses -> Reference!Results]
    BY <1>3 DEF Reference!Init, Reference!Pcs, Reference!Results
  <2>3. /\ answer \in [RefProcesses -> Reference!Oids]
        /\ seen \in [RefProcesses -> SUBSET Reference!Oids]
    BY DEF Reference!Init, Reference!Oids
  <2>4. snap \in [RefProcesses -> [packed : [gen : Generations, oid : Reference!Oids],
                                   dir : Generations,
                                   loose : [gen : Generations, oid : Reference!Oids]]]
    BY <1>3 DEF Reference!Init, Reference!NoFile, Reference!Oids
  <2>5. /\ packedLock \in BOOLEAN /\ reflog \in BOOLEAN /\ clock \in Nat
        /\ looseLock \in {"nobody", "foreign", "stale"} \cup RefProcesses
        /\ foreign \in [at : {"idle", "update", "pack", "prune", "delete", "unlink", "rmdir"},
                        count : 0..ForeignBound]
        /\ crashes \in 0..CrashBound
    <3>1. 0 \in 0..ForeignBound /\ 0 \in 0..CrashBound
      BY <1>1
    <3>2. /\ packedLock = FALSE /\ reflog = FALSE /\ clock = 1 /\ looseLock = "nobody"
          /\ foreign = [at |-> "idle", count |-> 0] /\ crashes = 0
      BY DEF Reference!Init
    <3>. QED  BY <3>1, <3>2
  <2>. QED  BY <2>1, <2>2, <2>3, <2>4, <2>5 DEF RefTyped
<1>5. RefLocked
  BY <1>2 DEF RefLocked, Reference!Init, Reference!NoFile
<1>6. RefShared /\ RefChild
  BY DEF RefShared, RefChild, Engaged, Reference!Init
<1>7. \A who \in RefProcesses : RefKnows(who)
  BY DEF RefKnows, PackedOpen, DirOpen, LooseOpen, FilesAgain, LookedAgain, Reference!Init,
     Reference!Oids, Reference!Ours, Reference!Other, Reference!NoOid
<1>. QED  BY <1>4, <1>5, <1>6, <1>7 DEF RefInv

LEMMA RefStays ==
  ASSUME RefInv, UNCHANGED <<refVars, pc, job, result, crashes, seen>>
  PROVE  RefInv'
<1>1. RefTyped /\ RefLocked /\ RefShared /\ RefChild /\ \A who \in RefProcesses : RefKnows(who)
  BY DEF RefInv
<1>2. RefTyped'
  BY <1>1 DEF refVars, RefTyped, Generations
<1>3. RefLocked' /\ RefShared' /\ RefChild'
  BY <1>1 DEF refVars, RefLocked, RefShared, RefChild, Engaged
<1>4. \A who \in RefProcesses : RefKnows(who)'
  BY <1>1, RefKnowsStays DEF refVars
<1>. QED  BY <1>2, <1>3, <1>4 DEF RefInv

LEMMA RefSteps ==
  ASSUME RefInv, Reference!Next
  PROVE  RefInv'
<1>1. ASSUME NEW who \in RefProcesses, Reference!Read(who)
      PROVE  RefInv'
  BY <1>1, RefOpens, RefLooksAgain, RefAnswers DEF Reference!Read
<1>2. ASSUME NEW who \in RefProcesses, Reference!Publish(who)
      PROVE  RefInv'
  BY <1>2, RefIsUsed, RefMakesNamespace, RefPushes, RefStops DEF Reference!Publish
<1>3. ASSUME NEW who \in RefProcesses,
             Reference!Start(who) \/ Reference!PushChild(who) \/ Reference!Crash(who)
      PROVE  RefInv'
  BY <1>3, RefBegins, RefIsPushed, RefStops
<1>4. CASE Reference!AllDone
  BY <1>4, RefStays DEF Reference!AllDone, Reference!vars, Reference!storage,
     Reference!control, refVars
<1>. QED  BY <1>1, <1>2, <1>3, <1>4, ForeignWrites DEF Reference!Next

LEMMA RefInvariant == Spec => [](part = "ref" => RefInv)
<1>1. Init => (part = "ref" => RefInv)
  BY RefStarts DEF Init
<1>2. (part = "ref" => RefInv) /\ [Next]_vars
        => (part = "ref" => RefInv)'
  <2> SUFFICES ASSUME part = "ref" => RefInv, [Next]_vars, part' = "ref"
               PROVE  RefInv'
    OBVIOUS
  <2>1. CASE Next
    <3>1. part = "ref" /\ Reference!Next
      BY <2>1 DEF Next, IsSession, IsCandidate, IsRef, IsSandbox, IsHost, IsContainer, IsProcess
    <3>. QED  BY <3>1, RefSteps
  <2>2. CASE UNCHANGED vars
    BY <2>2, RefStays DEF vars, refVars
  <2>. QED  BY <2>1, <2>2
<1>. QED  BY <1>1, <1>2, PTL DEF Spec

(* Whatever other programs do to the files of the repair ref while a read  *)
(* looks at them one after the other, and wherever a process dies or its   *)
(* push child is killed: what the read answers, and what the publication   *)
(* concludes from it, is a value the ref had during that read.             *)
THEOREM RepairMachineAnswers == Spec => []AnswerWasTrue
<1>1. (part = "ref" => RefInv) => AnswerWasTrue
  <2> SUFFICES ASSUME RefInv
               PROVE  Reference!TypeOK /\ Reference!AnswerWasTrue
    BY DEF AnswerWasTrue
  <2>1. RefTyped /\ RefLocked /\ \A who \in RefProcesses : RefKnows(who)
    BY DEF RefInv
  <2>2. Generations \subseteq Nat
    BY DEF Generations
  <2>3. Reference!TypeOK
    <3>1. snap \in [RefProcesses -> [packed : Reference!File, dir : Nat,
                                     loose : Reference!File]]
      BY <2>1, <2>2 DEF RefTyped, Reference!File
    <3>2. packed \in Reference!File /\ loose \in Reference!File /\ dir \in Nat
      BY <2>1, <2>2 DEF RefTyped, Reference!File
    <3>3. pin \in [RefProcesses -> Nat]
      BY <2>1, <2>2 DEF RefTyped
    <3>. QED  BY <2>1, <3>1, <3>2, <3>3 DEF RefTyped, RefLocked, Reference!TypeOK
  <2>4. Reference!AnswerWasTrue
    <3>1. ASSUME NEW who \in RefProcesses
          PROVE  /\ \A oid \in Reference!Oids : Reference!Says(who, {oid}) => oid \in seen[who]
                 /\ Reference!Says(who, {"published", "already"}) => "ours" \in seen[who]
                 /\ Reference!Says(who, {"conflict"}) => "other" \in seen[who]
      BY <2>1 DEF RefKnows, Reference!Says, Reference!Idle
    <3>. QED  BY <3>1 DEF Reference!AnswerWasTrue, Reference!Ours, Reference!Other
  <2>. QED  BY <2>3, <2>4
<1>. QED  BY <1>1, RefInvariant, PTL

-----------------------------------------------------------------------------
(* What holds between the steps of a validation run.                       *)

RunReport == [success : BOOLEAN, kind : Validation!Kinds, results : Seq(Validation!Ends),
              oom : BOOLEAN, residual : 0..Offspring, clean : BOOLEAN]

RunTyped ==
  /\ container \in {"absent", "created", "running", "exited", "removed"}
  /\ exit \in Validation!Codes /\ input \in {"candidate", "other"}
  /\ step \in Validation!Steps /\ kind \in Validation!Kinds /\ clean \in BOOLEAN
  /\ tree \in {"none", "clean", "dirty"} /\ over \in BOOLEAN /\ oom \in BOOLEAN /\ spent \in BOOLEAN
  /\ alive \in Nat /\ orphans \in Nat /\ alive + orphans \in 0..Offspring
  /\ residual \in 0..Offspring
  /\ results \in Seq(Validation!Ends) /\ Len(results) <= Count
  /\ report \in RunReport
  /\ host \in Validation!HostPcs /\ probe \in {"none", "created", "removed", "leaked"}
  /\ client \in Validation!Clients /\ late \in BOOLEAN /\ pending \in BOOLEAN
  /\ seen \in Validation!States /\ outcome \in Validation!Outcomes

AllPassed == \A i \in 1..Len(results) : Validation!Passed(results[i])
Nobody == alive = 0 /\ orphans = 0

(* Until a command has failed, and until the first one has run.            *)
BeforeFailure == {"boot", "copy", "next", "run", "sweep", "count"}
RunGoes ==
  /\ \A i \in 1..(Len(results) - 1) : Validation!Passed(results[i])
  /\ step \in BeforeFailure => kind = "none" /\ residual = 0
  /\ step \in BeforeFailure \cup {"look", "sample"} => report = Validation!NoReport
  /\ step \in {"boot", "copy"} => results = <<>>
  /\ step \in {"boot", "copy", "next", "count"} => Nobody
  /\ step \in {"next", "run"} => AllPassed
  /\ step = "run" => Len(results) < Count
  /\ step \in {"sweep", "count"} => results # <<>>
  /\ step \in (BeforeFailure \ {"boot", "copy"}) \cup {"look", "sample"} => input = "candidate"
  /\ container \in {"absent", "created"} => step = "boot"
  /\ exit # "none" => container \in {"exited", "removed"}

(* The reason the runner has for the failure kind it found.                *)
Grounds ==
  /\ kind = "command_exit_nonzero" => \E i \in 1..Len(results) : results[i].exit = "nonzero"
  /\ kind = "command_timeout" =>
       Len(results) < Count \/ \E i \in 1..Len(results) : results[i].timed
  /\ kind = "command_signal" => \E i \in 1..Len(results) : results[i].exit = "signal"
  /\ kind = "output_limit" => \E i \in 1..Len(results) : results[i].cut
  /\ kind = "residual_process" => residual > 0
  /\ kind # "tracked_tree_changed"

RunLooks ==
  /\ step \in {"look", "sample"} =>
       /\ Grounds
       /\ kind = "none" => residual = 0 /\ Nobody /\ AllPassed /\ Len(results) = Count
  /\ step = "sample" /\ kind = "none" /\ clean => tree = "clean"

(* A report is about what is there now, since nobody is left to change it. *)
Earned ==
  /\ input = "candidate" /\ tree = "clean" /\ ~oom /\ Nobody
  /\ Len(results) = Count /\ AllPassed
RunReports ==
  /\ report # Validation!NoReport => (report.success <=> report.kind = "none")
  /\ step = "send" \/ exit = "0" =>
       /\ report # Validation!NoReport /\ Validation!Accepted
       /\ report.success => Earned

HostKnows ==
  /\ host \in {"prepare", "probed", "create"} => container = "absent"
  /\ host = "start" => container = "created"
  /\ client = "whole" => exit = "0"
  /\ host \in {"prepare", "probed", "create", "start", "attached", "stop"} => ~outcome.success
  /\ outcome.success => client = "whole" /\ report.success
  /\ host \in {"done", "error"} => container \in {"absent", "removed"} \/ pending

RunInv == RunTyped /\ RunGoes /\ RunLooks /\ RunReports /\ HostKnows

(* A report of a failure has the evidence that the host asks for.          *)
LEMMA FailureIsAccepted ==
  ASSUME RunTyped', Grounds' \/ (kind' = "tracked_tree_changed" /\ ~clean'), kind' # "none",
         report' = [success |-> FALSE, kind |-> kind', results |-> results', oom |-> oom',
                    residual |-> residual', clean |-> clean']
  PROVE Validation!Accepted'
<1>1. /\ report'.success = FALSE /\ report'.kind = kind' /\ report'.results = results'
      /\ report'.residual = residual' /\ report'.clean = clean'
  OBVIOUS
<1>2. DOMAIN results' = 1..Len(results')
  BY DEF RunTyped
<1>3. (Validation!Evidence(kind, results))'
  BY <1>1, <1>2 DEF RunTyped, Grounds, Validation!Evidence, Validation!Some, Validation!Kinds,
     Validation!Nothing
<1>. QED BY <1>1, <1>3 DEF Validation!Accepted, Validation!Evidence, Validation!Nothing

LEMMA AcceptedStays ==
  ASSUME UNCHANGED report
  PROVE  Validation!Accepted' <=> Validation!Accepted
BY DEF Validation!Accepted, Validation!Evidence, Validation!Some, Validation!Passed

(* A step in the container: the host has not read its report.              *)
LEMMA InsideMoves ==
  ASSUME RunInv, Validation!Running, UNCHANGED <<Validation!hostside, container, exit, input>>,
         RunTyped', RunGoes', RunLooks', RunReports'
  PROVE  RunInv'
<1>1. RunTyped /\ RunGoes /\ HostKnows /\ exit = "none"
  BY DEF RunInv, RunGoes, Validation!Running
<1>2. client # "whole" /\ ~outcome.success
  BY <1>1 DEF HostKnows
<1>3. HostKnows'
  BY <1>1, <1>2 DEF HostKnows, Validation!hostside
<1>. QED  BY <1>3 DEF RunInv

(* The program of a command, its descendants, and the clock.               *)
LEMMA WorldMoves ==
  ASSUME RunInv, UNCHANGED Validation!hostside, Validation!Program \/ Validation!TimePasses
  PROVE  RunInv'
<1>1. /\ RunTyped /\ RunGoes /\ RunLooks /\ RunReports /\ Validation!Running
      /\ UNCHANGED <<container, exit, input, step, results, kind, residual, clean, report>>
      /\ UNCHANGED <<host, probe, client, late, seen, outcome, pending>>
  BY DEF RunInv, Validation!Program, Validation!TimePasses, Validation!Keep, Validation!runner,
     Validation!hostside
<1>2. \/ step = "run" \/ alive > 0
      \/ UNCHANGED <<alive, orphans, tree, over, oom>>
  BY DEF Validation!Program, Validation!TimePasses, Validation!processes
<1>3. Offspring \in Nat
  BY ValidationAssumption DEF Validation!CountAssumption
<1>4. /\ alive' \in Nat /\ orphans' \in Nat /\ alive' + orphans' \in 0..Offspring
  BY <1>1, <1>3 DEF RunTyped, Validation!Program, Validation!TimePasses, Validation!processes
<1>5. /\ tree' \in {"none", "clean", "dirty"} /\ over' \in BOOLEAN /\ oom' \in BOOLEAN
      /\ spent' \in BOOLEAN
  BY <1>1 DEF RunTyped, Validation!Program, Validation!TimePasses
<1>6. RunTyped'
  BY <1>1, <1>4, <1>5 DEF RunTyped, RunReport
<1>7. Nobody /\ step # "run" => UNCHANGED <<alive, orphans, tree, over, oom>>
  BY <1>2 DEF Nobody
<1>8. (AllPassed' <=> AllPassed) /\ (Grounds' <=> Grounds)
  BY <1>1 DEF AllPassed, Grounds, Validation!Passed
<1>9. RunGoes'
  BY <1>1, <1>7, <1>8 DEF RunGoes, BeforeFailure, Nobody, Validation!Passed
<1>10. RunLooks'
  BY <1>1, <1>7, <1>8 DEF RunLooks, Nobody
<1>11. RunReports'
  <2>1. step = "send" \/ exit = "0" => (Earned => Earned')
    BY <1>1, <1>7, <1>8 DEF Earned, RunGoes, Nobody, Validation!Running
  <2>. QED  BY <1>1, <2>1, AcceptedStays DEF RunReports
<1>. QED  BY <1>1, <1>6, <1>9, <1>10, <1>11, InsideMoves DEF Validation!hostside

(* Whatever raises in the runner is reported.                              *)
LEMMA RunnerFails ==
  ASSUME RunInv, UNCHANGED Validation!hostside, Validation!Running,
         report' = Validation!Failure, step' = "send",
         UNCHANGED <<container, exit, input, results, kind, residual, clean, alive, orphans, tree,
                     over, oom, spent>>
  PROVE  RunInv'
<1>1. RunTyped /\ RunGoes /\ exit = "none"
  BY DEF RunInv, RunGoes, Validation!Running
<1>2. /\ report' = [success |-> FALSE, kind |-> "sandbox_runtime_failed", results |-> <<>>,
                    oom |-> FALSE, residual |-> 0, clean |-> FALSE]
      /\ report'.success = FALSE /\ report'.kind = "sandbox_runtime_failed"
  BY DEF Validation!Failure
<1>3. report' \in RunReport
  <2>1. <<>> \in Seq(Validation!Ends)
    BY EmptySeq
  <2>2. 0 \in 0..Offspring
    BY ValidationAssumption DEF Validation!CountAssumption
  <2>. QED  BY <1>2, <2>1, <2>2 DEF RunReport, Validation!Kinds
<1>4. RunTyped'
  BY <1>1, <1>3 DEF RunTyped, RunReport, Validation!Steps, Validation!hostside
<1>5. Validation!Accepted'
  BY <1>2 DEF Validation!Accepted, Validation!Evidence, Validation!Nothing
<1>6. report' # Validation!NoReport
  BY <1>2 DEF Validation!NoReport, Validation!Nothing
<1>7. RunReports'
  BY <1>1, <1>2, <1>5, <1>6 DEF RunReports
<1>8. RunGoes'
  BY <1>1 DEF RunGoes, BeforeFailure, Validation!Running, Validation!Passed
<1>9. RunLooks'
  BY DEF RunLooks
<1>. QED  BY <1>4, <1>7, <1>8, <1>9, InsideMoves

(* A step of the runner before it has a report.                            *)
LEMMA RunnerMoves ==
  ASSUME RunInv, UNCHANGED Validation!hostside, Validation!Running,
         step \in BeforeFailure \cup {"look"}, step' \in Validation!Steps \ {"send"},
         UNCHANGED <<container, exit, input, report, over, oom, spent>>,
         results' \in Seq(Validation!Ends), Len(results') <= Count, kind' \in Validation!Kinds,
         residual' \in 0..Offspring, clean' \in BOOLEAN, tree' \in {"none", "clean", "dirty"},
         alive' \in Nat, orphans' \in Nat, alive' + orphans' <= alive + orphans,
         RunGoes', RunLooks'
  PROVE  RunInv'
<1>1. /\ RunTyped /\ RunGoes /\ RunReports /\ exit = "none"
      /\ UNCHANGED <<host, probe, client, late, seen, outcome, pending>>
  BY DEF RunInv, RunGoes, Validation!Running, Validation!hostside
<1>2. alive' + orphans' \in 0..Offspring
  <2>1. alive \in Nat /\ orphans \in Nat /\ alive + orphans \in 0..Offspring /\ Offspring \in Nat
    BY <1>1, ValidationAssumption DEF RunTyped, Validation!CountAssumption
  <2>2. \A m, n, k, l \in Nat :
          m + n \in 0..Offspring /\ k + l <= m + n => k + l \in 0..Offspring
    BY <2>1
  <2>. QED  BY <2>1, <2>2
<1>3. RunTyped'
  <2>1. /\ container' \in {"absent", "created", "running", "exited", "removed"}
        /\ exit' \in Validation!Codes /\ input' \in {"candidate", "other"}
        /\ over' \in BOOLEAN /\ oom' \in BOOLEAN /\ spent' \in BOOLEAN
        /\ report' \in RunReport
        /\ host' \in Validation!HostPcs /\ probe' \in {"none", "created", "removed", "leaked"}
        /\ client' \in Validation!Clients /\ late' \in BOOLEAN /\ pending' \in BOOLEAN
        /\ seen' \in Validation!States /\ outcome' \in Validation!Outcomes
    BY <1>1 DEF RunTyped
  <2>2. step' \in Validation!Steps
    OBVIOUS
  <2>. QED  BY <1>2, <2>1, <2>2 DEF RunTyped, RunReport
<1>4. RunReports'
  BY <1>1 DEF RunReports, RunGoes
<1>. QED  BY <1>3, <1>4, InsideMoves

LEMMA RunnerBegins ==
  ASSUME RunInv, UNCHANGED Validation!hostside,
         \/ Validation!Boot /\ step' = "copy"
         \/ Validation!CopyCandidate
         \/ Validation!NextCommand
  PROVE  RunInv'
<1>1. /\ RunTyped /\ RunGoes /\ Validation!Running /\ Count \in Nat
      /\ UNCHANGED <<host, probe, client, late, seen, outcome, pending>>
  BY ValidationAssumption
     DEF RunInv, Validation!Boot, Validation!CopyCandidate, Validation!NextCommand,
         Validation!At, Validation!hostside, Validation!CountAssumption
<1>2. CASE Validation!Boot /\ step' = "copy"
  <2>1. /\ step = "boot"
        /\ UNCHANGED <<container, exit, input, report, over, oom, spent, results, kind,
                       residual, clean, tree, alive, orphans>>
    BY <1>2 DEF Validation!Boot, Validation!At, Validation!Goto, Validation!Keep, Validation!Dies,
       Validation!processes
  <2>2. RunGoes'
    BY <1>1, <1>2, <2>1 DEF RunGoes, BeforeFailure, Nobody, Validation!Running, Validation!Passed
  <2>3. RunLooks'
    BY <1>2 DEF RunLooks
  <2>4. step' \in Validation!Steps \ {"send"} /\ step \in BeforeFailure \cup {"look"}
    BY <1>2, <2>1 DEF Validation!Steps, BeforeFailure
  <2>. QED  BY <1>1, <2>1, <2>2, <2>3, <2>4, RunnerMoves DEF RunTyped
<1>3. CASE Validation!CopyCandidate
  <2>1. /\ step = "copy"
        /\ UNCHANGED <<container, exit, input, over, oom, spent, results, kind,
                       residual, clean, alive, orphans>>
    BY <1>3 DEF Validation!CopyCandidate, Validation!At, Validation!Keep, Validation!processes
  <2>2. CASE input = "candidate"
    <3>1. step' = "next" /\ tree' = "clean" /\ UNCHANGED report
      BY <1>3, <2>2 DEF Validation!CopyCandidate, Validation!Goto
    <3>2. AllPassed'
      BY <1>1, <2>1 DEF RunGoes, AllPassed
    <3>3. RunGoes'
      BY <1>1, <2>1, <2>2, <3>1, <3>2
         DEF RunGoes, BeforeFailure, Nobody, Validation!Running, Validation!Passed
    <3>4. RunLooks'
      BY <3>1 DEF RunLooks
    <3>5. step' \in Validation!Steps \ {"send"} /\ step \in BeforeFailure \cup {"look"}
      BY <2>1, <3>1 DEF Validation!Steps, BeforeFailure
    <3>. QED  BY <1>1, <2>1, <3>1, <3>3, <3>4, <3>5, RunnerMoves DEF RunTyped
  <2>3. CASE input # "candidate"
    BY <1>1, <1>3, <2>1, <2>3, RunnerFails DEF Validation!CopyCandidate, Validation!Goto
  <2>. QED  BY <2>2, <2>3
<1>4. CASE Validation!NextCommand
  <2>1. /\ step = "next"
        /\ UNCHANGED <<container, exit, input, report, over, oom, spent, results,
                       residual, clean, tree, alive, orphans>>
        /\ \/ step' = "look" /\ Len(results) = Count /\ kind' = kind
           \/ step' = "look" /\ Len(results) # Count /\ kind' = "command_timeout"
           \/ step' = "run" /\ Len(results) # Count /\ kind' = kind
    BY <1>4 DEF Validation!NextCommand, Validation!At, Validation!Goto, Validation!Keep,
       Validation!processes
  <2>2. Len(results) \in Nat /\ (Len(results) # Count => Len(results) < Count)
    <3>1. \A n \in Nat : n <= Count /\ n # Count => n < Count
      BY <1>1
    <3>. QED  BY <1>1, <3>1 DEF RunTyped
  <2>3. AllPassed /\ AllPassed'
    BY <1>1, <2>1 DEF RunGoes, AllPassed, Validation!Passed
  <2>4. RunGoes'
    BY <1>1, <2>1, <2>2, <2>3
       DEF RunGoes, BeforeFailure, Nobody, Validation!Running, Validation!Passed
  <2>5. kind = "none" /\ residual = 0 /\ Nobody
    BY <1>1, <2>1 DEF RunGoes, BeforeFailure
  <2>6. RunLooks'
    BY <2>1, <2>2, <2>3, <2>5 DEF RunLooks, Grounds, Nobody
  <2>7. /\ step' \in Validation!Steps \ {"send"} /\ step \in BeforeFailure \cup {"look"}
        /\ kind' \in Validation!Kinds
    BY <1>1, <2>1 DEF Validation!Steps, Validation!Kinds, BeforeFailure, RunTyped
  <2>. QED  BY <1>1, <2>1, <2>4, <2>6, <2>7, RunnerMoves DEF RunTyped
<1>. QED  BY <1>2, <1>3, <1>4

(* A command ends, and its descendants are swept.                          *)
LEMMA CommandStops ==
  ASSUME RunInv, UNCHANGED Validation!hostside, Validation!CommandEnds \/ Validation!Watchdog
  PROVE  RunInv'
<1>1. /\ RunTyped /\ RunGoes /\ Validation!Running /\ step = "run" /\ Count \in Nat
      /\ UNCHANGED <<host, probe, client, late, seen, outcome, pending>>
  BY ValidationAssumption
     DEF RunInv, Validation!CommandEnds, Validation!Watchdog, Validation!At,
         Validation!hostside, Validation!CountAssumption
<1>2. PICK end \in Validation!Ends : Validation!Ended(end)
  BY DEF Validation!CommandEnds, Validation!Watchdog
<1>3. /\ results' = Append(results, end) /\ step' = "sweep"
      /\ UNCHANGED <<kind, residual, clean, report, tree, over, oom, spent, container, exit, input>>
      /\ \/ alive' \in 0..alive /\ orphans' = 0
         \/ UNCHANGED <<alive, orphans>>
  BY <1>2 DEF Validation!Ended, Validation!Goto, Validation!Keep, Validation!processes
<1>4. /\ results' \in Seq(Validation!Ends) /\ Len(results') = Len(results) + 1
      /\ \A i \in 1..Len(results) : results'[i] = results[i]
  BY <1>1, <1>3, AppendProperties DEF RunTyped
<1>5. /\ Len(results) \in Nat /\ Len(results') <= Count
      /\ \A i \in 1..(Len(results') - 1) : i \in 1..Len(results)
  <2>1. \A n \in Nat : n < Count => n + 1 <= Count /\ \A i \in 1..(n + 1 - 1) : i \in 1..n
    BY <1>1
  <2>. QED  BY <1>1, <1>4, <2>1 DEF RunTyped, RunGoes
<1>6. results' # <<>>
  <2>1. \A n \in Nat : n + 1 # 0
    OBVIOUS
  <2>2. Len(results') # 0
    BY <1>4, <1>5, <2>1
  <2>. QED  BY <2>2
<1>7. /\ alive' \in Nat /\ orphans' \in Nat /\ alive' + orphans' <= alive + orphans
  BY <1>1, <1>3 DEF RunTyped
<1>8. \A i \in 1..(Len(results') - 1) : Validation!Passed(results'[i])
  BY <1>1, <1>4, <1>5 DEF RunGoes, AllPassed
<1>9. RunGoes'
  <2>1. /\ step' = "sweep" /\ (container' = container) /\ container = "running"
        /\ (exit' = "none" \/ exit' = exit) /\ kind' = "none" /\ residual' = 0
        /\ report' = Validation!NoReport /\ input' = "candidate" /\ exit = "none"
    BY <1>1, <1>3 DEF RunGoes, BeforeFailure, Validation!Running
  <2>2. (\A i \in 1..(Len(results) - 1) : Validation!Passed(results[i]))'
    BY <1>8 DEF Validation!Passed
  <2>. QED  BY <1>6, <2>1, <2>2 DEF RunGoes
<1>10. RunLooks'
  BY <1>3 DEF RunLooks
<1>11. /\ step' \in Validation!Steps \ {"send"} /\ step \in BeforeFailure \cup {"look"}
  BY <1>1, <1>3 DEF Validation!Steps, BeforeFailure
<1>. QED  BY <1>1, <1>3, <1>4, <1>5, <1>7, <1>9, <1>10, <1>11, RunnerMoves DEF RunTyped

LEMMA RunnerSweeps ==
  ASSUME RunInv, UNCHANGED Validation!hostside, Validation!Sweep
  PROVE  RunInv'
<1>1. /\ RunTyped /\ RunGoes /\ Validation!Running /\ step = "sweep" /\ Offspring \in Nat
      /\ UNCHANGED <<host, probe, client, late, seen, outcome, pending>>
  BY ValidationAssumption
     DEF RunInv, Validation!Sweep, Validation!At, Validation!hostside, Validation!CountAssumption
<1>2. kind = "none" /\ residual = 0 /\ results # <<>> /\ report = Validation!NoReport
      /\ input = "candidate"
  BY <1>1 DEF RunGoes, BeforeFailure
<1>3. /\ residual' = alive + orphans /\ alive' \in 0..alive /\ orphans' = 0
      /\ \/ step' = "look" /\ kind' = "residual_process" /\ alive + orphans > 0
         \/ step' = "count" /\ kind' = kind /\ alive + orphans = 0
      /\ UNCHANGED <<results, clean, report, tree, over, oom, spent, container, exit, input>>
  BY <1>1, <1>2 DEF RunTyped, Validation!Sweep, Validation!Goto, Validation!Keep
<1>4. /\ alive' \in Nat /\ orphans' \in Nat /\ alive' + orphans' <= alive + orphans
      /\ residual' \in 0..Offspring
  <2>1. alive \in Nat /\ orphans \in Nat /\ alive + orphans \in 0..Offspring
    BY <1>1 DEF RunTyped
  <2>2. \A m, n \in Nat : \A k \in 0..m : k \in Nat /\ k + 0 <= m + n
    OBVIOUS
  <2>. QED  BY <1>3, <2>1, <2>2
<1>5. step' = "count" => Nobody' /\ residual' = 0
  BY <1>1, <1>3 DEF RunTyped, Nobody
<1>6. RunGoes'
  BY <1>1, <1>2, <1>3, <1>5 DEF RunGoes, BeforeFailure, Validation!Running, Validation!Passed
<1>7. RunLooks'
  BY <1>3 DEF RunLooks, Grounds
<1>8. /\ step' \in Validation!Steps \ {"send"} /\ step \in BeforeFailure \cup {"look"}
      /\ kind' \in Validation!Kinds
  BY <1>1, <1>3 DEF Validation!Steps, Validation!Kinds, BeforeFailure, RunTyped
<1>. QED  BY <1>1, <1>2, <1>3, <1>4, <1>6, <1>7, <1>8, RunnerMoves DEF RunTyped

LEMMA RunnerCounts ==
  ASSUME RunInv, UNCHANGED Validation!hostside, Validation!Counts
  PROVE  RunInv'
<1>1. /\ RunTyped /\ RunGoes /\ Validation!Running /\ step = "count"
      /\ UNCHANGED <<host, probe, client, late, seen, outcome, pending>>
  BY DEF RunInv, Validation!Counts, Validation!At, Validation!hostside
<1>2. /\ kind = "none" /\ residual = 0 /\ results # <<>> /\ report = Validation!NoReport
      /\ input = "candidate" /\ Nobody
  BY <1>1 DEF RunGoes, BeforeFailure
<1>3. PICK one : one = results[Len(results)]
  OBVIOUS
<1>4. /\ one \in Validation!Ends /\ Len(results) \in Nat /\ Len(results) \in 1..Len(results)
      /\ \A i \in 1..Len(results) : i = Len(results) \/ i \in 1..(Len(results) - 1)
  <2>1. Len(results) \in Nat /\ Len(results) # 0
    BY <1>1, <1>2, EmptySeq DEF RunTyped
  <2>2. \A n \in Nat : n # 0 => n \in 1..n /\ \A i \in 1..n : i = n \/ i \in 1..(n - 1)
    OBVIOUS
  <2>3. results[Len(results)] \in Validation!Ends
    BY <1>1, <2>1, <2>2 DEF RunTyped
  <2>. QED  BY <1>3, <2>1, <2>2, <2>3
<1>5. PICK next \in {"none", "command_timeout", "output_limit", "command_signal",
                     "command_exit_nonzero", "resource_limit"} :
        /\ kind' = next
        /\ next = "none" => Validation!Passed(one)
        /\ next = "command_timeout" => one.timed
        /\ next = "output_limit" => one.cut
        /\ next = "command_signal" => one.exit = "signal"
        /\ next = "command_exit_nonzero" => one.exit = "nonzero"
  <2>1. /\ one.exit \in {"zero", "nonzero", "signal"} /\ one.timed \in BOOLEAN
        /\ one.cut \in BOOLEAN
    BY <1>4 DEF Validation!Ends
  <2>2. kind' = IF over THEN "resource_limit" ELSE Validation!FailureKind(one)
    BY <1>3 DEF Validation!Counts
  <2>3. CASE over
    BY <2>2, <2>3
  <2>4. CASE ~over
    BY <2>1, <2>2, <2>4 DEF Validation!FailureKind, Validation!Stopped, Validation!Passed,
       Validation!Nothing
  <2>. QED  BY <2>3, <2>4
<1>6. /\ step' = (IF next = "none" THEN "next" ELSE "look")
      /\ UNCHANGED <<results, residual, clean, report, alive, orphans, tree, over, oom, spent,
                     container, exit, input>>
  BY <1>5 DEF Validation!Counts, Validation!Goto, Validation!Keep, Validation!Nothing,
     Validation!processes
<1>7. next = "none" => AllPassed'
  BY <1>1, <1>3, <1>4, <1>5, <1>6 DEF RunGoes, AllPassed, Validation!Passed
<1>8. next # "none" => Grounds'
  BY <1>3, <1>4, <1>5, <1>6 DEF Grounds
<1>9. RunGoes'
  BY <1>1, <1>2, <1>5, <1>6, <1>7
     DEF RunGoes, BeforeFailure, Nobody, Validation!Running, Validation!Passed
<1>10. RunLooks'
  BY <1>5, <1>6, <1>8 DEF RunLooks
<1>11. /\ step' \in Validation!Steps \ {"send"} /\ step \in BeforeFailure \cup {"look"}
       /\ kind' \in Validation!Kinds
  BY <1>1, <1>5, <1>6 DEF Validation!Steps, Validation!Kinds, Validation!Nothing, BeforeFailure
<1>12. alive' \in Nat /\ orphans' \in Nat /\ alive' + orphans' <= alive + orphans
  BY <1>2, <1>6 DEF Nobody
<1>. QED  BY <1>1, <1>6, <1>9, <1>10, <1>11, <1>12, RunnerMoves DEF RunTyped

LEMMA TreeIsLookedAt ==
  ASSUME RunInv, UNCHANGED Validation!hostside, Validation!LookAtTree
  PROVE  RunInv'
<1>1. /\ RunTyped /\ RunGoes /\ RunLooks /\ Validation!Running /\ step = "look"
      /\ UNCHANGED <<host, probe, client, late, seen, outcome, pending>>
  BY DEF RunInv, Validation!LookAtTree, Validation!At, Validation!hostside
<1>2. /\ clean' \in {FALSE, tree = "clean"} /\ step' = "sample"
      /\ UNCHANGED <<results, kind, residual, report, alive, orphans, tree, over, oom, spent,
                     container, exit, input>>
  BY DEF Validation!LookAtTree, Validation!Goto, Validation!Keep, Validation!processes
<1>3. (AllPassed' <=> AllPassed) /\ (Grounds' <=> Grounds) /\ (Nobody' <=> Nobody)
  BY <1>2 DEF AllPassed, Grounds, Nobody, Validation!Passed
<1>4. RunGoes'
  BY <1>1, <1>2, <1>3 DEF RunGoes, BeforeFailure, Validation!Running, Validation!Passed
<1>5. RunLooks'
  BY <1>1, <1>2, <1>3 DEF RunLooks
<1>6. /\ step' \in Validation!Steps \ {"send"} /\ step \in BeforeFailure \cup {"look"}
      /\ clean' \in BOOLEAN
  BY <1>1, <1>2 DEF Validation!Steps
<1>7. alive' \in Nat /\ orphans' \in Nat /\ alive' + orphans' <= alive + orphans
  <2>1. alive \in Nat /\ orphans \in Nat
    BY <1>1 DEF RunTyped
  <2>2. \A m, n \in Nat : m + n <= m + n
    OBVIOUS
  <2>. QED  BY <1>2, <2>1, <2>2
<1>. QED  BY <1>1, <1>2, <1>4, <1>5, <1>6, <1>7, RunnerMoves DEF RunTyped

(* The report is made.                                                     *)
LEMMA RunnerReports ==
  ASSUME RunInv, UNCHANGED Validation!hostside, Validation!Sample
  PROVE  RunInv'
<1>1. /\ RunTyped /\ RunGoes /\ RunLooks /\ Validation!Running /\ step = "sample"
      /\ UNCHANGED <<host, probe, client, late, seen, outcome, pending>>
  BY DEF RunInv, Validation!Sample, Validation!At, Validation!hostside
<1>2. /\ Grounds /\ input = "candidate" /\ exit = "none" /\ container = "running"
      /\ kind = "none" => residual = 0 /\ Nobody /\ AllPassed /\ Len(results) = Count
      /\ kind = "none" /\ clean => tree = "clean"
  BY <1>1 DEF RunGoes, RunLooks, BeforeFailure, Validation!Running
<1>3. PICK next : next = IF kind # "none" THEN kind
                         ELSE IF oom \/ over THEN "resource_limit"
                         ELSE IF ~clean THEN "tracked_tree_changed"
                         ELSE IF Len(results) # Count THEN "command_timeout" ELSE "none"
  OBVIOUS
<1>4. /\ kind' = next /\ step' = "send"
      /\ report' = [success |-> next = "none", kind |-> next, results |-> results, oom |-> oom,
                    residual |-> residual, clean |-> clean]
      /\ UNCHANGED <<results, residual, clean, alive, orphans, tree, over, oom, spent,
                     container, exit, input>>
  BY <1>3 DEF Validation!Sample, Validation!Goto, Validation!Keep, Validation!Nothing,
     Validation!processes
<1>5. /\ next = "none" => kind = "none" /\ ~oom /\ clean
      /\ next # "none" /\ next # kind =>
           next = "resource_limit" \/ (next = "tracked_tree_changed" /\ ~clean)
      /\ next \in Validation!Kinds
  BY <1>1, <1>2, <1>3 DEF RunTyped, Validation!Kinds
<1>6. report' \in RunReport
  BY <1>1, <1>4, <1>5 DEF RunTyped, RunReport
<1>7. RunTyped'
  BY <1>1, <1>4, <1>5, <1>6 DEF RunTyped, RunReport, Validation!Steps
<1>8. /\ report'.success = (next = "none") /\ report'.kind = next /\ report'.results = results
      /\ report'.oom = oom /\ report'.residual = residual /\ report'.clean = clean
  BY <1>4
<1>9. CASE next = "none"
  <2>1. report'.success
    BY <1>8, <1>9
  <2>2. report' # Validation!NoReport
    BY <2>1 DEF Validation!NoReport
  <2>3. Earned'
    BY <1>2, <1>4, <1>5, <1>9 DEF Earned, AllPassed, Nobody, Validation!Passed
  <2>4. DOMAIN results = 1..Len(results)
    BY <1>1 DEF RunTyped
  <2>5. Validation!Accepted'
    <3>1. /\ report'.kind = "none" /\ report'.results = results /\ Len(results) = Count
          /\ ~report'.oom /\ report'.residual = 0 /\ report'.clean
      BY <1>2, <1>5, <1>8, <1>9
    <3>2. \A i \in DOMAIN results : Validation!Passed(results[i])
      BY <1>2, <1>5, <1>9, <2>4 DEF AllPassed
    <3>. QED  BY <2>1, <3>1, <3>2 DEF Validation!Accepted, Validation!Passed, Validation!Nothing
  <2>6. RunReports'
    BY <1>8, <1>9, <2>1, <2>2, <2>3, <2>5 DEF RunReports
  <2>7. RunGoes'
    BY <1>1, <1>4 DEF RunGoes, BeforeFailure, Validation!Running, Validation!Passed
  <2>8. RunLooks'
    BY <1>4 DEF RunLooks
  <2>. QED  BY <1>1, <1>4, <1>7, <2>6, <2>7, <2>8, InsideMoves
<1>10. CASE next # "none"
  <2>1. ~report'.success /\ (next = "none") = FALSE
    BY <1>8, <1>10
  <2>2. report' # Validation!NoReport
    BY <1>8, <1>10 DEF Validation!NoReport, Validation!Nothing
  <2>3. Grounds' \/ (kind' = "tracked_tree_changed" /\ ~clean')
    BY <1>2, <1>4, <1>5, <1>10 DEF Grounds
  <2>4. Validation!Accepted'
    BY <1>4, <1>7, <1>10, <2>1, <2>3, FailureIsAccepted
  <2>5. RunReports'
    BY <1>8, <1>10, <2>1, <2>2, <2>4 DEF RunReports
  <2>6. RunGoes'
    BY <1>1, <1>4 DEF RunGoes, BeforeFailure, Validation!Running, Validation!Passed
  <2>7. RunLooks'
    BY <1>4 DEF RunLooks
  <2>. QED  BY <1>1, <1>4, <1>7, <2>5, <2>6, <2>7, InsideMoves
<1>. QED  BY <1>9, <1>10

(* PID 1 ends, and everything in the container with it.                    *)
LEMMA ContainerDies ==
  ASSUME RunInv, UNCHANGED <<probe, client, late, seen, outcome, pending>>, Validation!Running,
         host' = host \/ (host = "stop" /\ host' = "judge"),
         NEW ends \in {"0", "70", "137"}, Validation!Dies(ends),
         \/ UNCHANGED report /\ (ends = "0" => step = "send")
         \/ report' = Validation!NoReport /\ ends # "0"
  PROVE  RunInv'
<1>1. /\ RunTyped /\ RunGoes /\ RunReports /\ HostKnows /\ container = "running" /\ exit = "none"
      /\ host' \in Validation!HostPcs
  BY DEF RunInv, RunTyped, RunGoes, Validation!Running, Validation!HostPcs
<1>2. /\ container' = "exited" /\ exit' = ends /\ alive' = 0 /\ orphans' = 0 /\ step' = "over"
      /\ UNCHANGED <<input, results, kind, residual, clean, tree, over, oom, spent>>
  BY DEF Validation!Dies, Validation!Goto
<1>3. report' \in RunReport
  <2>1. <<>> \in Seq(Validation!Ends)
    BY EmptySeq
  <2>2. 0 \in 0..Offspring
    BY ValidationAssumption DEF Validation!CountAssumption
  <2>3. Validation!NoReport \in RunReport
    BY <2>1, <2>2 DEF RunReport, Validation!NoReport, Validation!Nothing, Validation!Kinds
  <2>. QED  BY <1>1, <2>3 DEF RunTyped
<1>4. RunTyped'
  <2>1. alive' \in Nat /\ orphans' \in Nat /\ alive' + orphans' \in 0..Offspring
    BY <1>2, ValidationAssumption DEF Validation!CountAssumption
  <2>. QED
    BY <1>1, <1>2, <1>3, <2>1
       DEF RunTyped, RunReport, Validation!Steps, Validation!Codes, Validation!Nothing
<1>5. RunGoes'
  BY <1>1, <1>2 DEF RunGoes, BeforeFailure, Validation!Passed
<1>6. RunLooks'
  BY <1>2 DEF RunLooks
<1>7. RunReports'
  <2>1. CASE report' = Validation!NoReport /\ ends # "0"
    BY <1>2, <2>1 DEF RunReports
  <2>2. CASE UNCHANGED report /\ (ends = "0" => step = "send")
    <3>1. Earned => Earned'
      BY <1>2 DEF Earned, AllPassed, Nobody, Validation!Passed
    <3>. QED  BY <1>1, <1>2, <2>2, <3>1, AcceptedStays DEF RunReports
  <2>. QED  BY <2>1, <2>2
<1>8. HostKnows'
  BY <1>1, <1>2 DEF HostKnows
<1>. QED  BY <1>4, <1>5, <1>6, <1>7, <1>8 DEF RunInv

(* Whatever happens in the container.                                      *)
LEMMA InsideSteps ==
  ASSUME RunInv,
         \/ Validation!InContainer
         \/ Validation!World /\ ~Validation!ClientFails
  PROVE  RunInv'
<1>1. /\ UNCHANGED Validation!hostside
      /\ UNCHANGED <<host, probe, client, late, seen, outcome, pending>>
  BY DEF Validation!InContainer, Validation!World, Validation!hostside
<1>2. CASE Validation!Boot
  <2>1. CASE step' = "copy"
    BY <1>1, <1>2, <2>1, RunnerBegins
  <2>2. CASE Validation!Dies("70") /\ UNCHANGED report
    BY <1>1, <1>2, <2>2, ContainerDies DEF Validation!Boot, Validation!At
  <2>. QED  BY <1>2, <2>1, <2>2 DEF Validation!Boot, Validation!Goto
<1>3. CASE Validation!Send
  BY <1>1, <1>3, ContainerDies DEF Validation!Send, Validation!At
<1>4. CASE Validation!SendFails
  BY <1>1, <1>4, ContainerDies DEF Validation!SendFails, Validation!At
<1>5. CASE Validation!Killed
  BY <1>1, <1>5, ContainerDies DEF Validation!Killed
<1>6. CASE Validation!Raises
  BY <1>1, <1>6, RunnerFails DEF Validation!Raises, Validation!Goto, Validation!Keep,
     Validation!processes
<1>7. CASE \/ Validation!CopyCandidate \/ Validation!NextCommand \/ Validation!Watchdog
           \/ Validation!CommandEnds \/ Validation!Sweep \/ Validation!Counts
           \/ Validation!LookAtTree \/ Validation!Sample
  BY <1>1, <1>7, RunnerBegins, CommandStops, RunnerSweeps, RunnerCounts, TreeIsLookedAt,
     RunnerReports
<1>8. CASE Validation!Program \/ Validation!TimePasses
  BY <1>1, <1>8, WorldMoves
<1>. QED  BY <1>2, <1>3, <1>4, <1>5, <1>6, <1>7, <1>8
          DEF Validation!InContainer, Validation!RunnerStep, Validation!World

(* A step of the host that leaves the container as it is, or creates,      *)
(* starts or removes it.                                                   *)
LEMMA HostMoves ==
  ASSUME RunInv, UNCHANGED <<input, step, results, kind, residual, clean, report, tree, over, oom,
                             spent, exit>>,
         \/ UNCHANGED <<container, alive, orphans>>
         \/ /\ container = "absent" /\ container' = "created"
            /\ UNCHANGED <<alive, orphans>>
         \/ /\ container = "created" /\ container' = "running"
            /\ UNCHANGED <<alive, orphans>>
         \/ /\ container' = "removed" /\ alive' = 0 /\ orphans' = 0,
         host' \in Validation!HostPcs, probe' \in {"none", "created", "removed", "leaked"},
         client' \in Validation!Clients, late' \in BOOLEAN, pending' \in BOOLEAN,
         seen' \in Validation!States, outcome' \in Validation!Outcomes, HostKnows'
  PROVE  RunInv'
<1>1. RunTyped /\ RunGoes /\ RunLooks /\ RunReports
  BY DEF RunInv
<1>2. /\ container' \in {"absent", "created", "running", "exited", "removed"}
      /\ alive' \in Nat /\ orphans' \in Nat /\ alive' + orphans' \in 0..Offspring
      /\ Nobody => Nobody'
  <2>1. 0 + 0 \in 0..Offspring
    BY ValidationAssumption DEF Validation!CountAssumption
  <2>2. /\ alive \in Nat /\ orphans \in Nat /\ alive + orphans \in 0..Offspring
        /\ container \in {"absent", "created", "running", "exited", "removed"}
    BY <1>1 DEF RunTyped
  <2>3. CASE UNCHANGED <<alive, orphans>>
    BY <2>2, <2>3 DEF Nobody
  <2>4. CASE alive' = 0 /\ orphans' = 0
    BY <2>1, <2>2, <2>4 DEF Nobody
  <2>. QED  BY <2>3, <2>4
<1>3. RunTyped'
  BY <1>1, <1>2 DEF RunTyped, RunReport
<1>4. (AllPassed' <=> AllPassed) /\ (Grounds' <=> Grounds)
  BY DEF AllPassed, Grounds, Validation!Passed
<1>5. RunGoes'
  BY <1>1, <1>2, <1>4 DEF RunGoes, Validation!Passed
<1>6. RunLooks'
  BY <1>1, <1>2, <1>4 DEF RunLooks
<1>7. RunReports'
  BY <1>1, <1>2, <1>4, AcceptedStays DEF RunReports, Earned
<1>. QED  BY <1>3, <1>5, <1>6, <1>7 DEF RunInv

(* Up to the end of the start command.                                     *)
LEMMA HostBegins ==
  ASSUME RunInv,
         \/ Validation!Prepare \/ Validation!ReadProbe \/ Validation!Create \/ Validation!Start
  PROVE  RunInv'
<1>1. /\ RunTyped /\ RunGoes /\ HostKnows
      /\ UNCHANGED <<input, step, results, kind, residual, clean, report, tree, over, oom, spent,
                     exit, alive, orphans, late, seen, outcome, pending>>
  BY DEF RunInv, Validation!Prepare, Validation!ReadProbe, Validation!Create, Validation!Start,
     Validation!Still, Validation!inside, Validation!runner, Validation!processes
<1>2. /\ host' \in Validation!HostPcs /\ probe' \in {"none", "created", "removed", "leaked"}
      /\ client' \in Validation!Clients
  BY <1>1 DEF RunTyped, Validation!Prepare, Validation!ReadProbe, Validation!Create,
     Validation!Start, Validation!Still, Validation!HostPcs, Validation!Clients
<1>3. /\ \/ UNCHANGED container
         \/ container = "absent" /\ container' = "created"
         \/ container = "created" /\ container' = "running"
      /\ HostKnows'
  <2>1. CASE Validation!Prepare \/ Validation!ReadProbe
    BY <1>1, <2>1 DEF HostKnows, Validation!Prepare, Validation!ReadProbe, Validation!Still,
       Validation!HostAt
  <2>2. CASE Validation!Create
    BY <1>1, <2>2 DEF HostKnows, Validation!Create, Validation!Still, Validation!HostAt
  <2>3. CASE Validation!Start
    BY <1>1, <2>3 DEF HostKnows, Validation!Start, Validation!Still, Validation!HostAt
  <2>. QED  BY <2>1, <2>2, <2>3
<1>. QED  BY <1>1, <1>2, <1>3, HostMoves DEF RunTyped

LEMMA ClientStops ==
  ASSUME RunInv,
         \/ Validation!ClientEnds \/ Validation!ClientFails \/ Validation!TimesOut
  PROVE  RunInv'
<1>1. /\ RunTyped /\ RunGoes /\ HostKnows
      /\ UNCHANGED <<input, step, results, kind, residual, clean, report, tree, over, oom, spent,
                     container, exit, alive, orphans, probe, seen, outcome, pending>>
  BY DEF RunInv, Validation!ClientEnds, Validation!ClientFails, Validation!TimesOut,
     Validation!Still, Validation!inside, Validation!runner, Validation!processes
<1>2. /\ host = "attached" /\ host' \in {"judge", "stop"} /\ late' \in BOOLEAN
      /\ client' \in Validation!Clients /\ (client' = "whole" => exit = "0")
  BY <1>1 DEF RunTyped, Validation!ClientEnds, Validation!ClientFails, Validation!TimesOut,
     Validation!Still, Validation!HostAt, Validation!Clients
<1>3. HostKnows'
  BY <1>1, <1>2 DEF HostKnows
<1>4. host' \in Validation!HostPcs
  BY <1>2 DEF Validation!HostPcs
<1>. QED  BY <1>1, <1>2, <1>3, <1>4, HostMoves DEF RunTyped

LEMMA HostStops ==
  ASSUME RunInv, Validation!Stop
  PROVE  RunInv'
<1>1. /\ host = "stop" /\ host' = "judge"
      /\ UNCHANGED <<probe, client, late, seen, outcome, pending>>
  BY DEF Validation!Stop, Validation!HostAt
<1>2. CASE Validation!Killed
  BY <1>1, <1>2, ContainerDies DEF Validation!Killed
<1>3. CASE UNCHANGED <<container, exit, input, Validation!inside>>
  <2>1. /\ RunTyped /\ HostKnows
        /\ UNCHANGED <<container, exit, input, step, results, kind, residual, clean, report, tree,
                       over, oom, spent, alive, orphans>>
    BY <1>3 DEF RunInv, Validation!inside, Validation!runner, Validation!processes
  <2>2. HostKnows'
    BY <1>1, <2>1 DEF HostKnows
  <2>3. "judge" \in Validation!HostPcs
    BY DEF Validation!HostPcs
  <2>. QED  BY <1>1, <2>1, <2>2, <2>3, HostMoves DEF RunTyped
<1>. QED  BY <1>2, <1>3 DEF Validation!Stop

(* What the host makes of the report and of docker's answers.              *)
LEMMA FailedIsOutcome ==
  ASSUME NEW found \in Validation!HostKinds, NEW killed \in BOOLEAN
  PROVE  /\ Validation!Failed(found, killed) \in Validation!Outcomes
         /\ ~Validation!Failed(found, killed).success
BY DEF Validation!Failed, Validation!Outcomes

LEMMA HostJudges ==
  ASSUME RunInv, Validation!Judge
  PROVE  RunInv'
<1>1. /\ RunTyped /\ HostKnows /\ host = "judge" /\ host' = "inspect"
      /\ UNCHANGED <<input, step, results, kind, residual, clean, report, tree, over, oom, spent,
                     container, exit, alive, orphans, probe, client, late, seen, pending>>
  BY DEF RunInv, Validation!Judge, Validation!HostAt, Validation!Still, Validation!inside,
     Validation!runner, Validation!processes
<1>2. \/ outcome' = Validation!Failed("command_timeout", FALSE)
      \/ outcome' = Validation!Failed("sandbox_report_invalid", FALSE)
      \/ outcome' = Validation!Failed("sandbox_runtime_failed", FALSE)
      \/ /\ client = "whole"
         /\ outcome' = [authentic |-> TRUE, success |-> report.success, kind |-> report.kind,
                        oom |-> report.oom]
  <2>1. client \in {"none", "whole", "failed", "noisy", "timed_out"}
    BY <1>1 DEF RunTyped, Validation!Clients, Validation!Nothing
  <2>2. CASE client = "whole" /\ Validation!Accepted
    BY <2>2 DEF Validation!Judge
  <2>3. CASE client = "whole" /\ ~Validation!Accepted
    BY <2>3 DEF Validation!Judge
  <2>4. CASE client # "whole"
    BY <2>1, <2>4 DEF Validation!Judge
  <2>. QED  BY <2>2, <2>3, <2>4
<1>3. outcome' \in Validation!Outcomes /\ (outcome'.success => client = "whole" /\ report.success)
  <2>1. {"command_timeout", "sandbox_report_invalid", "sandbox_runtime_failed"}
          \subseteq Validation!HostKinds
    BY DEF Validation!HostKinds, Validation!Kinds
  <2>2. CASE /\ client = "whole"
             /\ outcome' = [authentic |-> TRUE, success |-> report.success, kind |-> report.kind,
                            oom |-> report.oom]
    <3>1. /\ report.success \in BOOLEAN /\ report.kind \in Validation!HostKinds
          /\ report.oom \in BOOLEAN
      BY <1>1 DEF RunTyped, RunReport, Validation!HostKinds
    <3>2. outcome' \in Validation!Outcomes
      BY <2>2, <3>1 DEF Validation!Outcomes
    <3>. QED  BY <2>2, <3>2
  <2>. QED  BY <1>2, <2>1, <2>2, FailedIsOutcome
<1>4. HostKnows'
  BY <1>1, <1>3 DEF HostKnows
<1>5. "inspect" \in Validation!HostPcs
  BY DEF Validation!HostPcs
<1>. QED  BY <1>1, <1>3, <1>4, <1>5, HostMoves DEF RunTyped

LEMMA HostAsks ==
  ASSUME RunInv, Validation!Inspect \/ Validation!Record
  PROVE  RunInv'
<1>1. /\ RunTyped /\ HostKnows /\ host \in {"inspect", "record"} /\ host' \in {"wait", "remove"}
      /\ UNCHANGED <<input, step, results, kind, residual, clean, report, tree, over, oom, spent,
                     container, exit, alive, orphans, probe, client, late, outcome, pending>>
  BY DEF RunInv, Validation!Inspect, Validation!Record, Validation!HostAt, Validation!Still,
     Validation!inside, Validation!runner, Validation!processes
<1>2. seen' \in Validation!States
  <2>1. exit \in Validation!Codes /\ oom \in BOOLEAN /\ seen \in Validation!States
    BY <1>1 DEF RunTyped
  <2>2. CASE UNCHANGED seen
    BY <2>1, <2>2
  <2>3. ASSUME NEW killed \in {oom, FALSE},
               seen' = <<IF Validation!Running THEN "running" ELSE "exited", exit, killed>>
        PROVE  seen' \in Validation!States
    <3>1. PICK where \in {"running", "exited"} : seen' = <<where, exit, killed>>
      BY <2>3
    <3>2. killed \in BOOLEAN
      BY <2>1
    <3>. QED  BY <2>1, <3>1, <3>2 DEF Validation!States
  <2>. QED  BY <2>2, <2>3 DEF Validation!Inspect, Validation!Record, Validation!Still
<1>3. HostKnows'
  BY <1>1 DEF HostKnows
<1>4. host' \in Validation!HostPcs
  BY <1>1 DEF Validation!HostPcs
<1>. QED  BY <1>1, <1>2, <1>3, <1>4, HostMoves DEF RunTyped

LEMMA HostWaits ==
  ASSUME RunInv, Validation!Wait
  PROVE  RunInv'
<1>1. /\ RunTyped /\ HostKnows /\ host = "wait" /\ host' \in {"record", "remove"}
      /\ UNCHANGED <<input, step, results, kind, residual, clean, report, tree, over, oom, spent,
                     container, exit, alive, orphans, probe, client, late, seen, pending>>
  BY DEF RunInv, Validation!Wait, Validation!HostAt, Validation!Still, Validation!inside,
     Validation!runner, Validation!processes
<1>2. \/ outcome' = Validation!Failed("sandbox_report_invalid", FALSE)
      \/ outcome' = Validation!Failed("resource_limit", TRUE)
      \/ outcome' = Validation!Failed("none", FALSE)
      \/ UNCHANGED outcome
  BY DEF Validation!Wait, Validation!NoOutcome, Validation!Failed, Validation!Nothing
<1>3. outcome' \in Validation!Outcomes /\ (outcome'.success => outcome.success)
  <2>1. {"sandbox_report_invalid", "resource_limit", "none"} \subseteq Validation!HostKinds
    BY DEF Validation!HostKinds, Validation!Kinds, Validation!Nothing
  <2>. QED  BY <1>1, <1>2, <2>1, FailedIsOutcome DEF RunTyped
<1>4. HostKnows'
  BY <1>1, <1>3 DEF HostKnows
<1>5. host' \in Validation!HostPcs
  BY <1>1 DEF Validation!HostPcs
<1>. QED  BY <1>1, <1>3, <1>4, <1>5, HostMoves DEF RunTyped

LEMMA HostRemoves ==
  ASSUME RunInv, Validation!Remove
  PROVE  RunInv'
<1>1. /\ RunTyped /\ HostKnows /\ host = "remove" /\ host' \in {"error", "done"}
      /\ UNCHANGED <<input, step, results, kind, residual, clean, report, tree, over, oom, spent,
                     exit, probe, client, late, seen, outcome>>
      /\ \/ container' = "removed" /\ alive' = 0 /\ orphans' = 0 /\ pending' = FALSE
         \/ pending' = TRUE /\ UNCHANGED <<container, alive, orphans>>
  BY DEF RunInv, Validation!Remove, Validation!HostAt, Validation!inside,
     Validation!runner, Validation!processes
<1>2. HostKnows'
  BY <1>1 DEF HostKnows
<1>3. host' \in Validation!HostPcs /\ pending' \in BOOLEAN
  BY <1>1 DEF Validation!HostPcs
<1>. QED  BY <1>1, <1>2, <1>3, HostMoves DEF RunTyped

LEMMA RunStays ==
  ASSUME RunInv, UNCHANGED <<sandboxVars, kind, late, seen>>
  PROVE  RunInv'
<1>1. /\ RunTyped /\ HostKnows
      /\ UNCHANGED <<input, step, results, kind, residual, clean, report, tree, over, oom, spent,
                     container, exit, alive, orphans, host, probe, client, late, seen, outcome,
                     pending>>
  BY DEF RunInv, sandboxVars
<1>2. HostKnows'
  BY <1>1 DEF HostKnows
<1>. QED  BY <1>1, <1>2, HostMoves DEF RunTyped

LEMMA RunStarts == Validation!Init => RunInv
<1> SUFFICES ASSUME Validation!Init
             PROVE  RunInv
  OBVIOUS
<1>1. /\ step = "boot" /\ results = <<>> /\ kind = "none" /\ residual = 0 /\ clean = FALSE
      /\ report = Validation!NoReport /\ alive = 0 /\ orphans = 0 /\ tree = "none"
      /\ over = FALSE /\ oom = FALSE /\ spent = FALSE
      /\ container = "absent" /\ exit = "none" /\ input \in {"candidate", "other"}
      /\ host = "prepare" /\ probe = "none" /\ client = "none" /\ late = FALSE
      /\ seen = <<"none", "none", FALSE>> /\ pending = FALSE
      /\ outcome = [authentic |-> FALSE, success |-> FALSE, kind |-> "none", oom |-> FALSE]
  BY DEF Validation!Init, Validation!RunnerInit, Validation!NoState, Validation!NoOutcome,
     Validation!Nothing
<1>2. RunTyped
  <2>1. /\ <<>> \in Seq(Validation!Ends) /\ Len(results) <= Count /\ 0 \in 0..Offspring
        /\ 0 + 0 \in 0..Offspring
    <3>1. Len(<<>>) = 0
      BY EmptySeq
    <3>. QED  BY <1>1, <3>1, EmptySeq, ValidationAssumption DEF Validation!CountAssumption
  <2>2. report \in RunReport
    BY <1>1, <2>1 DEF RunReport, Validation!NoReport, Validation!Nothing, Validation!Kinds
  <2>3. seen \in Validation!States /\ outcome \in Validation!Outcomes
    BY <1>1 DEF Validation!States, Validation!Codes, Validation!Nothing, Validation!Outcomes,
       Validation!HostKinds, Validation!Kinds
  <2>. QED
    BY <1>1, <2>1, <2>2, <2>3
       DEF RunTyped, Validation!Codes, Validation!Steps, Validation!Kinds, Validation!HostPcs,
           Validation!Clients, Validation!Nothing
<1>3. Len(results) = 0
  BY <1>1, EmptySeq
<1>4. RunGoes
  BY <1>1, <1>3 DEF RunGoes, BeforeFailure, Nobody
<1>5. RunLooks /\ RunReports /\ HostKnows
  BY <1>1 DEF RunLooks, RunReports, HostKnows
<1>. QED  BY <1>2, <1>4, <1>5 DEF RunInv

LEMMA RunSteps ==
  ASSUME RunInv, Validation!Next
  PROVE  RunInv'
<1>1. CASE Validation!HostStep
  BY <1>1, HostBegins, ClientStops, HostStops, HostJudges, HostAsks, HostWaits, HostRemoves
     DEF Validation!HostStep
<1>2. CASE Validation!InContainer \/ Validation!World
  BY <1>2, InsideSteps, ClientStops
<1>3. CASE Validation!Finished
  BY <1>3, RunStays DEF Validation!Finished, Validation!vars, Validation!hostside,
     Validation!inside, Validation!runner, Validation!processes, sandboxVars
<1>. QED  BY <1>1, <1>2, <1>3 DEF Validation!Next

LEMMA RunInvariant == Spec => [](part = "sandbox" => RunInv)
<1>1. Init => (part = "sandbox" => RunInv)
  BY RunStarts DEF Init
<1>2. (part = "sandbox" => RunInv) /\ [Next]_vars
        => (part = "sandbox" => RunInv)'
  <2> SUFFICES ASSUME part = "sandbox" => RunInv, [Next]_vars, part' = "sandbox"
               PROVE  RunInv'
    OBVIOUS
  <2>1. CASE Next
    <3>1. part = "sandbox" /\ Validation!Next
      BY <2>1 DEF Next, IsSession, IsCandidate, IsRef, IsSandbox, IsHost, IsContainer, IsProcess
    <3>. QED  BY <3>1, RunSteps
  <2>2. CASE UNCHANGED vars
    BY <2>2, RunStays DEF vars, sandboxVars
  <2>. QED  BY <2>1, <2>2
<1>. QED  BY <1>1, <1>2, PTL DEF Spec

(* For any policy, any commands and any number of processes they leave     *)
(* behind, and wherever a docker command fails or a deadline passes: the   *)
(* host believes in a success only when every command of the policy has    *)
(* passed on the candidate and nothing can change it any more, it refuses  *)
(* no report of its own runner, no command follows a failed one, and no    *)
(* container is left without its removal pending.                          *)
THEOREM RepairMachineValidation == Spec => []ValidationIsEarned
<1>1. (part = "sandbox" => RunInv) => ValidationIsEarned
  <2> SUFFICES ASSUME RunInv
               PROVE  /\ Validation!TypeOK
                      /\ Validation!SuccessIsEarned /\ Validation!HonestReportAccepted
                      /\ Validation!FirstFailureStops /\ Validation!NothingLeft
    BY DEF ValidationIsEarned
  <2>1. RunTyped /\ RunGoes /\ RunLooks /\ RunReports /\ HostKnows
    BY DEF RunInv
  <2>2. Validation!TypeOK
    <3>1. residual \in 0..(Count * Offspring)
      <4>1. \A m \in Nat \ {0} : \A n \in Nat : n <= m * n
        OBVIOUS
      <4>2. Count \in Nat \ {0} /\ Offspring \in Nat
        BY ValidationAssumption DEF Validation!CountAssumption
      <4>3. Offspring <= Count * Offspring /\ Count * Offspring \in Nat
        BY <4>1, <4>2
      <4>. QED  BY <2>1, <4>2, <4>3 DEF RunTyped
    <3>2. report.success = (report # Validation!NoReport /\ report.kind = Validation!Nothing)
      <4>1. ~Validation!NoReport.success
        BY DEF Validation!NoReport
      <4>2. report.success \in BOOLEAN
        BY <2>1 DEF RunTyped, RunReport
      <4>. QED  BY <2>1, <4>1, <4>2 DEF RunReports, Validation!Nothing
    <3>3. /\ report.kind \in Validation!Kinds
          /\ \A i \in DOMAIN results : results[i] \in Validation!Ends
      BY <2>1 DEF RunTyped, RunReport
    <3>4. exit # Validation!Nothing => container \in {"exited", "removed"}
      BY <2>1 DEF RunGoes, Validation!Nothing
    <3>. QED  BY <2>1, <3>1, <3>2, <3>3, <3>4 DEF RunTyped, Validation!TypeOK, Validation!Nothing
  <2>3. Validation!SuccessIsEarned
    <3> SUFFICES ASSUME outcome.success
                 PROVE  /\ container \in {"exited", "removed"} /\ exit = "0" /\ alive = 0
                        /\ input = "candidate" /\ tree = "clean" /\ ~oom
                        /\ Len(results) = Count
                        /\ \A i \in 1..Count : Validation!Passed(results[i])
      BY DEF Validation!SuccessIsEarned
    <3>1. client = "whole" /\ report.success /\ exit = "0"
      BY <2>1 DEF HostKnows
    <3>2. Earned
      BY <2>1, <3>1 DEF RunReports
    <3>. QED  BY <2>1, <3>1, <3>2 DEF Earned, RunGoes, Nobody, AllPassed
  <2>4. Validation!HonestReportAccepted
    BY <2>1 DEF Validation!HonestReportAccepted, HostKnows, RunReports
  <2>5. Validation!FirstFailureStops
    BY <2>1 DEF Validation!FirstFailureStops, RunGoes, BeforeFailure, Validation!Nothing
  <2>6. Validation!NothingLeft
    BY <2>1 DEF Validation!NothingLeft, HostKnows
  <2>. QED  BY <2>2, <2>3, <2>4, <2>5, <2>6
<1>. QED  BY <1>1, RunInvariant, PTL

-----------------------------------------------------------------------------
(* What holds between the steps of the processes that share a session.     *)

Private(who) == pr[who].private
Clears(who) == pr[who].pc = "remove" /\ ~Private(who)
Cleans(who) == pr[who].pc = "remove" /\ Private(who)

(* A creation holds the manager lock and is alone with its directory.      *)
Creates(who) ==
  pr[who].role = "create" =>
    /\ manager = who /\ reported = {} /\ at # "none"
    /\ \A other \in Processes \ {who} : pr[other].pc = "idle"

(* The locks of the others, and what is named under the session lock.      *)
Owns(who) ==
  /\ pr[who].pc \in {"fill", "rename", "sync_created", "unstage", "clear_staging", "list"}
       => manager = who
  /\ pr[who].pc \in {"revalidate", "load", "close_session", "clean_private", "record_cleanup",
                     "sync_cache", "check_named"} => flock = who
  /\ pr[who].pc = "remove" =>
       \/ at = "staging" /\ manager = who /\ ~Private(who)
       \/ at = "named" /\ flock = who /\ "closed" \in reported
  /\ pr[who].pc = "idle" => manager # who /\ flock # who

WholeSession == {"e0", "events", "private", "request", "lock", "cache"}
WholeOnDisk ==
  Session!Top \subseteq disk.top /\ "e0" \in disk.events /\ "request" \in disk.private

(* A creation at each of its points.                                       *)
Fills(who) ==
  /\ pr[who].pc \in {"fill", "rename", "sync_created", "unstage"} =>
       pr[who].role = "create" /\ ~Private(who)
  /\ pr[who].pc \in {"fill", "rename"} => at = "staging"
  /\ pr[who].pc = "sync_created" => at = "named"
  /\ pr[who].pc = "unstage" => at \in {"staging", "named"}
  /\ pr[who].pc = "fill" => Session!Missing # {}
  /\ pr[who].pc = "rename" => WholeSession \subseteq have /\ WholeOnDisk

(* A command that has found its session, and a removal.                    *)
Works(who) ==
  /\ Session!Working(who) \/ pr[who].pc = "load" => at = "named" /\ "lock" \in have
  /\ pr[who].pc = "close_session" =>
       Session!Chain = {"e0"} /\ pr[who].role \in {"recover", "decide"}
  /\ Cleans(who) \/ pr[who].pc \in {"clean_private", "record_cleanup", "sync_cache"} =>
       Session!Loadable /\ "e1" \in have
  /\ pr[who].pc \in {"record_cleanup", "sync_cache"} => "private" \notin have
  /\ Cleans(who) =>
       /\ pr[who].todo \subseteq Session!Payload \cup {"private"}
       /\ "private" \in have => "private" \in pr[who].todo
  /\ Clears(who) => have \ {"repository"} \subseteq pr[who].todo
  /\ pr[who].pc \in {"stat", "open_lock_to_remove", "flock_to_remove", "check_named"} =>
       "closed" \in reported /\ ~Private(who)
  /\ pr[who].pc = "clear_staging" => ~Private(who)

SessionKnows(who) == Creates(who) /\ Owns(who) /\ Fills(who) /\ Works(who)

SessionTyped ==
  /\ at \in Session!Places /\ have \subseteq Session!Entries
  /\ disk \in [at : Session!Places, top : SUBSET Session!Top,
               events : SUBSET Session!EventFiles, private : SUBSET Session!Payload]
  /\ manager \in Processes \cup {None} /\ flock \in Processes \cup {None}
  /\ pr \in [Processes -> [pc : Session!Pcs, role : Session!Roles, private : BOOLEAN,
                           todo : SUBSET Session!Entries]]
  /\ faults \in 0..FaultBound /\ powers \in 0..PowerBound
  /\ reported \subseteq Session!Reports

(* The directory and the disk under it: an event that closes is never      *)
(* without what it closes, and an open session is whole on both.           *)
SessionFiles ==
  /\ have \cap Session!Payload # {} => "private" \in have
  /\ (have \cup disk.events) \cap {"e1", "e2"} # {} => "closed" \in reported
  /\ "closed" \in reported =>
       /\ "e0" \in have => "e1" \in have
       /\ "e0" \in disk.events => "e1" \in disk.events
  /\ at = "named" /\ "closed" \notin reported => WholeSession \subseteq have /\ WholeOnDisk
  /\ disk.at = "named" /\ "closed" \notin reported => at = "named"
  /\ "created" \in reported /\ "closed" \notin reported => disk.at = "named"
  /\ at = "staging" => disk.at \in {"none", "staging"}
  /\ at = "none" => /\ disk.at = "none" /\ have = {} /\ reported = {}
                    /\ \A who \in Processes : pr[who].pc = "idle"
  /\ "cleaned" \in reported => "private" \notin have /\ "private" \notin disk.top

SessionInv == SessionTyped /\ SessionFiles /\ \A who \in Processes : SessionKnows(who)

(* The facts about the pieces of the directory that the provers cannot see *)
(* through several names.                                                  *)
LEMMA SessionNames ==
  /\ Session!EventFiles = {"e0", "e1", "e2"}
  /\ Session!Payload = {"repository", "request"}
  /\ Session!Top = {"events", "private", "lock", "cache"}
  /\ Session!Entries = {"e0", "e1", "e2", "repository", "request",
                        "events", "private", "lock", "cache"}
BY DEF Session!EventFiles, Session!Payload, Session!Top, Session!Entries

SessionRecord == [pc : Session!Pcs, role : Session!Roles, private : BOOLEAN,
                  todo : SUBSET Session!Entries]

(* Whoever acts while a creation runs is the creator.                      *)
LEMMA SessionAlone ==
  ASSUME SessionInv, NEW who \in Processes, NEW other \in Processes \ {who},
         pr[who].pc # "idle" \/ manager = None \/ "created" \in reported \/ at = "none"
  PROVE  pr[other].role # "create"
BY SessionAssumption DEF SessionInv, SessionKnows, Creates, Owns, SessionTyped,
   Session!ProcessesAssumption

(* A step of one process disturbs nobody else: the directory is as it was  *)
(* for them, or it is under a lock they do not have.                       *)
Disturbs(who) ==
  \/ at' = at /\ have' \in {have, have \cup {"repository"}}
  \/ at = "named" /\ flock = who
  \/ at = "staging" /\ manager = who
  \/ at = "none"

KeepsLocks(who) ==
  /\ manager' \in Processes \cup {None} /\ flock' \in Processes \cup {None}
  /\ \A other \in Processes \ {who} : /\ manager' = other => manager = other
                                      /\ manager = other => manager' = other
                                      /\ flock' = other => flock = other
                                      /\ flock = other => flock' = other

LEMMA SessionOthers ==
  ASSUME SessionInv, NEW who \in Processes, NEW other \in Processes \ {who},
         pr[other].role # "create", pr'[other] = pr[other], Disturbs(who), KeepsLocks(who),
         reported \subseteq reported'
  PROVE  SessionKnows(other)'
<1>1. SessionTyped /\ SessionKnows(other)
  BY DEF SessionInv
<1>2. Creates(other)'
  BY DEF Creates
<1>3. Fills(other)'
  BY <1>1 DEF Fills, SessionKnows
<1>4. Owns(other)'
  <2>1. Owns(other) /\ manager \in Processes \cup {None} /\ flock \in Processes \cup {None}
    BY <1>1 DEF SessionKnows, SessionTyped
  <2>2. CASE at' = at
    BY <2>1, <2>2 DEF Owns, KeepsLocks, Private
  <2>3. CASE at = "named" /\ flock = who
    BY <2>1, <2>3 DEF Owns, KeepsLocks, Private
  <2>4. CASE at = "staging" /\ manager = who
    BY <2>1, <2>4 DEF Owns, KeepsLocks, Private
  <2>5. CASE at = "none"
    BY <2>1, <2>5 DEF Owns, KeepsLocks, Private, SessionInv, SessionFiles
  <2>. QED BY <2>2, <2>3, <2>4, <2>5 DEF Disturbs
<1>5. Works(other)'
  <2>1. Works(other) /\ Owns(other)
    BY <1>1 DEF SessionKnows
  <2>2. CASE at' = at /\ have' \in {have, have \cup {"repository"}}
    <3>1. Session!Chain' = Session!Chain /\ ("private" \in have' => "private" \in have)
          /\ ("lock" \in have => "lock" \in have') /\ ("e1" \in have => "e1" \in have')
          /\ have' \ {"repository"} \subseteq have \ {"repository"}
      BY <2>2, SessionNames DEF Session!Chain
    <3>2. Session!Loadable' = Session!Loadable
      BY <3>1 DEF Session!Loadable, Session!Chains
    <3>. QED BY <2>1, <2>2, <3>1, <3>2
             DEF Works, Session!Working, Session!At, Cleans, Clears, Private
  <2>3. CASE at = "named" /\ flock = who
    BY <2>1, <2>3 DEF Works, Owns, Session!Working, Session!At, Cleans, Clears, Private
  <2>4. CASE at = "staging" /\ manager = who
    BY <2>1, <2>4 DEF Works, Owns, Session!Working, Session!At, Cleans, Clears, Private
  <2>5. CASE at = "none"
    BY <2>5 DEF Works, Session!Working, Session!At, Cleans, Clears, SessionInv, SessionFiles
  <2>. QED BY <2>2, <2>3, <2>4, <2>5 DEF Disturbs
<1>. QED BY <1>2, <1>3, <1>4, <1>5 DEF SessionKnows

(* So it preserves the invariant when the files and the process that moves *)
(* are as they should be.                                                  *)
LEMMA SessionMoves ==
  ASSUME SessionInv, NEW who \in Processes,
         pr[who].pc # "idle" \/ manager = None \/ "created" \in reported \/ at = "none",
         pr' \in [Processes -> SessionRecord],
         \A other \in Processes \ {who} : pr'[other] = pr[other],
         Disturbs(who), KeepsLocks(who), reported \subseteq reported',
         reported' \subseteq Session!Reports,
         at' \in Session!Places, have' \subseteq Session!Entries,
         disk' \in [at : Session!Places, top : SUBSET Session!Top,
                    events : SUBSET Session!EventFiles, private : SUBSET Session!Payload],
         faults' \in 0..FaultBound, powers' \in 0..PowerBound,
         SessionFiles', SessionKnows(who)'
  PROVE  SessionInv'
<1>1. \A other \in Processes \ {who} : SessionKnows(other)'
  BY SessionAlone, SessionOthers
<1>2. SessionTyped'
  BY DEF SessionTyped, SessionRecord, KeepsLocks
<1>. QED BY <1>1, <1>2 DEF SessionInv

SessionDisk == [at : Session!Places, top : SUBSET Session!Top,
                events : SUBSET Session!EventFiles, private : SUBSET Session!Payload]

(* A command that ends holds no lock and knows nothing.                    *)
LEMMA SessionReturns ==
  ASSUME SessionInv, NEW who \in Processes, pr[who].pc # "idle", Session!Return(who),
         Disturbs(who), reported \subseteq reported', reported' \subseteq Session!Reports,
         at' \in Session!Places, have' \subseteq Session!Entries, disk' \in SessionDisk,
         faults' \in 0..FaultBound, powers' \in 0..PowerBound, SessionFiles'
  PROVE  SessionInv'
<1>1. /\ who # None /\ manager \in Processes \cup {None} /\ flock \in Processes \cup {None}
      /\ pr \in [Processes -> SessionRecord]
  BY SessionAssumption
     DEF SessionInv, SessionTyped, Session!ProcessesAssumption, SessionRecord
<1>2. /\ pr' = [pr EXCEPT ![who] = Session!Idle]
      /\ manager' = (IF manager = who THEN None ELSE manager)
      /\ flock' = (IF flock = who THEN None ELSE flock)
  BY DEF Session!Return, Session!Released
<1>3. Session!Idle \in SessionRecord
  BY DEF Session!Idle, SessionRecord, Session!Pcs, Session!Roles
<1>. /\ pr' \in [Processes -> SessionRecord]
     /\ \A other \in Processes \ {who} : pr'[other] = pr[other]
  BY <1>1, <1>2, <1>3
<1>4. KeepsLocks(who)
  BY <1>1, <1>2, SessionAssumption DEF KeepsLocks, Session!ProcessesAssumption
<1>5. pr'[who] = Session!Idle /\ manager' # who /\ flock' # who
  BY <1>1, <1>2
<1>6. SessionKnows(who)'
  BY <1>5 DEF SessionKnows, Creates, Owns, Fills, Works, Private, Cleans, Clears,
     Session!Working, Session!At, Session!Idle
<1>. QED BY <1>4, <1>6, SessionMoves DEF SessionDisk

(* What is true of the files stays true when nobody touches them.          *)
LEMMA SessionFilesStay ==
  ASSUME SessionInv, UNCHANGED <<at, have, disk>>, at # "none",
         reported' \in {reported, reported \cup {"missed"}}
  PROVE  SessionFiles'
BY SessionNames DEF SessionInv, SessionFiles, WholeOnDisk, WholeSession

(* A step that leaves the directory alone.                                 *)
LEMMA SessionGoes ==
  ASSUME SessionInv, NEW who \in Processes,
         pr[who].pc # "idle" \/ manager = None \/ "created" \in reported,
         UNCHANGED <<at, have, disk, powers>>, at # "none", faults' \in 0..FaultBound,
         pr' \in [Processes -> SessionRecord],
         \A other \in Processes \ {who} : pr'[other] = pr[other], KeepsLocks(who),
         reported' \in {reported, reported \cup {"missed"}}, SessionKnows(who)'
  PROVE  SessionInv'
<1>1. SessionFiles'
  BY SessionFilesStay
<1>2. SessionTyped /\ reported' \subseteq Session!Reports
  BY DEF SessionInv, SessionTyped, Session!Reports
<1>. QED BY <1>1, <1>2, SessionMoves DEF SessionTyped, Disturbs

LEMMA SessionLeaves ==
  ASSUME SessionInv, NEW who \in Processes, pr[who].pc # "idle", Session!Return(who),
         UNCHANGED <<at, have, disk, powers>>, faults' \in 0..FaultBound,
         reported' \in {reported, reported \cup {"missed"}}
  PROVE  SessionInv'
<1>1. at # "none"
  BY DEF SessionInv, SessionFiles
<1>2. SessionFiles'
  BY <1>1, SessionFilesStay
<1>3. SessionTyped /\ reported' \subseteq Session!Reports
  BY DEF SessionInv, SessionTyped, Session!Reports
<1>. QED BY <1>2, <1>3, SessionReturns DEF SessionTyped, Disturbs, SessionDisk

(* A step from one point to another that holds the same locks.             *)
LEMMA SessionAdvances ==
  ASSUME SessionInv, NEW who \in Processes, NEW place \in Session!Pcs,
         pr[who].pc # "idle", Session!Goto(who, place),
         UNCHANGED <<at, have, disk, manager, powers, reported>>, faults' \in 0..FaultBound,
         KeepsLocks(who), SessionKnows(who)'
  PROVE  SessionInv'
<1>1. at # "none" /\ pr \in [Processes -> SessionRecord]
  BY DEF SessionInv, SessionFiles, SessionTyped, SessionRecord
<1>2. /\ pr' \in [Processes -> SessionRecord]
      /\ \A other \in Processes \ {who} : pr'[other] = pr[other]
  BY <1>1 DEF Session!Goto, SessionRecord
<1>. QED BY <1>1, <1>2, SessionGoes

LEMMA SessionIdle ==
  /\ Session!Idle \in SessionRecord
  /\ Session!Idle.pc = "idle" /\ Session!Idle.role = "none" /\ Session!Idle.private = FALSE
  /\ Session!Idle.todo = {}
BY DEF Session!Idle, SessionRecord, Session!Pcs, Session!Roles

(* Maintenance and commands start, and find the session or do not.         *)
LEMMA SessionStarts ==
  ASSUME SessionInv, NEW who \in Processes,
         Session!StartMaintenance(who) \/ Session!StartCommand(who)
  PROVE  SessionInv'
<1>1. /\ pr \in [Processes -> SessionRecord] /\ faults \in 0..FaultBound /\ who # None
      /\ pr[who].pc = "idle" /\ manager # who /\ flock # who
      /\ manager \in Processes \cup {None} /\ flock \in Processes \cup {None}
  BY SessionAssumption
     DEF SessionInv, SessionTyped, SessionRecord, SessionKnows, Owns,
         Session!StartMaintenance, Session!StartCommand, Session!At, Session!ProcessesAssumption
<1>2. CASE Session!StartMaintenance(who)
  <2>1. PICK role \in {"recover", "cleanup"} :
           pr' = [pr EXCEPT ![who] =
                    [Session!Idle EXCEPT !.pc = "clear_staging", !.role = role]]
    BY <1>2 DEF Session!StartMaintenance
  <2>2. /\ at # "none" /\ manager = None /\ manager' = who
        /\ UNCHANGED <<at, have, disk, flock, faults, powers, reported>>
    BY <1>2 DEF Session!StartMaintenance, Session!directory, Session!counters
  <2>3. PICK r : r = [Session!Idle EXCEPT !.pc = "clear_staging", !.role = role]
    OBVIOUS
  <2>4. "clear_staging" \in Session!Pcs /\ role \in Session!Roles
    BY DEF Session!Pcs, Session!Roles
  <2>5. r \in SessionRecord /\ r.pc = "clear_staging" /\ r.role = role /\ r.private = FALSE
    <3>1. PICK old \in SessionRecord : old = Session!Idle /\ old.private = FALSE
      BY SessionIdle
    <3>2. r = [old EXCEPT !.pc = "clear_staging", !.role = role]
      BY <2>3, <3>1, Zenon
    <3>3. r \in SessionRecord
      BY <2>4, <3>2 DEF SessionRecord
    <3>4. r.pc = "clear_staging" /\ r.role = role /\ r.private = old.private
      BY <2>4, <3>2 DEF SessionRecord
    <3>. QED BY <3>1, <3>3, <3>4
  <2>6. /\ pr' \in [Processes -> SessionRecord] /\ pr'[who] = r
        /\ \A other \in Processes \ {who} : pr'[other] = pr[other]
    <3>1. pr' = [pr EXCEPT ![who] = r]
      BY <2>1, <2>3, Zenon
    <3>. QED BY <1>1, <2>5, <3>1
  <2>7. SessionKnows(who)'
    BY <1>1, <2>2, <2>5, <2>6 DEF SessionKnows, Creates, Owns, Fills, Works, Private, Cleans,
       Clears, Session!Working, Session!At
  <2>. QED BY <1>1, <2>2, <2>5, <2>6, <2>7, SessionAssumption, SessionGoes
           DEF KeepsLocks, Session!ProcessesAssumption
<1>3. CASE Session!StartCommand(who)
  <2>1. PICK role \in {"decide", "propose"} :
           pr' = [pr EXCEPT ![who] =
                    [Session!Idle EXCEPT !.pc = "open_session", !.role = role]]
    BY <1>3 DEF Session!StartCommand
  <2>2. /\ "created" \in reported
        /\ UNCHANGED <<at, have, disk, manager, flock, faults, powers, reported>>
    BY <1>3 DEF Session!StartCommand, Session!directory, Session!counters, Session!locks
  <2>3. PICK r : r = [Session!Idle EXCEPT !.pc = "open_session", !.role = role]
    OBVIOUS
  <2>4. "open_session" \in Session!Pcs /\ role \in Session!Roles
    BY DEF Session!Pcs, Session!Roles
  <2>5. r \in SessionRecord /\ r.pc = "open_session" /\ r.role = role /\ r.private = FALSE
    <3>1. PICK old \in SessionRecord : old = Session!Idle /\ old.private = FALSE
      BY SessionIdle
    <3>2. r = [old EXCEPT !.pc = "open_session", !.role = role]
      BY <2>3, <3>1, Zenon
    <3>3. r \in SessionRecord
      BY <2>4, <3>2 DEF SessionRecord
    <3>4. r.pc = "open_session" /\ r.role = role /\ r.private = old.private
      BY <2>4, <3>2 DEF SessionRecord
    <3>. QED BY <3>1, <3>3, <3>4
  <2>6. /\ pr' \in [Processes -> SessionRecord] /\ pr'[who] = r
        /\ \A other \in Processes \ {who} : pr'[other] = pr[other]
    <3>1. pr' = [pr EXCEPT ![who] = r]
      BY <2>1, <2>3, Zenon
    <3>. QED BY <1>1, <2>5, <3>1
  <2>7. SessionKnows(who)'
    BY <1>1, <2>2, <2>5, <2>6 DEF SessionKnows, Creates, Owns, Fills, Works, Private, Cleans,
       Clears, Session!Working, Session!At
  <2>8. at # "none"
    BY <2>2 DEF SessionInv, SessionFiles
  <2>. QED BY <1>1, <2>2, <2>5, <2>6, <2>7, <2>8, SessionGoes DEF KeepsLocks
<1>. QED BY <1>2, <1>3

LEMMA SessionOpens ==
  ASSUME SessionInv, NEW who \in Processes,
         \/ Session!OpenSession(who) \/ Session!OpenEvents(who) \/ Session!OpenLock(who)
         \/ Session!RevalidateLockedSession(who) \/ Session!OpenLockToRemove(who)
  PROVE  SessionInv'
<1>1. PICK now \in Session!Pcs, then \in Session!Pcs :
        /\ pr[who].pc = now /\ UNCHANGED <<at, have, disk, faults, powers>>
        /\ \/ /\ Session!Goto(who, then) /\ UNCHANGED <<manager, flock, reported>>
              /\ then = "load" => at = "named" /\ "lock" \in have
           \/ /\ Session!Return(who)
              /\ reported' \in {reported, reported \cup {"missed"}}
        /\ \/ now = "open_session" /\ then = "open_events"
           \/ now = "open_events" /\ then = "open_private"
           \/ now = "open_lock" /\ then = "flock"
           \/ now = "revalidate" /\ then = "load"
           \/ now = "open_lock_to_remove" /\ then = "flock_to_remove"
  <2>1. ASSUME NEW now, NEW present, NEW then, Session!Open(who, now, present, then)
        PROVE  /\ pr[who].pc = now /\ UNCHANGED <<at, have, disk, faults, powers>>
               /\ \/ /\ Session!Goto(who, then) /\ UNCHANGED <<manager, flock, reported>>
                     /\ present
                  \/ /\ Session!Return(who)
                     /\ reported' \in {reported, reported \cup {"missed"}}
    <3>1. CASE present
      BY <2>1, <3>1 DEF Session!Open, Session!At, Session!directory, Session!counters,
         Session!locks
    <3>2. CASE ~present
      BY <2>1, <3>2 DEF Session!Open, Session!At, Session!directory, Session!counters,
         Session!Report
    <3>. QED BY <3>1, <3>2
  <2>2. {"open_session", "open_events", "open_private", "open_lock", "flock", "revalidate",
         "load", "open_lock_to_remove", "flock_to_remove"} \subseteq Session!Pcs
    BY DEF Session!Pcs
  <2>3. CASE Session!OpenSession(who)
    BY <2>1, <2>2, <2>3 DEF Session!OpenSession
  <2>4. CASE Session!OpenEvents(who)
    BY <2>1, <2>2, <2>4 DEF Session!OpenEvents
  <2>5. CASE Session!OpenLock(who)
    BY <2>1, <2>2, <2>5 DEF Session!OpenLock
  <2>6. CASE Session!RevalidateLockedSession(who)
    <3>1. Session!Open(who, "revalidate", Session!StillNamed(who), "load")
      BY <2>6 DEF Session!RevalidateLockedSession
    <3>2. Session!StillNamed(who) => at = "named" /\ "lock" \in have
      BY DEF Session!StillNamed
    <3>. QED BY <2>1, <2>2, <3>1, <3>2
  <2>7. CASE Session!OpenLockToRemove(who)
    BY <2>1, <2>2, <2>7 DEF Session!OpenLockToRemove
  <2>. QED BY <2>3, <2>4, <2>5, <2>6, <2>7
<1>2. /\ pr \in [Processes -> SessionRecord] /\ faults \in 0..FaultBound
      /\ now # "idle" /\ SessionKnows(who)
      /\ manager \in Processes \cup {None} /\ flock \in Processes \cup {None}
  BY <1>1 DEF SessionInv, SessionTyped, SessionRecord
<1>3. CASE Session!Return(who) /\ reported' \in {reported, reported \cup {"missed"}}
  BY <1>1, <1>2, <1>3, SessionLeaves
<1>4. CASE /\ Session!Goto(who, then) /\ UNCHANGED <<manager, flock, reported>>
           /\ then = "load" => at = "named" /\ "lock" \in have
  <2>1. pr'[who] = [pr[who] EXCEPT !.pc = then]
    BY <1>2, <1>4 DEF Session!Goto
  <2>2. /\ pr'[who].pc = then /\ pr'[who].role = pr[who].role
        /\ pr'[who].private = pr[who].private
    BY <1>2, <2>1 DEF SessionRecord
  <2>3. /\ manager' = manager /\ flock' = flock /\ at' = at /\ have' = have
        /\ reported' = reported
    BY <1>1, <1>4
  <2>4. \A other \in Processes \ {who} : pr'[other] = pr[other]
    BY <1>2, <1>4 DEF Session!Goto
  <2>5. Creates(who)' /\ Owns(who)' /\ Fills(who)' /\ Works(who)'
    <3>1. Creates(who)'
      BY <1>2, <2>2, <2>3, <2>4 DEF SessionKnows, Creates
    <3>2. Owns(who)'
      BY <1>1, <1>2, <2>2, <2>3 DEF SessionKnows, Owns
    <3>3. Fills(who)'
      BY <1>1, <2>2 DEF Fills
    <3>4. Works(who)'
      BY <1>1, <1>2, <1>4, <2>2, <2>3
         DEF SessionKnows, Works, Private, Cleans, Clears, Session!Working, Session!At
    <3>. QED BY <3>1, <3>2, <3>3, <3>4
  <2>. QED BY <1>1, <1>2, <1>4, <2>3, <2>5, SessionAdvances DEF KeepsLocks, SessionKnows
<1>. QED BY <1>1, <1>3, <1>4

(* What is known of the process that moves.                                *)
LEMMA SessionWho ==
  ASSUME SessionInv, NEW who \in Processes
  PROVE  /\ Creates(who) /\ Owns(who) /\ Fills(who) /\ Works(who)
         /\ pr \in [Processes -> SessionRecord] /\ faults \in 0..FaultBound
         /\ manager \in Processes \cup {None} /\ flock \in Processes \cup {None}
         /\ at \in Session!Places /\ have \subseteq Session!Entries /\ disk \in SessionDisk
         /\ powers \in 0..PowerBound /\ reported \subseteq Session!Reports
         /\ SessionFiles
         /\ who # None
BY SessionAssumption
   DEF SessionInv, SessionTyped, SessionRecord, SessionKnows, SessionDisk,
       Session!ProcessesAssumption

LEMMA SessionAt ==
  ASSUME SessionInv, NEW who \in Processes, NEW place \in Session!Pcs,
         Session!Goto(who, place)
  PROVE  /\ pr' \in [Processes -> SessionRecord]
         /\ \A other \in Processes \ {who} : pr'[other] = pr[other]
         /\ pr'[who].pc = place /\ pr'[who].role = pr[who].role
         /\ pr'[who].private = pr[who].private /\ pr'[who].todo = pr[who].todo
BY DEF SessionInv, SessionTyped, SessionRecord, Session!Goto

LEMMA SessionAtTodo ==
  ASSUME SessionInv, NEW who \in Processes, NEW files \in SUBSET Session!Entries,
         pr' = [pr EXCEPT ![who].pc = "remove", ![who].todo = files]
  PROVE  /\ pr' \in [Processes -> SessionRecord]
         /\ \A other \in Processes \ {who} : pr'[other] = pr[other]
         /\ pr'[who].pc = "remove" /\ pr'[who].role = pr[who].role
         /\ pr'[who].private = pr[who].private /\ pr'[who].todo = files
BY DEF SessionInv, SessionTyped, SessionRecord, Session!Pcs

LEMMA SessionAtPrivate ==
  ASSUME SessionInv, NEW who \in Processes, NEW place \in {"open_lock", "stat"},
         NEW flag \in BOOLEAN,
         pr' = [pr EXCEPT ![who].pc = place, ![who].private = flag]
  PROVE  /\ pr' \in [Processes -> SessionRecord]
         /\ \A other \in Processes \ {who} : pr'[other] = pr[other]
         /\ pr'[who].pc = place /\ pr'[who].role = pr[who].role
         /\ pr'[who].private = flag /\ pr'[who].todo = pr[who].todo
BY DEF SessionInv, SessionTyped, SessionRecord, Session!Pcs

(* A creation stays alone while it goes on.                                *)
LEMMA SessionCreates ==
  ASSUME SessionInv, NEW who \in Processes, pr'[who].role = pr[who].role,
         \A other \in Processes \ {who} : pr'[other] = pr[other],
         pr'[who].role = "create" =>
           (manager = who => manager' = who) /\ reported' = reported /\ at' # "none"
  PROVE  Creates(who)'
<1>1. Creates(who)
  BY SessionWho
<1>. QED BY <1>1 DEF Creates

(* The locks are waited for.                                               *)
LEMMA SessionLocks ==
  ASSUME SessionInv, NEW who \in Processes, Session!Flock(who) \/ Session!FlockToRemove(who)
  PROVE  SessionInv'
<1>. DEFINE place == IF pr[who].pc = "flock" THEN "revalidate" ELSE "check_named"
<1>1. /\ flock = None /\ flock' = who /\ Session!Goto(who, place)
      /\ UNCHANGED <<at, have, disk, manager, faults, powers, reported>>
      /\ pr[who].pc \in {"flock", "flock_to_remove"}
  BY DEF Session!Flock, Session!FlockToRemove, Session!At, Session!directory,
     Session!counters
<1>2. place \in Session!Pcs /\ place \in {"revalidate", "check_named"}
      /\ (place = "check_named" => pr[who].pc = "flock_to_remove")
  BY <1>1 DEF Session!Pcs
<1>. HIDE DEF place
<1>3. /\ pr' \in [Processes -> SessionRecord] /\ pr'[who].pc = place
      /\ pr'[who].role = pr[who].role /\ pr'[who].private = pr[who].private
      /\ \A other \in Processes \ {who} : pr'[other] = pr[other]
  BY <1>1, <1>2, SessionAt
<1>4. at # "none"
  BY <1>1, SessionWho DEF SessionFiles
<1>5. Creates(who)'
  BY <1>1, <1>3, <1>4, SessionCreates
<1>6. Owns(who)' /\ Fills(who)' /\ Works(who)'
  BY <1>1, <1>2, <1>3, SessionWho
     DEF Owns, Fills, Works, Private, Cleans, Clears, Session!Working, Session!At
<1>7. KeepsLocks(who)
  BY <1>1, SessionWho, SessionAssumption DEF KeepsLocks, Session!ProcessesAssumption
<1>. QED BY <1>1, <1>3, <1>4, <1>5, <1>6, <1>7, SessionWho, SessionGoes DEF SessionKnows

LEMMA SessionChecks ==
  ASSUME SessionInv, NEW who \in Processes,
         Session!ClearStaging(who) \/ Session!CheckNamed(who)
  PROVE  SessionInv'
<1>1. /\ pr[who].pc \in {"clear_staging", "check_named"}
      /\ UNCHANGED <<at, have, disk, faults, powers, reported>>
  BY DEF Session!ClearStaging, Session!CheckNamed, Session!At, Session!directory,
     Session!counters
<1>2. at # "none"
  BY <1>1, SessionWho DEF SessionFiles
<1>3. CASE Session!Return(who)
  BY <1>1, <1>3, SessionWho, SessionLeaves
<1>4. CASE ~Session!Return(who)
  <2>1. UNCHANGED <<manager, flock>> /\ KeepsLocks(who)
    BY <1>1, <1>4, SessionWho
       DEF Session!ClearStaging, Session!CheckNamed, Session!locks, KeepsLocks
  <2>2. CASE pr' = [pr EXCEPT ![who].pc = "remove", ![who].todo = have]
    <3>1. /\ pr' \in [Processes -> SessionRecord]
          /\ \A other \in Processes \ {who} : pr'[other] = pr[other]
          /\ pr'[who].pc = "remove" /\ pr'[who].role = pr[who].role
          /\ pr'[who].private = pr[who].private /\ pr'[who].todo = have
      BY <2>2, SessionWho, SessionAtTodo
    <3>2. \/ at = "staging" /\ pr[who].pc = "clear_staging"
          \/ at = "named" /\ pr[who].pc = "check_named"
      <4>1. CASE Session!ClearStaging(who)
        <5>1. at = "staging" \/ Session!Goto(who, "list")
          BY <4>1 DEF Session!ClearStaging
        <5>2. ~Session!Goto(who, "list")
          BY <3>1, SessionAt DEF Session!Pcs
        <5>. QED BY <4>1, <5>1, <5>2 DEF Session!ClearStaging, Session!At
      <4>2. CASE Session!CheckNamed(who)
        BY <1>4, <4>2 DEF Session!CheckNamed, Session!At
      <4>. QED BY <4>1, <4>2
    <3>3. Creates(who)'
      BY <1>1, <1>2, <2>1, <3>1, SessionCreates
    <3>4. Owns(who)' /\ Fills(who)'
      BY <1>1, <2>1, <3>1, <3>2, SessionWho DEF Owns, Fills, Works, Private
    <3>5. Works(who)'
      BY <1>1, <2>1, <3>1, <3>2, SessionWho
         DEF Owns, Works, Private, Cleans, Clears, Session!Working, Session!At
    <3>. QED BY <1>1, <1>2, <2>1, <3>1, <3>3, <3>4, <3>5, SessionWho, SessionGoes
             DEF SessionKnows
  <2>3. CASE Session!ClearStaging(who) /\ Session!Goto(who, "list")
    <3>1. /\ "list" \in Session!Pcs /\ pr[who].pc = "clear_staging"
      BY <2>3 DEF Session!Pcs, Session!ClearStaging, Session!At
    <3>2. /\ pr'[who].pc = "list" /\ pr'[who].role = pr[who].role
          /\ \A other \in Processes \ {who} : pr'[other] = pr[other]
      BY <2>3, <3>1, SessionAt
    <3>3. Creates(who)'
      BY <1>1, <1>2, <2>1, <3>2, SessionCreates
    <3>4. Owns(who)' /\ Fills(who)' /\ Works(who)'
      BY <1>1, <2>1, <3>1, <3>2, SessionWho
         DEF Owns, Fills, Works, Private, Cleans, Clears, Session!Working, Session!At
    <3>. QED BY <1>1, <2>1, <2>3, <3>1, <3>3, <3>4, SessionWho, SessionAdvances
             DEF SessionKnows
  <2>. QED BY <1>4, <2>2, <2>3 DEF Session!ClearStaging, Session!CheckNamed
<1>. QED BY <1>3, <1>4

LEMMA SessionLists ==
  ASSUME SessionInv, NEW who \in Processes,
         Session!ListSessions(who) \/ Session!OpenGuard(who)
  PROVE  SessionInv'
<1>1. /\ pr[who].pc \in {"list", "guard"}
      /\ UNCHANGED <<at, have, disk, faults, powers, reported>>
  BY DEF Session!ListSessions, Session!OpenGuard, Session!At, Session!directory,
     Session!counters
<1>2. at # "none"
  BY <1>1, SessionWho DEF SessionFiles
<1>3. CASE Session!Return(who)
  BY <1>1, <1>3, SessionWho, SessionLeaves
<1>4. CASE ~Session!Return(who)
  <2>1. PICK place \in {"open_session", "generate"} :
          /\ Session!Goto(who, place) /\ UNCHANGED flock
          /\ \/ pr[who].pc = "list" /\ pr[who].role = "recover" /\ manager' = None
             \/ UNCHANGED manager
    <3>1. CASE Session!ListSessions(who)
      BY <1>4, <3>1 DEF Session!ListSessions, Session!At
    <3>2. CASE Session!OpenGuard(who)
      BY <1>4, <3>2 DEF Session!OpenGuard, Session!locks
    <3>. QED BY <3>1, <3>2
  <2>2. place \in Session!Pcs
    BY DEF Session!Pcs
  <2>3. KeepsLocks(who)
    BY <1>1, <2>1, SessionWho, SessionAssumption
       DEF KeepsLocks, Owns, Session!ProcessesAssumption
  <2>4. /\ pr' \in [Processes -> SessionRecord]
        /\ pr'[who].pc = place /\ pr'[who].role = pr[who].role
        /\ \A other \in Processes \ {who} : pr'[other] = pr[other]
    BY <2>1, <2>2, SessionAt
  <2>5. Creates(who)'
    <3>1. pr'[who].role = "create" => UNCHANGED manager
      BY <2>1, <2>4
    <3>. QED BY <1>1, <1>2, <2>4, <3>1, SessionCreates
  <2>6. Owns(who)' /\ Fills(who)' /\ Works(who)'
    BY <2>4 DEF Owns, Fills, Works, Cleans, Clears, Session!Working, Session!At
  <2>. QED BY <1>1, <1>2, <2>3, <2>4, <2>5, <2>6, SessionWho, SessionGoes DEF SessionKnows
<1>. QED BY <1>3, <1>4

LEMMA SessionOpensPrivate ==
  ASSUME SessionInv, NEW who \in Processes, Session!OpenPrivate(who)
  PROVE  SessionInv'
<1>1. /\ pr[who].pc = "open_private"
      /\ UNCHANGED <<at, have, disk, manager, flock, faults, powers, reported>>
      /\ pr' = [pr EXCEPT ![who].pc = "open_lock", ![who].private = "private" \in have]
  BY DEF Session!OpenPrivate, Session!At, Session!directory, Session!locks, Session!counters
<1>2. PICK flag \in BOOLEAN : flag = ("private" \in have)
  <2>1. ("private" \in have) \in BOOLEAN
    OBVIOUS
  <2>. QED BY <2>1, Zenon
<1>3. pr' = [pr EXCEPT ![who].pc = "open_lock", ![who].private = flag]
  BY <1>1, <1>2, Zenon
<1>4. /\ pr' \in [Processes -> SessionRecord]
      /\ pr'[who].pc = "open_lock" /\ pr'[who].role = pr[who].role
      /\ \A other \in Processes \ {who} : pr'[other] = pr[other]
  BY <1>3, SessionAtPrivate
<1>5. at # "none"
  BY <1>1, SessionWho DEF SessionFiles
<1>6. Creates(who)'
  BY <1>1, <1>4, <1>5, SessionCreates
<1>7. Owns(who)' /\ Fills(who)' /\ Works(who)'
  BY <1>4 DEF Owns, Fills, Works, Cleans, Clears, Session!Working, Session!At
<1>. QED BY <1>1, <1>4, <1>5, <1>6, <1>7, SessionWho, SessionGoes
         DEF SessionKnows, KeepsLocks

LEMMA SessionLoads ==
  ASSUME SessionInv, NEW who \in Processes, Session!Load(who)
  PROVE  SessionInv'
<1>1. /\ pr[who].pc = "load" /\ flock = who /\ at = "named" /\ "lock" \in have
      /\ UNCHANGED <<at, have, disk, faults, powers, reported>>
  BY SessionWho DEF Session!Load, Session!At, Session!directory, Session!counters, Owns, Works
<1>2. CASE Session!Return(who)
  BY <1>1, <1>2, SessionWho, SessionLeaves
<1>3. CASE ~Session!Return(who)
  <2>1. PICK place \in {"clean_private", "close_session", "guard"} :
          /\ Session!Loadable /\ Session!Goto(who, place) /\ UNCHANGED manager
          /\ \/ place = "clean_private" /\ Session!Closed /\ UNCHANGED flock
             \/ /\ place = "close_session" /\ ~Session!Closed /\ UNCHANGED flock
                /\ pr[who].role \in {"recover", "decide"}
             \/ place = "guard" /\ flock' = None /\ pr[who].role = "propose"
    BY <1>3 DEF Session!Load, Session!locks
  <2>2. place \in Session!Pcs
    BY DEF Session!Pcs
  <2>3. /\ pr' \in [Processes -> SessionRecord]
        /\ pr'[who].pc = place /\ pr'[who].role = pr[who].role
        /\ \A other \in Processes \ {who} : pr'[other] = pr[other]
    BY <2>1, <2>2, SessionAt
  <2>4. KeepsLocks(who)
    BY <1>1, <2>1, SessionWho, SessionAssumption DEF KeepsLocks, Session!ProcessesAssumption
  <2>5. /\ place = "clean_private" => "e1" \in have
        /\ place = "close_session" => Session!Chain = {"e0"}
    BY <2>1, SessionNames
       DEF Session!Closed, Session!Loadable, Session!Chains, Session!Chain
  <2>6. Creates(who)'
    BY <1>1, <2>1, <2>3, SessionCreates
  <2>7. Owns(who)' /\ Fills(who)'
    BY <1>1, <2>1, <2>3 DEF Owns, Fills
  <2>8. Works(who)'
    BY <1>1, <2>1, <2>3, <2>5
       DEF Works, Cleans, Clears, Session!Working, Session!At, Session!Loadable, Session!Chain
  <2>. QED BY <1>1, <2>3, <2>4, <2>6, <2>7, <2>8, SessionWho, SessionGoes DEF SessionKnows
<1>. QED BY <1>2, <1>3

LEMMA SessionCleansPrivate ==
  ASSUME SessionInv, NEW who \in Processes, Session!CleanPrivate(who)
  PROVE  SessionInv'
<1>1. /\ pr[who].pc = "clean_private" /\ flock = who /\ at = "named" /\ "lock" \in have
      /\ Session!Loadable /\ "e1" \in have
      /\ UNCHANGED <<at, have, disk, faults, powers, reported>>
  BY SessionWho
     DEF Session!CleanPrivate, Session!At, Session!directory, Session!counters, Owns, Works,
         Session!Working
<1>2. CASE Session!Return(who)
  BY <1>1, <1>2, SessionWho, SessionLeaves
<1>3. CASE ~Session!Return(who)
  <2>1. UNCHANGED <<manager, flock>> /\ KeepsLocks(who)
    BY <1>3, SessionWho DEF Session!CleanPrivate, Session!locks, KeepsLocks
  <2>2. CASE pr[who].private
    <3>1. PICK files \in SUBSET Session!Entries :
            files = (have \cap Session!Payload) \cup {"private"}
      BY SessionNames
    <3>2. pr' = [pr EXCEPT ![who].pc = "remove", ![who].todo = files]
      BY <2>2, <3>1 DEF Session!CleanPrivate
    <3>3. /\ pr' \in [Processes -> SessionRecord]
          /\ \A other \in Processes \ {who} : pr'[other] = pr[other]
          /\ pr'[who].pc = "remove" /\ pr'[who].role = pr[who].role
          /\ pr'[who].private = pr[who].private /\ pr'[who].todo = files
      BY <3>2, SessionAtTodo
    <3>4. "closed" \in reported
      BY <1>1, SessionWho DEF SessionFiles
    <3>5. Creates(who)'
      BY <1>1, <2>1, <3>3, SessionCreates
    <3>6. Owns(who)' /\ Fills(who)'
      BY <1>1, <2>1, <2>2, <3>3, <3>4 DEF Owns, Fills, Private
    <3>7. Works(who)'
      BY <1>1, <2>1, <2>2, <3>1, <3>3
         DEF Works, Cleans, Clears, Private, Session!Working, Session!At, Session!Loadable,
             Session!Chain
    <3>. QED BY <1>1, <2>1, <3>3, <3>5, <3>6, <3>7, SessionWho, SessionGoes DEF SessionKnows
  <2>3. CASE ~pr[who].private
    <3>1. Session!Goto(who, "record_cleanup") /\ "private" \notin have
      BY <1>3, <2>3 DEF Session!CleanPrivate
    <3>2. "record_cleanup" \in Session!Pcs
      BY DEF Session!Pcs
    <3>3. /\ pr'[who].pc = "record_cleanup" /\ pr'[who].role = pr[who].role
          /\ \A other \in Processes \ {who} : pr'[other] = pr[other]
      BY <3>1, <3>2, SessionAt
    <3>4. Creates(who)'
      BY <1>1, <2>1, <3>3, SessionCreates
    <3>5. Owns(who)' /\ Fills(who)' /\ Works(who)'
      BY <1>1, <2>1, <3>1, <3>3
         DEF Owns, Fills, Works, Cleans, Clears, Session!Working, Session!At,
             Session!Loadable, Session!Chain
    <3>. QED BY <1>1, <2>1, <3>1, <3>2, <3>4, <3>5, SessionWho, SessionAdvances
             DEF SessionKnows
  <2>. QED BY <2>2, <2>3
<1>. QED BY <1>2, <1>3

(* A creation.                                                             *)
LEMMA SessionSyncsName ==
  ASSUME SessionInv, disk' = [disk EXCEPT !.at = at]
  PROVE  /\ disk' \in SessionDisk /\ disk'.at = at /\ disk'.top = disk.top
         /\ disk'.events = disk.events /\ disk'.private = disk.private
         /\ WholeOnDisk' = WholeOnDisk
<1>1. /\ disk' \in SessionDisk /\ disk'.at = at /\ disk'.top = disk.top
      /\ disk'.events = disk.events /\ disk'.private = disk.private
  BY DEF SessionInv, SessionTyped, SessionDisk
<1>. QED BY <1>1 DEF WholeOnDisk

LEMMA SessionCreatesStaging ==
  ASSUME SessionInv, NEW who \in Processes, Session!CreateStaging(who)
  PROVE  SessionInv'
<1>1. /\ at = "none" /\ at' = "staging" /\ manager = None /\ manager' = who
      /\ pr[who].pc = "idle"
      /\ UNCHANGED <<have, disk, flock, faults, powers, reported>>
      /\ pr' = [pr EXCEPT ![who] = [Session!Idle EXCEPT !.pc = "fill", !.role = "create"]]
  BY DEF Session!CreateStaging, Session!At, Session!counters
<1>2. PICK r : r = [Session!Idle EXCEPT !.pc = "fill", !.role = "create"]
  OBVIOUS
<1>3. r \in SessionRecord /\ r.pc = "fill" /\ r.role = "create" /\ r.private = FALSE
  <2>1. "fill" \in Session!Pcs /\ "create" \in Session!Roles
    BY DEF Session!Pcs, Session!Roles
  <2>2. PICK old \in SessionRecord : old = Session!Idle /\ old.private = FALSE
    BY SessionIdle
  <2>3. r = [old EXCEPT !.pc = "fill", !.role = "create"]
    BY <1>2, <2>2, Zenon
  <2>4. r \in SessionRecord
    BY <2>1, <2>3 DEF SessionRecord
  <2>5. r.pc = "fill" /\ r.role = "create" /\ r.private = old.private
    BY <2>1, <2>3 DEF SessionRecord
  <2>. QED BY <2>2, <2>4, <2>5
<1>4. /\ pr' \in [Processes -> SessionRecord] /\ pr'[who] = r
      /\ \A other \in Processes \ {who} : pr'[other] = pr[other]
  <2>1. pr' = [pr EXCEPT ![who] = r]
    BY <1>1, <1>2, Zenon
  <2>. QED BY <1>3, <2>1, SessionWho
<1>5. /\ have = {} /\ reported = {} /\ disk.at = "none"
      /\ \A other \in Processes : pr[other].pc = "idle"
  BY <1>1, SessionWho DEF SessionFiles
<1>6. SessionFiles'
  BY <1>1, <1>5, SessionWho DEF SessionFiles
<1>7. Session!Missing' # {}
  <2>1. 1 \in DOMAIN Session!CreationOrder
    BY DEF Session!CreationOrder
  <2>2. 1 \in Session!Missing'
    BY <1>1, <1>5, <2>1 DEF Session!Missing
  <2>. QED BY <2>2
<1>8. SessionKnows(who)'
  <2>1. Creates(who)'
    BY <1>1, <1>3, <1>4, <1>5 DEF Creates
  <2>2. Owns(who)' /\ Fills(who)' /\ Works(who)'
    BY <1>1, <1>3, <1>4, <1>7
       DEF Owns, Fills, Works, Private, Cleans, Clears, Session!Working, Session!At
  <2>. QED BY <2>1, <2>2 DEF SessionKnows
<1>9. KeepsLocks(who)
  BY <1>1, SessionWho, SessionAssumption DEF KeepsLocks, Session!ProcessesAssumption
<1>10. at' \in Session!Places
  BY <1>1 DEF Session!Places
<1>. QED BY <1>1, <1>4, <1>6, <1>8, <1>9, <1>10, SessionWho, SessionMoves
         DEF Disturbs, SessionDisk

LEMMA SessionRenames ==
  ASSUME SessionInv, NEW who \in Processes, Session!RenameStaging(who)
  PROVE  SessionInv'
<1>1. /\ pr[who].pc = "rename" /\ at' = "named" /\ Session!Goto(who, "sync_created")
      /\ UNCHANGED <<have, disk, manager, flock, faults, powers, reported>>
  BY DEF Session!RenameStaging, Session!At, Session!locks, Session!counters
<1>2. /\ at = "staging" /\ manager = who /\ reported = {} /\ pr[who].role = "create"
      /\ ~pr[who].private /\ WholeSession \subseteq have /\ WholeOnDisk
  BY <1>1, SessionWho DEF Fills, Creates, Private
<1>3. "sync_created" \in Session!Pcs /\ at' \in Session!Places
  BY <1>1 DEF Session!Pcs, Session!Places
<1>4. /\ pr' \in [Processes -> SessionRecord] /\ pr'[who].private = pr[who].private
      /\ pr'[who].pc = "sync_created" /\ pr'[who].role = pr[who].role
      /\ \A other \in Processes \ {who} : pr'[other] = pr[other]
  BY <1>1, <1>3, SessionAt
<1>5. SessionFiles'
  BY <1>1, <1>2, SessionWho DEF SessionFiles, WholeOnDisk
<1>6. SessionKnows(who)'
  <2>1. Creates(who)'
    BY <1>1, <1>4, SessionCreates
  <2>2. Owns(who)' /\ Fills(who)' /\ Works(who)'
    BY <1>1, <1>2, <1>4
       DEF Owns, Fills, Works, Private, Cleans, Clears, Session!Working, Session!At
  <2>. QED BY <2>1, <2>2 DEF SessionKnows
<1>7. KeepsLocks(who) /\ Disturbs(who)
  BY <1>1, <1>2, SessionWho DEF KeepsLocks, Disturbs
<1>. QED BY <1>1, <1>3, <1>4, <1>5, <1>6, <1>7, SessionWho, SessionMoves DEF SessionDisk

LEMMA SessionSyncsCreated ==
  ASSUME SessionInv, NEW who \in Processes, Session!SyncCreated(who)
  PROVE  SessionInv'
<1>1. /\ pr[who].pc = "sync_created" /\ disk' = [disk EXCEPT !.at = at]
      /\ Session!Return(who) /\ reported' = reported \cup {"created"}
      /\ UNCHANGED <<at, have, faults, powers>>
  BY DEF Session!SyncCreated, Session!At, Session!Report, Session!counters
<1>2. at = "named" /\ reported = {}
  BY <1>1, SessionWho DEF Fills, Creates
<1>3. reported' \subseteq Session!Reports
  BY <1>1, SessionWho DEF Session!Reports
<1>4. SessionFiles'
  BY <1>1, <1>2, SessionWho, SessionSyncsName DEF SessionFiles
<1>. QED BY <1>1, <1>3, <1>4, SessionWho, SessionSyncsName, SessionReturns DEF Disturbs

LEMMA SessionUnstages ==
  ASSUME SessionInv, NEW who \in Processes, Session!Unstage(who)
  PROVE  SessionInv'
<1>1. /\ pr[who].pc = "unstage" /\ UNCHANGED <<at, have, faults, powers, reported>>
      /\ at \in {"staging", "named"} /\ manager = who /\ ~pr[who].private /\ reported = {}
  BY SessionWho DEF Session!Unstage, Session!At, Session!counters, Fills, Owns, Creates, Private
<1>2. CASE at = "staging"
  <2>1. /\ pr' = [pr EXCEPT ![who].pc = "remove", ![who].todo = have]
        /\ UNCHANGED <<disk, manager, flock>>
    BY <1>2 DEF Session!Unstage, Session!locks
  <2>2. /\ pr' \in [Processes -> SessionRecord]
        /\ \A other \in Processes \ {who} : pr'[other] = pr[other]
        /\ pr'[who].pc = "remove" /\ pr'[who].role = pr[who].role
        /\ pr'[who].private = pr[who].private /\ pr'[who].todo = have
    BY <2>1, SessionWho, SessionAtTodo
  <2>3. Creates(who)'
    BY <1>1, <2>1, <2>2, SessionCreates
  <2>4. Owns(who)' /\ Fills(who)' /\ Works(who)'
    BY <1>1, <1>2, <2>1, <2>2
       DEF Owns, Fills, Works, Private, Cleans, Clears, Session!Working, Session!At
  <2>. QED BY <1>1, <2>1, <2>2, <2>3, <2>4, SessionWho, SessionGoes
           DEF SessionKnows, KeepsLocks
<1>3. CASE at = "named"
  <2>1. disk' = [disk EXCEPT !.at = at] /\ Session!Return(who)
    BY <1>3 DEF Session!Unstage
  <2>2. SessionFiles'
    BY <1>1, <1>3, <2>1, SessionWho, SessionSyncsName DEF SessionFiles
  <2>. QED BY <1>1, <2>1, <2>2, SessionWho, SessionSyncsName, SessionReturns DEF Disturbs
<1>. QED BY <1>1, <1>2, <1>3

(* Calls fail.                                                             *)
LEMMA SessionFails ==
  ASSUME SessionInv, NEW who \in Processes, Session!Stops(who) \/ Session!CreateFails(who)
  PROVE  SessionInv'
<1>1. FaultBound \in Nat
  BY SessionAssumption DEF Session!BoundsAssumption
<1>2. /\ pr[who].pc # "idle" /\ faults < FaultBound /\ faults' = faults + 1
      /\ UNCHANGED <<at, have, disk, powers, reported>>
  BY DEF Session!Stops, Session!CreateFails, Session!At, Session!directory
<1>3. faults' \in 0..FaultBound
  BY <1>1, <1>2, SessionWho
<1>4. CASE Session!Stops(who)
  BY <1>2, <1>3, <1>4, SessionLeaves DEF Session!Stops
<1>5. CASE Session!CreateFails(who)
  <2>1. /\ pr[who].pc \in {"fill", "rename", "sync_created"}
        /\ Session!Goto(who, "unstage") /\ UNCHANGED <<manager, flock>>
    BY <1>5 DEF Session!CreateFails, Session!At, Session!locks
  <2>2. "unstage" \in Session!Pcs
    BY DEF Session!Pcs
  <2>3. /\ pr'[who].pc = "unstage" /\ pr'[who].role = pr[who].role
        /\ pr'[who].private = pr[who].private
        /\ \A other \in Processes \ {who} : pr'[other] = pr[other]
    BY <2>1, <2>2, SessionAt
  <2>4. Creates(who)'
    <3>1. at # "none"
      BY <1>2, SessionWho DEF SessionFiles
    <3>. QED BY <1>2, <2>1, <2>3, <3>1, SessionCreates
  <2>5. Owns(who)' /\ Fills(who)' /\ Works(who)'
    BY <1>2, <2>1, <2>3, SessionWho
       DEF Owns, Fills, Works, Private, Cleans, Clears, Session!Working, Session!At
  <2>6. KeepsLocks(who)
    BY <2>1, SessionWho DEF KeepsLocks
  <2>. QED BY <1>2, <1>3, <2>1, <2>2, <2>4, <2>5, <2>6, SessionAdvances DEF SessionKnows
<1>. QED BY <1>4, <1>5

(* A generation writes with no lock, and only where there is a directory.  *)
LEMMA SessionGenerates ==
  ASSUME SessionInv, NEW who \in Processes, Session!GenerateCandidate(who)
  PROVE  SessionInv'
<1>1. pr[who].pc = "generate" /\ UNCHANGED <<at, disk, faults, powers, reported>>
  BY DEF Session!GenerateCandidate, Session!At, Session!counters
<1>2. CASE Session!Return(who) /\ UNCHANGED have
  BY <1>1, <1>2, SessionWho, SessionLeaves
<1>3. CASE /\ "private" \in have /\ have' = have \cup {"repository"}
           /\ UNCHANGED <<pr, manager, flock>>
  <2>1. SessionFiles' /\ have' \subseteq Session!Entries /\ at # "none"
    BY <1>1, <1>3, SessionWho, SessionNames DEF SessionFiles, WholeSession, WholeOnDisk
  <2>2. Creates(who)'
    BY <1>1, <1>3, <2>1, SessionCreates
  <2>3. Owns(who)' /\ Fills(who)' /\ Works(who)'
    BY <1>1, <1>3, SessionWho
       DEF Owns, Fills, Works, Cleans, Clears, Session!Working, Session!At
  <2>. QED BY <1>1, <1>3, <2>1, <2>2, <2>3, SessionWho, SessionMoves
           DEF Disturbs, KeepsLocks, SessionKnows, SessionDisk
<1>. QED BY <1>2, <1>3 DEF Session!GenerateCandidate, Session!locks

(* An expired session is looked up, and the removal is made durable.       *)
LEMMA SessionStats ==
  ASSUME SessionInv, NEW who \in Processes,
         Session!StatSession(who) \/ Session!SyncRemoved(who)
  PROVE  SessionInv'
<1>1. /\ pr[who].pc \in {"stat", "sync_removed"} /\ UNCHANGED <<at, have, faults, powers>>
      /\ pr[who].pc = "stat" => "closed" \in reported /\ ~pr[who].private
  BY SessionWho
     DEF Session!StatSession, Session!SyncRemoved, Session!At, Session!counters, Works, Private
<1>2. CASE /\ disk' = [disk EXCEPT !.at = at] /\ Session!Return(who)
           /\ reported' = reported \cup {"removed"}
  <2>1. SessionFiles'
    BY <1>1, <1>2, SessionWho, SessionSyncsName DEF SessionFiles
  <2>2. reported' \subseteq Session!Reports
    BY <1>2, SessionWho DEF Session!Reports
  <2>. QED BY <1>1, <1>2, <2>1, <2>2, SessionWho, SessionSyncsName, SessionReturns
           DEF Disturbs
<1>3. CASE /\ pr[who].pc = "stat" /\ Session!Goto(who, "open_lock_to_remove")
           /\ UNCHANGED <<disk, manager, flock, reported>>
  <2>1. "open_lock_to_remove" \in Session!Pcs /\ at # "none"
    BY <1>1, SessionWho DEF Session!Pcs, SessionFiles
  <2>2. /\ pr'[who].pc = "open_lock_to_remove" /\ pr'[who].role = pr[who].role
        /\ pr'[who].private = pr[who].private
        /\ \A other \in Processes \ {who} : pr'[other] = pr[other]
    BY <1>3, <2>1, SessionAt
  <2>3. Creates(who)'
    BY <1>1, <1>3, <2>1, <2>2, SessionCreates
  <2>4. Owns(who)' /\ Fills(who)' /\ Works(who)'
    BY <1>1, <1>3, <2>2
       DEF Owns, Fills, Works, Private, Cleans, Clears, Session!Working, Session!At
  <2>. QED BY <1>1, <1>3, <2>1, <2>3, <2>4, SessionWho, SessionAdvances
           DEF KeepsLocks, SessionKnows
<1>4. CASE Session!StatSession(who)
  BY <1>2, <1>3, <1>4
     DEF Session!StatSession, Session!At, Session!Report, Session!locks
<1>5. CASE Session!SyncRemoved(who)
  BY <1>2, <1>5 DEF Session!SyncRemoved, Session!Report
<1>. QED BY <1>4, <1>5

(* The event that closes a session, and the one that calls it clean.       *)
LEMMA SessionCloses ==
  ASSUME SessionInv, NEW who \in Processes, Session!CloseSession(who)
  PROVE  SessionInv'
<1>1. /\ pr[who].pc = "close_session" /\ have' = have \cup {"e1"}
      /\ disk' = [disk EXCEPT !.events = have' \cap Session!EventFiles]
      /\ reported' = reported \cup {"closed"} /\ Session!Goto(who, "clean_private")
      /\ UNCHANGED <<at, manager, flock, faults, powers>>
  BY DEF Session!CloseSession, Session!At, Session!Report, Session!locks, Session!counters
<1>2. /\ flock = who /\ at = "named" /\ "lock" \in have /\ Session!Chain = {"e0"}
      /\ pr[who].role # "create"
  BY <1>1, SessionWho DEF Owns, Works, Session!Working, Session!At
<1>3. have' \subseteq Session!Entries /\ reported' \subseteq Session!Reports
      /\ "clean_private" \in Session!Pcs
  BY <1>1, SessionWho, SessionNames DEF Session!Reports, Session!Pcs
<1>4. /\ disk' \in SessionDisk /\ disk'.at = disk.at /\ disk'.top = disk.top
      /\ disk'.events = have' \cap Session!EventFiles /\ disk'.private = disk.private
  BY <1>1, SessionWho DEF SessionDisk
<1>5. Session!Chain' = {"e0", "e1"} /\ Session!Loadable' /\ disk'.events = {"e0", "e1"}
  BY <1>1, <1>2, <1>4, SessionNames DEF Session!Chain, Session!Loadable, Session!Chains
<1>6. SessionFiles'
  BY <1>1, <1>2, <1>4, <1>5, SessionWho, SessionNames DEF SessionFiles
<1>7. /\ pr' \in [Processes -> SessionRecord]
      /\ pr'[who].pc = "clean_private" /\ pr'[who].role = pr[who].role
      /\ \A other \in Processes \ {who} : pr'[other] = pr[other]
  BY <1>1, <1>3, SessionAt
<1>8. Creates(who)' /\ Owns(who)' /\ Fills(who)' /\ Works(who)'
  BY <1>1, <1>2, <1>5, <1>7
     DEF Creates, Owns, Fills, Works, Cleans, Clears, Session!Working, Session!At
<1>. QED BY <1>1, <1>2, <1>3, <1>4, <1>6, <1>7, <1>8, SessionWho, SessionMoves
         DEF Disturbs, KeepsLocks, SessionKnows, SessionDisk

LEMMA SessionAfterCleaning ==
  ASSUME SessionInv, NEW who \in Processes, pr[who].pc \in {"record_cleanup", "sync_cache"},
         Session!AfterCleaning(who), UNCHANGED <<at, have, faults, powers>>,
         disk' \in SessionDisk, reported' \in {reported, reported \cup {"cleaned"}},
         SessionFiles'
  PROVE  SessionInv'
<1>1. reported' \subseteq Session!Reports /\ at # "none" /\ flock = who
      /\ "closed" \in reported /\ pr[who].role # "create"
  BY SessionWho
     DEF Session!Reports, Owns, Works, Session!Working, Session!At, SessionFiles, Creates
<1>2. CASE Session!Return(who)
  BY <1>1, <1>2, SessionWho, SessionReturns DEF Disturbs
<1>3. CASE /\ pr' = [pr EXCEPT ![who].pc = "stat", ![who].private = FALSE]
           /\ flock' = None /\ UNCHANGED manager
  <2>1. /\ pr' \in [Processes -> SessionRecord]
        /\ pr'[who].pc = "stat" /\ pr'[who].role = pr[who].role /\ pr'[who].private = FALSE
        /\ \A other \in Processes \ {who} : pr'[other] = pr[other]
    BY <1>3, SessionAtPrivate
  <2>2. KeepsLocks(who)
    BY <1>1, <1>3, SessionWho, SessionAssumption
       DEF KeepsLocks, Session!ProcessesAssumption
  <2>3. Creates(who)' /\ Owns(who)' /\ Fills(who)' /\ Works(who)'
    BY <1>1, <2>1
       DEF Creates, Owns, Fills, Works, Private, Cleans, Clears, Session!Working, Session!At
  <2>. QED BY <1>1, <2>1, <2>2, <2>3, SessionWho, SessionMoves
           DEF Disturbs, SessionKnows, SessionDisk
<1>. QED BY <1>2, <1>3 DEF Session!AfterCleaning

LEMMA SessionRecordsCleanup ==
  ASSUME SessionInv, NEW who \in Processes, Session!RecordCleanup(who)
  PROVE  SessionInv'
<1>1. /\ pr[who].pc = "record_cleanup" /\ UNCHANGED <<at, faults, powers, reported>>
      /\ flock = who /\ at = "named" /\ "lock" \in have /\ "private" \notin have
      /\ Session!Loadable /\ "e1" \in have /\ "closed" \in reported
      /\ pr[who].role # "create"
  BY SessionWho
     DEF Session!RecordCleanup, Session!At, Session!counters, Owns, Works, Session!Working,
         SessionFiles, Creates
<1>2. CASE "e2" \in have
  <2>1. UNCHANGED <<have, disk>> /\ Session!AfterCleaning(who)
    BY <1>2 DEF Session!RecordCleanup
  <2>. QED BY <1>1, <2>1, SessionWho, SessionFilesStay, SessionAfterCleaning
<1>3. CASE "e2" \notin have
  <2>1. /\ have' = have \cup {"e2"}
        /\ disk' = [disk EXCEPT !.events = have' \cap Session!EventFiles]
        /\ Session!Goto(who, "sync_cache") /\ UNCHANGED <<manager, flock>>
    BY <1>3 DEF Session!RecordCleanup, Session!locks
  <2>2. have' \subseteq Session!Entries /\ "sync_cache" \in Session!Pcs
    BY <2>1, SessionWho, SessionNames DEF Session!Pcs
  <2>3. /\ disk' \in SessionDisk /\ disk'.at = disk.at /\ disk'.top = disk.top
        /\ disk'.events = have' \cap Session!EventFiles /\ disk'.private = disk.private
    BY <2>1, SessionWho DEF SessionDisk
  <2>4. Session!Chain' = Session!EventFiles /\ Session!Loadable'
    BY <1>1, <2>1, SessionNames DEF Session!Chain, Session!Loadable, Session!Chains
  <2>5. SessionFiles'
    BY <1>1, <2>1, <2>3, SessionWho, SessionNames DEF SessionFiles
  <2>6. /\ pr' \in [Processes -> SessionRecord]
        /\ pr'[who].pc = "sync_cache" /\ pr'[who].role = pr[who].role
        /\ \A other \in Processes \ {who} : pr'[other] = pr[other]
    BY <2>1, <2>2, SessionAt
  <2>7. Creates(who)' /\ Owns(who)' /\ Fills(who)' /\ Works(who)'
    BY <1>1, <2>1, <2>4, <2>6
       DEF Creates, Owns, Fills, Works, Cleans, Clears, Session!Working, Session!At
  <2>. QED BY <1>1, <2>1, <2>2, <2>3, <2>5, <2>6, <2>7, SessionWho, SessionMoves
           DEF Disturbs, KeepsLocks, SessionKnows, SessionDisk
<1>. QED BY <1>2, <1>3

LEMMA SessionSyncsCache ==
  ASSUME SessionInv, NEW who \in Processes, Session!SyncCache(who)
  PROVE  SessionInv'
<1>1. /\ pr[who].pc = "sync_cache" /\ disk' = [disk EXCEPT !.top = have \cap Session!Top]
      /\ reported' = reported \cup {"cleaned"} /\ Session!AfterCleaning(who)
      /\ UNCHANGED <<at, have, faults, powers>>
      /\ "private" \notin have /\ "closed" \in reported
  BY SessionWho
     DEF Session!SyncCache, Session!At, Session!Report, Session!counters, Works, SessionFiles
<1>2. /\ disk' \in SessionDisk /\ disk'.at = disk.at /\ disk'.top = have \cap Session!Top
      /\ disk'.events = disk.events /\ disk'.private = disk.private
  BY <1>1, SessionWho DEF SessionDisk
<1>3. SessionFiles'
  BY <1>1, <1>2, SessionWho DEF SessionFiles
<1>. QED BY <1>1, <1>2, <1>3, SessionAfterCleaning

(* Removal, one entry at a time.                                           *)
LEMMA SmallestIndex ==
  ASSUME NEW S \in SUBSET (1..9), S # {}
  PROVE  \E i \in S : \A j \in S : i <= j
<1>1. \A i \in 1..9 : \A j \in 1..9 : (\A k \in 1..9 : k < i => k # j) => i <= j
  OBVIOUS
<1>2. CASE 1 \in S
  BY <1>2
<1>3. CASE 1 \notin S /\ 2 \in S
  BY <1>3
<1>4. CASE 1 \notin S /\ 2 \notin S /\ 3 \in S
  BY <1>4
<1>5. CASE 1 \notin S /\ 2 \notin S /\ 3 \notin S /\ 4 \in S
  BY <1>5
<1>6. CASE 1 \notin S /\ 2 \notin S /\ 3 \notin S /\ 4 \notin S
  <2>1. S \subseteq 5..9
    BY <1>6
  <2>2. CASE 5 \in S
    BY <2>1, <2>2
  <2>3. CASE 5 \notin S /\ 6 \in S
    BY <2>1, <2>3
  <2>4. CASE 5 \notin S /\ 6 \notin S /\ 7 \in S
    BY <2>1, <2>4
  <2>5. CASE 5 \notin S /\ 6 \notin S /\ 7 \notin S
    <3>1. \A j \in S : j = 8 \/ j = 9
      BY <2>1, <2>5
    <3>2. CASE 8 \in S
      BY <3>1, <3>2
    <3>3. CASE 8 \notin S
      <4>1. \A j \in S : j = 9
        BY <3>1, <3>3
      <4>2. 9 <= 9
        OBVIOUS
      <4>. QED BY <4>1, <4>2
    <3>. QED BY <3>2, <3>3
  <2>. QED BY <2>2, <2>3, <2>4, <2>5
<1>. QED BY <1>2, <1>3, <1>4, <1>5, <1>6

LEMMA SessionRemovalOrder ==
  /\ DOMAIN Session!RemovalOrder = 1..9
  /\ Session!RemovalOrder[1] = "e0" /\ Session!RemovalOrder[2] = "e1"
  /\ Session!RemovalOrder[3] = "e2" /\ Session!RemovalOrder[4] = "events"
  /\ Session!RemovalOrder[5] = "repository" /\ Session!RemovalOrder[6] = "request"
  /\ Session!RemovalOrder[7] = "private" /\ Session!RemovalOrder[8] = "lock"
  /\ Session!RemovalOrder[9] = "cache"
BY DEF Session!RemovalOrder

(* Only the removal itself, or a cleanup under the session lock, removes.  *)
LEMMA SessionRemover ==
  ASSUME SessionInv, NEW who \in Processes, pr[who].pc = "remove"
  PROVE  /\ at # "none" /\ Disturbs(who) /\ "remove" \in Session!Pcs
         /\ at = "named" => "closed" \in reported
BY SessionWho DEF Owns, Disturbs, SessionFiles, Session!Pcs

LEMMA SessionRemoves ==
  ASSUME SessionInv, NEW who \in Processes, Session!RemoveEntry(who)
  PROVE  SessionInv'
<1>1. pr[who].pc = "remove" /\ UNCHANGED <<at, disk, faults, powers, reported>>
  BY DEF Session!RemoveEntry, Session!At, Session!counters
<1>2. PICK i \in 1..9 :
        /\ Session!RemovalOrder[i] \in pr[who].todo
        /\ \A j \in 1..9 : Session!RemovalOrder[j] \in pr[who].todo => i <= j
        /\ IF have \cap Session!ContentsOf(Session!RemovalOrder[i]) = {}
           THEN /\ have' = have \ {Session!RemovalOrder[i]}
                /\ pr' = [pr EXCEPT ![who].todo = @ \ {Session!RemovalOrder[i]}]
                /\ UNCHANGED <<manager, flock>>
           ELSE Session!Return(who) /\ UNCHANGED have
  <2>. DEFINE S == Session!Todo(who)
              i == CHOOSE k \in S : \A j \in S : k <= j
  <2>1. S \in SUBSET (1..9) /\ S # {}
    BY SessionRemovalOrder DEF Session!RemoveEntry, Session!Todo
  <2>2. i \in S /\ \A j \in S : i <= j
    <3>. HIDE DEF S
    <3>. QED BY <2>1, SmallestIndex
  <2>3. /\ i \in 1..9 /\ Session!RemovalOrder[i] \in pr[who].todo
        /\ \A j \in 1..9 : Session!RemovalOrder[j] \in pr[who].todo => i <= j
    <3>1. \A j \in 1..9 : Session!RemovalOrder[j] \in pr[who].todo => j \in S
      BY SessionRemovalOrder DEF Session!Todo
    <3>2. \A j \in S : Session!RemovalOrder[j] \in pr[who].todo
      BY DEF Session!Todo
    <3>. HIDE DEF S, i
    <3>. QED BY <2>1, <2>2, <3>1, <3>2
  <2>4. IF have \cap Session!ContentsOf(Session!RemovalOrder[i]) = {}
        THEN /\ have' = have \ {Session!RemovalOrder[i]}
             /\ pr' = [pr EXCEPT ![who].todo = @ \ {Session!RemovalOrder[i]}]
             /\ UNCHANGED <<manager, flock>>
        ELSE Session!Return(who) /\ UNCHANGED have
    BY DEF Session!RemoveEntry, Session!locks
  <2>. HIDE DEF S, i
  <2>. QED BY <2>3, <2>4
<1>3. CASE Session!Return(who) /\ UNCHANGED have
  BY <1>1, <1>3, SessionWho, SessionLeaves
<1>4. CASE ~(Session!Return(who) /\ UNCHANGED have)
  <2>1. PICK entry : entry = Session!RemovalOrder[i]
    OBVIOUS
  <2>2. /\ have \cap Session!ContentsOf(entry) = {} /\ have' = have \ {entry}
        /\ pr' = [pr EXCEPT ![who].todo = @ \ {entry}] /\ UNCHANGED <<manager, flock>>
    BY <1>2, <1>4, <2>1
  <2>3. /\ pr' \in [Processes -> SessionRecord]
        /\ pr'[who].pc = pr[who].pc /\ pr'[who].role = pr[who].role
        /\ pr'[who].private = pr[who].private /\ pr'[who].todo = pr[who].todo \ {entry}
        /\ \A other \in Processes \ {who} : pr'[other] = pr[other]
    BY <2>2, SessionWho DEF SessionRecord
  <2>4. entry \in pr[who].todo /\ (entry = "e1" => "e0" \notin pr[who].todo)
    <3>1. entry = "e1" => i = 2
      <4>1. i = 1 \/ i = 2 \/ i = 3 \/ i = 4 \/ i = 5 \/ i = 6 \/ i = 7 \/ i = 8 \/ i = 9
        OBVIOUS
      <4>. QED BY <2>1, <4>1, SessionRemovalOrder
    <3>. QED BY <1>2, <2>1, <3>1, SessionRemovalOrder
  <2>5. entry = "private" => have \cap Session!Payload = {}
    BY <2>2 DEF Session!ContentsOf
  <2>6. entry = "e1" => "e0" \notin have
    BY <1>1, <2>4, SessionWho, SessionNames DEF Works, Cleans, Clears, Private
  <2>7. SessionFiles'
    BY <1>1, <2>2, <2>5, <2>6, SessionWho, SessionNames, SessionRemover DEF SessionFiles
  <2>8. Creates(who)'
    BY <1>1, <2>2, <2>3, SessionRemover, SessionCreates
  <2>9. Owns(who)' /\ Fills(who)'
    BY <1>1, <2>2, <2>3, SessionWho DEF Owns, Fills, Private
  <2>10. Works(who)'
    <3>1. CASE pr[who].private
      <4>1. /\ at = "named" /\ "lock" \in have /\ Session!Loadable /\ "e1" \in have
            /\ pr[who].todo \subseteq Session!Payload \cup {"private"}
            /\ "private" \in have => "private" \in pr[who].todo
        BY <1>1, <3>1, SessionWho DEF Works, Cleans, Private, Session!Working, Session!At
      <4>2. /\ Session!Chain' = Session!Chain /\ Session!Loadable'
            /\ "lock" \in have' /\ "e1" \in have'
        BY <2>2, <2>4, <4>1, SessionNames DEF Session!Chain, Session!Loadable
      <4>. QED BY <1>1, <2>2, <2>3, <3>1, <4>1, <4>2
               DEF Works, Cleans, Clears, Private, Session!Working, Session!At
    <3>2. CASE ~pr[who].private
      BY <1>1, <2>2, <2>3, <3>2, SessionWho
         DEF Works, Cleans, Clears, Private, Session!Working, Session!At
    <3>. QED BY <3>1, <3>2
  <2>. QED BY <1>1, <2>2, <2>3, <2>7, <2>8, <2>9, <2>10, SessionWho, SessionRemover, SessionMoves
           DEF KeepsLocks, SessionKnows, SessionDisk
<1>. QED BY <1>3, <1>4

LEMMA SessionNothingToDo ==
  ASSUME SessionInv, NEW who \in Processes, Session!Todo(who) = {}
  PROVE  pr[who].todo = {}
<1>1. pr[who].todo \subseteq Session!Entries
  BY SessionWho DEF SessionRecord
<1>2. \A i \in 1..9 : Session!RemovalOrder[i] \notin pr[who].todo
  BY SessionRemovalOrder DEF Session!Todo
<1>3. /\ "e0" \notin pr[who].todo /\ "e1" \notin pr[who].todo /\ "e2" \notin pr[who].todo
      /\ "events" \notin pr[who].todo /\ "repository" \notin pr[who].todo
      /\ "request" \notin pr[who].todo /\ "private" \notin pr[who].todo
      /\ "lock" \notin pr[who].todo /\ "cache" \notin pr[who].todo
  BY <1>2, SessionRemovalOrder
<1>. QED BY <1>1, <1>3, SessionNames

LEMMA SessionEndsPrivate ==
  ASSUME SessionInv, NEW who \in Processes, Session!EndPrivate(who)
  PROVE  SessionInv'
<1>1. /\ pr[who].pc = "remove" /\ pr[who].private /\ pr[who].todo = {}
      /\ disk' = [disk EXCEPT !.top = have \cap Session!Top]
      /\ Session!Goto(who, "record_cleanup")
      /\ UNCHANGED <<at, have, manager, flock, faults, powers, reported>>
  BY SessionNothingToDo
     DEF Session!EndPrivate, Session!At, Session!locks, Session!counters
<1>2. /\ at = "named" /\ flock = who /\ "closed" \in reported /\ "lock" \in have
      /\ Session!Loadable /\ "e1" \in have /\ "private" \notin have
  BY <1>1, SessionWho DEF Owns, Works, Private, Cleans, Session!Working, Session!At
<1>3. /\ disk' \in SessionDisk /\ disk'.at = disk.at /\ disk'.top = have \cap Session!Top
      /\ disk'.events = disk.events /\ disk'.private = disk.private
  BY <1>1, SessionWho DEF SessionDisk
<1>4. SessionFiles'
  BY <1>1, <1>2, <1>3, SessionWho DEF SessionFiles
<1>5. "record_cleanup" \in Session!Pcs
  BY DEF Session!Pcs
<1>6. /\ pr' \in [Processes -> SessionRecord]
      /\ pr'[who].pc = "record_cleanup" /\ pr'[who].role = pr[who].role
      /\ \A other \in Processes \ {who} : pr'[other] = pr[other]
  BY <1>1, <1>5, SessionAt
<1>7. Creates(who)'
  BY <1>1, <1>2, <1>6, SessionCreates
<1>8. Owns(who)' /\ Fills(who)' /\ Works(who)'
  BY <1>1, <1>2, <1>6
     DEF Owns, Fills, Works, Cleans, Clears, Session!Working, Session!At, Session!Loadable,
         Session!Chain
<1>. QED BY <1>1, <1>2, <1>3, <1>4, <1>6, <1>7, <1>8, SessionWho, SessionMoves
         DEF Disturbs, KeepsLocks, SessionKnows, SessionDisk

LEMMA SessionRemovesDirectory ==
  ASSUME SessionInv, NEW who \in Processes, Session!RemoveDirectory(who)
  PROVE  SessionInv'
<1>1. /\ pr[who].pc = "remove" /\ ~pr[who].private
      /\ UNCHANGED <<have, disk, faults, powers, reported>>
  BY DEF Session!RemoveDirectory, Session!At, Session!counters
<1>2. CASE Session!Return(who) /\ UNCHANGED at
  BY <1>1, <1>2, SessionWho, SessionLeaves
<1>3. CASE /\ have = {} /\ at' = "gone" /\ Session!Goto(who, "sync_removed")
           /\ UNCHANGED <<manager, flock>>
  <2>1. "sync_removed" \in Session!Pcs /\ at' \in Session!Places
    BY <1>3 DEF Session!Pcs, Session!Places
  <2>2. /\ pr' \in [Processes -> SessionRecord]
        /\ pr'[who].pc = "sync_removed" /\ pr'[who].role = pr[who].role
        /\ \A other \in Processes \ {who} : pr'[other] = pr[other]
    BY <1>3, <2>1, SessionAt
  <2>3. SessionFiles'
    BY <1>1, <1>3, SessionWho DEF SessionFiles, Owns
  <2>4. Creates(who)'
    BY <1>1, <1>3, <2>2, SessionCreates
  <2>5. Owns(who)' /\ Fills(who)' /\ Works(who)'
    BY <2>2 DEF Owns, Fills, Works, Cleans, Clears, Session!Working, Session!At
  <2>. QED BY <1>1, <1>3, <2>1, <2>2, <2>3, <2>4, <2>5, SessionWho, SessionRemover, SessionMoves
           DEF KeepsLocks, SessionKnows, SessionDisk
<1>. QED BY <1>2, <1>3 DEF Session!RemoveDirectory, Session!locks

(* The staging directory is filled in the order of creation.               *)
LEMMA SessionCreationOrder ==
  /\ DOMAIN Session!CreationOrder = 1..6
  /\ Session!CreationOrder[1] = "events" /\ Session!CreationOrder[2] = "private"
  /\ Session!CreationOrder[3] = "request" /\ Session!CreationOrder[4] = "lock"
  /\ Session!CreationOrder[5] = "e0" /\ Session!CreationOrder[6] = "cache"
BY DEF Session!CreationOrder

LEMMA SessionFills ==
  ASSUME SessionInv, NEW who \in Processes, Session!FillStaging(who)
  PROVE  SessionInv'
<1>1. /\ pr[who].pc = "fill" /\ UNCHANGED <<at, manager, flock, faults, powers, reported>>
      /\ at = "staging" /\ manager = who /\ pr[who].role = "create" /\ ~pr[who].private
      /\ reported = {} /\ Session!Missing # {}
  BY SessionWho
     DEF Session!FillStaging, Session!At, Session!locks, Session!counters, Fills, Creates, Owns,
         Private
<1>. DEFINE S == Session!Missing
            i == CHOOSE k \in S : \A j \in S : k <= j
<1>2. S \in SUBSET (1..6) /\ \A k \in 1..6 : k \in S <=> Session!CreationOrder[k] \notin have
  BY SessionCreationOrder DEF Session!Missing
<1>3. have' = have \cup {Session!CreationOrder[i]}
  BY DEF Session!FillStaging
<1>4. i \in S /\ \A j \in S : i <= j
  <2>1. S \in SUBSET (1..9) /\ S # {}
    <3>1. \A k \in 1..6 : k \in 1..9
      OBVIOUS
    <3>. QED BY <1>1, <1>2, <3>1
  <2>. HIDE DEF S
  <2>. QED BY <2>1, SmallestIndex
<1>5. Session!Missing' = {k \in DOMAIN Session!CreationOrder :
                            Session!CreationOrder[k] \notin have'}
  BY DEF Session!Missing
<1>. HIDE DEF S, i
<1>6. PICK entry : entry = Session!CreationOrder[i]
  OBVIOUS
<1>7. i \in 1..6 /\ entry \notin have /\ have' = have \cup {entry}
  BY <1>2, <1>3, <1>4, <1>6
<1>8. entry \in WholeSession /\ (entry = "request" => "private" \in have)
  <2>1. i = 1 \/ i = 2 \/ i = 3 \/ i = 4 \/ i = 5 \/ i = 6
    BY <1>7
  <2>2. entry = "request" => i = 3
    BY <1>6, <2>1, SessionCreationOrder
  <2>3. i = 3 => "private" \in have
    <3>1. 2 \in 1..6 /\ ~(3 <= 2)
      OBVIOUS
    <3>. QED BY <1>2, <1>4, <3>1, SessionCreationOrder
  <2>. QED BY <1>6, <2>1, <2>2, <2>3, SessionCreationOrder DEF WholeSession
<1>9. have' \subseteq Session!Entries /\ at # "none"
  BY <1>1, <1>7, <1>8, SessionWho, SessionNames DEF WholeSession
<1>11. Disturbs(who) /\ KeepsLocks(who)
  BY <1>1, SessionWho DEF Disturbs, KeepsLocks
<1>12. CASE Session!Missing' # {}
  <2>1. UNCHANGED <<disk, pr>>
    BY <1>12 DEF Session!FillStaging
  <2>3. SessionFiles'
    BY <1>1, <1>7, <1>8, <2>1, SessionWho, SessionNames DEF SessionFiles, WholeSession
  <2>4. Creates(who)'
    BY <1>1, <1>9, <2>1, SessionCreates
  <2>5. Owns(who)' /\ Fills(who)' /\ Works(who)'
    BY <1>1, <1>12, <2>1
       DEF Owns, Fills, Works, Private, Cleans, Clears, Session!Working, Session!At
  <2>. QED BY <1>1, <1>9, <1>11, <2>1, <2>3, <2>4, <2>5, SessionWho, SessionMoves
           DEF SessionKnows, SessionDisk
<1>13. CASE Session!Missing' = {}
  <2>2. WholeSession \subseteq have'
    <3>1. \A k \in 1..6 : Session!CreationOrder[k] \in have'
      BY <1>5, <1>13, SessionCreationOrder
    <3>. QED BY <3>1, SessionCreationOrder DEF WholeSession
  <2>3. /\ disk' = [disk EXCEPT !.top = have' \cap Session!Top,
                                !.events = have' \cap Session!EventFiles,
                                !.private = have' \cap Session!Payload]
        /\ Session!Goto(who, "rename")
    BY <1>13 DEF Session!FillStaging
  <2>4. /\ disk' \in SessionDisk /\ disk'.at = disk.at /\ disk'.top = have' \cap Session!Top
        /\ disk'.events = have' \cap Session!EventFiles
        /\ disk'.private = have' \cap Session!Payload
    BY <2>3, SessionWho DEF SessionDisk
  <2>5. "rename" \in Session!Pcs
    BY DEF Session!Pcs
  <2>6. /\ pr' \in [Processes -> SessionRecord] /\ pr'[who].private = pr[who].private
        /\ pr'[who].pc = "rename" /\ pr'[who].role = pr[who].role
        /\ \A other \in Processes \ {who} : pr'[other] = pr[other]
    BY <2>3, <2>5, SessionAt
  <2>7. WholeOnDisk'
    BY <2>2, <2>4, SessionNames DEF WholeOnDisk, WholeSession
  <2>8. SessionFiles'
    BY <1>1, <1>7, <1>8, <2>4, SessionWho, SessionNames DEF SessionFiles, WholeSession
  <2>9. Creates(who)'
    BY <1>1, <1>9, <2>6, SessionCreates
  <2>10. Owns(who)' /\ Fills(who)' /\ Works(who)'
    BY <1>1, <2>2, <2>6, <2>7
       DEF Owns, Fills, Works, Private, Cleans, Clears, Session!Working, Session!At
  <2>. QED BY <1>1, <1>9, <1>11, <2>4, <2>6, <2>8, <2>9, <2>10, SessionWho, SessionMoves
           DEF SessionKnows, SessionDisk
<1>. QED BY <1>12, <1>13

(* A power failure leaves what was synced or what there was.               *)
LEMMA SessionPowerFails ==
  ASSUME SessionInv, Session!PowerFailure
  PROVE  SessionInv'
<1>1. /\ SessionTyped /\ SessionFiles /\ powers' \in 0..PowerBound
      /\ manager' = None /\ flock' = None /\ UNCHANGED <<faults, reported>>
      /\ pr' = [who \in Processes |-> Session!Idle]
      /\ disk' = [at |-> at', top |-> have' \cap Session!Top,
                  events |-> have' \cap Session!EventFiles,
                  private |-> have' \cap Session!Payload]
  <2>1. powers < PowerBound /\ powers' = powers + 1 /\ powers \in 0..PowerBound
    BY DEF Session!PowerFailure, SessionInv, SessionTyped
  <2>2. powers' \in 0..PowerBound
    BY <2>1, SessionAssumption DEF Session!BoundsAssumption
  <2>. QED BY <2>2 DEF Session!PowerFailure, SessionInv
<1>2. \A who \in Processes : pr'[who] = Session!Idle /\ manager' # who /\ flock' # who
  BY <1>1, SessionAssumption DEF Session!ProcessesAssumption
<1>3. /\ disk' \in SessionDisk /\ disk'.at = at' /\ disk'.top = have' \cap Session!Top
      /\ disk'.events = have' \cap Session!EventFiles
      /\ disk'.private = have' \cap Session!Payload
      /\ at' \in Session!Places /\ have' \subseteq Session!Entries /\ at' # "none"
      /\ SessionFiles'
  <2>1. PICK place \in Session!LeftAt, top \in {disk.top, have \cap Session!Top} :
          IF place \in {"none", "gone"}
          THEN at' = "gone" /\ have' = {}
          ELSE /\ at' = place
               /\ \E e \in Session!Left("events" \in top, disk.events, Session!Chain),
                     v \in Session!Left("private" \in top, disk.private,
                                        have \cap Session!Payload) :
                    have' = top \cup e \cup v
    BY DEF Session!PowerFailure
  <2>2. /\ disk.at \in Session!Places /\ disk.top \subseteq Session!Top
        /\ disk.events \subseteq Session!EventFiles /\ disk.private \subseteq Session!Payload
        /\ at \in Session!Places
    BY <1>1 DEF SessionTyped
  <2>3. CASE at' = "gone" /\ have' = {}
    <3>1. /\ disk' \in SessionDisk /\ disk'.at = "gone" /\ disk'.top = {}
          /\ disk'.events = {} /\ disk'.private = {}
      BY <1>1, <2>3 DEF SessionDisk, Session!Places
    <3>2. "created" \in reported => "closed" \in reported
      <4>1. place \in {"none", "gone"} \/ place = "gone"
        BY <2>1, <2>3
      <4>2. place \in {disk.at, at} \/ (disk.at = "none" /\ at = "named")
        BY <2>1 DEF Session!LeftAt
      <4>. QED BY <1>1, <4>1, <4>2 DEF SessionFiles
    <3>. QED BY <1>1, <2>3, <3>1, <3>2, SessionNames DEF SessionFiles, Session!Places
  <2>4. CASE place \notin {"none", "gone"}
    <3>1. PICK e, v :
            /\ have' = top \cup e \cup v /\ at' = place
            /\ (e = {} /\ "events" \notin top) \/ e \in {disk.events, Session!Chain}
            /\ IF "private" \in top THEN v \in {disk.private, have \cap Session!Payload}
                                    ELSE v = {}
            /\ "events" \in top => e \in {disk.events, Session!Chain}
      BY <2>1, <2>4 DEF Session!Left
    <3>2. /\ top \subseteq Session!Top /\ e \subseteq Session!EventFiles
          /\ v \subseteq Session!Payload
      BY <2>1, <2>2, <3>1 DEF Session!Chain
    <3>3. /\ have' \cap Session!Top = top /\ have' \cap Session!EventFiles = e
          /\ have' \cap Session!Payload = v /\ have' \subseteq Session!Entries
      BY <3>1, <3>2, SessionNames
    <3>4. /\ place \in Session!Places
          /\ place = disk.at \/ place = at
               \/ (place = "staging" /\ disk.at = "none" /\ at = "named")
      BY <2>1, <2>2 DEF Session!LeftAt, Session!Places
    <3>5. /\ disk' \in SessionDisk /\ disk'.at = at' /\ disk'.top = top
          /\ disk'.events = e /\ disk'.private = v
      BY <1>1, <3>1, <3>2, <3>3, <3>4 DEF SessionDisk
    <3>6. /\ e \cap {"e1", "e2"} # {} => "closed" \in reported
          /\ "closed" \in reported => ("e0" \in e => "e1" \in e)
      BY <1>1, <3>1 DEF SessionFiles, Session!Chain, Session!EventFiles
    <3>7. place = "named" /\ "closed" \notin reported =>
            Session!Top \subseteq top /\ "e0" \in e /\ "request" \in v
      <4>. SUFFICES ASSUME place = "named", "closed" \notin reported
                    PROVE  Session!Top \subseteq top /\ "e0" \in e /\ "request" \in v
        OBVIOUS
      <4>1. at = "named"
        BY <1>1, <3>4 DEF SessionFiles
      <4>2. WholeSession \subseteq have /\ WholeOnDisk
        BY <1>1, <4>1 DEF SessionFiles
      <4>3. Session!Top \subseteq top
        BY <2>1, <4>2, SessionNames DEF WholeSession, WholeOnDisk
      <4>. QED BY <3>1, <4>2, <4>3, SessionNames
               DEF WholeSession, WholeOnDisk, Session!Chain
    <3>8. "created" \in reported /\ "closed" \notin reported => place = "named"
      BY <1>1, <3>4 DEF SessionFiles
    <3>9. "cleaned" \in reported => "private" \notin top
      BY <1>1, <2>1 DEF SessionFiles
    <3>10. SessionFiles'
      <4>1. have' \cap Session!Payload # {} => "private" \in have'
        BY <3>1, <3>3
      <4>2. /\ (have' \cup disk'.events) \cap {"e1", "e2"} # {} => "closed" \in reported'
            /\ "closed" \in reported' =>
                 /\ "e0" \in have' => "e1" \in have'
                 /\ "e0" \in disk'.events => "e1" \in disk'.events
        BY <1>1, <3>3, <3>5, <3>6, SessionNames
      <4>3. at' = "named" /\ "closed" \notin reported' =>
              WholeSession \subseteq have' /\ WholeOnDisk'
        BY <1>1, <3>1, <3>5, <3>7, SessionNames DEF WholeSession, WholeOnDisk
      <4>4. "cleaned" \in reported' => "private" \notin have' /\ "private" \notin disk'.top
        BY <1>1, <3>3, <3>5, <3>9, SessionNames
      <4>. QED BY <1>1, <2>4, <3>1, <3>5, <3>8, <4>1, <4>2, <4>3, <4>4 DEF SessionFiles
    <3>. QED BY <2>4, <3>1, <3>3, <3>4, <3>5, <3>10
  <2>. QED BY <2>1, <2>3, <2>4
<1>4. \A who \in Processes : SessionKnows(who)'
  BY <1>2, SessionIdle
     DEF SessionKnows, Creates, Owns, Fills, Works, Cleans, Clears, Session!Working, Session!At
<1>5. SessionTyped'
  <2>1. pr' \in [Processes -> SessionRecord]
    BY <1>1, SessionIdle
  <2>. QED BY <1>1, <1>3, <2>1 DEF SessionTyped, SessionRecord, SessionDisk
<1>. QED BY <1>3, <1>4, <1>5 DEF SessionInv

LEMMA SessionBegins == Session!Init => SessionInv
<1> SUFFICES ASSUME Session!Init
             PROVE  SessionInv
  OBVIOUS
<1>1. /\ at = "none" /\ have = {} /\ manager = None /\ flock = None
      /\ pr = [who \in Processes |-> Session!Idle] /\ faults = 0 /\ powers = 0
      /\ reported = {}
  BY DEF Session!Init
<1>2. disk \in SessionDisk /\ disk.at = "none" /\ disk.events = {}
  BY DEF Session!Init, SessionDisk, Session!Places
<1>3. \A who \in Processes : pr[who] = Session!Idle /\ manager # who /\ flock # who
  BY <1>1, SessionAssumption DEF Session!ProcessesAssumption
<1>4. SessionTyped
  <2>1. pr \in [Processes -> SessionRecord] /\ at \in Session!Places
    BY <1>1, SessionIdle DEF Session!Places
  <2>2. faults \in 0..FaultBound /\ powers \in 0..PowerBound
    BY <1>1, SessionAssumption DEF Session!BoundsAssumption
  <2>. QED BY <1>1, <1>2, <2>1, <2>2 DEF SessionTyped, SessionRecord, SessionDisk
<1>5. SessionFiles
  BY <1>1, <1>2, <1>3, SessionIdle DEF SessionFiles
<1>6. \A who \in Processes : SessionKnows(who)
  BY <1>3, SessionIdle
     DEF SessionKnows, Creates, Owns, Fills, Works, Cleans, Clears, Session!Working, Session!At
<1>. QED BY <1>4, <1>5, <1>6 DEF SessionInv

LEMMA SessionStays ==
  ASSUME SessionInv, UNCHANGED sessionVars
  PROVE  SessionInv'
<1>1. SessionTyped' /\ SessionFiles'
  BY DEF SessionInv, sessionVars, SessionTyped, SessionFiles, WholeOnDisk
<1>2. ASSUME NEW who \in Processes
      PROVE  SessionKnows(who)'
  <2>1. UNCHANGED <<at, have, disk, manager, flock, pr, reported>> /\ SessionKnows(who)
    BY DEF SessionInv, sessionVars
  <2>2. /\ Session!Missing' = Session!Missing /\ Session!Chain' = Session!Chain
        /\ Session!Loadable' = Session!Loadable /\ WholeOnDisk' = WholeOnDisk
    BY <2>1 DEF Session!Missing, Session!Chain, Session!Loadable, WholeOnDisk
  <2>3. Creates(who)' /\ Owns(who)'
    BY <2>1 DEF SessionKnows, Creates, Owns, Private
  <2>4. Fills(who)' /\ Works(who)'
    BY <2>1, <2>2
       DEF SessionKnows, Fills, Works, Private, Cleans, Clears, Session!Working, Session!At
  <2>. QED BY <2>3, <2>4 DEF SessionKnows
<1>. QED BY <1>1, <1>2 DEF SessionInv

LEMMA SessionSteps ==
  ASSUME SessionInv, Session!Next
  PROVE  SessionInv'
<1>1. ASSUME NEW who \in Processes, Session!Create(who)
      PROVE  SessionInv'
  BY <1>1, SessionCreatesStaging, SessionFills, SessionRenames, SessionSyncsCreated,
     SessionUnstages DEF Session!Create
<1>2. ASSUME NEW who \in Processes, Session!Maintain(who)
      PROVE  SessionInv'
  BY <1>2, SessionStarts, SessionChecks, SessionLists DEF Session!Maintain
<1>3. ASSUME NEW who \in Processes, Session!Enter(who)
      PROVE  SessionInv'
  BY <1>3, SessionStarts, SessionOpens, SessionOpensPrivate, SessionLocks DEF Session!Enter
<1>4. ASSUME NEW who \in Processes, Session!Work(who)
      PROVE  SessionInv'
  BY <1>4, SessionLoads, SessionCloses, SessionCleansPrivate, SessionRecordsCleanup,
     SessionSyncsCache, SessionLists, SessionGenerates DEF Session!Work
<1>5. ASSUME NEW who \in Processes, Session!Remove(who)
      PROVE  SessionInv'
  BY <1>5, SessionStats, SessionOpens, SessionLocks, SessionChecks, SessionRemoves,
     SessionEndsPrivate, SessionRemovesDirectory DEF Session!Remove
<1>. QED BY <1>1, <1>2, <1>3, <1>4, <1>5, SessionFails, SessionPowerFails
         DEF Session!Next, Session!Step

LEMMA SessionTakesSteps ==
  ASSUME part = "session" => SessionInv, [Next]_vars, part' = "session"
  PROVE  /\ part = "session" /\ SessionInv /\ SessionInv'
         /\ Session!Next \/ UNCHANGED vars
<1>1. CASE Next
  <2>1. part = "session" /\ Session!Next
    BY <1>1 DEF Next, IsSession, IsCandidate, IsRef, IsSandbox, IsHost, IsContainer, IsProcess
  <2>. QED BY <2>1, SessionSteps
<1>2. CASE UNCHANGED vars
  BY <1>2, SessionStays DEF vars, sessionVars
<1>. QED BY <1>1, <1>2

LEMMA SessionInvariant == Spec => [](part = "session" => SessionInv)
<1>1. Init => (part = "session" => SessionInv)
  BY SessionBegins DEF Init
<1>2. (part = "session" => SessionInv) /\ [Next]_vars => (part = "session" => SessionInv)'
  BY SessionTakesSteps
<1>. QED BY <1>1, <1>2, PTL DEF Spec

(* Whatever creations, commands, cleanups and removals do to one session   *)
(* directory side by side, and wherever a process dies, a call fails or    *)
(* the power goes: whoever works on the session has its lock and its name  *)
(* with a whole chain; an open one has all it needs and is durable, a      *)
(* closed one is never loaded as open, and a clean one stays clean.        *)
THEOREM RepairMachineSession == Spec => []SessionIsWhole
<1>1. (part = "session" => SessionInv) => SessionIsWhole
  <2> SUFFICES ASSUME SessionInv
               PROVE  /\ Session!TypeOK
                      /\ Session!HolderSeesWhole /\ Session!StagingIsCreators
                      /\ Session!OpenIsWhole /\ Session!CreatedIsDurable
                      /\ Session!ClosedStaysClosed /\ Session!CleanedStaysClean
    BY DEF SessionIsWhole
  <2>1. SessionTyped /\ SessionFiles /\ \A who \in Processes : SessionKnows(who)
    BY DEF SessionInv
  <2>2. Session!TypeOK
    BY <2>1 DEF Session!TypeOK, SessionTyped, SessionKnows, Owns, Session!At
  <2>3. Session!HolderSeesWhole
    <3> SUFFICES ASSUME NEW who \in Processes, Session!Working(who)
                 PROVE  flock = who /\ at = "named" /\ "lock" \in have /\ Session!Loadable
      BY DEF Session!HolderSeesWhole
    <3>1. at = "named" /\ "lock" \in have /\ flock = who
      BY <2>1 DEF SessionKnows, Owns, Works, Private, Session!Working, Session!At
    <3>2. Session!Loadable
      BY <2>1 DEF SessionKnows, Works, Private, Cleans, Session!Working, Session!At,
         Session!Loadable, Session!Chains
    <3>. QED BY <3>1, <3>2
  <2>4. Session!StagingIsCreators
    BY <2>1 DEF Session!StagingIsCreators, SessionKnows, Fills, Creates, Session!At
  <2>5. Session!OpenIsWhole /\ Session!CreatedIsDurable
    BY <2>1 DEF SessionFiles, WholeSession, Session!OpenIsWhole, Session!CreatedIsDurable
  <2>6. Session!ClosedStaysClosed
    BY <2>1, SessionNames DEF SessionFiles, Session!ClosedStaysClosed, Session!Loadable,
       Session!Chains, Session!Chain, Session!Closed
  <2>7. Session!CleanedStaysClean
    BY <2>1 DEF SessionFiles, Session!CleanedStaysClean
  <2>. QED BY <2>2, <2>3, <2>4, <2>5, <2>6, <2>7
<1>. QED BY <1>1, SessionInvariant, PTL

(* Only the event that closes a session reports it closed.                 *)
LEMMA SessionReports ==
  ASSUME Session!Next
  PROVE  /\ reported \subseteq reported'
         /\ "closed" \in reported' => \/ "closed" \in reported
                                      \/ at' = at /\ have \subseteq have'
<1>1. ASSUME NEW who \in Processes, Session!Create(who) \/ Session!Maintain(who)
      PROVE  reported' \subseteq reported \cup {"created"} /\ reported \subseteq reported'
  BY <1>1 DEF Session!Create, Session!CreateStaging, Session!FillStaging,
     Session!RenameStaging, Session!SyncCreated, Session!Unstage, Session!Maintain,
     Session!StartMaintenance, Session!ClearStaging, Session!ListSessions, Session!Report
<1>2. ASSUME NEW who \in Processes, Session!Enter(who)
      PROVE  reported' \subseteq reported \cup {"missed"} /\ reported \subseteq reported'
  BY <1>2 DEF Session!Enter, Session!StartCommand, Session!OpenSession, Session!OpenEvents,
     Session!OpenPrivate, Session!OpenLock, Session!Flock, Session!RevalidateLockedSession,
     Session!Open, Session!Report
<1>3. ASSUME NEW who \in Processes, Session!Work(who)
      PROVE  \/ /\ reported' \subseteq reported \cup {"cleaned"}
                /\ reported \subseteq reported'
             \/ /\ at' = at /\ have \subseteq have' /\ reported' = reported \cup {"closed"}
  <2>1. CASE Session!CloseSession(who)
    BY <2>1 DEF Session!CloseSession, Session!Report
  <2>2. CASE Session!SyncCache(who)
    BY <2>2 DEF Session!SyncCache, Session!Report
  <2>3. CASE \/ Session!Load(who) \/ Session!CleanPrivate(who) \/ Session!RecordCleanup(who)
             \/ Session!OpenGuard(who) \/ Session!GenerateCandidate(who)
    BY <2>3 DEF Session!Load, Session!CleanPrivate, Session!RecordCleanup, Session!OpenGuard,
       Session!GenerateCandidate
  <2>. QED BY <1>3, <2>1, <2>2, <2>3 DEF Session!Work
<1>4. ASSUME NEW who \in Processes, Session!Remove(who)
      PROVE  reported' \subseteq reported \cup {"removed", "missed"} /\ reported \subseteq reported'
  BY <1>4 DEF Session!Remove, Session!StatSession, Session!OpenLockToRemove,
     Session!FlockToRemove, Session!CheckNamed, Session!RemoveEntry, Session!EndPrivate,
     Session!RemoveDirectory, Session!SyncRemoved, Session!Open, Session!Report
<1>5. ASSUME NEW who \in Processes, Session!Stops(who) \/ Session!CreateFails(who)
      PROVE  reported' = reported
  BY <1>5 DEF Session!Stops, Session!CreateFails
<1>6. CASE Session!PowerFailure
  BY <1>6 DEF Session!PowerFailure
<1>. QED BY <1>1, <1>2, <1>3, <1>4, <1>5, <1>6 DEF Session!Next, Session!Step

(* An open session that was created keeps its name and its events at every *)
(* step; and while the push child of a process holds the lock file of the  *)
(* ref, the session lock keeps everyone else from the ref.                 *)
THEOREM RepairMachineSteps == Spec => StepsRespectOwners
<1>. DEFINE Keeps == (part = "session" /\ at = "named"
                        /\ ~(Session!Chain \subseteq have' /\ at' = "named"))
                       => "closed" \in reported \/ "created" \notin reported
            Alone == \A who \in RefProcesses :
                       (part = "ref" /\ push[who] = "locked" /\ push'[who] = "0") =>
                         \A other \in RefProcesses \ {who} : pc[other] = "idle"
<1>1. ASSUME part = "session" => SessionInv, [Next]_vars
      PROVE  Keeps
  <2> SUFFICES ASSUME part = "session", at = "named", "created" \in reported,
                      "closed" \notin reported
               PROVE  Session!Chain \subseteq have' /\ at' = "named"
    OBVIOUS
  <2>1. CASE UNCHANGED vars
    BY <2>1 DEF vars, sessionVars, Session!Chain
  <2>2. CASE Next
    <3>1. part' = "session" /\ Session!Next
      BY <2>2 DEF Next, IsSession, IsCandidate, IsRef, IsSandbox, IsHost, IsContainer, IsProcess
    <3>2. SessionFiles /\ SessionFiles'
      BY <1>1, <3>1, SessionTakesSteps DEF SessionInv
    <3>3. CASE "closed" \in reported'
      BY <3>1, <3>3, SessionReports DEF Session!Chain
    <3>4. CASE "closed" \notin reported'
      <4>1. at' = "named" /\ "e0" \in have'
        BY <3>1, <3>2, <3>4, SessionReports DEF SessionFiles, WholeSession
      <4>2. Session!Chain \subseteq {"e0"}
        BY <3>2, SessionNames DEF SessionFiles, Session!Chain
      <4>. QED BY <4>1, <4>2
    <3>. QED BY <3>3, <3>4
  <2>. QED BY <1>1, <2>1, <2>2
<1>2. ASSUME part = "ref" => RefInv
      PROVE  Alone
  BY <1>2 DEF RefInv, RefShared, Engaged
<1>3. (part = "session" => SessionInv) /\ (part = "ref" => RefInv) /\ [Next]_vars
        => [Keeps /\ Alone]_vars
  BY <1>1, <1>2
<1>. QED BY <1>3, SessionInvariant, RefInvariant, PTL DEF Spec, StepsRespectOwners
=============================================================================
