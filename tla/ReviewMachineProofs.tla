------------------------- MODULE ReviewMachineProofs -------------------------
(***************************************************************************)
(* Proofs about ReviewMachine.  A behaviour of the machine is about one    *)
(* part and one setting of it from beginning to end, so each part has an   *)
(* inductive invariant of its own, for every setting s that the assumptions *)
(* allow: a step of the machine that a part takes is a step of that part's *)
(* module, and preserves it.                                               *)
(***************************************************************************)
EXTENDS ReviewMachine, Sorting, FiniteSetTheorems, WellFoundedInduction, SequenceTheorems, TLAPS

-----------------------------------------------------------------------------
(* The cache of the embedding model.                                       *)

CacheAssumptions(s) == Caching(s)!CallersAssumption /\ Caching(s)!SizeAssumption

CacheTyped(s) ==
  /\ Caching(s)!TypeOK
  /\ modelLock \in [{s.Process[c] : c \in s.Callers} ->
                      {Caching(s)!None} \cup {<<c>> : c \in s.Callers}]
  /\ stream \in [s.Callers -> Seq(s.Network)]
  /\ copy \in [s.Callers -> [Caching(s)!Items -> [1 .. s.Blocks -> Caching(s)!Kinds]]]

(* Who is inside has the lock, and who has the lock is inside.             *)
Inside(s) == Caching(s)!Held \cup {"cleanup"}
LockIsHeld(s) ==
  /\ \A c \in s.Callers : pc[c] \in Inside(s) => modelLock[s.Process[c]] = <<c>>
  /\ \A c \in s.Callers, p \in DOMAIN modelLock :
       modelLock[p] = <<c>> => pc[c] \in Inside(s) /\ s.Process[c] = p

(* The snapshot is exact as far as it has been copied, and a model is      *)
(* loaded from a whole one only.                                           *)
Loading == {"device", "tokenizer", "embedding", "check", "bind"}
Exact(s, c, files) == \A f \in files : copy[c][f] = Caching(s)!Right
LoadsExact(s, c) ==
  /\ pc[c] = "copy" => Exact(s, c, 1 .. at[c] - 1)
  /\ pc[c] \in Loading => Exact(s, c, Caching(s)!Items)
  /\ native[c] => pc[c] \in {"check", "bind", "cleanup", "ended"}
                  /\ Exact(s, c, Caching(s)!Items)
  /\ pc[c] \in {"check", "bind"} => native[c]
  /\ backend[c] = "live" => pc[c] \in {"ended", "dead"} /\ Exact(s, c, Caching(s)!Items)
  /\ pc[c] = "ended" => (native[c] <=> backend[c] = "live")
  /\ backend[c] = "live" => ~snapshot[c]
CopyIsExact(s) == \A c \in s.Callers : LoadsExact(s, c)

CacheInv(s) == CacheTyped(s) /\ LockIsHeld(s) /\ CopyIsExact(s)

LEMMA CacheStarts ==
  ASSUME NEW s, CacheAssumptions(s), Caching(s)!Init
  PROVE  CacheInv(s)
<1>. USE DEF Caching!Init, Caching!Items, Caching!Inodes, Caching!None
<1>1. s.Files \in Nat \ {0} /\ s.Blocks \in Nat \ {0} /\ s.Network \subseteq {"good", "bad"}
  BY DEF CacheAssumptions, Caching!SizeAssumption
<1>2. Caching(s)!Empty \in [1 .. s.Blocks -> Caching(s)!Kinds]
  BY DEF Caching!Empty, Caching!Kinds
<1>3. stream \in [s.Callers -> Seq(s.Network)] /\ \A c \in s.Callers : Len(stream[c]) = 0
  OBVIOUS
<1>4. Caching(s)!TypeOK
  BY <1>1, <1>2, <1>3 DEF Caching!TypeOK, Caching!Directories, Caching!NoDirectory,
     Caching!Points, Caching!Idle
<1>5. CacheTyped(s)
  BY <1>2, <1>3, <1>4 DEF CacheTyped
<1>6. LockIsHeld(s)
  BY DEF LockIsHeld, Inside, Caching!Held
<1>7. CopyIsExact(s)
  BY DEF CopyIsExact, LoadsExact, Loading
<1>. QED  BY <1>5, <1>6, <1>7 DEF CacheInv

LEMMA CacheTypes ==
  ASSUME NEW s, CacheAssumptions(s), CacheInv(s), Caching(s)!Next
  PROVE  CacheTyped(s)'
<1>. USE DEF CacheTyped, Caching!TypeOK, Caching!Goto, Caching!At, Caching!KeepStore, Caching!KeepLoad, Caching!KeepDownload, Caching!KeepLock, Caching!store, Caching!None, Caching!Points, Caching!Held, Caching!Idle, Caching!Items, Caching!Inodes, Caching!Kinds
<1>1. s.Files \in Nat \ {0} /\ s.Blocks \in Nat \ {0} /\ s.Network \subseteq {"good", "bad"}
  BY DEF CacheAssumptions, Caching!SizeAssumption
<1>2. CacheTyped(s) /\ LockIsHeld(s) /\ CopyIsExact(s)
  BY DEF CacheInv
<1>3. ASSUME NEW c \in s.Callers, Caching(s)!Start(c)
      PROVE  CacheTyped(s)'
  BY <1>1, <1>2, <1>3 DEF Caching!Start
<1>4. ASSUME NEW c \in s.Callers, Caching(s)!Lock(c)
      PROVE  CacheTyped(s)'
  BY <1>1, <1>2, <1>4 DEF Caching!Lock
<1>5. ASSUME NEW c \in s.Callers, Caching(s)!LockTimesOut(c)
      PROVE  CacheTyped(s)'
  BY <1>1, <1>2, <1>5 DEF Caching!LockTimesOut
<1>6. ASSUME NEW c \in s.Callers, Caching(s)!Fail(c)
      PROVE  CacheTyped(s)'
  BY <1>1, <1>2, <1>6 DEF Caching!Fail
<1>7. ASSUME NEW c \in s.Callers, Caching(s)!Look(c)
      PROVE  CacheTyped(s)'
  BY <1>1, <1>2, <1>7 DEF Caching!Look
<1>8. ASSUME NEW c \in s.Callers, Caching(s)!VerifyModel(c)
      PROVE  CacheTyped(s)'
  BY <1>1, <1>2, <1>8 DEF Caching!VerifyModel
<1>9. ASSUME NEW c \in s.Callers, Caching(s)!Ensure(c)
      PROVE  CacheTyped(s)'
  BY <1>1, <1>2, <1>9 DEF Caching!Ensure
<1>10. ASSUME NEW c \in s.Callers, Caching(s)!Make(c)
      PROVE  CacheTyped(s)'
  <2>1. partial \in Caching(s)!Directories
    BY <1>1, <1>2
  <2>2. CASE partial.made
    BY <1>1, <1>2, <1>10, <2>2 DEF Caching!Make
  <2>3. CASE ~partial.made
    <3>1. partial' = [made |-> TRUE, has |-> [f \in Caching(s)!Items |-> <<>>]]
      BY <1>10, <2>3 DEF Caching!Make, Caching!NoDirectory
    <3>2. partial' \in Caching(s)!Directories
      BY <3>1 DEF Caching!Directories
    <3>. QED  BY <1>1, <1>2, <1>10, <2>3, <3>2 DEF Caching!Make
  <2>. QED  BY <2>2, <2>3
<1>11. ASSUME NEW c \in s.Callers, Caching(s)!Item(c)
      PROVE  CacheTyped(s)'
  BY <1>1, <1>2, <1>11 DEF Caching!Item
<1>12. ASSUME NEW c \in s.Callers, Caching(s)!VerifyFile(c)
      PROVE  CacheTyped(s)'
  <2>1. pc \in [s.Callers -> Caching(s)!Points] /\ at \in [s.Callers -> Caching(s)!Items]
    BY <1>1, <1>2
  <2>2. CASE Caching(s)!NextFile(c)
    <3>0. at[c] \in 1 .. s.Files /\ (at[c] # s.Files => at[c] + 1 \in 1 .. s.Files) /\ 1 \in 1 .. s.Files
      BY <1>1, <2>1
    <3>1. at' \in [s.Callers -> Caching(s)!Items]
      BY <2>1, <2>2, <3>0 DEF Caching!NextFile
    <3>2. pc' \in [s.Callers -> Caching(s)!Points] /\ pc'[c] \in {"verify_partial", "item"}
          /\ \A d \in s.Callers \ {c} : pc'[d] = pc[d]
      BY <2>1, <2>2 DEF Caching!NextFile
    <3>. QED  BY <1>1, <1>2, <1>12, <3>1, <3>2 DEF Caching!VerifyFile
  <2>3. CASE ~Caching(s)!NextFile(c)
    BY <1>1, <1>2, <1>12, <2>3 DEF Caching!VerifyFile
  <2>. QED  BY <2>2, <2>3
<1>13. ASSUME NEW c \in s.Callers, Caching(s)!Open(c)
      PROVE  CacheTyped(s)'
  <2>1. PICK inode : /\ inode = (IF temp[at[c]] = Caching(s)!None THEN <<c, at[c]>> ELSE temp[at[c]])
                     /\ temp' = [temp EXCEPT ![at[c]] = inode]
                     /\ content' = [content EXCEPT ![inode] = Caching(s)!Empty]
                     /\ handle' = [handle EXCEPT ![c] = inode]
    BY <1>13 DEF Caching!Open
  <2>2. /\ at[c] \in Caching(s)!Items /\ temp \in [Caching(s)!Items -> Caching(s)!Inodes \cup {<<>>}]
        /\ content \in [Caching(s)!Inodes -> [1 .. s.Blocks -> Caching(s)!Kinds]]
        /\ handle \in [s.Callers -> Caching(s)!Inodes \cup {<<>>}]
    BY <1>1, <1>2
  <2>3. inode \in Caching(s)!Inodes /\ inode # <<>>
    BY <2>1, <2>2
  <2>4. Caching(s)!Empty \in [1 .. s.Blocks -> Caching(s)!Kinds]
    BY DEF Caching!Empty
  <2>5. /\ temp' \in [Caching(s)!Items -> Caching(s)!Inodes \cup {<<>>}]
        /\ content' \in [Caching(s)!Inodes -> [1 .. s.Blocks -> Caching(s)!Kinds]]
        /\ handle' \in [s.Callers -> Caching(s)!Inodes \cup {<<>>}]
        /\ handle'[c] # <<>> /\ \A d \in s.Callers \ {c} : handle'[d] = handle[d]
    BY <2>1, <2>2, <2>3, <2>4
  <2>6. stream' \in [s.Callers -> Seq(s.Network)] /\ \A d \in s.Callers : Len(stream'[d]) <= s.Blocks
    <3>1. stream' = [stream EXCEPT ![c] = <<>>] /\ stream \in [s.Callers -> Seq(s.Network)]
          /\ \A d \in s.Callers : Len(stream[d]) <= s.Blocks
      BY <1>1, <1>2, <1>13 DEF Caching!Open
    <3>. QED  BY <1>1, <3>1
  <2>. QED  BY <1>1, <1>2, <1>13, <2>5, <2>6 DEF Caching!Open
<1>14. ASSUME NEW c \in s.Callers, Caching(s)!Read(c)
      PROVE  CacheTyped(s)'
  <2>1. PICK block \in s.Network : stream' = [stream EXCEPT ![c] = Append(@, block)]
                                   /\ content' = [content EXCEPT ![handle[c]][Len(stream[c]) + 1] = block]
    BY <1>14 DEF Caching!Read
  <2>2. /\ stream[c] \in Seq(s.Network) /\ Len(stream[c]) \in Nat /\ Len(stream[c]) < s.Blocks
        /\ handle[c] \in Caching(s)!Inodes
    BY <1>1, <1>2, <1>14, LenProperties DEF Caching!Read
  <2>3. /\ Append(stream[c], block) \in Seq(s.Network)
        /\ Len(Append(stream[c], block)) = Len(stream[c]) + 1
    <3>1. \A q \in Seq(s.Network) : Append(q, block) \in Seq(s.Network) /\ Len(Append(q, block)) = Len(q) + 1
      BY <2>1, AppendProperties
    <3>. QED  BY <2>2, <3>1
  <2>4. stream' \in [s.Callers -> Seq(s.Network)] /\ \A d \in s.Callers : Len(stream'[d]) <= s.Blocks
    BY <1>1, <1>2, <2>1, <2>2, <2>3
  <2>5. content' \in [Caching(s)!Inodes -> [1 .. s.Blocks -> Caching(s)!Kinds]]
    BY <1>1, <1>2, <2>1, <2>2
  <2>. QED  BY <1>1, <1>2, <1>14, <2>4, <2>5 DEF Caching!Read
<1>15. ASSUME NEW c \in s.Callers, Caching(s)!Close(c)
      PROVE  CacheTyped(s)'
  BY <1>1, <1>2, <1>15 DEF Caching!Close
<1>16. ASSUME NEW c \in s.Callers, Caching(s)!Replace(c)
      PROVE  CacheTyped(s)'
  <2>1. /\ partial \in Caching(s)!Directories /\ temp \in [Caching(s)!Items -> Caching(s)!Inodes \cup {<<>>}]
        /\ at[c] \in Caching(s)!Items
    BY <1>1, <1>2
  <2>2. CASE temp[at[c]] # Caching(s)!None /\ partial.made
    <3>1. partial' = [partial EXCEPT !.has = [partial.has EXCEPT ![at[c]] = temp[at[c]]]]
      BY <1>16, <2>2 DEF Caching!Replace
    <3>2. partial' \in Caching(s)!Directories
      BY <2>1, <3>1 DEF Caching!Directories
    <3>3. /\ temp' = [temp EXCEPT ![at[c]] = <<>>]
          /\ pc' = [pc EXCEPT ![c] = "verify_file"]
          /\ UNCHANGED <<at, content, model, stream, handle, copy, snapshot, native, backend, modelLock>>
      BY <1>16, <2>2 DEF Caching!Replace
    <3>4. temp' \in [Caching(s)!Items -> Caching(s)!Inodes \cup {<<>>}]
      BY <2>1, <3>3
    <3>5. pc' \in [s.Callers -> Caching(s)!Points] /\ \A d \in s.Callers : pc'[d] = "read" => pc[d] = "read"
      BY <1>2, <3>3
    <3>. QED  BY <1>2, <3>2, <3>3, <3>4, <3>5
  <2>3. CASE ~(temp[at[c]] # Caching(s)!None /\ partial.made)
    BY <1>1, <1>2, <1>16, <2>3 DEF Caching!Replace
  <2>. QED  BY <2>2, <2>3
<1>17. ASSUME NEW c \in s.Callers, Caching(s)!VerifyPartial(c)
      PROVE  CacheTyped(s)'
  BY <1>1, <1>2, <1>17 DEF Caching!VerifyPartial
<1>18. ASSUME NEW c \in s.Callers, Caching(s)!Rename(c)
      PROVE  CacheTyped(s)'
  <2>1. partial \in Caching(s)!Directories /\ model \in Caching(s)!Directories
    BY <1>1, <1>2
  <2>2. Caching(s)!NoDirectory \in Caching(s)!Directories
    BY DEF Caching!Directories, Caching!NoDirectory
  <2>3. partial' \in Caching(s)!Directories /\ model' \in Caching(s)!Directories
    BY <2>1, <2>2, <1>18 DEF Caching!Rename
  <2>4. pc \in [s.Callers -> Caching(s)!Points]
    BY <1>1, <1>2
  <2>5. pc' \in [s.Callers -> Caching(s)!Points] /\ pc'[c] \in {"cleanup", "verify_model"}
        /\ \A d \in s.Callers \ {c} : pc'[d] = pc[d]
    BY <2>4, <1>18 DEF Caching!Rename
  <2>. QED  BY <1>1, <1>2, <1>18, <2>3, <2>5 DEF Caching!Rename
<1>19. ASSUME NEW c \in s.Callers, Caching(s)!Snapshot(c)
      PROVE  CacheTyped(s)'
  BY <1>1, <1>2, <1>19 DEF Caching!Snapshot
<1>20. ASSUME NEW c \in s.Callers, Caching(s)!Copy(c)
      PROVE  CacheTyped(s)'
  <2>1. CASE Caching(s)!Copied(c)
    <3>1. /\ at \in [s.Callers -> Caching(s)!Items] /\ at[c] \in Caching(s)!Items
          /\ pc \in [s.Callers -> Caching(s)!Points] /\ pc[c] = "copy"
          /\ copy \in [s.Callers -> [Caching(s)!Items -> [1 .. s.Blocks -> Caching(s)!Kinds]]]
      BY <1>1, <1>2, <1>20 DEF Caching!Copy
    <3>2. content[model.has[at[c]]] \in [1 .. s.Blocks -> Caching(s)!Kinds]
      BY <2>1 DEF Caching!Copied, Caching!Right
    <3>3. copy' = [copy EXCEPT ![c] = [copy[c] EXCEPT ![at[c]] = content[model.has[at[c]]]]]
      BY <2>1, <1>20 DEF Caching!Copy
    <3>4. copy' \in [s.Callers -> [Caching(s)!Items -> [1 .. s.Blocks -> Caching(s)!Kinds]]]
      BY <3>1, <3>2, <3>3
    <3>7. at[c] # s.Files => at[c] + 1 \in 1 .. s.Files
      BY <1>1, <3>1
    <3>5. at' \in [s.Callers -> Caching(s)!Items]
      BY <2>1, <1>20, <3>1, <3>7 DEF Caching!Copy
    <3>6. pc' \in [s.Callers -> Caching(s)!Points] /\ pc'[c] # "read"
          /\ \A d \in s.Callers \ {c} : pc'[d] = pc[d]
      BY <2>1, <1>20, <3>1 DEF Caching!Copy
    <3>. QED  BY <1>1, <1>2, <1>20, <3>4, <3>5, <3>6 DEF Caching!Copy
  <2>2. CASE ~Caching(s)!Copied(c)
    BY <1>1, <1>2, <1>20, <2>2 DEF Caching!Copy
  <2>. QED  BY <2>1, <2>2
<1>21. ASSUME NEW c \in s.Callers, Caching(s)!Load(c)
      PROVE  CacheTyped(s)'
  BY <1>1, <1>2, <1>21 DEF Caching!Load
<1>22. ASSUME NEW c \in s.Callers, Caching(s)!Cleanup(c)
      PROVE  CacheTyped(s)'
  <2>1. snapshot' \in [s.Callers -> BOOLEAN]
    <3>1. snapshot \in [s.Callers -> BOOLEAN]
      BY <1>2
    <3>2. CASE snapshot' = snapshot
      BY <3>1, <3>2
    <3>3. CASE snapshot' = [snapshot EXCEPT ![c] = FALSE]
      BY <3>1, <3>3
    <3>. QED  BY <1>22, <3>2, <3>3 DEF Caching!Cleanup
  <2>2. modelLock' = [modelLock EXCEPT ![s.Process[c]] = <<>>]
        /\ native' = [native EXCEPT ![c] = FALSE]
        /\ backend' = [backend EXCEPT ![c] = "closed"]
        /\ handle' = [handle EXCEPT ![c] = <<>>]
        /\ pc' = [pc EXCEPT ![c] = "ended"]
        /\ UNCHANGED <<at, copy, stream, content, temp, partial, model>>
    BY <1>22 DEF Caching!Cleanup, Caching!Unlocked
  <2>. QED  BY <1>1, <1>2, <2>1, <2>2
<1>23. ASSUME NEW c \in s.Callers, Caching(s)!Bind(c)
      PROVE  CacheTyped(s)'
  BY <1>1, <1>2, <1>23 DEF Caching!Bind, Caching!Unlocked
<1>24. ASSUME NEW p \in DOMAIN modelLock, Caching(s)!Crash(p)
      PROVE  CacheTyped(s)'
  BY <1>1, <1>2, <1>24 DEF Caching!Crash
<1>. QED
  BY <1>3, <1>4, <1>5, <1>6, <1>7, <1>8, <1>9, <1>10, <1>11, <1>12, <1>13, <1>14, <1>15, <1>16, <1>17, <1>18, <1>19, <1>20, <1>21, <1>22, <1>23, <1>24 DEF Caching!Next, Caching!Step

LEMMA LockHolds ==
  ASSUME NEW s, CacheAssumptions(s), CacheInv(s), Caching(s)!Next
  PROVE  LockIsHeld(s)'
<1>. USE DEF LockIsHeld, Inside, Caching!Goto, Caching!At, Caching!KeepStore, Caching!KeepLoad, Caching!KeepDownload, Caching!KeepLock, Caching!store, Caching!None, Caching!Points, Caching!Held, Caching!Idle
<1>1. LockIsHeld(s) /\ pc \in [s.Callers -> Caching(s)!Points]
  BY DEF CacheInv, CacheTyped, Caching!TypeOK
<1>2. /\ DOMAIN modelLock = {s.Process[c] : c \in s.Callers}
      /\ modelLock = [p \in DOMAIN modelLock |-> modelLock[p]]
  BY DEF CacheInv, CacheTyped
<1>3. ASSUME NEW c \in s.Callers, Caching(s)!Start(c)
      PROVE  LockIsHeld(s)'
  BY <1>1, <1>2, <1>3 DEF Caching!Start
<1>4. ASSUME NEW c \in s.Callers, Caching(s)!Lock(c)
      PROVE  LockIsHeld(s)'
  BY <1>1, <1>2, <1>4 DEF Caching!Lock
<1>5. ASSUME NEW c \in s.Callers, Caching(s)!LockTimesOut(c)
      PROVE  LockIsHeld(s)'
  BY <1>1, <1>2, <1>5 DEF Caching!LockTimesOut
<1>6. ASSUME NEW c \in s.Callers, Caching(s)!Fail(c)
      PROVE  LockIsHeld(s)'
  BY <1>1, <1>2, <1>6 DEF Caching!Fail
<1>7. ASSUME NEW c \in s.Callers, Caching(s)!Look(c)
      PROVE  LockIsHeld(s)'
  BY <1>1, <1>2, <1>7 DEF Caching!Look
<1>8. ASSUME NEW c \in s.Callers, Caching(s)!VerifyModel(c)
      PROVE  LockIsHeld(s)'
  BY <1>1, <1>2, <1>8 DEF Caching!VerifyModel
<1>9. ASSUME NEW c \in s.Callers, Caching(s)!Ensure(c)
      PROVE  LockIsHeld(s)'
  BY <1>1, <1>2, <1>9 DEF Caching!Ensure
<1>10. ASSUME NEW c \in s.Callers, Caching(s)!Make(c)
      PROVE  LockIsHeld(s)'
  BY <1>1, <1>2, <1>10 DEF Caching!Make
<1>11. ASSUME NEW c \in s.Callers, Caching(s)!Item(c)
      PROVE  LockIsHeld(s)'
  BY <1>1, <1>2, <1>11 DEF Caching!Item
<1>12. ASSUME NEW c \in s.Callers, Caching(s)!VerifyFile(c)
      PROVE  LockIsHeld(s)'
  BY <1>1, <1>2, <1>12 DEF Caching!VerifyFile, Caching!NextFile
<1>13. ASSUME NEW c \in s.Callers, Caching(s)!Open(c)
      PROVE  LockIsHeld(s)'
  BY <1>1, <1>2, <1>13 DEF Caching!Open, Caching!Empty
<1>14. ASSUME NEW c \in s.Callers, Caching(s)!Read(c)
      PROVE  LockIsHeld(s)'
  BY <1>1, <1>2, <1>14 DEF Caching!Read
<1>15. ASSUME NEW c \in s.Callers, Caching(s)!Close(c)
      PROVE  LockIsHeld(s)'
  BY <1>1, <1>2, <1>15 DEF Caching!Close
<1>16. ASSUME NEW c \in s.Callers, Caching(s)!Replace(c)
      PROVE  LockIsHeld(s)'
  BY <1>1, <1>2, <1>16 DEF Caching!Replace
<1>17. ASSUME NEW c \in s.Callers, Caching(s)!VerifyPartial(c)
      PROVE  LockIsHeld(s)'
  BY <1>1, <1>2, <1>17 DEF Caching!VerifyPartial
<1>18. ASSUME NEW c \in s.Callers, Caching(s)!Rename(c)
      PROVE  LockIsHeld(s)'
  BY <1>1, <1>2, <1>18 DEF Caching!Rename
<1>19. ASSUME NEW c \in s.Callers, Caching(s)!Snapshot(c)
      PROVE  LockIsHeld(s)'
  BY <1>1, <1>2, <1>19 DEF Caching!Snapshot
<1>20. ASSUME NEW c \in s.Callers, Caching(s)!Copy(c)
      PROVE  LockIsHeld(s)'
  BY <1>1, <1>2, <1>20 DEF Caching!Copy, Caching!Copied
<1>21. ASSUME NEW c \in s.Callers, Caching(s)!Load(c)
      PROVE  LockIsHeld(s)'
  BY <1>1, <1>2, <1>21 DEF Caching!Load
<1>22. ASSUME NEW c \in s.Callers, Caching(s)!Cleanup(c)
      PROVE  LockIsHeld(s)'
  <2>1. /\ pc[c] \in Inside(s) /\ modelLock[s.Process[c]] = <<c>>
        /\ modelLock' = [modelLock EXCEPT ![s.Process[c]] = <<>>]
        /\ pc' = [pc EXCEPT ![c] = "ended"]
    BY <1>1, <1>2, <1>22 DEF Caching!Cleanup, Caching!Unlocked
  <2>2. \A d \in s.Callers : pc'[d] \in Inside(s) => d # c /\ pc[d] \in Inside(s)
    BY <1>1, <1>2, <2>1
  <2>3. \A d \in s.Callers : d # c /\ pc[d] \in Inside(s) =>
          /\ modelLock[s.Process[d]] = <<d>> /\ s.Process[d] # s.Process[c]
          /\ modelLock'[s.Process[d]] = <<d>>
    BY <1>1, <1>2, <2>1
  <2>5. ASSUME NEW d \in s.Callers, NEW p \in DOMAIN modelLock', modelLock'[p] = <<d>>
        PROVE  pc'[d] \in Inside(s) /\ s.Process[d] = p
    <3>1. <<>> # <<d>>
      OBVIOUS
    <3>2. p \in DOMAIN modelLock /\ s.Process[c] \in DOMAIN modelLock
      BY <1>2, <2>1
    <3>3. p # s.Process[c]
      BY <2>1, <2>5, <3>1, <3>2
    <3>4. modelLock[p] = <<d>>
      BY <2>1, <2>5, <3>2, <3>3
    <3>5. pc[d] \in Inside(s) /\ s.Process[d] = p
      BY <1>1, <3>2, <3>4
    <3>6. pc'[d] = pc[d]
      BY <1>1, <2>1, <3>3, <3>5
    <3>. QED  BY <3>5, <3>6
  <2>. QED  BY <2>2, <2>3, <2>5
<1>23. ASSUME NEW c \in s.Callers, Caching(s)!Bind(c)
      PROVE  LockIsHeld(s)'
  <2>1. /\ pc[c] \in Inside(s) /\ modelLock[s.Process[c]] = <<c>>
        /\ modelLock' = [modelLock EXCEPT ![s.Process[c]] = <<>>]
        /\ pc' = [pc EXCEPT ![c] = "ended"]
    BY <1>1, <1>2, <1>23 DEF Caching!Bind, Caching!Unlocked
  <2>2. \A d \in s.Callers : pc'[d] \in Inside(s) => d # c /\ pc[d] \in Inside(s)
    BY <1>1, <1>2, <2>1
  <2>3. \A d \in s.Callers : d # c /\ pc[d] \in Inside(s) =>
          /\ modelLock[s.Process[d]] = <<d>> /\ s.Process[d] # s.Process[c]
          /\ modelLock'[s.Process[d]] = <<d>>
    BY <1>1, <1>2, <2>1
  <2>5. ASSUME NEW d \in s.Callers, NEW p \in DOMAIN modelLock', modelLock'[p] = <<d>>
        PROVE  pc'[d] \in Inside(s) /\ s.Process[d] = p
    <3>1. <<>> # <<d>>
      OBVIOUS
    <3>2. p \in DOMAIN modelLock /\ s.Process[c] \in DOMAIN modelLock
      BY <1>2, <2>1
    <3>3. p # s.Process[c]
      BY <2>1, <2>5, <3>1, <3>2
    <3>4. modelLock[p] = <<d>>
      BY <2>1, <2>5, <3>2, <3>3
    <3>5. pc[d] \in Inside(s) /\ s.Process[d] = p
      BY <1>1, <3>2, <3>4
    <3>6. pc'[d] = pc[d]
      BY <1>1, <2>1, <3>3, <3>5
    <3>. QED  BY <3>5, <3>6
  <2>. QED  BY <2>2, <2>3, <2>5
<1>24. ASSUME NEW p \in DOMAIN modelLock, Caching(s)!Crash(p)
      PROVE  LockIsHeld(s)'
  <2>1. /\ pc' = [c \in s.Callers |-> IF s.Process[c] = p THEN "dead" ELSE pc[c]]
        /\ modelLock' = [modelLock EXCEPT ![p] = <<>>]
    BY <1>24 DEF Caching!Crash
  <2>2. \A c \in s.Callers : pc'[c] \in Inside(s) => s.Process[c] # p /\ pc[c] \in Inside(s)
    BY <2>1
  <2>3. \A c \in s.Callers : pc'[c] \in Inside(s) => modelLock'[s.Process[c]] = <<c>>
    BY <1>1, <1>2, <2>1, <2>2
  <2>4. ASSUME NEW d \in s.Callers, NEW q \in DOMAIN modelLock', modelLock'[q] = <<d>>
        PROVE  pc'[d] \in Inside(s) /\ s.Process[d] = q
    <3>1. <<>> # <<d>>
      OBVIOUS
    <3>2. q \in DOMAIN modelLock /\ q # p
      BY <1>2, <2>1, <2>4, <3>1
    <3>3. modelLock[q] = <<d>>
      BY <2>1, <2>4, <3>2
    <3>. QED  BY <1>1, <2>1, <3>2, <3>3
  <2>. QED  BY <2>3, <2>4
<1>. QED
  BY <1>3, <1>4, <1>5, <1>6, <1>7, <1>8, <1>9, <1>10, <1>11, <1>12, <1>13, <1>14, <1>15, <1>16, <1>17, <1>18, <1>19, <1>20, <1>21, <1>22, <1>23, <1>24 DEF Caching!Next, Caching!Step

LEMMA CopyHolds ==
  ASSUME NEW s, CacheAssumptions(s), CacheInv(s), Caching(s)!Next
  PROVE  CopyIsExact(s)'
<1>. USE DEF CopyIsExact, LoadsExact, Exact, Loading, Caching!Items, Caching!Goto, Caching!At, Caching!KeepStore, Caching!KeepLoad, Caching!KeepDownload, Caching!KeepLock, Caching!store, Caching!None, Caching!Points, Caching!Held, Caching!Idle
<1>1. CopyIsExact(s) /\ pc \in [s.Callers -> Caching(s)!Points]
  BY DEF CacheInv, CacheTyped, Caching!TypeOK
<1>2. /\ copy \in [s.Callers -> [Caching(s)!Items -> [1 .. s.Blocks -> Caching(s)!Kinds]]]
      /\ at \in [s.Callers -> 1 .. s.Files] /\ {snapshot, native} \subseteq [s.Callers -> BOOLEAN]
      /\ backend \in [s.Callers -> {"unbound", "live", "closed"}]
  BY DEF CacheInv, CacheTyped, Caching!TypeOK, Caching!Items
<1>3. s.Files \in Nat \ {0} /\ s.Blocks \in Nat \ {0} /\ s.Network \subseteq {"good", "bad"}
  BY DEF CacheAssumptions, Caching!SizeAssumption
<1>4. ASSUME NEW c \in s.Callers, Caching(s)!Start(c)
      PROVE  CopyIsExact(s)'
  BY <1>1, <1>2, <1>3, <1>4 DEF Caching!Start
<1>5. ASSUME NEW c \in s.Callers, Caching(s)!Lock(c)
      PROVE  CopyIsExact(s)'
  BY <1>1, <1>2, <1>3, <1>5 DEF Caching!Lock
<1>6. ASSUME NEW c \in s.Callers, Caching(s)!LockTimesOut(c)
      PROVE  CopyIsExact(s)'
  BY <1>1, <1>2, <1>3, <1>6 DEF Caching!LockTimesOut
<1>7. ASSUME NEW c \in s.Callers, Caching(s)!Fail(c)
      PROVE  CopyIsExact(s)'
  BY <1>1, <1>2, <1>3, <1>7 DEF Caching!Fail
<1>8. ASSUME NEW c \in s.Callers, Caching(s)!Look(c)
      PROVE  CopyIsExact(s)'
  BY <1>1, <1>2, <1>3, <1>8 DEF Caching!Look
<1>9. ASSUME NEW c \in s.Callers, Caching(s)!VerifyModel(c)
      PROVE  CopyIsExact(s)'
  BY <1>1, <1>2, <1>3, <1>9 DEF Caching!VerifyModel
<1>10. ASSUME NEW c \in s.Callers, Caching(s)!Ensure(c)
      PROVE  CopyIsExact(s)'
  BY <1>1, <1>2, <1>3, <1>10 DEF Caching!Ensure
<1>11. ASSUME NEW c \in s.Callers, Caching(s)!Make(c)
      PROVE  CopyIsExact(s)'
  BY <1>1, <1>2, <1>3, <1>11 DEF Caching!Make
<1>12. ASSUME NEW c \in s.Callers, Caching(s)!Item(c)
      PROVE  CopyIsExact(s)'
  BY <1>1, <1>2, <1>3, <1>12 DEF Caching!Item
<1>13. ASSUME NEW c \in s.Callers, Caching(s)!VerifyFile(c)
      PROVE  CopyIsExact(s)'
  BY <1>1, <1>2, <1>3, <1>13 DEF Caching!VerifyFile, Caching!NextFile
<1>14. ASSUME NEW c \in s.Callers, Caching(s)!Open(c)
      PROVE  CopyIsExact(s)'
  BY <1>1, <1>2, <1>3, <1>14 DEF Caching!Open, Caching!Empty
<1>15. ASSUME NEW c \in s.Callers, Caching(s)!Read(c)
      PROVE  CopyIsExact(s)'
  BY <1>1, <1>2, <1>3, <1>15 DEF Caching!Read
<1>16. ASSUME NEW c \in s.Callers, Caching(s)!Close(c)
      PROVE  CopyIsExact(s)'
  BY <1>1, <1>2, <1>3, <1>16 DEF Caching!Close
<1>17. ASSUME NEW c \in s.Callers, Caching(s)!Replace(c)
      PROVE  CopyIsExact(s)'
  <2>1. /\ UNCHANGED <<copy, native, backend, snapshot, at>>
        /\ pc' \in {[pc EXCEPT ![c] = "cleanup"], [pc EXCEPT ![c] = "verify_file"]}
        /\ pc[c] = "replace"
    BY <1>17 DEF Caching!Replace
  <2>. QED  BY <1>1, <1>2, <1>3, <2>1
<1>18. ASSUME NEW c \in s.Callers, Caching(s)!VerifyPartial(c)
      PROVE  CopyIsExact(s)'
  BY <1>1, <1>2, <1>3, <1>18 DEF Caching!VerifyPartial
<1>19. ASSUME NEW c \in s.Callers, Caching(s)!Rename(c)
      PROVE  CopyIsExact(s)'
  <2>1. /\ UNCHANGED <<copy, native, backend, snapshot, at>>
        /\ pc' \in {[pc EXCEPT ![c] = "cleanup"], [pc EXCEPT ![c] = "verify_model"]}
        /\ pc[c] = "rename"
    BY <1>19 DEF Caching!Rename
  <2>. QED  BY <1>1, <1>2, <1>3, <2>1
<1>20. ASSUME NEW c \in s.Callers, Caching(s)!Snapshot(c)
      PROVE  CopyIsExact(s)'
  <2>1. \A d \in s.Callers \ {c} : LoadsExact(s, d)'
    BY <1>1, <1>2, <1>3, <1>20 DEF Caching!Snapshot
  <2>2. LoadsExact(s, c)'
    <3>2. /\ pc[c] = "snapshot" /\ pc' = [pc EXCEPT ![c] = "copy"] /\ at' = [at EXCEPT ![c] = 1]
          /\ UNCHANGED <<copy, native, backend>>
      BY <1>20 DEF Caching!Snapshot
    <3>1. LoadsExact(s, c) /\ pc[c] = "snapshot" /\ pc'[c] = "copy" /\ at'[c] = 1
          /\ native'[c] = native[c] /\ backend'[c] = backend[c]
      <4>1. LoadsExact(s, c)
        BY <1>1
      <4>. QED  BY <1>1, <1>2, <3>2, <4>1
    <3>. QED  BY <3>1
  <2>. QED  BY <2>1, <2>2
<1>21. ASSUME NEW c \in s.Callers, Caching(s)!Copy(c)
      PROVE  CopyIsExact(s)'
  <2>1. \A d \in s.Callers \ {c} : LoadsExact(s, d)'
    BY <1>1, <1>2, <1>3, <1>21 DEF Caching!Copy, Caching!Copied
  <2>2. LoadsExact(s, c)'
    <3>1. LoadsExact(s, c) /\ pc[c] = "copy" /\ at[c] \in 1 .. s.Files
          /\ native'[c] = native[c] /\ backend'[c] = backend[c]
      BY <1>1, <1>2, <1>3, <1>21 DEF Caching!Copy, Caching!Copied
    <3>2. ~native[c] /\ backend[c] # "live"
      BY <3>1
    <3>3. CASE Caching(s)!Copied(c)
      <4>0. copy' = [copy EXCEPT ![c][at[c]] = Caching(s)!Right]
        BY <1>21, <3>3 DEF Caching!Copy, Caching!Copied
      <4>1. /\ copy'[c] = [copy[c] EXCEPT ![at[c]] = Caching(s)!Right]
            /\ DOMAIN copy[c] = 1 .. s.Files
        BY <1>2, <4>0
      <4>2. ASSUME NEW f \in 1 .. at[c]
            PROVE  copy'[c][f] = Caching(s)!Right
        <5>1. f \in 1 .. s.Files /\ (f = at[c] \/ f \in 1 .. at[c] - 1)
          BY <1>3, <3>1
        <5>. QED  BY <3>1, <4>1, <5>1
      <4>3. CASE at[c] = s.Files
        <5>1. pc'[c] = "device" /\ at'[c] = at[c]
          BY <1>1, <1>2, <1>3, <1>21, <3>3, <4>3 DEF Caching!Copy, Caching!Copied
        <5>. QED  BY <3>1, <3>2, <4>2, <4>3, <5>1
      <4>4. CASE at[c] # s.Files
        <5>1. pc'[c] = "copy" /\ at'[c] = at[c] + 1
          BY <1>1, <1>2, <1>3, <1>21, <3>3, <4>4 DEF Caching!Copy, Caching!Copied
        <5>2. 1 .. at'[c] - 1 = 1 .. at[c]
          BY <3>1, <5>1
        <5>. QED  BY <3>1, <3>2, <4>2, <5>1, <5>2
      <4>. QED  BY <4>3, <4>4
    <3>4. CASE ~Caching(s)!Copied(c)
      BY <1>1, <1>2, <1>3, <1>21, <3>1, <3>2, <3>4 DEF Caching!Copy, Caching!Copied
    <3>. QED  BY <3>3, <3>4
  <2>. QED  BY <2>1, <2>2
<1>22. ASSUME NEW c \in s.Callers, Caching(s)!Load(c)
      PROVE  CopyIsExact(s)'
  <2>1. \A d \in s.Callers \ {c} : LoadsExact(s, d)'
    BY <1>1, <1>2, <1>3, <1>22 DEF Caching!Load
  <2>2. LoadsExact(s, c)'
    <3>1. LoadsExact(s, c) /\ pc[c] \in {"device", "tokenizer", "embedding", "check"}
          /\ copy' = copy /\ backend' = backend /\ native'[c] = (native[c] \/ pc[c] = "embedding")
      BY <1>1, <1>2, <1>3, <1>22 DEF Caching!Load
    <3>2. /\ pc[c] = "device" => pc'[c] = "tokenizer"
          /\ pc[c] = "tokenizer" => pc'[c] = "embedding"
          /\ pc[c] = "embedding" => pc'[c] = "check"
          /\ pc[c] = "check" => pc'[c] = "bind"
      BY <1>1, <1>2, <1>3, <1>22 DEF Caching!Load
    <3>. QED  BY <3>1, <3>2
  <2>. QED  BY <2>1, <2>2
<1>23. ASSUME NEW c \in s.Callers, Caching(s)!Cleanup(c)
      PROVE  CopyIsExact(s)'
  BY <1>1, <1>2, <1>3, <1>23 DEF Caching!Cleanup, Caching!Unlocked
<1>24. ASSUME NEW c \in s.Callers, Caching(s)!Bind(c)
      PROVE  CopyIsExact(s)'
  <2>1. \A d \in s.Callers \ {c} : LoadsExact(s, d)'
    BY <1>1, <1>2, <1>3, <1>24 DEF Caching!Bind, Caching!Unlocked
  <2>2. LoadsExact(s, c)'
    <3>1. LoadsExact(s, c) /\ pc[c] = "bind" /\ pc'[c] = "ended" /\ copy' = copy
          /\ native' = native /\ backend'[c] = "live" /\ ~snapshot'[c]
      BY <1>1, <1>2, <1>3, <1>24 DEF Caching!Bind, Caching!Unlocked
    <3>. QED  BY <3>1
  <2>. QED  BY <2>1, <2>2
<1>25. ASSUME NEW p \in DOMAIN modelLock, Caching(s)!Crash(p)
      PROVE  CopyIsExact(s)'
  BY <1>1, <1>2, <1>3, <1>25 DEF Caching!Crash
<1>. QED
  BY <1>4, <1>5, <1>6, <1>7, <1>8, <1>9, <1>10, <1>11, <1>12, <1>13, <1>14, <1>15, <1>16, <1>17, <1>18, <1>19, <1>20, <1>21, <1>22, <1>23, <1>24, <1>25 DEF Caching!Next, Caching!Step

LEMMA CacheKept ==
  ASSUME NEW s, CacheInv(s), UNCHANGED <<cacheVars, pc, at, native>>
  PROVE  CacheInv(s)'
<1>. USE DEF cacheVars
<1>1. CacheTyped(s)'
  BY DEF CacheInv, CacheTyped, Caching!TypeOK
<1>2. LockIsHeld(s)'
  BY DEF CacheInv, LockIsHeld
<1>3. CopyIsExact(s)'
  BY DEF CacheInv, CopyIsExact, LoadsExact, Exact
<1>. QED  BY <1>1, <1>2, <1>3 DEF CacheInv

LEMMA CacheSafe ==
  ASSUME NEW s, CacheInv(s)
  PROVE  Caching(s)!TypeOK /\ Caching(s)!LoadedIsExact /\ Caching(s)!InitializationIsAtomic
<1>1. CacheTyped(s) /\ LockIsHeld(s) /\ CopyIsExact(s)
  BY DEF CacheInv
<1>2. Caching(s)!LoadedIsExact
  BY <1>1 DEF CopyIsExact, LoadsExact, Exact, Caching!LoadedIsExact
<1>3. ASSUME NEW c \in s.Callers, pc[c] = "ended"
      PROVE  modelLock[s.Process[c]] # <<c>>
  <2>1. s.Process[c] \in DOMAIN modelLock
    BY <1>1 DEF CacheTyped
  <2>2. pc[c] \notin Inside(s)
    BY <1>3 DEF Inside, Caching!Held
  <2>. QED  BY <1>1, <2>1, <2>2 DEF LockIsHeld
<1>4. Caching(s)!InitializationIsAtomic
  BY <1>1, <1>3 DEF CopyIsExact, LoadsExact, Caching!InitializationIsAtomic
<1>. QED  BY <1>1, <1>2, <1>4 DEF CacheTyped

-----------------------------------------------------------------------------
(* The life of a context index.                                            *)

IndexTyped(s) ==
  /\ Indexing(s)!TypeOK
  /\ DOMAIN taken = s.Closers

(* Of the providers alive no two have the same address; a dead one may be  *)
(* in the registry until its callback has run.  A build that was not       *)
(* refused is the only one of its provider, and its provider has an entry  *)
(* as long as it lives, whoever owns it.                                   *)
Working == {"corpus", "initialize", "chunks", "text", "vector", "symbol", "publish", "abandon"}
Bound(b) == building[b] \notin {"start", "refused"}
Registered(s, b) ==
  /\ Bound(b) => life[s.Uses[b]] # "absent"
  /\ Bound(b) /\ life[s.Uses[b]] = "live" =>
       /\ Indexing(s)!Entry(s.Uses[b]) # Indexing(s)!Nothing
       /\ Indexing(s)!Entry(s.Uses[b])[1] = s.Uses[b]
  /\ building[b] \in Working => Indexing(s)!OwnedBy(s.Uses[b], Indexing(s)!Token(b))
  /\ index[b] = "open" => Indexing(s)!OwnedBy(s.Uses[b], Indexing(s)!Index(b))
RegistrySound(s) ==
  /\ \A p, q \in s.Providers :
       life[p] = "live" /\ life[q] = "live" /\ s.Address[p] = s.Address[q] => p = q
  /\ \A p \in expired : life[p] = "dead"
  /\ \A a, b \in s.Builds : s.Uses[a] = s.Uses[b] /\ Bound(a) /\ Bound(b) => a = b
  /\ \A b \in s.Builds : Registered(s, b)

(* What a build has opened by the point it is at, and what its index has.  *)
Before(channel) == {"start", "refused", "corpus", "initialize", "chunks", "text"}
                   \cup (IF channel = "vector" THEN {"vector"} ELSE {})
Beyond(channel) == {"symbol", "publish"} \cup (IF channel = "text" THEN {"vector"} ELSE {})
BuiltSoFar(s, b) ==
  /\ building[b] \in {"chunks", "text", "vector", "symbol", "publish"} \/ index[b] = "open"
       => provider[s.Uses[b]] = "ready"
  /\ building[b] = "built" <=> index[b] # "none"
  /\ \A x \in Indexing(s)!Native :
       /\ building[b] \in Before(x) => native[b][x] = "none"
       /\ building[b] \in Beyond(x) => (native[b][x] = "open" <=> x \in s.Channels)
       /\ native[b][x] = "open" => x \in s.Channels
       /\ shuts[b][x] = (IF native[b][x] = "shut" THEN 1 ELSE 0)
       /\ index[b] = "open" => (native[b][x] = "open" <=> x \in s.Channels)
       /\ building[b] = "failed" => native[b][x] # "open"
  /\ index[b] = "open" => has[b] = Indexing(s)!Native \cap s.Channels
  /\ index[b] # "open" => has[b] = {}
BuildsSound(s) == \A b \in s.Builds : BuiltSoFar(s, b)

(* A reader that is past the check has the lock and an open index.         *)
ReadsAlone(s, r) ==
  /\ reading[r] # "start" => index[s.Target[r]] # "none"
  /\ reading[r] \in Indexing(s)!Using \cup {"check", "release"} => lock[s.Target[r]] = <<r>>
  /\ reading[r] \in Indexing(s)!Using => index[s.Target[r]] = "open"
ReadersAlone(s) == \A r \in s.Readers : ReadsAlone(s, r)

(* The closer that took the backends closes them one after the other.      *)
ClosesOnce(s, c) ==
  /\ closing[c] # "start" => index[s.Target[c]] # "none"
  /\ closing[c] \in {"start", "take"} => taken[c] = {}
  /\ closing[c] \notin {"start", "take"} => index[s.Target[c]] = "closed"
  /\ taken[c] # {} => \A x \in Indexing(s)!Native :
       native[s.Target[c]][x] = "open" <=>
         x \in taken[c] /\ (closing[c] = "text" \/ (closing[c] = "vector" /\ x = "vector"))
ClosersApart(s) ==
  /\ \A c \in s.Closers : ClosesOnce(s, c)
  /\ \A c, d \in s.Closers :
       s.Target[c] = s.Target[d] /\ taken[c] # {} /\ taken[d] # {} => c = d

IndexInv(s) ==
  /\ IndexTyped(s)
  /\ RegistrySound(s) /\ BuildsSound(s) /\ ReadersAlone(s) /\ ClosersApart(s)

(* Most steps leave the registry alone.                                    *)
LEMMA RegistryKept ==
  ASSUME NEW s, RegistrySound(s), UNCHANGED <<life, registry, expired>>,
         \A b \in s.Builds : Bound(b)' => Bound(b),
         \A b \in s.Builds : building'[b] \in Working => building[b] \in Working,
         \A b \in s.Builds : index'[b] = "open" => index[b] = "open"
  PROVE  RegistrySound(s)'
<1>1. \A p, o : /\ Indexing(s)!Entry(p)' = Indexing(s)!Entry(p)
                /\ Indexing(s)!OwnedBy(p, o)' = Indexing(s)!OwnedBy(p, o)
  BY DEF Indexing!Entry, Indexing!OwnedBy
<1>2. \A b \in s.Builds : Registered(s, b)'
  BY <1>1 DEF RegistrySound, Registered
<1>. QED  BY <1>2 DEF RegistrySound

(* A provider that lives is registered for an owner: those at other        *)
(* addresses do not notice.                                                *)
LEMMA OwnersApart ==
  ASSUME NEW s, Indexing(s)!BuildsAssumption, IndexTyped(s), RegistrySound(s),
         NEW p \in s.Providers, life[p] = "live", life' = life, NEW owner,
         registry' = [registry EXCEPT ![s.Address[p]] = <<p, owner>>]
  PROVE  /\ Indexing(s)!Entry(p)' = <<p, owner>>
         /\ \A q \in s.Providers : q # p /\ life[q] = "live" =>
              /\ Indexing(s)!Entry(q)' = Indexing(s)!Entry(q)
              /\ \A o : Indexing(s)!OwnedBy(q, o)' <=> Indexing(s)!OwnedBy(q, o)
<1>1. \A q \in s.Providers : s.Address[q] \in DOMAIN registry
  BY DEF IndexTyped, Indexing!TypeOK, Indexing!Addresses
<1>2. Indexing(s)!Entry(p)' = <<p, owner>>
  BY <1>1 DEF Indexing!Entry
<1>3. ASSUME NEW q \in s.Providers, q # p, life[q] = "live"
      PROVE  Indexing(s)!Entry(q)' = Indexing(s)!Entry(q)
  <2>1. s.Address[q] # s.Address[p]
    BY <1>3 DEF RegistrySound
  <2>. QED  BY <1>1, <2>1 DEF Indexing!Entry
<1>4. ASSUME NEW q \in s.Providers, q # p, life[q] = "live", NEW o
      PROVE  Indexing(s)!OwnedBy(q, o)' <=> Indexing(s)!OwnedBy(q, o)
  BY <1>3, <1>4 DEF Indexing!OwnedBy
<1>. QED  BY <1>2, <1>3, <1>4

LEMMA Owned ==
  ASSUME NEW s, NEW p, NEW owner
  PROVE  Indexing(s)!OwnedBy(p, owner) <=>
           Indexing(s)!Entry(p) = <<p, owner>> /\ life[p] = "live"
<1>1. <<p, owner>> # <<>>
  OBVIOUS
<1>. QED  BY <1>1 DEF Indexing!OwnedBy, Indexing!Nothing

(* To release a provider changes the owner only, of that provider only.    *)
LEMMA ReleaseKeeps ==
  ASSUME NEW s, Indexing(s)!BuildsAssumption, IndexTyped(s), RegistrySound(s),
         NEW p \in s.Providers, NEW owner, Indexing(s)!Release(p, owner), life' = life,
         NEW q \in s.Providers, life[q] = "live"
  PROVE  /\ Indexing(s)!Entry(q) # Indexing(s)!Nothing /\ Indexing(s)!Entry(q)[1] = q =>
              Indexing(s)!Entry(q)' # Indexing(s)!Nothing /\ Indexing(s)!Entry(q)'[1] = q
         /\ \A o : o # owner \/ q # p =>
              (Indexing(s)!OwnedBy(q, o) => Indexing(s)!OwnedBy(q, o)')
<1>1. CASE ~Indexing(s)!OwnedBy(p, owner)
  BY <1>1 DEF Indexing!Release, Indexing!Entry, Indexing!OwnedBy
<1>2. CASE Indexing(s)!OwnedBy(p, owner)
  <2>1. /\ life[p] = "live" /\ Indexing(s)!Entry(p) = <<p, owner>>
        /\ registry' = [registry EXCEPT ![s.Address[p]] = <<p, <<>>>>]
    BY <1>2, Owned DEF Indexing!Release, Indexing!Register, Indexing!Nothing
  <2>2. CASE q # p
    BY <2>1, <2>2, OwnersApart
  <2>3. CASE q = p
    <3>1. Indexing(s)!Entry(p)' = <<p, <<>>>>
      BY <2>1, OwnersApart
    <3>2. \A o : Indexing(s)!OwnedBy(p, o) => o = owner
      BY <2>1, Owned
    <3>3. <<p, <<>>>> # <<>> /\ <<p, <<>>>>[1] = p
      OBVIOUS
    <3>. QED  BY <2>3, <3>1, <3>2, <3>3 DEF Indexing!Nothing
  <2>. QED  BY <2>2, <2>3
<1>. QED  BY <1>1, <1>2

LEMMA RegistryHolds ==
  ASSUME NEW s, Indexing(s)!BuildsAssumption, IndexInv(s), Indexing(s)!Next
  PROVE  RegistrySound(s)'
<1>. USE DEF RegistrySound
<1>1. /\ s.Uses \in [s.Builds -> s.Providers]
      /\ s.Target \in [s.Readers \cup s.Closers -> s.Builds]
  BY DEF Indexing!BuildsAssumption
<1>2. IndexTyped(s) /\ RegistrySound(s) /\ BuildsSound(s) /\ ClosersApart(s)
  BY DEF IndexInv
<1>3. /\ life \in [s.Providers -> {"absent", "live", "dead"}]
      /\ building \in [s.Builds -> Indexing(s)!BuildPoints]
      /\ index \in [s.Builds -> {"none", "open", "closed"}]
  BY <1>2 DEF IndexTyped, Indexing!TypeOK
<1>4. \A b \in s.Builds : s.Uses[b] \in s.Providers
  BY <1>1
<1>5. ASSUME NEW p \in s.Providers, Indexing(s)!Create(p)
      PROVE  RegistrySound(s)'
  <2>1. /\ life[p] = "absent" /\ life' = [life EXCEPT ![p] = "live"]
        /\ UNCHANGED <<registry, expired, building, index>>
        /\ \A other \in s.Providers : life[other] = "live" => s.Address[other] # s.Address[p]
    BY <1>5 DEF Indexing!Create, Indexing!indexes
  <2>2. ASSUME NEW b \in s.Builds
        PROVE  Registered(s, b)'
    <3>1. CASE s.Uses[b] = p
      <4>1. ~Bound(b)
        BY <1>2, <2>1, <3>1 DEF Registered
      <4>2. building[b] \notin Working /\ building[b] # "built"
        BY <4>1 DEF Bound, Working
      <4>3. index[b] # "open"
        BY <1>2, <1>3, <4>2 DEF BuildsSound, BuiltSoFar
      <4>. QED  BY <2>1, <4>1, <4>2, <4>3 DEF Registered, Bound
    <3>2. CASE s.Uses[b] # p
      <4>1. life'[s.Uses[b]] = life[s.Uses[b]]
        BY <1>3, <1>4, <2>1, <3>2
      <4>2. \A o : Indexing(s)!OwnedBy(s.Uses[b], o)' <=> Indexing(s)!OwnedBy(s.Uses[b], o)
        BY <2>1, <4>1 DEF Indexing!OwnedBy, Indexing!Entry
      <4>. QED  BY <1>2, <2>1, <4>1, <4>2 DEF Registered, Bound, Indexing!Entry
    <3>. QED  BY <3>1, <3>2
  <2>3. \A o, q \in s.Providers :
          life'[o] = "live" /\ life'[q] = "live" /\ s.Address[o] = s.Address[q] => o = q
    BY <1>2, <1>3, <2>1
  <2>4. \A o \in expired' : life'[o] = "dead"
    BY <1>2, <1>3, <2>1
  <2>5. \A a, b \in s.Builds : s.Uses[a] = s.Uses[b] /\ Bound(a)' /\ Bound(b)' => a = b
    BY <1>2, <2>1 DEF Bound
  <2>. QED  BY <2>2, <2>3, <2>4, <2>5
<1>6. ASSUME NEW p \in s.Providers, Indexing(s)!Collect(p)
      PROVE  RegistrySound(s)'
  <2>1. /\ life[p] = "live" /\ life' = [life EXCEPT ![p] = "dead"]
        /\ UNCHANGED <<registry, building, index>>
        /\ expired' \subseteq expired \cup {p}
        /\ \A b \in s.Builds : s.Uses[b] = p => Indexing(s)!Dropped(b)
    BY <1>6 DEF Indexing!Collect, Indexing!indexes
  <2>2. ASSUME NEW b \in s.Builds
        PROVE  Registered(s, b)'
    <3>1. CASE s.Uses[b] = p
      <4>1. building[b] \notin Working
        BY <2>1, <3>1 DEF Working, Indexing!Dropped
      <4>2. index[b] # "open"
        BY <1>2, <1>3, <2>1, <3>1 DEF BuildsSound, BuiltSoFar, Indexing!Dropped
      <4>3. life'[s.Uses[b]] = "dead"
        BY <1>3, <2>1, <3>1
      <4>. QED  BY <2>1, <4>1, <4>2, <4>3 DEF Registered, Bound
    <3>2. CASE s.Uses[b] # p
      <4>1. life'[s.Uses[b]] = life[s.Uses[b]]
        BY <1>3, <1>4, <2>1, <3>2
      <4>2. \A o : Indexing(s)!OwnedBy(s.Uses[b], o)' <=> Indexing(s)!OwnedBy(s.Uses[b], o)
        BY <2>1, <4>1 DEF Indexing!OwnedBy, Indexing!Entry
      <4>. QED  BY <1>2, <2>1, <4>1, <4>2 DEF Registered, Bound, Indexing!Entry
    <3>. QED  BY <3>1, <3>2
  <2>3. \A o, q \in s.Providers :
          life'[o] = "live" /\ life'[q] = "live" /\ s.Address[o] = s.Address[q] => o = q
    BY <1>2, <1>3, <2>1
  <2>4. \A o \in expired' : life'[o] = "dead"
    <3>1. expired \subseteq s.Providers
      BY <1>2 DEF IndexTyped, Indexing!TypeOK
    <3>. QED  BY <1>2, <1>3, <2>1, <3>1
  <2>5. \A a, b \in s.Builds : s.Uses[a] = s.Uses[b] /\ Bound(a)' /\ Bound(b)' => a = b
    BY <1>2, <2>1 DEF Bound
  <2>. QED  BY <2>2, <2>3, <2>4, <2>5
<1>7. ASSUME NEW p \in s.Providers, Indexing(s)!Forget(p)
      PROVE  RegistrySound(s)'
  <2>1. /\ p \in expired /\ expired' = expired \ {p}
        /\ UNCHANGED <<life, building, index>>
        /\ \/ registry' = registry
           \/ /\ Indexing(s)!Entry(p) # Indexing(s)!Nothing /\ Indexing(s)!Entry(p)[1] = p
              /\ registry' = [registry EXCEPT ![s.Address[p]] = Indexing(s)!Nothing]
    BY <1>7 DEF Indexing!Forget, Indexing!indexes
  <2>2. life[p] = "dead" /\ \A q \in s.Providers : s.Address[q] \in DOMAIN registry
    BY <1>2, <2>1 DEF IndexTyped, Indexing!TypeOK, Indexing!Addresses
  <2>3. ASSUME NEW q \in s.Providers, life[q] = "live", Indexing(s)!Entry(q) # Indexing(s)!Nothing,
               Indexing(s)!Entry(q)[1] = q
        PROVE  Indexing(s)!Entry(q)' = Indexing(s)!Entry(q)
    <3>1. CASE s.Address[q] = s.Address[p]
      BY <2>1, <2>2, <2>3, <3>1 DEF Indexing!Entry
    <3>2. CASE s.Address[q] # s.Address[p]
      BY <2>1, <2>2, <3>2 DEF Indexing!Entry
    <3>. QED  BY <3>1, <3>2
  <2>4. ASSUME NEW q \in s.Providers, NEW o, Indexing(s)!OwnedBy(q, o)
        PROVE  Indexing(s)!OwnedBy(q, o)'
    <3>1. /\ life[q] = "live" /\ Indexing(s)!Entry(q) # Indexing(s)!Nothing
          /\ Indexing(s)!Entry(q) = <<q, o>>
      BY <2>4 DEF Indexing!OwnedBy
    <3>2. Indexing(s)!Entry(q)' = Indexing(s)!Entry(q)
      BY <2>3, <3>1
    <3>. QED  BY <2>1, <3>1, <3>2 DEF Indexing!OwnedBy
  <2>5. ASSUME NEW b \in s.Builds
        PROVE  Registered(s, b)'
    BY <1>2, <1>4, <2>1, <2>3, <2>4 DEF Registered, Bound
  <2>6. \A a, b \in s.Builds : s.Uses[a] = s.Uses[b] /\ Bound(a)' /\ Bound(b)' => a = b
    BY <1>2, <2>1 DEF Bound
  <2>. QED  BY <1>2, <2>1, <2>5, <2>6
<1>8. ASSUME NEW b \in s.Builds, Indexing(s)!Bind(b)
      PROVE  RegistrySound(s)'
  <2>1. /\ building[b] = "start" /\ life[s.Uses[b]] = "live"
        /\ UNCHANGED <<life, expired, index>>
    BY <1>8 DEF Indexing!Bind, Indexing!indexes
  <2>2. CASE ~Indexing(s)!Bindable(s.Uses[b])
    <3>1. registry' = registry /\ building' = [building EXCEPT ![b] = "refused"]
      BY <1>8, <2>2 DEF Indexing!Bind, Indexing!Build
    <3>2. \A a \in s.Builds : /\ Bound(a)' => Bound(a)
                              /\ building'[a] \in Working => building[a] \in Working
      BY <1>3, <3>1 DEF Bound, Working
    <3>. QED  BY <1>2, <2>1, <3>1, <3>2, RegistryKept
  <2>3. CASE Indexing(s)!Bindable(s.Uses[b])
    <3>. DEFINE p == s.Uses[b]
    <3>1. /\ registry' = [registry EXCEPT ![s.Address[p]] = <<p, Indexing(s)!Token(b)>>]
          /\ building' = [building EXCEPT ![b] = "corpus"]
      BY <1>8, <2>3 DEF Indexing!Bind, Indexing!Build, Indexing!Register
    <3>2. /\ Indexing(s)!Entry(p)' = <<p, Indexing(s)!Token(b)>>
          /\ \A q \in s.Providers : q # p /\ life[q] = "live" =>
               /\ Indexing(s)!Entry(q)' = Indexing(s)!Entry(q)
               /\ \A o : Indexing(s)!OwnedBy(q, o)' <=> Indexing(s)!OwnedBy(q, o)
      BY <1>2, <1>4, <2>1, <3>1, OwnersApart
    <3>3. \A a \in s.Builds : s.Uses[a] = p => ~Bound(a)
      <4>1. ~(Indexing(s)!Entry(p) # Indexing(s)!Nothing /\ life[Indexing(s)!Entry(p)[1]] = "live")
        BY <2>3 DEF Indexing!Bindable, Indexing!Alive
      <4>. QED  BY <1>2, <2>1, <4>1 DEF Registered
    <3>4. ASSUME NEW a \in s.Builds
          PROVE  Registered(s, a)'
      <4>1. CASE a = b
        <5>1. <<p, Indexing(s)!Token(b)>> # <<>> /\ <<p, Indexing(s)!Token(b)>>[1] = p
          OBVIOUS
        <5>2. Indexing(s)!OwnedBy(p, Indexing(s)!Token(b))'
          BY <2>1, <3>2, <5>1 DEF Indexing!OwnedBy, Indexing!Nothing
        <5>3. index'[b] # "open"
          BY <1>2, <1>3, <2>1 DEF BuildsSound, BuiltSoFar
        <5>. QED  BY <2>1, <3>2, <4>1, <5>1, <5>2, <5>3 DEF Registered, Indexing!Nothing
      <4>2. CASE a # b /\ s.Uses[a] = p
        <5>1. ~Bound(a) /\ building'[a] = building[a]
          BY <1>3, <3>1, <3>3, <4>2
        <5>2. building[a] \notin Working /\ building[a] # "built"
          BY <5>1 DEF Bound, Working
        <5>3. index'[a] # "open"
          BY <1>2, <1>3, <2>1, <5>2 DEF BuildsSound, BuiltSoFar
        <5>. QED  BY <5>1, <5>2, <5>3 DEF Registered, Bound
      <4>3. CASE a # b /\ s.Uses[a] # p
        <5>1. building'[a] = building[a]
          BY <1>3, <3>1, <4>3
        <5>2. life[s.Uses[a]] = "live" =>
                /\ Indexing(s)!Entry(s.Uses[a])' = Indexing(s)!Entry(s.Uses[a])
                /\ \A o : Indexing(s)!OwnedBy(s.Uses[a], o)' <=> Indexing(s)!OwnedBy(s.Uses[a], o)
          BY <1>4, <3>2, <4>3
        <5>3. \A o : Indexing(s)!OwnedBy(s.Uses[a], o) => life[s.Uses[a]] = "live"
          BY DEF Indexing!OwnedBy
        <5>. QED  BY <1>2, <2>1, <5>1, <5>2, <5>3 DEF Registered, Bound
      <4>. QED  BY <4>1, <4>2, <4>3
    <3>5. \A a, d \in s.Builds : s.Uses[a] = s.Uses[d] /\ Bound(a)' /\ Bound(d)' => a = d
      BY <1>2, <1>3, <3>1, <3>3 DEF Bound
    <3>. QED  BY <1>2, <2>1, <3>4, <3>5
  <2>. QED  BY <2>2, <2>3
<1>9. ASSUME NEW b \in s.Builds, Indexing(s)!Publish(b)
      PROVE  RegistrySound(s)'
  <2>. DEFINE p == s.Uses[b]
  <2>1. /\ building[b] = "publish" /\ UNCHANGED <<life, expired>>
    BY <1>9 DEF Indexing!Publish
  <2>2. Bound(b) /\ Indexing(s)!OwnedBy(p, Indexing(s)!Token(b)) /\ life[p] = "live"
    BY <1>2, <2>1 DEF Registered, Bound, Working, Indexing!OwnedBy
  <2>3. /\ registry' = [registry EXCEPT ![s.Address[p]] = <<p, Indexing(s)!Index(b)>>]
        /\ building' = [building EXCEPT ![b] = "built"]
        /\ index' = [index EXCEPT ![b] = "open"]
    BY <1>9, <2>2 DEF Indexing!Publish, Indexing!Build, Indexing!Register
  <2>4. /\ Indexing(s)!Entry(p)' = <<p, Indexing(s)!Index(b)>>
        /\ \A q \in s.Providers : q # p /\ life[q] = "live" =>
             /\ Indexing(s)!Entry(q)' = Indexing(s)!Entry(q)
             /\ \A o : Indexing(s)!OwnedBy(q, o)' <=> Indexing(s)!OwnedBy(q, o)
    BY <1>2, <1>4, <2>1, <2>2, <2>3, OwnersApart
  <2>5. \A a \in s.Builds : Bound(a)' <=> Bound(a)
    BY <1>3, <2>1, <2>3 DEF Bound
  <2>6. ASSUME NEW a \in s.Builds
        PROVE  Registered(s, a)'
    <3>1. CASE a = b
      <4>1. <<p, Indexing(s)!Index(b)>> # <<>> /\ <<p, Indexing(s)!Index(b)>>[1] = p
        OBVIOUS
      <4>2. Indexing(s)!OwnedBy(p, Indexing(s)!Index(b))'
        BY <2>1, <2>2, <2>4, <4>1 DEF Indexing!OwnedBy, Indexing!Nothing
      <4>3. building'[b] \notin Working
        BY <1>3, <2>3 DEF Working
      <4>. QED  BY <2>1, <2>2, <2>4, <3>1, <4>1, <4>2, <4>3 DEF Registered, Indexing!Nothing
    <3>2. CASE a # b /\ s.Uses[a] = p
      <4>1. ~Bound(a) /\ building'[a] = building[a] /\ index'[a] = index[a]
        BY <1>2, <1>3, <2>2, <2>3, <3>2
      <4>2. building[a] \notin Working /\ building[a] # "built"
        BY <4>1 DEF Bound, Working
      <4>3. index'[a] # "open"
        BY <1>2, <1>3, <4>1, <4>2 DEF BuildsSound, BuiltSoFar
      <4>. QED  BY <4>1, <4>2, <4>3 DEF Registered, Bound
    <3>3. CASE a # b /\ s.Uses[a] # p
      <4>1. building'[a] = building[a] /\ index'[a] = index[a]
        BY <1>3, <2>3, <3>3
      <4>2. life[s.Uses[a]] = "live" =>
              /\ Indexing(s)!Entry(s.Uses[a])' = Indexing(s)!Entry(s.Uses[a])
              /\ \A o : Indexing(s)!OwnedBy(s.Uses[a], o)' <=> Indexing(s)!OwnedBy(s.Uses[a], o)
        BY <1>4, <2>4, <3>3
      <4>3. \A o : Indexing(s)!OwnedBy(s.Uses[a], o) => life[s.Uses[a]] = "live"
        BY DEF Indexing!OwnedBy
      <4>. QED  BY <1>2, <2>1, <4>1, <4>2, <4>3 DEF Registered, Bound
    <3>. QED  BY <3>1, <3>2, <3>3
  <2>7. \A a, d \in s.Builds : s.Uses[a] = s.Uses[d] /\ Bound(a)' /\ Bound(d)' => a = d
    BY <1>2, <2>5
  <2>. QED  BY <1>2, <2>1, <2>6, <2>7
<1>10. ASSUME NEW b \in s.Builds, Indexing(s)!Abandon(b)
       PROVE  RegistrySound(s)'
  <2>1. /\ building[b] = "abandon" /\ building' = [building EXCEPT ![b] = "failed"]
        /\ UNCHANGED <<life, expired, index>>
        /\ Indexing(s)!Release(s.Uses[b], Indexing(s)!Token(b))
    BY <1>10 DEF Indexing!Abandon, Indexing!Build, Indexing!indexes
  <2>2. ASSUME NEW a \in s.Builds
        PROVE  Registered(s, a)'
    <3>1. /\ Bound(a)' <=> Bound(a)
          /\ building'[a] \in Working => building[a] \in Working /\ a # b
      BY <1>3, <2>1 DEF Bound, Working
    <3>2. life[s.Uses[a]] = "live" =>
            /\ Indexing(s)!Entry(s.Uses[a]) # Indexing(s)!Nothing
                 /\ Indexing(s)!Entry(s.Uses[a])[1] = s.Uses[a] =>
                 Indexing(s)!Entry(s.Uses[a])' # Indexing(s)!Nothing
                 /\ Indexing(s)!Entry(s.Uses[a])'[1] = s.Uses[a]
            /\ \A o : o # Indexing(s)!Token(b) =>
                 (Indexing(s)!OwnedBy(s.Uses[a], o) => Indexing(s)!OwnedBy(s.Uses[a], o)')
      BY <1>2, <1>4, <2>1, ReleaseKeeps
    <3>3. \A o : Indexing(s)!OwnedBy(s.Uses[a], o) => life[s.Uses[a]] = "live"
      BY DEF Indexing!OwnedBy
    <3>4. /\ Indexing(s)!Index(a) # Indexing(s)!Token(b)
          /\ a # b => Indexing(s)!Token(a) # Indexing(s)!Token(b)
      BY DEF Indexing!Index, Indexing!Token
    <3>. QED  BY <1>2, <2>1, <3>1, <3>2, <3>3, <3>4 DEF Registered
  <2>3. \A a, d \in s.Builds : s.Uses[a] = s.Uses[d] /\ Bound(a)' /\ Bound(d)' => a = d
    BY <1>2, <1>3, <2>1 DEF Bound
  <2>. QED  BY <1>2, <2>1, <2>2, <2>3
<1>11. ASSUME NEW c \in s.Closers, Indexing(s)!Unbind(c)
       PROVE  RegistrySound(s)'
  <2>. DEFINE b == s.Target[c]
  <2>1. /\ closing[c] = "unbind" /\ UNCHANGED <<life, expired, index, building>>
        /\ Indexing(s)!Release(s.Uses[b], Indexing(s)!Index(b)) /\ b \in s.Builds
    BY <1>1, <1>11 DEF Indexing!Unbind, Indexing!indexes
  <2>2. index[b] = "closed"
    BY <1>2, <2>1 DEF ClosersApart, ClosesOnce
  <2>3. ASSUME NEW a \in s.Builds
        PROVE  Registered(s, a)'
    <3>1. index[a] = "open" => a # b
      BY <2>2
    <3>2. life[s.Uses[a]] = "live" =>
            /\ Indexing(s)!Entry(s.Uses[a]) # Indexing(s)!Nothing
                 /\ Indexing(s)!Entry(s.Uses[a])[1] = s.Uses[a] =>
                 Indexing(s)!Entry(s.Uses[a])' # Indexing(s)!Nothing
                 /\ Indexing(s)!Entry(s.Uses[a])'[1] = s.Uses[a]
            /\ \A o : o # Indexing(s)!Index(b) =>
                 (Indexing(s)!OwnedBy(s.Uses[a], o) => Indexing(s)!OwnedBy(s.Uses[a], o)')
      BY <1>2, <1>4, <2>1, ReleaseKeeps
    <3>3. \A o : Indexing(s)!OwnedBy(s.Uses[a], o) => life[s.Uses[a]] = "live"
      BY DEF Indexing!OwnedBy
    <3>4. /\ Indexing(s)!Token(a) # Indexing(s)!Index(b)
          /\ a # b => Indexing(s)!Index(a) # Indexing(s)!Index(b)
      BY DEF Indexing!Index, Indexing!Token
    <3>. QED  BY <1>2, <2>1, <3>1, <3>2, <3>3, <3>4 DEF Registered, Bound
  <2>. QED  BY <1>2, <2>1, <2>3 DEF Bound
<1>12. ASSUME NEW b \in s.Builds,
              \/ Indexing(s)!BuildFails(b) \/ Indexing(s)!ReadCorpus(b) \/ Indexing(s)!Initialize(b)
              \/ Indexing(s)!BuildChunks(b) \/ Indexing(s)!BuildSymbols(b)
              \/ \E channel \in Indexing(s)!Native : Indexing(s)!BuildNative(b, channel)
       PROVE  RegistrySound(s)'
  <2>1. /\ UNCHANGED <<life, registry, expired, index>>
        /\ building[b] \in Working
        /\ \E point \in Working : building' = [building EXCEPT ![b] = point]
    BY <1>12 DEF Indexing!BuildFails, Indexing!ReadCorpus, Indexing!Initialize, Indexing!BuildChunks,
       Indexing!BuildSymbols, Indexing!BuildNative, Indexing!Build, Indexing!objects,
       Indexing!indexes, Indexing!After, Indexing!Native, Working
  <2>2. \A a \in s.Builds : /\ Bound(a)' => Bound(a)
                            /\ building'[a] \in Working => building[a] \in Working
    BY <1>3, <2>1 DEF Bound, Working
  <2>. QED  BY <1>2, <2>1, <2>2, RegistryKept
<1>13. ASSUME NEW r \in s.Readers,
              \/ Indexing(s)!Query(r) \/ Indexing(s)!ReadLockTimesOut(r)
              \/ Indexing(s)!ReadFails(r) \/ Indexing(s)!ReadStep(r)
       PROVE  RegistrySound(s)'
  <2>1. UNCHANGED <<life, registry, expired, index, building>>
    BY <1>13 DEF Indexing!Query, Indexing!ReadLockTimesOut, Indexing!ReadFails, Indexing!ReadStep,
       Indexing!ReadLock, Indexing!ReadCheck, Indexing!ReadUse, Indexing!ReadRelease,
       Indexing!objects, Indexing!indexes
  <2>. QED  BY <1>2, <2>1, RegistryKept DEF Bound
<1>14. ASSUME NEW c \in s.Closers,
              \/ Indexing(s)!Close(c) \/ Indexing(s)!Take(c) \/ Indexing(s)!CloseProvider(c)
              \/ \E channel \in Indexing(s)!Native : Indexing(s)!CloseNative(c, channel)
       PROVE  RegistrySound(s)'
  <2>1. /\ UNCHANGED <<life, registry, expired, building>>
        /\ \/ index' = index
           \/ \E b \in s.Builds : index' = [index EXCEPT ![b] = "closed"]
    BY <1>1, <1>14 DEF Indexing!Close, Indexing!Take, Indexing!CloseProvider, Indexing!CloseNative,
       Indexing!objects, Indexing!indexes
  <2>2. \A b \in s.Builds : index'[b] = "open" => index[b] = "open"
    BY <1>3, <2>1
  <2>. QED  BY <1>2, <2>1, <2>2, RegistryKept DEF Bound
<1>. QED
  BY <1>5, <1>6, <1>7, <1>8, <1>9, <1>10, <1>11, <1>12, <1>13, <1>14
  DEF Indexing!Next, Indexing!Objects, Indexing!BuildStep, Indexing!CloseStep

LEMMA RegistryTyped ==
  ASSUME NEW s, IndexTyped(s), NEW p \in s.Providers, NEW owner \in Indexing(s)!Owners,
         registry' = registry
           \/ registry' = [registry EXCEPT ![s.Address[p]] = <<p, owner>>]
  PROVE  registry' \in [Indexing(s)!Addresses ->
                          {Indexing(s)!Nothing} \cup (s.Providers \X Indexing(s)!Owners)]
<1>1. registry \in [Indexing(s)!Addresses ->
                      {Indexing(s)!Nothing} \cup (s.Providers \X Indexing(s)!Owners)]
  BY DEF IndexTyped, Indexing!TypeOK
<1>2. <<p, owner>> \in s.Providers \X Indexing(s)!Owners
  OBVIOUS
<1>. QED  BY <1>1, <1>2

LEMMA IndexTypes ==
  ASSUME NEW s, Indexing(s)!BuildsAssumption, IndexInv(s), Indexing(s)!Next
  PROVE  IndexTyped(s)'
<1>. USE DEF IndexTyped, Indexing!TypeOK, Indexing!objects, Indexing!backends, Indexing!indexes, Indexing!callers, Indexing!Build, Indexing!Read, Indexing!Closing, Indexing!Register, Indexing!Release, Indexing!BuildPoints, Indexing!ReadPoints, Indexing!ClosePoints, Indexing!Using, Indexing!Native, Indexing!ReadNext, Indexing!After
<1>1. /\ s.Uses \in [s.Builds -> s.Providers]
      /\ s.Target \in [s.Readers \cup s.Closers -> s.Builds]
  BY DEF Indexing!BuildsAssumption
<1>2. IndexTyped(s) /\ RegistrySound(s) /\ BuildsSound(s)
  BY DEF IndexInv
<1>3. ASSUME NEW p \in s.Providers, Indexing(s)!Create(p)
      PROVE  IndexTyped(s)'
  BY <1>1, <1>2, <1>3 DEF Indexing!Create
<1>4. ASSUME NEW p \in s.Providers, Indexing(s)!Collect(p)
      PROVE  IndexTyped(s)'
  BY <1>1, <1>2, <1>4 DEF Indexing!Collect
<1>5. ASSUME NEW p \in s.Providers, Indexing(s)!Forget(p)
      PROVE  IndexTyped(s)'
  BY <1>1, <1>2, <1>5 DEF Indexing!Forget
<1>6. ASSUME NEW b \in s.Builds, Indexing(s)!Bind(b)
      PROVE  IndexTyped(s)'
  <2>1. registry' \in [Indexing(s)!Addresses ->
                         {Indexing(s)!Nothing} \cup (s.Providers \X Indexing(s)!Owners)]
    <3>1. Indexing(s)!Token(b) \in Indexing(s)!Owners /\ s.Uses[b] \in s.Providers
      BY <1>1, <1>2 DEF Indexing!Owners
    <3>2. \/ registry' = registry
          \/ registry' = [registry EXCEPT ![s.Address[s.Uses[b]]] = <<s.Uses[b], Indexing(s)!Token(b)>>]
      BY <1>6 DEF Indexing!Bind, Indexing!Bindable, Indexing!Alive
    <3>. QED  BY <1>1, <1>2, <3>1, <3>2, RegistryTyped
  <2>2. building' \in [s.Builds -> Indexing(s)!BuildPoints]
    BY <1>1, <1>2, <1>6 DEF Indexing!Bind, Indexing!Bindable, Indexing!Alive
  <2>. QED  BY <1>1, <1>2, <1>6, <2>1, <2>2 DEF Indexing!Bind
<1>7. ASSUME NEW b \in s.Builds, Indexing(s)!BuildFails(b)
      PROVE  IndexTyped(s)'
  BY <1>1, <1>2, <1>7 DEF Indexing!BuildFails
<1>8. ASSUME NEW b \in s.Builds, Indexing(s)!ReadCorpus(b)
      PROVE  IndexTyped(s)'
  BY <1>1, <1>2, <1>8 DEF Indexing!ReadCorpus
<1>9. ASSUME NEW b \in s.Builds, Indexing(s)!Initialize(b)
      PROVE  IndexTyped(s)'
  <2>0. /\ provider \in [s.Providers -> {"new", "ready", "closed"}]
        /\ building \in [s.Builds -> Indexing(s)!BuildPoints]
    BY <1>1, <1>2
  <2>1. /\ provider' \in [s.Providers -> {"new", "ready", "closed"}]
        /\ building' \in [s.Builds -> Indexing(s)!BuildPoints]
    BY <2>0, <1>9 DEF Indexing!Initialize
  <2>. QED  BY <1>1, <1>2, <1>9, <2>1 DEF Indexing!Initialize
<1>10. ASSUME NEW b \in s.Builds, Indexing(s)!BuildChunks(b)
      PROVE  IndexTyped(s)'
  BY <1>1, <1>2, <1>10 DEF Indexing!BuildChunks
<1>11. ASSUME NEW b \in s.Builds, NEW channel \in Indexing(s)!Native, Indexing(s)!BuildNative(b, channel)
      PROVE  IndexTyped(s)'
  <2>0. /\ native \in [s.Builds -> [Indexing(s)!Native -> {"none", "open", "shut"}]]
        /\ shuts \in [s.Builds -> [Indexing(s)!Native -> Nat]]
        /\ building \in [s.Builds -> Indexing(s)!BuildPoints]
    BY <1>1, <1>2
  <2>1. building' \in [s.Builds -> Indexing(s)!BuildPoints]
    BY <2>0, <1>11 DEF Indexing!BuildNative
  <2>2. \A y \in {"open", "shut"} :
          [native EXCEPT ![b][channel] = y] \in [s.Builds -> [Indexing(s)!Native -> {"none", "open", "shut"}]]
    BY <2>0
  <2>3. native' \in [s.Builds -> [Indexing(s)!Native -> {"none", "open", "shut"}]]
    BY <2>0, <2>2, <1>11 DEF Indexing!BuildNative
  <2>4. [shuts EXCEPT ![b][channel] = @ + 1] \in [s.Builds -> [Indexing(s)!Native -> Nat]]
    <3>1. shuts[b] \in [Indexing(s)!Native -> Nat] /\ shuts[b][channel] + 1 \in Nat
      BY <2>0
    <3>2. [shuts[b] EXCEPT ![channel] = @ + 1] \in [Indexing(s)!Native -> Nat]
      BY <3>1
    <3>. QED  BY <2>0, <3>2
  <2>5. shuts' \in [s.Builds -> [Indexing(s)!Native -> Nat]]
    BY <2>0, <2>4, <1>11 DEF Indexing!BuildNative
  <2>. QED  BY <1>1, <1>2, <1>11, <2>1, <2>3, <2>5 DEF Indexing!BuildNative
<1>12. ASSUME NEW b \in s.Builds, Indexing(s)!BuildSymbols(b)
      PROVE  IndexTyped(s)'
  BY <1>1, <1>2, <1>12 DEF Indexing!BuildSymbols
<1>13. ASSUME NEW b \in s.Builds, Indexing(s)!Publish(b)
      PROVE  IndexTyped(s)'
  <2>1. registry' \in [Indexing(s)!Addresses ->
                         {Indexing(s)!Nothing} \cup (s.Providers \X Indexing(s)!Owners)]
    <3>1. Indexing(s)!Index(b) \in Indexing(s)!Owners /\ s.Uses[b] \in s.Providers
      BY <1>1, <1>2 DEF Indexing!Owners
    <3>2. \/ registry' = registry
          \/ registry' = [registry EXCEPT ![s.Address[s.Uses[b]]] = <<s.Uses[b], Indexing(s)!Index(b)>>]
      BY <1>13 DEF Indexing!Publish, Indexing!Opened
    <3>. QED  BY <1>1, <1>2, <3>1, <3>2, RegistryTyped
  <2>0. /\ building \in [s.Builds -> Indexing(s)!BuildPoints]
        /\ index \in [s.Builds -> {"none", "open", "closed"}]
        /\ has \in [s.Builds -> SUBSET s.Channels]
    BY <1>1, <1>2
  <2>2. building' \in [s.Builds -> Indexing(s)!BuildPoints]
    BY <2>0, <1>13 DEF Indexing!Publish, Indexing!Opened
  <2>3. /\ index' \in [s.Builds -> {"none", "open", "closed"}]
        /\ has' \in [s.Builds -> SUBSET s.Channels]
    <3>1. Indexing(s)!Opened(b) \in SUBSET s.Channels
      <4>1. \A x \in Indexing(s)!Native : native[b][x] = "open" => x \in s.Channels
        BY <1>1, <1>2 DEF BuildsSound, BuiltSoFar
      <4>. QED  BY <4>1 DEF Indexing!Opened
    <3>. QED  BY <2>0, <1>13, <3>1 DEF Indexing!Publish
  <2>. QED  BY <1>1, <1>2, <1>13, <2>1, <2>2, <2>3 DEF Indexing!Publish
<1>14. ASSUME NEW b \in s.Builds, Indexing(s)!Abandon(b)
      PROVE  IndexTyped(s)'
  <2>1. registry' \in [Indexing(s)!Addresses ->
                         {Indexing(s)!Nothing} \cup (s.Providers \X Indexing(s)!Owners)]
    <3>1. Indexing(s)!Nothing \in Indexing(s)!Owners /\ s.Uses[b] \in s.Providers
      BY <1>1, <1>2 DEF Indexing!Owners
    <3>2. \/ registry' = registry
          \/ registry' = [registry EXCEPT ![s.Address[s.Uses[b]]] = <<s.Uses[b], Indexing(s)!Nothing>>]
      BY <1>14 DEF Indexing!Abandon, Indexing!Opened, Indexing!Shut
    <3>. QED  BY <1>1, <1>2, <3>1, <3>2, RegistryTyped
  <2>2. /\ building' \in [s.Builds -> Indexing(s)!BuildPoints]
        /\ provider' \in [s.Providers -> {"new", "ready", "closed"}]
    BY <1>1, <1>2, <1>14 DEF Indexing!Abandon
  <2>3. native' \in [s.Builds -> [Indexing(s)!Native -> {"none", "open", "shut"}]]
    BY <1>1, <1>2, <1>14 DEF Indexing!Abandon, Indexing!Opened, Indexing!Shut
  <2>4. shuts' \in [s.Builds -> [Indexing(s)!Native -> Nat]]
    BY <1>1, <1>2, <1>14 DEF Indexing!Abandon, Indexing!Opened, Indexing!Shut
  <2>. QED  BY <1>1, <1>2, <1>14, <2>1, <2>2, <2>3, <2>4 DEF Indexing!Abandon
<1>15. ASSUME NEW r \in s.Readers, Indexing(s)!Query(r)
      PROVE  IndexTyped(s)'
  BY <1>1, <1>2, <1>15 DEF Indexing!Query
<1>16. ASSUME NEW r \in s.Readers, Indexing(s)!ReadLockTimesOut(r)
      PROVE  IndexTyped(s)'
  BY <1>1, <1>2, <1>16 DEF Indexing!ReadLockTimesOut
<1>17. ASSUME NEW r \in s.Readers, Indexing(s)!ReadFails(r)
      PROVE  IndexTyped(s)'
  BY <1>1, <1>2, <1>17 DEF Indexing!ReadFails
<1>18. ASSUME NEW r \in s.Readers, Indexing(s)!ReadLock(r)
      PROVE  IndexTyped(s)'
  BY <1>1, <1>2, <1>18 DEF Indexing!ReadLock
<1>19. ASSUME NEW r \in s.Readers, Indexing(s)!ReadCheck(r)
      PROVE  IndexTyped(s)'
  BY <1>1, <1>2, <1>19 DEF Indexing!ReadCheck
<1>20. ASSUME NEW r \in s.Readers, Indexing(s)!ReadUse(r)
      PROVE  IndexTyped(s)'
  BY <1>1, <1>2, <1>20 DEF Indexing!ReadUse
<1>21. ASSUME NEW r \in s.Readers, Indexing(s)!ReadRelease(r)
      PROVE  IndexTyped(s)'
  BY <1>1, <1>2, <1>21 DEF Indexing!ReadRelease
<1>22. ASSUME NEW c \in s.Closers, Indexing(s)!Close(c)
      PROVE  IndexTyped(s)'
  BY <1>1, <1>2, <1>22 DEF Indexing!Close
<1>23. ASSUME NEW c \in s.Closers, Indexing(s)!Take(c)
      PROVE  IndexTyped(s)'
  <2>1. /\ s.Target[c] \in s.Builds /\ taken \in [s.Closers -> SUBSET s.Channels]
        /\ index \in [s.Builds -> {"none", "open", "closed"}]
        /\ has \in [s.Builds -> SUBSET s.Channels]
        /\ closing \in [s.Closers -> Indexing(s)!ClosePoints]
    BY <1>1, <1>2
  <2>2. /\ index' \in [s.Builds -> {"none", "open", "closed"}]
        /\ has' \in [s.Builds -> SUBSET s.Channels]
    BY <2>1, <1>23 DEF Indexing!Take
  <2>3. /\ taken' \in [s.Closers -> SUBSET s.Channels]
        /\ closing' \in [s.Closers -> Indexing(s)!ClosePoints]
    BY <2>1, <1>23 DEF Indexing!Take
  <2>. QED  BY <1>1, <1>2, <1>23, <2>2, <2>3 DEF Indexing!Take
<1>24. ASSUME NEW c \in s.Closers, Indexing(s)!CloseProvider(c)
      PROVE  IndexTyped(s)'
  BY <1>1, <1>2, <1>24 DEF Indexing!CloseProvider
<1>25. ASSUME NEW c \in s.Closers, Indexing(s)!Unbind(c)
      PROVE  IndexTyped(s)'
  <2>1. registry' \in [Indexing(s)!Addresses ->
                         {Indexing(s)!Nothing} \cup (s.Providers \X Indexing(s)!Owners)]
    <3>1. Indexing(s)!Nothing \in Indexing(s)!Owners /\ s.Uses[s.Target[c]] \in s.Providers
      BY <1>1, <1>2 DEF Indexing!Owners
    <3>2. \/ registry' = registry
          \/ registry' = [registry EXCEPT ![s.Address[s.Uses[s.Target[c]]]] = <<s.Uses[s.Target[c]], Indexing(s)!Nothing>>]
      BY <1>25 DEF Indexing!Unbind
    <3>. QED  BY <1>1, <1>2, <3>1, <3>2, RegistryTyped
  <2>2. closing' \in [s.Closers -> Indexing(s)!ClosePoints]
    BY <1>1, <1>2, <1>25 DEF Indexing!Unbind
  <2>. QED  BY <1>1, <1>2, <1>25, <2>1, <2>2 DEF Indexing!Unbind
<1>26. ASSUME NEW c \in s.Closers, NEW channel \in Indexing(s)!Native, Indexing(s)!CloseNative(c, channel)
      PROVE  IndexTyped(s)'
  BY <1>1, <1>2, <1>26 DEF Indexing!CloseNative, Indexing!Shut
<1>. QED
  BY <1>3, <1>4, <1>5, <1>6, <1>7, <1>8, <1>9, <1>10, <1>11, <1>12, <1>13, <1>14, <1>15, <1>16, <1>17, <1>18, <1>19, <1>20, <1>21, <1>22, <1>23, <1>24, <1>25, <1>26 DEF Indexing!Next, Indexing!Objects, Indexing!BuildStep, Indexing!ReadStep, Indexing!CloseStep

LEMMA BuildsHold ==
  ASSUME NEW s, Indexing(s)!BuildsAssumption, IndexInv(s), Indexing(s)!Next
  PROVE  BuildsSound(s)'
<1>. USE DEF BuildsSound, BuiltSoFar, Before, Beyond, Indexing!objects, Indexing!backends, Indexing!indexes, Indexing!callers, Indexing!Build, Indexing!Read, Indexing!Closing, Indexing!Register, Indexing!Release, Indexing!BuildPoints, Indexing!ReadPoints, Indexing!ClosePoints, Indexing!Using, Indexing!Native, Indexing!ReadNext, Indexing!After
<1>1. /\ s.Uses \in [s.Builds -> s.Providers]
      /\ s.Target \in [s.Readers \cup s.Closers -> s.Builds]
  BY DEF Indexing!BuildsAssumption
<1>2. /\ building \in [s.Builds -> Indexing(s)!BuildPoints]
      /\ provider \in [s.Providers -> {"new", "ready", "closed"}]
      /\ native \in [s.Builds -> [Indexing(s)!Native -> {"none", "open", "shut"}]]
      /\ shuts \in [s.Builds -> [Indexing(s)!Native -> Nat]]
      /\ index \in [s.Builds -> {"none", "open", "closed"}]
      /\ DOMAIN has = s.Builds /\ \A b \in s.Builds : s.Uses[b] \in s.Providers
  BY <1>1 DEF IndexInv, IndexTyped, Indexing!TypeOK
<1>3. BuildsSound(s)
  BY DEF IndexInv
<1>4. RegistrySound(s)
  BY DEF IndexInv
<1>5. ClosersApart(s)
  BY DEF IndexInv
<1>6. ASSUME NEW p \in s.Providers, Indexing(s)!Create(p)
      PROVE  BuildsSound(s)'
  BY <1>2, <1>3, <1>6 DEF Indexing!Create
<1>7. ASSUME NEW p \in s.Providers, Indexing(s)!Collect(p)
      PROVE  BuildsSound(s)'
  BY <1>2, <1>3, <1>7 DEF Indexing!Collect
<1>8. ASSUME NEW p \in s.Providers, Indexing(s)!Forget(p)
      PROVE  BuildsSound(s)'
  BY <1>2, <1>3, <1>8 DEF Indexing!Forget
<1>9. ASSUME NEW b \in s.Builds, Indexing(s)!Bind(b)
      PROVE  BuildsSound(s)'
  <2>1. /\ UNCHANGED <<provider, native, shuts, index, has>>
        /\ building[b] = "start"
        /\ \E point \in {"corpus", "refused"} : building' = [building EXCEPT ![b] = point]
    BY <1>9 DEF Indexing!Bind, Indexing!Bindable, Indexing!Alive
  <2>. QED  BY <1>1, <1>2, <1>3, <1>4, <1>5, <2>1
<1>10. ASSUME NEW b \in s.Builds, Indexing(s)!BuildFails(b)
      PROVE  BuildsSound(s)'
  BY <1>2, <1>3, <1>10 DEF Indexing!BuildFails
<1>11. ASSUME NEW b \in s.Builds, Indexing(s)!ReadCorpus(b)
      PROVE  BuildsSound(s)'
  BY <1>2, <1>3, <1>11 DEF Indexing!ReadCorpus
<1>12. ASSUME NEW b \in s.Builds, Indexing(s)!Initialize(b)
      PROVE  BuildsSound(s)'
  <2>1. /\ building[b] = "initialize" /\ UNCHANGED <<native, shuts, index, has>>
        /\ \/ /\ provider' = [provider EXCEPT ![s.Uses[b]] = "ready"]
              /\ building' = [building EXCEPT ![b] = "chunks"]
           \/ /\ provider' = [provider EXCEPT ![s.Uses[b]] = "closed"]
              /\ building' = [building EXCEPT ![b] = "abandon"]
    BY <1>12 DEF Indexing!Initialize
  <2>2. ASSUME NEW a \in s.Builds, a # b
        PROVE  BuiltSoFar(s, a)'
    <3>1. building'[a] = building[a]
      BY <1>2, <2>1, <2>2
    <3>2. CASE s.Uses[a] = s.Uses[b]
      <4>1. ~Bound(a)
        BY <1>4, <2>1, <2>2, <3>2 DEF RegistrySound, Bound
      <4>2. index[a] = "none"
        BY <1>2, <1>3, <4>1 DEF Bound
      <4>. QED  BY <1>3, <2>1, <3>1, <4>1, <4>2 DEF Bound
    <3>3. CASE s.Uses[a] # s.Uses[b]
      <4>1. provider'[s.Uses[a]] = provider[s.Uses[a]]
        BY <1>2, <2>1, <3>3
      <4>. QED  BY <1>3, <2>1, <3>1, <4>1
    <3>. QED  BY <3>2, <3>3
  <2>3. BuiltSoFar(s, b)'
    <3>1. /\ (building'[b] = "chunks" /\ provider'[s.Uses[b]] = "ready") \/ building'[b] = "abandon"
          /\ building'[b] # "initialize"
      BY <1>2, <2>1
    <3>. QED  BY <1>3, <2>1, <3>1
  <2>. QED  BY <2>2, <2>3
<1>13. ASSUME NEW b \in s.Builds, Indexing(s)!BuildChunks(b)
      PROVE  BuildsSound(s)'
  BY <1>2, <1>3, <1>13 DEF Indexing!BuildChunks
<1>14. ASSUME NEW b \in s.Builds, NEW channel \in Indexing(s)!Native, Indexing(s)!BuildNative(b, channel)
      PROVE  BuildsSound(s)'
  <2>1. /\ building[b] = channel /\ UNCHANGED <<provider, index, has>>
    BY <1>14 DEF Indexing!BuildNative, Indexing!indexes
  <2>2. CASE /\ channel \in s.Channels
             /\ native' = [native EXCEPT ![b][channel] = "open"]
             /\ building' = [building EXCEPT ![b] = Indexing(s)!After(channel)]
             /\ UNCHANGED shuts
    <3>1. \A a \in s.Builds \ {b} : BuiltSoFar(s, a)'
      BY <1>2, <1>3, <2>1, <2>2
    <3>2. /\ building'[b] = Indexing(s)!After(channel) /\ native'[b][channel] = "open"
          /\ \A x \in Indexing(s)!Native \ {channel} : native'[b][x] = native[b][x]
          /\ native[b][channel] = "none"
      BY <1>2, <1>3, <2>1, <2>2
    <3>3. BuiltSoFar(s, b)'
      BY <1>2, <1>3, <2>1, <2>2, <3>2
    <3>. QED  BY <3>1, <3>3
  <2>3. CASE /\ native' = [native EXCEPT ![b][channel] = "shut"]
             /\ shuts' = [shuts EXCEPT ![b][channel] = @ + 1]
             /\ building' = [building EXCEPT ![b] = "abandon"]
    <3>1. \A a \in s.Builds \ {b} : BuiltSoFar(s, a)'
      BY <1>2, <1>3, <2>1, <2>3
    <3>2. /\ building'[b] = "abandon" /\ native'[b][channel] = "shut"
          /\ \A x \in Indexing(s)!Native \ {channel} :
               native'[b][x] = native[b][x] /\ shuts'[b][x] = shuts[b][x]
          /\ native[b][channel] = "none" /\ shuts[b][channel] = 0 /\ shuts'[b][channel] = 1
      BY <1>2, <1>3, <2>1, <2>3
    <3>3. BuiltSoFar(s, b)'
      BY <1>2, <1>3, <2>1, <2>3, <3>2
    <3>. QED  BY <3>1, <3>3
  <2>4. CASE /\ channel \notin s.Channels /\ UNCHANGED <<native, shuts>>
             /\ building' = [building EXCEPT ![b] = Indexing(s)!After(channel)]
    <3>1. \A a \in s.Builds \ {b} : BuiltSoFar(s, a)'
      BY <1>2, <1>3, <2>1, <2>4
    <3>2. building'[b] = Indexing(s)!After(channel) /\ native[b][channel] = "none"
      BY <1>2, <1>3, <2>1, <2>4
    <3>3. BuiltSoFar(s, b)'
      BY <1>2, <1>3, <2>1, <2>4, <3>2
    <3>. QED  BY <3>1, <3>3
  <2>. QED  BY <1>14, <2>2, <2>3, <2>4 DEF Indexing!BuildNative
<1>15. ASSUME NEW b \in s.Builds, Indexing(s)!BuildSymbols(b)
      PROVE  BuildsSound(s)'
  BY <1>2, <1>3, <1>15 DEF Indexing!BuildSymbols
<1>16. ASSUME NEW b \in s.Builds, Indexing(s)!Publish(b)
      PROVE  BuildsSound(s)'
  <2>1. building[b] = "publish" /\ UNCHANGED <<provider, native, shuts>>
    BY <1>16 DEF Indexing!Publish, Indexing!Opened
  <2>2. /\ index' = [index EXCEPT ![b] = "open"]
        /\ has' = [has EXCEPT ![b] = Indexing(s)!Opened(b)]
        /\ building' = [building EXCEPT ![b] = "built"]
    <3>1. Indexing(s)!OwnedBy(s.Uses[b], Indexing(s)!Token(b))
      BY <1>4, <2>1 DEF RegistrySound, Registered, Working
    <3>. QED  BY <1>16, <3>1 DEF Indexing!Publish
  <2>3. \A a \in s.Builds \ {b} : BuiltSoFar(s, a)'
    BY <1>2, <1>3, <2>1, <2>2
  <2>4. /\ building'[b] = "built" /\ index'[b] = "open"
        /\ has'[b] = Indexing(s)!Native \cap s.Channels
    BY <1>2, <1>3, <2>1, <2>2 DEF Indexing!Opened
  <2>5. BuiltSoFar(s, b)'
    BY <1>2, <1>3, <2>1, <2>4
  <2>. QED  BY <2>3, <2>5
<1>17. ASSUME NEW b \in s.Builds, Indexing(s)!Abandon(b)
      PROVE  BuildsSound(s)'
  <2>1. /\ building[b] = "abandon" /\ UNCHANGED <<index, has>>
        /\ provider' = [provider EXCEPT ![s.Uses[b]] = "closed"]
        /\ building' = [building EXCEPT ![b] = "failed"]
        /\ native' = [native EXCEPT ![b] = [x \in Indexing(s)!Native |->
                         IF native[b][x] = "open" THEN "shut" ELSE @[x]]]
        /\ shuts' = [shuts EXCEPT ![b] = [x \in Indexing(s)!Native |->
                         IF native[b][x] = "open" THEN @[x] + 1 ELSE @[x]]]
    BY <1>17 DEF Indexing!Abandon, Indexing!Opened, Indexing!Shut
  <2>2. ASSUME NEW a \in s.Builds, a # b
        PROVE  BuiltSoFar(s, a)'
    <3>1. building'[a] = building[a] /\ native'[a] = native[a] /\ shuts'[a] = shuts[a]
      BY <1>2, <2>1, <2>2
    <3>2. CASE s.Uses[a] = s.Uses[b]
      <4>1. ~Bound(a)
        BY <1>4, <2>1, <2>2, <3>2 DEF RegistrySound, Bound
      <4>2. index[a] = "none"
        BY <1>2, <1>3, <4>1 DEF Bound
      <4>. QED  BY <1>3, <2>1, <3>1, <4>1, <4>2 DEF Bound
    <3>3. CASE s.Uses[a] # s.Uses[b]
      <4>1. provider'[s.Uses[a]] = provider[s.Uses[a]]
        BY <1>2, <2>1, <3>3
      <4>. QED  BY <1>3, <2>1, <3>1, <4>1
    <3>. QED  BY <3>2, <3>3
  <2>3. BuiltSoFar(s, b)'
    <3>1. building'[b] = "failed" /\ index[b] = "none"
      BY <1>2, <1>3, <2>1
    <3>2. \A x \in Indexing(s)!Native :
            /\ native'[b][x] = (IF native[b][x] = "open" THEN "shut" ELSE native[b][x])
            /\ shuts'[b][x] = (IF native[b][x] = "open" THEN shuts[b][x] + 1 ELSE shuts[b][x])
      BY <1>2, <2>1
    <3>. QED  BY <1>2, <1>3, <2>1, <3>1, <3>2
  <2>. QED  BY <2>2, <2>3
<1>18. ASSUME NEW r \in s.Readers, Indexing(s)!Query(r)
      PROVE  BuildsSound(s)'
  BY <1>2, <1>3, <1>18 DEF Indexing!Query
<1>19. ASSUME NEW r \in s.Readers, Indexing(s)!ReadLockTimesOut(r)
      PROVE  BuildsSound(s)'
  BY <1>2, <1>3, <1>19 DEF Indexing!ReadLockTimesOut
<1>20. ASSUME NEW r \in s.Readers, Indexing(s)!ReadFails(r)
      PROVE  BuildsSound(s)'
  BY <1>2, <1>3, <1>20 DEF Indexing!ReadFails
<1>21. ASSUME NEW r \in s.Readers, Indexing(s)!ReadLock(r)
      PROVE  BuildsSound(s)'
  BY <1>2, <1>3, <1>21 DEF Indexing!ReadLock
<1>22. ASSUME NEW r \in s.Readers, Indexing(s)!ReadCheck(r)
      PROVE  BuildsSound(s)'
  BY <1>2, <1>3, <1>22 DEF Indexing!ReadCheck
<1>23. ASSUME NEW r \in s.Readers, Indexing(s)!ReadUse(r)
      PROVE  BuildsSound(s)'
  BY <1>2, <1>3, <1>23 DEF Indexing!ReadUse
<1>24. ASSUME NEW r \in s.Readers, Indexing(s)!ReadRelease(r)
      PROVE  BuildsSound(s)'
  BY <1>2, <1>3, <1>24 DEF Indexing!ReadRelease
<1>25. ASSUME NEW c \in s.Closers, Indexing(s)!Close(c)
      PROVE  BuildsSound(s)'
  BY <1>2, <1>3, <1>25 DEF Indexing!Close
<1>26. ASSUME NEW c \in s.Closers, Indexing(s)!Take(c)
      PROVE  BuildsSound(s)'
  <2>1. s.Target[c] \in s.Builds /\ UNCHANGED <<building, provider, native, shuts>>
    BY <1>1, <1>26 DEF Indexing!Take
  <2>2. CASE index[s.Target[c]] = "closed"
    BY <1>3, <1>26, <2>1, <2>2 DEF Indexing!Take
  <2>3. CASE index[s.Target[c]] # "closed"
    <3>1. /\ index[s.Target[c]] = "open"
          /\ index' = [index EXCEPT ![s.Target[c]] = "closed"]
          /\ has' = [has EXCEPT ![s.Target[c]] = {}]
      BY <1>2, <1>5, <1>26, <2>1, <2>3 DEF Indexing!Take, ClosersApart, ClosesOnce
    <3>. QED  BY <1>2, <1>3, <2>1, <3>1
  <2>. QED  BY <2>2, <2>3
<1>27. ASSUME NEW c \in s.Closers, Indexing(s)!CloseProvider(c)
      PROVE  BuildsSound(s)'
  <2>. DEFINE b == s.Target[c]
  <2>1. /\ b \in s.Builds /\ index[b] = "closed" /\ UNCHANGED <<building, native, shuts, index, has>>
        /\ provider' = [provider EXCEPT ![s.Uses[b]] = "closed"]
    BY <1>1, <1>5, <1>27 DEF Indexing!CloseProvider, Indexing!indexes, ClosersApart, ClosesOnce
  <2>2. building[b] = "built"
    BY <1>2, <1>3, <2>1
  <2>3. ASSUME NEW a \in s.Builds
        PROVE  BuiltSoFar(s, a)'
    <3>1. CASE a = b
      BY <1>3, <2>1, <2>2, <3>1
    <3>2. CASE a # b /\ s.Uses[a] = s.Uses[b]
      <4>1. ~Bound(a)
        BY <1>4, <2>1, <2>2, <3>2 DEF RegistrySound, Bound
      <4>2. index[a] = "none"
        BY <1>2, <1>3, <4>1 DEF Bound
      <4>. QED  BY <1>3, <2>1, <4>1, <4>2 DEF Bound
    <3>3. CASE s.Uses[a] # s.Uses[b]
      <4>1. provider'[s.Uses[a]] = provider[s.Uses[a]]
        BY <1>2, <2>1, <3>3
      <4>. QED  BY <1>3, <2>1, <4>1
    <3>. QED  BY <3>1, <3>2, <3>3
  <2>. QED  BY <2>3
<1>28. ASSUME NEW c \in s.Closers, Indexing(s)!Unbind(c)
      PROVE  BuildsSound(s)'
  BY <1>2, <1>3, <1>28 DEF Indexing!Unbind
<1>29. ASSUME NEW c \in s.Closers, NEW channel \in Indexing(s)!Native, Indexing(s)!CloseNative(c, channel)
      PROVE  BuildsSound(s)'
  <2>. DEFINE b == s.Target[c]
  <2>1. /\ b \in s.Builds /\ closing[c] = channel /\ UNCHANGED <<building, provider, index, has>>
        /\ native' = [native EXCEPT ![b] = [x \in Indexing(s)!Native |->
                         IF x \in taken[c] \cap {channel} THEN "shut" ELSE @[x]]]
        /\ shuts' = [shuts EXCEPT ![b] = [x \in Indexing(s)!Native |->
                         IF x \in taken[c] \cap {channel} THEN @[x] + 1 ELSE @[x]]]
    BY <1>1, <1>29 DEF Indexing!CloseNative, Indexing!Shut, Indexing!objects, Indexing!indexes
  <2>2. index[b] = "closed" /\ (channel \in taken[c] => native[b][channel] = "open")
    BY <1>5, <2>1, <1>29 DEF ClosersApart, ClosesOnce
  <2>3. \A a \in s.Builds \ {b} : BuiltSoFar(s, a)'
    BY <1>2, <1>3, <2>1
  <2>4. /\ \A x \in Indexing(s)!Native \ {channel} :
             native'[b][x] = native[b][x] /\ shuts'[b][x] = shuts[b][x]
        /\ channel \in taken[c] => native'[b][channel] = "shut" /\ shuts'[b][channel] = shuts[b][channel] + 1
        /\ channel \notin taken[c] =>
             native'[b][channel] = native[b][channel] /\ shuts'[b][channel] = shuts[b][channel]
    BY <1>2, <2>1
  <2>5. BuiltSoFar(s, b)'
    BY <1>2, <1>3, <2>1, <2>2, <2>4
  <2>. QED  BY <2>3, <2>5
<1>. QED
  BY <1>6, <1>7, <1>8, <1>9, <1>10, <1>11, <1>12, <1>13, <1>14, <1>15, <1>16, <1>17, <1>18, <1>19, <1>20, <1>21, <1>22, <1>23, <1>24, <1>25, <1>26, <1>27, <1>28, <1>29 DEF Indexing!Next, Indexing!Objects, Indexing!BuildStep, Indexing!ReadStep, Indexing!CloseStep

LEMMA ReadersHold ==
  ASSUME NEW s, Indexing(s)!BuildsAssumption, IndexInv(s), Indexing(s)!Next
  PROVE  ReadersAlone(s)'
<1>. USE DEF ReadersAlone, ReadsAlone, Indexing!Nothing, Indexing!objects, Indexing!backends, Indexing!indexes, Indexing!callers, Indexing!Build, Indexing!Read, Indexing!Closing, Indexing!Register, Indexing!Release, Indexing!BuildPoints, Indexing!ReadPoints, Indexing!ClosePoints, Indexing!Using, Indexing!Native, Indexing!ReadNext, Indexing!After
<1>1. /\ s.Uses \in [s.Builds -> s.Providers]
      /\ s.Target \in [s.Readers \cup s.Closers -> s.Builds]
  BY DEF Indexing!BuildsAssumption
<1>2. ReadersAlone(s)
  BY DEF IndexInv
<1>3. /\ reading \in [s.Readers -> Indexing(s)!ReadPoints]
      /\ index \in [s.Builds -> {"none", "open", "closed"}]
      /\ DOMAIN lock = s.Builds /\ lock = [b \in DOMAIN lock |-> lock[b]]
  BY DEF IndexInv, IndexTyped, Indexing!TypeOK
<1>4. ASSUME NEW p \in s.Providers, Indexing(s)!Create(p)
      PROVE  ReadersAlone(s)'
  BY <1>1, <1>2, <1>3, <1>4 DEF Indexing!Create
<1>5. ASSUME NEW p \in s.Providers, Indexing(s)!Collect(p)
      PROVE  ReadersAlone(s)'
  BY <1>1, <1>2, <1>3, <1>5 DEF Indexing!Collect
<1>6. ASSUME NEW p \in s.Providers, Indexing(s)!Forget(p)
      PROVE  ReadersAlone(s)'
  BY <1>1, <1>2, <1>3, <1>6 DEF Indexing!Forget
<1>7. ASSUME NEW b \in s.Builds, Indexing(s)!Bind(b)
      PROVE  ReadersAlone(s)'
  BY <1>1, <1>2, <1>3, <1>7 DEF Indexing!Bind, Indexing!Bindable, Indexing!Alive
<1>8. ASSUME NEW b \in s.Builds, Indexing(s)!BuildFails(b)
      PROVE  ReadersAlone(s)'
  BY <1>1, <1>2, <1>3, <1>8 DEF Indexing!BuildFails
<1>9. ASSUME NEW b \in s.Builds, Indexing(s)!ReadCorpus(b)
      PROVE  ReadersAlone(s)'
  BY <1>1, <1>2, <1>3, <1>9 DEF Indexing!ReadCorpus
<1>10. ASSUME NEW b \in s.Builds, Indexing(s)!Initialize(b)
      PROVE  ReadersAlone(s)'
  BY <1>1, <1>2, <1>3, <1>10 DEF Indexing!Initialize
<1>11. ASSUME NEW b \in s.Builds, Indexing(s)!BuildChunks(b)
      PROVE  ReadersAlone(s)'
  BY <1>1, <1>2, <1>3, <1>11 DEF Indexing!BuildChunks
<1>12. ASSUME NEW b \in s.Builds, NEW channel \in Indexing(s)!Native, Indexing(s)!BuildNative(b, channel)
      PROVE  ReadersAlone(s)'
  BY <1>1, <1>2, <1>3, <1>12 DEF Indexing!BuildNative
<1>13. ASSUME NEW b \in s.Builds, Indexing(s)!BuildSymbols(b)
      PROVE  ReadersAlone(s)'
  BY <1>1, <1>2, <1>3, <1>13 DEF Indexing!BuildSymbols
<1>14. ASSUME NEW b \in s.Builds, Indexing(s)!Publish(b)
      PROVE  ReadersAlone(s)'
  BY <1>1, <1>2, <1>3, <1>14 DEF Indexing!Publish, Indexing!Opened
<1>15. ASSUME NEW b \in s.Builds, Indexing(s)!Abandon(b)
      PROVE  ReadersAlone(s)'
  BY <1>1, <1>2, <1>3, <1>15 DEF Indexing!Abandon, Indexing!Opened, Indexing!Shut
<1>16. ASSUME NEW r \in s.Readers, Indexing(s)!Query(r)
      PROVE  ReadersAlone(s)'
  BY <1>1, <1>2, <1>3, <1>16 DEF Indexing!Query
<1>17. ASSUME NEW r \in s.Readers, Indexing(s)!ReadLockTimesOut(r)
      PROVE  ReadersAlone(s)'
  BY <1>1, <1>2, <1>3, <1>17 DEF Indexing!ReadLockTimesOut
<1>18. ASSUME NEW r \in s.Readers, Indexing(s)!ReadFails(r)
      PROVE  ReadersAlone(s)'
  BY <1>1, <1>2, <1>3, <1>18 DEF Indexing!ReadFails
<1>19. ASSUME NEW r \in s.Readers, Indexing(s)!ReadLock(r)
      PROVE  ReadersAlone(s)'
  BY <1>1, <1>2, <1>3, <1>19 DEF Indexing!ReadLock
<1>20. ASSUME NEW r \in s.Readers, Indexing(s)!ReadCheck(r)
      PROVE  ReadersAlone(s)'
  BY <1>1, <1>2, <1>3, <1>20 DEF Indexing!ReadCheck
<1>21. ASSUME NEW r \in s.Readers, Indexing(s)!ReadUse(r)
      PROVE  ReadersAlone(s)'
  BY <1>1, <1>2, <1>3, <1>21 DEF Indexing!ReadUse
<1>22. ASSUME NEW r \in s.Readers, Indexing(s)!ReadRelease(r)
      PROVE  ReadersAlone(s)'
  BY <1>1, <1>2, <1>3, <1>22 DEF Indexing!ReadRelease
<1>23. ASSUME NEW c \in s.Closers, Indexing(s)!Close(c)
      PROVE  ReadersAlone(s)'
  BY <1>1, <1>2, <1>3, <1>23 DEF Indexing!Close
<1>24. ASSUME NEW c \in s.Closers, Indexing(s)!Take(c)
      PROVE  ReadersAlone(s)'
  <2>. DEFINE b == s.Target[c]
  <2>1. /\ b \in s.Builds /\ lock[b] = <<>> /\ UNCHANGED <<lock, reading>>
        /\ index' = index \/ index' = [index EXCEPT ![b] = "closed"]
    BY <1>1, <1>24 DEF Indexing!Take
  <2>2. \A r \in s.Readers : reading[r] \in Indexing(s)!Using => s.Target[r] # b
    <3>1. \A r \in s.Readers : <<r>> # <<>>
      OBVIOUS
    <3>. QED  BY <1>2, <2>1, <3>1
  <2>. QED  BY <1>1, <1>2, <1>3, <2>1, <2>2
<1>25. ASSUME NEW c \in s.Closers, Indexing(s)!CloseProvider(c)
      PROVE  ReadersAlone(s)'
  BY <1>1, <1>2, <1>3, <1>25 DEF Indexing!CloseProvider
<1>26. ASSUME NEW c \in s.Closers, Indexing(s)!Unbind(c)
      PROVE  ReadersAlone(s)'
  BY <1>1, <1>2, <1>3, <1>26 DEF Indexing!Unbind
<1>27. ASSUME NEW c \in s.Closers, NEW channel \in Indexing(s)!Native, Indexing(s)!CloseNative(c, channel)
      PROVE  ReadersAlone(s)'
  BY <1>1, <1>2, <1>3, <1>27 DEF Indexing!CloseNative, Indexing!Shut
<1>. QED
  BY <1>4, <1>5, <1>6, <1>7, <1>8, <1>9, <1>10, <1>11, <1>12, <1>13, <1>14, <1>15, <1>16, <1>17, <1>18, <1>19, <1>20, <1>21, <1>22, <1>23, <1>24, <1>25, <1>26, <1>27 DEF Indexing!Next, Indexing!Objects, Indexing!BuildStep, Indexing!ReadStep, Indexing!CloseStep

LEMMA ClosersHold ==
  ASSUME NEW s, Indexing(s)!BuildsAssumption, IndexInv(s), Indexing(s)!Next
  PROVE  ClosersApart(s)'
<1>. USE DEF ClosersApart, ClosesOnce, Indexing!Nothing, Indexing!objects, Indexing!backends, Indexing!indexes, Indexing!callers, Indexing!Build, Indexing!Read, Indexing!Closing, Indexing!Register, Indexing!Release, Indexing!BuildPoints, Indexing!ReadPoints, Indexing!ClosePoints, Indexing!Using, Indexing!Native, Indexing!ReadNext, Indexing!After
<1>1. /\ s.Uses \in [s.Builds -> s.Providers]
      /\ s.Target \in [s.Readers \cup s.Closers -> s.Builds]
  BY DEF Indexing!BuildsAssumption
<1>2. ClosersApart(s)
  BY DEF IndexInv
<1>3. /\ closing \in [s.Closers -> Indexing(s)!ClosePoints]
      /\ index \in [s.Builds -> {"none", "open", "closed"}]
      /\ native \in [s.Builds -> [Indexing(s)!Native -> {"none", "open", "shut"}]]
      /\ DOMAIN taken = s.Closers /\ DOMAIN has = s.Builds
      /\ \A c \in s.Closers : s.Target[c] \in s.Builds
  BY <1>1 DEF IndexInv, IndexTyped, Indexing!TypeOK
<1>4. BuildsSound(s) /\ DOMAIN building = s.Builds
  BY DEF IndexInv, IndexTyped, Indexing!TypeOK
<1>5. ASSUME NEW p \in s.Providers, Indexing(s)!Create(p)
      PROVE  ClosersApart(s)'
  BY <1>2, <1>3, <1>5 DEF Indexing!Create
<1>6. ASSUME NEW p \in s.Providers, Indexing(s)!Collect(p)
      PROVE  ClosersApart(s)'
  BY <1>2, <1>3, <1>6 DEF Indexing!Collect
<1>7. ASSUME NEW p \in s.Providers, Indexing(s)!Forget(p)
      PROVE  ClosersApart(s)'
  BY <1>2, <1>3, <1>7 DEF Indexing!Forget
<1>8. ASSUME NEW b \in s.Builds, Indexing(s)!Bind(b)
      PROVE  ClosersApart(s)'
  BY <1>2, <1>3, <1>8 DEF Indexing!Bind, Indexing!Bindable, Indexing!Alive
<1>9. ASSUME NEW b \in s.Builds, Indexing(s)!BuildFails(b)
      PROVE  ClosersApart(s)'
  BY <1>2, <1>3, <1>9 DEF Indexing!BuildFails
<1>10. ASSUME NEW b \in s.Builds, Indexing(s)!ReadCorpus(b)
      PROVE  ClosersApart(s)'
  BY <1>2, <1>3, <1>10 DEF Indexing!ReadCorpus
<1>11. ASSUME NEW b \in s.Builds, Indexing(s)!Initialize(b)
      PROVE  ClosersApart(s)'
  BY <1>2, <1>3, <1>11 DEF Indexing!Initialize
<1>12. ASSUME NEW b \in s.Builds, Indexing(s)!BuildChunks(b)
      PROVE  ClosersApart(s)'
  BY <1>2, <1>3, <1>12 DEF Indexing!BuildChunks
<1>13. ASSUME NEW b \in s.Builds, NEW channel \in Indexing(s)!Native, Indexing(s)!BuildNative(b, channel)
      PROVE  ClosersApart(s)'
  <2>1. /\ UNCHANGED <<closing, taken>>
        /\ index' = index
        /\ \A a \in s.Builds \ {b} : native'[a] = native[a]
        /\ building[b] # "built"
    BY <1>3, <1>13 DEF Indexing!BuildNative, Indexing!indexes
  <2>2. index[b] = "none"
    BY <1>3, <1>4, <2>1 DEF BuildsSound, BuiltSoFar
  <2>3. \A c \in s.Closers : s.Target[c] = b => taken[c] = {}
    BY <1>2, <1>3, <2>2
  <2>. QED  BY <1>2, <1>3, <2>1, <2>3
<1>14. ASSUME NEW b \in s.Builds, Indexing(s)!BuildSymbols(b)
      PROVE  ClosersApart(s)'
  BY <1>2, <1>3, <1>14 DEF Indexing!BuildSymbols
<1>15. ASSUME NEW b \in s.Builds, Indexing(s)!Publish(b)
      PROVE  ClosersApart(s)'
  <2>1. /\ UNCHANGED <<closing, taken, native>> /\ building[b] = "publish"
        /\ index' = index \/ index' = [index EXCEPT ![b] = "open"]
    BY <1>15 DEF Indexing!Publish, Indexing!Opened
  <2>2. index[b] = "none"
    BY <1>3, <1>4, <2>1 DEF BuildsSound, BuiltSoFar
  <2>. QED  BY <1>2, <1>3, <2>1, <2>2
<1>16. ASSUME NEW b \in s.Builds, Indexing(s)!Abandon(b)
      PROVE  ClosersApart(s)'
  <2>1. /\ UNCHANGED <<closing, taken>>
        /\ index' = index
        /\ \A a \in s.Builds \ {b} : native'[a] = native[a]
        /\ building[b] # "built"
    BY <1>3, <1>16 DEF Indexing!Abandon, Indexing!Opened, Indexing!Shut, Indexing!indexes
  <2>2. index[b] = "none"
    BY <1>3, <1>4, <2>1 DEF BuildsSound, BuiltSoFar
  <2>3. \A c \in s.Closers : s.Target[c] = b => taken[c] = {}
    BY <1>2, <1>3, <2>2
  <2>. QED  BY <1>2, <1>3, <2>1, <2>3
<1>17. ASSUME NEW r \in s.Readers, Indexing(s)!Query(r)
      PROVE  ClosersApart(s)'
  BY <1>2, <1>3, <1>17 DEF Indexing!Query
<1>18. ASSUME NEW r \in s.Readers, Indexing(s)!ReadLockTimesOut(r)
      PROVE  ClosersApart(s)'
  BY <1>2, <1>3, <1>18 DEF Indexing!ReadLockTimesOut
<1>19. ASSUME NEW r \in s.Readers, Indexing(s)!ReadFails(r)
      PROVE  ClosersApart(s)'
  BY <1>2, <1>3, <1>19 DEF Indexing!ReadFails
<1>20. ASSUME NEW r \in s.Readers, Indexing(s)!ReadLock(r)
      PROVE  ClosersApart(s)'
  BY <1>2, <1>3, <1>20 DEF Indexing!ReadLock
<1>21. ASSUME NEW r \in s.Readers, Indexing(s)!ReadCheck(r)
      PROVE  ClosersApart(s)'
  BY <1>2, <1>3, <1>21 DEF Indexing!ReadCheck
<1>22. ASSUME NEW r \in s.Readers, Indexing(s)!ReadUse(r)
      PROVE  ClosersApart(s)'
  BY <1>2, <1>3, <1>22 DEF Indexing!ReadUse
<1>23. ASSUME NEW r \in s.Readers, Indexing(s)!ReadRelease(r)
      PROVE  ClosersApart(s)'
  BY <1>2, <1>3, <1>23 DEF Indexing!ReadRelease
<1>24. ASSUME NEW c \in s.Closers, Indexing(s)!Close(c)
      PROVE  ClosersApart(s)'
  BY <1>2, <1>3, <1>24 DEF Indexing!Close
<1>25. ASSUME NEW c \in s.Closers, Indexing(s)!Take(c)
      PROVE  ClosersApart(s)'
  <2>. DEFINE b == s.Target[c]
  <2>1. b \in s.Builds /\ closing[c] = "take" /\ UNCHANGED native /\ taken[c] = {}
    BY <1>2, <1>3, <1>25 DEF Indexing!Take
  <2>2. CASE index[b] = "closed"
    BY <1>2, <1>3, <1>25, <2>1, <2>2 DEF Indexing!Take
  <2>3. CASE index[b] # "closed"
    <3>1. /\ index[b] = "open" /\ index' = [index EXCEPT ![b] = "closed"]
          /\ taken' = [taken EXCEPT ![c] = has[b]] /\ closing' = [closing EXCEPT ![c] = "text"]
      BY <1>2, <1>3, <1>25, <2>1, <2>3 DEF Indexing!Take
    <3>2. \A d \in s.Closers : s.Target[d] = b => closing[d] \in {"start", "take"} /\ taken[d] = {}
      BY <1>2, <1>3, <3>1
    <3>3. /\ has[b] = Indexing(s)!Native \cap s.Channels
          /\ \A x \in Indexing(s)!Native : native[b][x] = "open" <=> x \in s.Channels
      BY <1>4, <2>1, <3>1 DEF BuildsSound, BuiltSoFar
    <3>4. \A d \in s.Closers \ {c} : ClosesOnce(s, d)'
      BY <1>2, <1>3, <2>1, <3>1, <3>2
    <3>5. ClosesOnce(s, c)'
      BY <1>3, <2>1, <3>1, <3>3
    <3>6. \A d, e \in s.Closers :
            s.Target[d] = s.Target[e] /\ taken'[d] # {} /\ taken'[e] # {} => d = e
      BY <1>2, <1>3, <3>1, <3>2
    <3>. QED  BY <3>4, <3>5, <3>6
  <2>. QED  BY <2>2, <2>3
<1>26. ASSUME NEW c \in s.Closers, Indexing(s)!CloseProvider(c)
      PROVE  ClosersApart(s)'
  BY <1>2, <1>3, <1>26 DEF Indexing!CloseProvider
<1>27. ASSUME NEW c \in s.Closers, Indexing(s)!Unbind(c)
      PROVE  ClosersApart(s)'
  BY <1>2, <1>3, <1>27 DEF Indexing!Unbind
<1>28. ASSUME NEW c \in s.Closers, NEW channel \in Indexing(s)!Native, Indexing(s)!CloseNative(c, channel)
      PROVE  ClosersApart(s)'
  <2>. DEFINE b == s.Target[c]
  <2>1. /\ b \in s.Builds /\ closing[c] = channel /\ UNCHANGED <<index, taken>>
        /\ native' = [native EXCEPT ![b] = [x \in Indexing(s)!Native |->
                         IF x \in taken[c] \cap {channel} THEN "shut" ELSE native[b][x]]]
        /\ closing' = [closing EXCEPT ![c] = IF channel = "text" THEN "vector" ELSE "provider"]
    BY <1>3, <1>28 DEF Indexing!CloseNative, Indexing!Shut
  <2>2. /\ \A x \in Indexing(s)!Native \ {channel} : native'[b][x] = native[b][x]
        /\ channel \in taken[c] => native'[b][channel] = "shut"
        /\ channel \notin taken[c] => native'[b] = native[b]
        /\ \A a \in s.Builds \ {b} : native'[a] = native[a]
    BY <1>3, <2>1
  <2>3. ASSUME NEW d \in s.Closers, d # c
        PROVE  ClosesOnce(s, d)'
    <3>1. closing'[d] = closing[d] /\ taken'[d] = taken[d]
      BY <1>3, <2>1, <2>3
    <3>2. CASE s.Target[d] = b /\ taken[d] # {}
      <4>1. taken[c] = {}
        BY <1>2, <2>3, <3>2
      <4>2. native'[b] = native[b]
        BY <2>2, <4>1
      <4>. QED  BY <1>2, <2>1, <2>3, <3>1, <3>2, <4>2
    <3>3. CASE ~(s.Target[d] = b /\ taken[d] # {})
      BY <1>2, <1>3, <2>1, <2>2, <2>3, <3>1, <3>3
    <3>. QED  BY <3>2, <3>3
  <2>4. ClosesOnce(s, c)'
    <3>1. closing'[c] = (IF channel = "text" THEN "vector" ELSE "provider")
      BY <1>3, <2>1
    <3>2. ClosesOnce(s, c) /\ channel \in {"text", "vector"}
      BY <1>2, <1>28
    <3>. QED  BY <2>1, <2>2, <3>1, <3>2
  <2>5. \A d, e \in s.Closers :
          s.Target[d] = s.Target[e] /\ taken'[d] # {} /\ taken'[e] # {} => d = e
    BY <1>2, <2>1
  <2>. QED  BY <2>3, <2>4, <2>5
<1>. QED
  BY <1>5, <1>6, <1>7, <1>8, <1>9, <1>10, <1>11, <1>12, <1>13, <1>14, <1>15, <1>16, <1>17, <1>18, <1>19, <1>20, <1>21, <1>22, <1>23, <1>24, <1>25, <1>26, <1>27, <1>28 DEF Indexing!Next, Indexing!Objects, Indexing!BuildStep, Indexing!ReadStep, Indexing!CloseStep

LEMMA IndexStarts ==
  ASSUME NEW s, Indexing(s)!BuildsAssumption, Indexing(s)!Init
  PROVE  IndexInv(s)
<1>. USE DEF Indexing!Init, Indexing!Nothing, Indexing!Native
<1>1. IndexTyped(s)
  BY DEF IndexTyped, Indexing!TypeOK, Indexing!BuildPoints, Indexing!ReadPoints,
     Indexing!ClosePoints, Indexing!Addresses
<1>2. RegistrySound(s)
  BY DEF RegistrySound, Registered, Bound, Working, Indexing!BuildsAssumption
<1>3. BuildsSound(s)
  BY DEF BuildsSound, BuiltSoFar, Before, Beyond, Indexing!BuildsAssumption
<1>4. ReadersAlone(s)
  BY DEF ReadersAlone, ReadsAlone, Indexing!Using
<1>5. ClosersApart(s)
  BY DEF ClosersApart, ClosesOnce
<1>. QED  BY <1>1, <1>2, <1>3, <1>4, <1>5 DEF IndexInv

LEMMA IndexKept ==
  ASSUME NEW s, IndexInv(s), UNCHANGED <<indexVars, lock, native>>
  PROVE  IndexInv(s)'
<1>. USE DEF indexVars
<1>1. IndexTyped(s)'
  BY DEF IndexInv, IndexTyped, Indexing!TypeOK
<1>2. RegistrySound(s)'
  BY RegistryKept DEF IndexInv, Bound
<1>3. BuildsSound(s)'
  BY DEF IndexInv, BuildsSound, BuiltSoFar
<1>4. ReadersAlone(s)'
  BY DEF IndexInv, ReadersAlone, ReadsAlone
<1>5. ClosersApart(s)'
  BY DEF IndexInv, ClosersApart, ClosesOnce
<1>. QED  BY <1>1, <1>2, <1>3, <1>4, <1>5 DEF IndexInv

LEMMA IndexSafe ==
  ASSUME NEW s, Indexing(s)!BuildsAssumption, IndexInv(s)
  PROVE  /\ Indexing(s)!TypeOK /\ Indexing(s)!OpenIndexOwnsItsProvider
         /\ Indexing(s)!NothingUsedAfterClose /\ Indexing(s)!ShutOnce
<1>1. /\ s.Uses \in [s.Builds -> s.Providers]
      /\ s.Target \in [s.Readers \cup s.Closers -> s.Builds]
  BY DEF Indexing!BuildsAssumption
<1>2. /\ IndexTyped(s) /\ RegistrySound(s) /\ BuildsSound(s) /\ ReadersAlone(s)
      /\ ClosersApart(s) /\ Indexing(s)!TypeOK
  BY DEF IndexInv, IndexTyped
<1>3. \A b \in s.Builds : Registered(s, b) /\ BuiltSoFar(s, b)
  BY <1>2 DEF RegistrySound, BuildsSound
<1>4. \A b \in s.Builds : index[b] = "open" =>
        \A other \in s.Builds \ {b} :
          s.Uses[other] = s.Uses[b] => building[other] \in {"start", "refused"}
  BY <1>2, <1>3 DEF RegistrySound, BuiltSoFar, Bound
<1>5. Indexing(s)!OpenIndexOwnsItsProvider
  BY <1>3, <1>4 DEF Registered, BuiltSoFar, Indexing!OpenIndexOwnsItsProvider
<1>6. Indexing(s)!NothingUsedAfterClose
  BY <1>1, <1>2, <1>3 DEF ReadersAlone, ReadsAlone, BuiltSoFar, Indexing!Native,
     Indexing!NothingUsedAfterClose
<1>7. Indexing(s)!ShutOnce
  <2>1. \A b \in s.Builds, x \in Indexing(s)!Native :
          shuts[b][x] = (IF native[b][x] = "shut" THEN 1 ELSE 0)
    BY <1>3 DEF BuiltSoFar
  <2>2. \A b \in s.Builds : building[b] = "failed" => Indexing(s)!Opened(b) = {}
    BY <1>3 DEF BuiltSoFar, Indexing!Opened
  <2>3. \A c \in s.Closers :
          closing[c] = "ended" /\ taken[c] # {} => Indexing(s)!Opened(s.Target[c]) = {}
    BY <1>2 DEF ClosersApart, ClosesOnce, Indexing!Opened
  <2>. QED  BY <2>1, <2>2, <2>3 DEF Indexing!ShutOnce
<1>. QED  BY <1>2, <1>5, <1>6, <1>7

-----------------------------------------------------------------------------
(* A native model or backend has one owner.                                *)
OwnersInv ==
  /\ \A i \in DOMAIN CacheSettings : part = "cache" /\ setting = i => CacheInv(CacheSettings[i])
  /\ \A i \in DOMAIN IndexSettings : part = "index" /\ setting = i => IndexInv(IndexSettings[i])

LEMMA OwnersStart == Init => OwnersInv
<1>1. ASSUME NEW i \in DOMAIN CacheSettings, Caching(CacheSettings[i])!Init
      PROVE  CacheInv(CacheSettings[i])
  BY <1>1, CacheStarts, CacheAssumption DEF CacheAssumptions
<1>2. ASSUME NEW i \in DOMAIN IndexSettings, Indexing(IndexSettings[i])!Init
      PROVE  IndexInv(IndexSettings[i])
  BY <1>2, IndexStarts, IndexAssumption
<1>3. Init => /\ part = "cache" => \E i \in DOMAIN CacheSettings :
                   setting = i /\ Caching(CacheSettings[i])!Init
              /\ part = "index" => \E i \in DOMAIN IndexSettings :
                   setting = i /\ Indexing(IndexSettings[i])!Init
  BY DEF Init
<1>. QED  BY <1>1, <1>2, <1>3 DEF OwnersInv

LEMMA OwnersStep == OwnersInv /\ [Next]_vars => OwnersInv'
<1>. SUFFICES ASSUME OwnersInv, [Next]_vars
              PROVE  OwnersInv'
  OBVIOUS
<1>1. ASSUME NEW i \in DOMAIN CacheSettings, part' = "cache", setting' = i
      PROVE  CacheInv(CacheSettings[i])'
  <2>. DEFINE s == CacheSettings[i]
  <2>1. CacheAssumptions(s)
    BY CacheAssumption DEF CacheAssumptions
  <2>2. CASE IsCache(i) /\ Caching(s)!Next
    <3>1. CacheInv(s)
      BY <2>2 DEF OwnersInv, IsCache
    <3>2. CacheTyped(s)' /\ LockIsHeld(s)' /\ CopyIsExact(s)'
      BY <2>1, <2>2, <3>1, CacheTypes, LockHolds, CopyHolds
    <3>. QED  BY <3>2 DEF CacheInv
  <2>3. CASE UNCHANGED vars
    <3>1. CacheInv(s)
      BY <1>1, <2>3 DEF OwnersInv, vars
    <3>. QED  BY <2>3, <3>1, CacheKept DEF vars
  <2>. QED
    BY <1>1, <2>2, <2>3 DEF Next, IsReview, IsCache, IsIndex, IsQuery, IsFile
<1>2. ASSUME NEW i \in DOMAIN IndexSettings, part' = "index", setting' = i
      PROVE  IndexInv(IndexSettings[i])'
  <2>. DEFINE s == IndexSettings[i]
  <2>1. Indexing(s)!BuildsAssumption
    BY IndexAssumption
  <2>2. CASE IsIndex(i) /\ Indexing(s)!Next
    <3>1. IndexInv(s)
      BY <2>2 DEF OwnersInv, IsIndex
    <3>2. /\ IndexTyped(s)' /\ RegistrySound(s)' /\ BuildsSound(s)'
          /\ ReadersAlone(s)' /\ ClosersApart(s)'
      BY <2>1, <2>2, <3>1, IndexTypes, RegistryHolds, BuildsHold, ReadersHold, ClosersHold
    <3>. QED  BY <3>2 DEF IndexInv
  <2>3. CASE UNCHANGED vars
    <3>1. IndexInv(s)
      BY <1>2, <2>3 DEF OwnersInv, vars
    <3>. QED  BY <2>3, <3>1, IndexKept DEF vars
  <2>. QED
    BY <1>2, <2>2, <2>3 DEF Next, IsReview, IsCache, IsIndex, IsQuery, IsFile
<1>. QED  BY <1>1, <1>2 DEF OwnersInv

(* Whatever other processes do to the cache, whatever fails and whoever    *)
(* closes: what is loaded was verified, a call that ended gave back the    *)
(* lock and holds a native model only if its provider is live, an open     *)
(* index alone can close its provider, and nobody uses what was closed or  *)
(* closes it twice.                                                        *)
THEOREM OneOwner == Spec => []ProvidersAreOwned
<1>1. OwnersInv => ProvidersAreOwned
  <2>1. \A i \in DOMAIN IndexSettings : Indexing(IndexSettings[i])!BuildsAssumption
    BY IndexAssumption
  <2>. QED  BY <2>1, CacheSafe, IndexSafe DEF OwnersInv, ProvidersAreOwned
<1>. QED  BY <1>1, OwnersStart, OwnersStep, PTL DEF Spec

-----------------------------------------------------------------------------
(* Numbers, cardinality and sorting.  A non-empty set of natural numbers   *)
(* has a least element: strict inclusion is well-founded on finite sets.   *)

LEMMA CardinalitySame ==
  ASSUME NEW s, NEW S
  PROVE  Reviewing(s)!Cardinality(S) = Cardinality(S)
BY DEF Reviewing!Cardinality, Cardinality

LEMMA LeastNat ==
  ASSUME NEW T \in SUBSET Nat, T # {}
  PROVE  \E x \in T : \A y \in T : x <= y
<1>. DEFINE Below(n) == 0 .. n - 1
            W == {Below(n) : n \in T}
<1>1. IsWellFoundedOn(StrictSubsetOrdering(Nat), FiniteSubsetsOf(Nat))
  BY FS_StrictSubsetOrderingWellFounded, Zenon
<1>2. W \subseteq FiniteSubsetsOf(Nat) /\ W # {}
  <2>1. \A n \in T : 0 \in Int /\ n - 1 \in Int
    OBVIOUS
  <2>2. \A n \in T : IsFiniteSet(Below(n))
    BY <2>1, FS_Interval
  <2>3. \A n \in T : Below(n) \in SUBSET Nat
    OBVIOUS
  <2>4. \A w \in W : w \in SUBSET Nat /\ IsFiniteSet(w)
    BY <2>2, <2>3
  <2>. QED  BY <2>4 DEF FiniteSubsetsOf
<1>. HIDE DEF W
<1>3. PICK w \in W : \A v \in W : ~(<<v, w>> \in StrictSubsetOrdering(Nat))
  BY <1>1, <1>2, WFMin, Zenon
<1>4. PICK x \in T : w = Below(x)
  BY <1>3 DEF W
<1>5. \A y \in T : x <= y
  <2>1. SUFFICES ASSUME NEW y \in T, y < x
                 PROVE  FALSE
    OBVIOUS
  <2>2. Below(y) \in W
    BY DEF W
  <2>3. Below(y) \subseteq Below(x) /\ y \in Below(x) /\ y \notin Below(y)
    BY <2>1
  <2>4. Below(y) \in SUBSET Nat /\ Below(x) \in SUBSET Nat /\ Below(y) # Below(x)
    BY <2>3
  <2>5. <<Below(y), Below(x)>> \in StrictSubsetOrdering(Nat)
    BY <2>3, <2>4 DEF StrictSubsetOrdering
  <2>. QED  BY <1>3, <1>4, <2>2, <2>5
<1>. QED  BY <1>5

LEMMA SortedOrdered ==
  ASSUME NEW S, IsFiniteSet(S), NEW R,
         \A x \in S : <<x, x>> \notin R,
         \A x, y, z \in S : <<x, y>> \in R /\ <<y, z>> \in R => <<x, z>> \in R,
         \A x, y \in S : x # y => <<x, y>> \in R \/ <<y, x>> \in R
  PROVE  /\ Cardinality(S) \in Nat
         /\ Sorted(S, R) \in [1 .. Cardinality(S) -> S]
         /\ \A i, j \in 1 .. Cardinality(S) : i < j => <<Sorted(S, R)[i], Sorted(S, R)[j]>> \in R
         /\ \A x \in S : \E i \in 1 .. Cardinality(S) : Sorted(S, R)[i] = x
<1>. DEFINE Under(x) == {y \in S : <<y, x>> \in R}
            c == [x \in S |-> Cardinality(Under(x))]
            n == Cardinality(S)
            f == Sorted(S, R)
<1>1. n \in Nat
  BY FS_CardinalityType
<1>2. \A x \in S : IsFiniteSet(Under(x)) /\ Cardinality(Under(x)) \in Nat
  <2>1. \A x \in S : Under(x) \in SUBSET S
    OBVIOUS
  <2>2. \A x \in S : IsFiniteSet(Under(x))
    BY <2>1, FS_Subset
  <2>. QED  BY <2>2, FS_CardinalityType
<1>3. \A x \in S : Cardinality(Under(x)) \in 0 .. n - 1
  <2>1. TAKE x \in S
  <2>2. Under(x) \in SUBSET S /\ Under(x) # S
    OBVIOUS
  <2>3. Cardinality(Under(x)) <= n /\ Cardinality(Under(x)) # n
    BY <2>2, FS_Subset
  <2>. QED  BY <1>1, <1>2, <2>3
<1>4. \A x, y \in S : <<x, y>> \in R => Cardinality(Under(x)) < Cardinality(Under(y))
  <2>1. TAKE x, y \in S
  <2>2. HAVE <<x, y>> \in R
  <2>3. Under(x) \in SUBSET Under(y) /\ x \in Under(y) /\ x \notin Under(x)
    BY <2>2
  <2>4. Cardinality(Under(x)) <= Cardinality(Under(y)) /\ Cardinality(Under(x)) # Cardinality(Under(y))
    BY <1>2, <2>3, FS_Subset
  <2>. QED  BY <1>2, <2>4
<1>0. c \in [S -> 0 .. n - 1] /\ \A x \in S : c[x] = Cardinality(Under(x))
  BY <1>3
<1>. HIDE DEF Under, c
<1>5. c \in Injection(S, 0 .. n - 1)
  <2>1. c \in [S -> 0 .. n - 1]
    BY <1>0
  <2>2. \A x, y \in S : c[x] = c[y] => x = y
    <3>1. TAKE x, y \in S
    <3>2. c[x] = Cardinality(Under(x)) /\ c[y] = Cardinality(Under(y))
      BY <1>0
    <3>3. Cardinality(Under(x)) \in Nat /\ Cardinality(Under(y)) \in Nat
      BY <1>2
    <3>4. (<<x, y>> \notin R /\ <<y, x>> \notin R) \/ Cardinality(Under(x)) # Cardinality(Under(y))
      BY <1>4, <3>3
    <3>5. x # y => <<x, y>> \in R \/ <<y, x>> \in R
      OBVIOUS
    <3>. QED  BY <3>2, <3>4, <3>5
  <2>. QED  BY <2>1, <2>2 DEF Injection, IsInjective
<1>6. IsFiniteSet(0 .. n - 1) /\ Cardinality(0 .. n - 1) = n
  <2>1. 0 \in Int /\ n - 1 \in Int
    BY <1>1
  <2>. QED  BY <1>1, <2>1, FS_Interval
<1>7. c \in Surjection(S, 0 .. n - 1)
  BY <1>5, <1>6, FS_Injection
<1>8. \A k \in 0 .. n - 1 : \E x \in S : Cardinality(Under(x)) = k
  BY <1>0, <1>7 DEF Surjection
<1>9. f = [k \in 1 .. n |-> CHOOSE x \in S : Cardinality(Under(x)) = k - 1]
  BY DEF Sorted, Under
<1>10. \A k \in 1 .. n : f[k] \in S /\ Cardinality(Under(f[k])) = k - 1
  <2>1. TAKE k \in 1 .. n
  <2>2. k - 1 \in 0 .. n - 1
    BY <1>1
  <2>3. PICK x \in S : Cardinality(Under(x)) = k - 1
    BY <1>8, <2>2
  <2>4. f[k] = CHOOSE z \in S : Cardinality(Under(z)) = k - 1
    BY <1>9
  <2>. QED  BY <2>3, <2>4
<1>11. f \in [1 .. n -> S]
  BY <1>9, <1>10
<1>12. \A i, j \in 1 .. n : i < j => <<f[i], f[j]>> \in R
  <2>1. TAKE i, j \in 1 .. n
  <2>2. HAVE i < j
  <2>3. f[i] \in S /\ f[j] \in S /\ Cardinality(Under(f[i])) = i - 1 /\ Cardinality(Under(f[j])) = j - 1
    BY <1>10
  <2>4. Cardinality(Under(f[i])) < Cardinality(Under(f[j]))
    BY <1>1, <2>2, <2>3
  <2>5. f[i] # f[j] /\ ~(<<f[j], f[i]>> \in R)
    <3>1. ~(i - 1 < i - 1) /\ ~(j - 1 < i - 1)
      BY <1>1, <2>2
    <3>. QED  BY <1>4, <2>3, <2>4, <3>1
  <2>. QED  BY <2>3, <2>5
<1>13. \A x \in S : \E i \in 1 .. n : f[i] = x
  <2>1. TAKE x \in S
  <2>. DEFINE k == Cardinality(Under(x)) + 1
  <2>2. k \in 1 .. n /\ k - 1 = Cardinality(Under(x))
    BY <1>1, <1>2, <1>3
  <2>3. f[k] \in S /\ Cardinality(Under(f[k])) = Cardinality(Under(x))
    BY <1>10, <2>2
  <2>4. f[k] = x
    <3>1. SUFFICES ASSUME f[k] # x
                   PROVE  FALSE
      OBVIOUS
    <3>2. <<f[k], x>> \in R \/ <<x, f[k]>> \in R
      BY <2>3, <3>1
    <3>3. Cardinality(Under(x)) \in Nat
      BY <1>2
    <3>. QED  BY <1>4, <2>3, <3>2, <3>3
  <2>. QED  BY <2>2, <2>4
<1>. QED  BY <1>1, <1>11, <1>12, <1>13

LEMMA SortedSame ==
  ASSUME NEW s, NEW S, NEW R
  PROVE  Reviewing(s)!Sorted(S, R) = Sorted(S, R)
BY DEF Reviewing!Sorted, Reviewing!Cardinality, Sorted, Cardinality

LEMMA IntervalCardinality ==
  ASSUME NEW n \in Nat
  PROVE  IsFiniteSet(1 .. n) /\ Cardinality(1 .. n) = n
<1>1. 1 \in Int /\ n \in Int
  OBVIOUS
<1>. QED  BY <1>1, FS_Interval

(* Goes is a strict total order of the positions.                          *)
Comparable(list) ==
  \A i \in DOMAIN list :
    list[i].rank \in Nat /\ list[i].id \in Nat /\ list[i].source \in {"deterministic", "agent"}

LEMMA GoesIsStrict ==
  ASSUME NEW s, NEW n \in Nat, NEW list, DOMAIN list = 1 .. n, Comparable(list)
  PROVE  /\ \A i \in 1 .. n : ~Reviewing(s)!Goes(list, i, i)
         /\ \A i, j \in 1 .. n : i # j => Reviewing(s)!Goes(list, i, j) \/ Reviewing(s)!Goes(list, j, i)
         /\ \A i, j, k \in 1 .. n :
              Reviewing(s)!Goes(list, i, j) /\ Reviewing(s)!Goes(list, j, k) => Reviewing(s)!Goes(list, i, k)
         /\ \A i, j \in 1 .. n :
              Reviewing(s)!Goes(list, i, j) => ~Reviewing(s)!Before(list[j], list[i])
<1>1. \A i \in 1 .. n : /\ list[i].rank \in Nat /\ list[i].id \in Nat
                        /\ list[i].source \in {"deterministic", "agent"}
  BY DEF Comparable
<1>. USE DEF Reviewing!Goes, Reviewing!Before, Reviewing!SourceRank
<1>2. \A i \in 1 .. n : ~Reviewing(s)!Goes(list, i, i)
  BY <1>1
<1>3. \A i, j \in 1 .. n : i # j => Reviewing(s)!Goes(list, i, j) \/ Reviewing(s)!Goes(list, j, i)
  BY <1>1
<1>4. \A i, j, k \in 1 .. n :
         Reviewing(s)!Goes(list, i, j) /\ Reviewing(s)!Goes(list, j, k) => Reviewing(s)!Goes(list, i, k)
  <2>. SUFFICES ASSUME NEW i \in 1 .. n, NEW j \in 1 .. n, NEW k \in 1 .. n,
                       Reviewing(s)!Goes(list, i, j), Reviewing(s)!Goes(list, j, k)
                PROVE  Reviewing(s)!Goes(list, i, k)
    OBVIOUS
  <2>1. /\ list[i].rank \in Nat /\ list[j].rank \in Nat /\ list[k].rank \in Nat
        /\ list[i].rank <= list[j].rank /\ list[j].rank <= list[k].rank
    BY <1>1
  <2>2. CASE list[i].rank < list[j].rank \/ list[j].rank < list[k].rank
    <3>1. list[i].rank < list[k].rank
      BY <2>1, <2>2
    <3>. QED  BY <3>1
  <2>3. CASE list[i].rank = list[j].rank /\ list[j].rank = list[k].rank
    BY <1>1, <2>3
  <2>. QED  BY <2>1, <2>2, <2>3
<1>5. \A i, j \in 1 .. n :
         Reviewing(s)!Goes(list, i, j) => ~Reviewing(s)!Before(list[j], list[i])
  BY <1>1
<1>. QED  BY <1>2, <1>3, <1>4, <1>5

LEMMA ListInOrder ==
  ASSUME NEW s, NEW n \in Nat, NEW list, DOMAIN list = 1 .. n, Comparable(list)
  PROVE  \E f \in [1 .. n -> 1 .. n] :
           /\ Reviewing(s)!InOrder(list) = [k \in 1 .. n |-> list[f[k]]]
           /\ \A i, j \in 1 .. n : i # j => f[i] # f[j]
           /\ \A p \in 1 .. n : \E k \in 1 .. n : f[k] = p
           /\ \A i, j \in 1 .. n : i < j => ~Reviewing(s)!Before(list[f[j]], list[f[i]])
<1>. DEFINE R == {p \in (1 .. n) \X (1 .. n) : Reviewing(s)!Goes(list, p[1], p[2])}
            f == Sorted(1 .. n, R)
<1>1. IsFiniteSet(1 .. n) /\ Cardinality(1 .. n) = n
  BY IntervalCardinality
<1>2. \A i, j \in 1 .. n : <<i, j>> \in R <=> Reviewing(s)!Goes(list, i, j)
  OBVIOUS
<1>3. Reviewing(s)!InOrder(list) = [k \in DOMAIN f |-> list[f[k]]]
  BY SortedSame DEF Reviewing!InOrder
<1>. HIDE DEF R
<1>4. /\ \A i \in 1 .. n : <<i, i>> \notin R
      /\ \A i, j \in 1 .. n : i # j => <<i, j>> \in R \/ <<j, i>> \in R
      /\ \A i, j, k \in 1 .. n : <<i, j>> \in R /\ <<j, k>> \in R => <<i, k>> \in R
      /\ \A i, j \in 1 .. n : <<i, j>> \in R => ~Reviewing(s)!Before(list[j], list[i])
  BY <1>2, GoesIsStrict
<1>5. /\ f \in [1 .. n -> 1 .. n]
      /\ \A i, j \in 1 .. n : i < j => <<f[i], f[j]>> \in R
      /\ \A p \in 1 .. n : \E k \in 1 .. n : f[k] = p
  <2>. DEFINE S == 1 .. n
              c == Cardinality(S)
  <2>1. /\ IsFiniteSet(S) /\ c = n
        /\ \A i \in S : <<i, i>> \notin R
        /\ \A i, j \in S : i # j => <<i, j>> \in R \/ <<j, i>> \in R
        /\ \A i, j, k \in S : <<i, j>> \in R /\ <<j, k>> \in R => <<i, k>> \in R
    BY <1>1, <1>4
  <2>. HIDE DEF S
  <2>2. /\ Sorted(S, R) \in [1 .. c -> S]
        /\ \A i, j \in 1 .. c : i < j => <<Sorted(S, R)[i], Sorted(S, R)[j]>> \in R
        /\ \A p \in S : \E k \in 1 .. c : Sorted(S, R)[k] = p
    BY <2>1, SortedOrdered
  <2>. HIDE DEF c
  <2>. QED  BY <2>1, <2>2 DEF S
<1>. HIDE DEF f
<1>6. \A i, j \in 1 .. n : i # j => f[i] # f[j]
  <2>1. TAKE i, j \in 1 .. n
  <2>2. HAVE i # j
  <2>3. f[i] \in 1 .. n /\ f[j] \in 1 .. n /\ (<<f[i], f[j]>> \in R \/ <<f[j], f[i]>> \in R)
    BY <1>5, <2>2
  <2>. QED  BY <1>4, <2>3
<1>7. \A i, j \in 1 .. n : i < j => ~Reviewing(s)!Before(list[f[j]], list[f[i]])
  <2>1. TAKE i, j \in 1 .. n
  <2>2. f[i] \in 1 .. n /\ f[j] \in 1 .. n
    BY <1>5
  <2>. QED  BY <1>4, <1>5, <2>2
<1>8. Reviewing(s)!InOrder(list) = [k \in 1 .. n |-> list[f[k]]]
  BY <1>3, <1>5
<1>. QED  BY <1>5, <1>6, <1>7, <1>8

(* u has each element of the list once.                                    *)
HasEachOnce(u, m, list, n) ==
  /\ DOMAIN u = 1 .. m /\ u = [k \in 1 .. m |-> u[k]]
  /\ \A i \in 1 .. m : \E p \in 1 .. n : u[i] = list[p]
  /\ \A i, j \in 1 .. m : i # j => u[i] # u[j]
  /\ \A p \in 1 .. n : \E i \in 1 .. m : u[i] = list[p]

LEMMA UniqueKeepsEach ==
  ASSUME NEW s, NEW n \in Nat, NEW list, DOMAIN list = 1 .. n
  PROVE  \E m \in Nat : HasEachOnce(Reviewing(s)!Unique(list), m, list, n)
<1>. DEFINE First(i) == \A j \in 1 .. i - 1 : list[j] # list[i]
            S == {i \in 1 .. n : First(i)}
            R == {p \in S \X S : p[1] < p[2]}
            f == Sorted(S, R)
            u == Reviewing(s)!Unique(list)
<1>1. u = [k \in DOMAIN f |-> list[f[k]]]
  BY SortedSame DEF Reviewing!Unique, Reviewing!Ascending
<1>2. IsFiniteSet(S)
  <2>1. S \in SUBSET (1 .. n)
    OBVIOUS
  <2>. QED  BY <2>1, IntervalCardinality, FS_Subset
<1>3. \A i \in S : i \in 1 .. n /\ First(i)
  OBVIOUS
<1>4. \A p \in 1 .. n : \E i \in S : list[i] = list[p]
  <2>1. TAKE p \in 1 .. n
  <2>. DEFINE T == {i \in 1 .. n : list[i] = list[p]}
  <2>2. T \in SUBSET Nat /\ T # {}
    OBVIOUS
  <2>3. PICK i \in T : \A j \in T : i <= j
    BY <2>2, LeastNat
  <2>4. \A j \in 1 .. i - 1 : j \in 1 .. n /\ ~(i <= j)
    BY <2>3
  <2>5. First(i)
    BY <2>3, <2>4
  <2>6. i \in S /\ list[i] = list[p]
    BY <2>3, <2>5
  <2>. QED  BY <2>6
<1>. HIDE DEF S
<1>5. \A i, j \in S : <<i, j>> \in R <=> i < j
  OBVIOUS
<1>6. \A i \in S : i \in Nat
  BY <1>3
<1>. HIDE DEF R
<1>7. /\ \A i \in S : <<i, i>> \notin R
      /\ \A i, j \in S : i # j => <<i, j>> \in R \/ <<j, i>> \in R
      /\ \A i, j, k \in S : <<i, j>> \in R /\ <<j, k>> \in R => <<i, k>> \in R
  BY <1>5, <1>6
<1>. DEFINE m == Cardinality(S)
<1>8. /\ m \in Nat /\ f \in [1 .. m -> S]
      /\ \A i, j \in 1 .. m : i < j => <<f[i], f[j]>> \in R
      /\ \A p \in S : \E k \in 1 .. m : f[k] = p
  BY <1>2, <1>7, SortedOrdered
<1>. HIDE DEF f, m
<1>9. \A i, j \in 1 .. m : i < j => u[i] # u[j]
  <2>1. TAKE i, j \in 1 .. m
  <2>2. HAVE i < j
  <2>3. f[i] \in S /\ f[j] \in S /\ f[i] < f[j]
    BY <1>5, <1>8, <2>2
  <2>4. f[i] \in 1 .. f[j] - 1
    BY <1>3, <2>3
  <2>5. list[f[i]] # list[f[j]]
    BY <1>3, <2>3, <2>4
  <2>. QED  BY <1>1, <1>8, <2>5
<1>10. \A i, j \in 1 .. m : i # j => u[i] # u[j]
  <2>1. TAKE i, j \in 1 .. m
  <2>2. i # j => i < j \/ j < i
    BY <1>8
  <2>. QED  BY <1>9, <2>2
<1>11. u = [k \in 1 .. m |-> list[f[k]]]
  BY <1>1, <1>8
<1>. HIDE DEF u
<1>12. DOMAIN u = 1 .. m /\ u = [k \in 1 .. m |-> u[k]]
  BY <1>11
<1>13. \A i \in 1 .. m : \E p \in 1 .. n : u[i] = list[p]
  BY <1>3, <1>8, <1>11
<1>14. \A p \in 1 .. n : \E i \in 1 .. m : u[i] = list[p]
  <2>1. TAKE p \in 1 .. n
  <2>2. PICK q \in S : list[q] = list[p]
    BY <1>4
  <2>3. PICK i \in 1 .. m : f[i] = q
    BY <1>8
  <2>. QED  BY <1>11, <2>2, <2>3
<1>15. HasEachOnce(u, m, list, n)
  BY <1>10, <1>12, <1>13, <1>14 DEF HasEachOnce
<1>. QED  BY <1>8, <1>15 DEF u

-----------------------------------------------------------------------------
(* The loop around the model provider.                                     *)

ReviewAssumptions(s) ==
  /\ Reviewing(s)!ReviewsAssumption /\ Reviewing(s)!VendorAssumption
  /\ Reviewing(s)!BudgetAssumption /\ Reviewing(s)!RawsAssumption

CallSet(s) ==
  [at : 0 .. s.MaxTime, timeout : Int, ended : 0 .. s.MaxTime,
   raw : s.Raws \cup {Reviewing(s)!NoRaw},
   got : Reviewing(s)!Answers \cup {Reviewing(s)!NoAnswer}]
ReviewTyped(s) ==
  /\ Reviewing(s)!TypeOK
  /\ DOMAIN answer = s.Reviews /\ DOMAIN findings = s.Reviews /\ DOMAIN outcome = s.Reviews
  /\ calls \in [s.Reviews -> Seq(CallSet(s))]

(* Where a review may be before its first call, with the index, between    *)
(* two calls, and behind the last one.                                     *)
AtInputs == {"inputs", "inputs_lock", "inputs_held", "inputs_checked"}
AtIndex == {"retrieve", "retrieve_lock", "retrieving", "searching", "searched"}
Uncalled == {"begin", "validate", "review", "prompt"} \cup AtInputs \cup AtIndex
Asking == {"provider", "sleeping", "asked"}
Answered == {"route", "parse", "merge", "finalize"}
Timed == Asking \cup Answered \cup {"prompt", "calling"}

(* The budget runs from the first look at the clock to the deadline that   *)
(* every later step is held to.                                            *)
Over(s, r) == began[r] + s.Total
BudgetRuns(s, r) ==
  /\ began[r] <= now
  /\ pc[r] \in AtInputs \cup AtIndex \cup {"begin"} => r \in s.Indexed
  /\ pc[r] = "begin" \/ (pc[r] = "validate" /\ r \notin s.Indexed) => began[r] = 0
  /\ r \in s.Indexed /\ pc[r] \notin {"begin", "ended"} => total[r] = Over(s, r)
  /\ pc[r] \in AtIndex \cup {"review"} => deadline[r] >= Over(s, r)
  /\ pc[r] = "review" /\ r \notin s.Indexed => deadline[r] = Over(s, r)
  /\ pc[r] \in Timed => deadline[r] = Over(s, r)

(* The calls are counted, and the last answer says what comes next.        *)
Last(r) == calls[r][Len(calls[r])]
CallsCounted(s, r) ==
  /\ pc[r] \in Uncalled => calls[r] = <<>> /\ attempts[r] = 0
  /\ pc[r] \in Asking \cup Answered => Len(calls[r]) = attempts[r]
  /\ pc[r] = "calling" => Len(calls[r]) = attempts[r] + 1
  /\ pc[r] \in Asking \cup {"calling"} => attempts[r] < s.MaxAttempts
  /\ pc[r] \in Answered => attempts[r] > 0 /\ Last(r).got.kind \in {"error", "response"}
  /\ pc[r] \in {"route", "parse", "merge"} => answer[r] = Last(r).got
  /\ pc[r] \in {"parse", "merge", "finalize"} => Last(r).got.kind = "response"
  /\ pc[r] \in {"merge", "finalize"} => Reviewing(s)!Accepted(Last(r).got.body)
  /\ pc[r] = "finalize" => findings[r] = Reviewing(s)!InOrder(Reviewing(s)!Collected(Last(r).got.body))

(* A retry waits from the end of the last call.                            *)
RetryWaits(s, r) ==
  LET n == Len(calls[r]) IN
  /\ pc[r] \in Asking \cup {"route"} /\ n > 0 => Last(r).ended <= now
  /\ pc[r] \in Asking /\ n > 0 =>
       Last(r).got.kind = "error" /\ Last(r).got.code \in Reviewing(s)!Retryable
  /\ pc[r] = "sleeping" => n > 0 /\ wake[r] >= Last(r).ended + Reviewing(s)!Backoff(n + 1)
  /\ pc[r] = "asked" /\ n > 0 => now >= Last(r).ended + Reviewing(s)!Backoff(n + 1)

(* What was recorded of a call.                                            *)
CallFits(call, over) == call.timeout > 0 /\ call.at + call.timeout <= over
CallAnswered(s, call) ==
  \/ call.got = Reviewing(s)!NoAnswer
  \/ call.raw \in s.Raws /\ call.got = Reviewing(s)!Adapted(call.raw)
CallFollows(s, call, before, i) ==
  /\ before.got.kind = "error" /\ before.got.code \in Reviewing(s)!Retryable
  /\ call.at >= before.ended + Reviewing(s)!Backoff(i)
CallKept(s, r, i) ==
  /\ CallFits(calls[r][i], Over(s, r)) /\ CallAnswered(s, calls[r][i])
  /\ i > 1 => CallFollows(s, calls[r][i], calls[r][i - 1], i)
CallsKept(s, r) == \A i \in DOMAIN calls[r] : CallKept(s, r, i)

(* How a review ended.                                                     *)
ResultKept(s, r) ==
  outcome[r].kind = "result" =>
    /\ outcome[r].at < Over(s, r)
    /\ Last(r).got.kind = "response" /\ Len(calls[r]) > 0
    /\ Reviewing(s)!Accepted(Last(r).got.body)
    /\ findings[r] = Reviewing(s)!InOrder(Reviewing(s)!Collected(Last(r).got.body))
ErrorKept(s, r) ==
  outcome[r].kind = "error" =>
    /\ outcome[r].attempts = Len(calls[r])
    /\ outcome[r].code \in Reviewing(s)!ProviderCodes \ {"invalid_response"} =>
         /\ Last(r).got.code = outcome[r].code
         /\ outcome[r].code \in Reviewing(s)!Retryable => Len(calls[r]) = s.MaxAttempts
    /\ outcome[r].code = "budget_exceeded" =>
         \/ outcome[r].at >= Over(s, r)
         \/ /\ Len(calls[r]) \in 1 .. s.MaxAttempts - 1
            /\ Last(r).got.code \in Reviewing(s)!Retryable
            /\ outcome[r].at + Reviewing(s)!Backoff(Len(calls[r]) + 1) >= Over(s, r)
    /\ outcome[r].detail = "deadline_exceeded" => outcome[r].at < Over(s, r)
    /\ outcome[r].code = "invalid_index" => closed \/ r \notin s.Matching

(* Who is in the index has its lock.                                       *)
LockKept(s, r) ==
  /\ pc[r] = "searching" => ~closed
  /\ (lock = r) <=> pc[r] \in {"inputs_held", "retrieving", "searching"}

ReviewInv(s) ==
  /\ ReviewTyped(s)
  /\ \A r \in s.Reviews :
       /\ BudgetRuns(s, r) /\ CallsCounted(s, r) /\ RetryWaits(s, r) /\ CallsKept(s, r)
       /\ ResultKept(s, r) /\ ErrorKept(s, r) /\ LockKept(s, r)

(* What the merge of the findings of the rules and of an accepted document *)
(* gives.                                                                  *)
From(all, source) == {i \in DOMAIN all : all[i].source = source}
MergedSound(s, all, body) ==
  /\ \A i, j \in DOMAIN all : i < j => ~Reviewing(s)!Before(all[j], all[i])
  /\ DOMAIN all = From(all, "deterministic") \cup From(all, "agent")
  /\ \A i \in From(all, "deterministic") :
       \E k \in DOMAIN s.Review : all[i] = Reviewing(s)!Promoted("deterministic", s.Review[k])
  /\ \A k \in DOMAIN s.Review :
       Cardinality({i \in DOMAIN all :
                      all[i] = Reviewing(s)!Promoted("deterministic", s.Review[k])})
         = Cardinality({j \in DOMAIN s.Review : s.Review[j] = s.Review[k]})
  /\ \A i, j \in From(all, "agent") : i # j => all[i] # all[j]
  /\ {all[i] : i \in From(all, "agent")} =
       {Reviewing(s)!Promoted("agent", f) : f \in {body.findings[q] : q \in DOMAIN body.findings}}
  /\ \A i \in From(all, "agent") : \A ref \in all[i].refs :
       ref.start # 0 => \E hunk \in s.Targets[ref.target] : {ref.start, ref.end} \subseteq hunk

(* The list before it is sorted: d findings of the rules, then m of the    *)
(* model.                                                                  *)
IsCollected(s, body, list, d, m) ==
  /\ DOMAIN list = 1 .. d + m
  /\ Comparable(list)
  /\ \A p \in 1 .. d : list[p] = Reviewing(s)!Promoted("deterministic", s.Review[p])
  /\ \A p \in d + 1 .. d + m :
       \E q \in DOMAIN body.findings : list[p] = Reviewing(s)!Promoted("agent", body.findings[q])
  /\ \A p, q \in d + 1 .. d + m : p # q => list[p] # list[q]
  /\ \A q \in DOMAIN body.findings :
       \E p \in d + 1 .. d + m : list[p] = Reviewing(s)!Promoted("agent", body.findings[q])

LEMMA CollectedList ==
  ASSUME NEW s, ReviewAssumptions(s), NEW body, body.findings \in Seq(Reviewing(s)!Findings)
  PROVE  \E m \in Nat : IsCollected(s, body, Reviewing(s)!Collected(body), Len(s.Review), m)
<1>. DEFINE d == Len(s.Review)
            n == Len(body.findings)
            D == [i \in DOMAIN s.Review |-> Reviewing(s)!Promoted("deterministic", s.Review[i])]
            F == [i \in DOMAIN body.findings |-> Reviewing(s)!Promoted("agent", body.findings[i])]
            u == Reviewing(s)!Unique(F)
            list == Reviewing(s)!Collected(body)
            Promotions == [source : {"deterministic", "agent"}, rank : Nat, id : Nat,
                           refs : SUBSET Reviewing(s)!References]
<1>1. s.Review \in Seq(Reviewing(s)!Findings)
  BY DEF ReviewAssumptions, Reviewing!RawsAssumption
<1>2. /\ d \in Nat /\ n \in Nat /\ DOMAIN s.Review = 1 .. d /\ DOMAIN body.findings = 1 .. n
      /\ \A i \in 1 .. d : s.Review[i] \in Reviewing(s)!Findings
      /\ \A i \in 1 .. n : body.findings[i] \in Reviewing(s)!Findings
  BY <1>1
<1>. HIDE DEF d, n
<1>3. \A f \in Reviewing(s)!Findings, source \in {"deterministic", "agent"} :
        Reviewing(s)!Promoted(source, f) \in Promotions
  BY DEF Reviewing!Findings, Reviewing!Promoted
<1>. HIDE DEF Promotions
<1>4. D \in [1 .. d -> Promotions] /\ F \in [1 .. n -> Promotions]
  BY <1>2, <1>3
<1>5. list = D \o u
  BY DEF Reviewing!Collected
<1>6. DOMAIN F = 1 .. n
  BY <1>4
<1>. HIDE DEF F
<1>0. PICK m \in Nat : HasEachOnce(u, m, F, n)
  BY <1>2, <1>6, UniqueKeepsEach
<1>. HIDE DEF u
<1>7. /\ DOMAIN u = 1 .. m /\ u = [k \in 1 .. m |-> u[k]]
      /\ \A i \in 1 .. m : \E p \in 1 .. n : u[i] = F[p]
      /\ \A i, j \in 1 .. m : i # j => u[i] # u[j]
      /\ \A p \in 1 .. n : \E i \in 1 .. m : u[i] = F[p]
  BY <1>0 DEF HasEachOnce
<1>8. \A p \in 1 .. n : F[p] = Reviewing(s)!Promoted("agent", body.findings[p])
  BY <1>2 DEF F
<1>9. u \in [1 .. m -> Promotions]
  <2>1. \A i \in 1 .. m : u[i] \in Promotions
    BY <1>4, <1>7
  <2>. QED  BY <1>7, <2>1
<1>10. D \in Seq(Promotions) /\ u \in Seq(Promotions) /\ Len(D) = d /\ Len(u) = m
  BY <1>2, <1>4, <1>7, <1>9
<1>11. \A p \in 1 .. d : D[p] = Reviewing(s)!Promoted("deterministic", s.Review[p])
  BY <1>2
<1>. HIDE DEF D
<1>12. /\ list \in Seq(Promotions) /\ Len(list) = d + m
       /\ \A p \in 1 .. d + m : list[p] = IF p <= d THEN D[p] ELSE u[p - d]
  <2>1. /\ D \o u \in Seq(Promotions) /\ Len(D \o u) = Len(D) + Len(u)
        /\ \A p \in 1 .. Len(D) + Len(u) : (D \o u)[p] = IF p <= Len(D) THEN D[p] ELSE u[p - Len(D)]
    BY <1>10, ConcatProperties
  <2>. QED  BY <1>5, <1>10, <2>1
<1>. HIDE DEF list
<1>13. DOMAIN list = 1 .. d + m
  BY <1>12
<1>14. Comparable(list)
  <2>1. \A i \in DOMAIN list : list[i] \in Promotions
    BY <1>12
  <2>. QED  BY <2>1 DEF Comparable, Promotions
<1>15. \A p \in 1 .. d : list[p] = Reviewing(s)!Promoted("deterministic", s.Review[p])
  BY <1>2, <1>11, <1>12
<1>16. \A p \in d + 1 .. d + m : p - d \in 1 .. m /\ list[p] = u[p - d]
  BY <1>2, <1>12
<1>17. \A k \in 1 .. m : k + d \in d + 1 .. d + m /\ list[k + d] = u[k]
  <2>1. TAKE k \in 1 .. m
  <2>2. k + d \in d + 1 .. d + m /\ (k + d) - d = k
    BY <1>2
  <2>. QED  BY <1>16, <2>2
<1>18. \A p \in d + 1 .. d + m :
         \E q \in DOMAIN body.findings : list[p] = Reviewing(s)!Promoted("agent", body.findings[q])
  <2>1. TAKE p \in d + 1 .. d + m
  <2>2. PICK q \in 1 .. n : u[p - d] = F[q]
    BY <1>7, <1>16
  <2>. QED  BY <1>2, <1>8, <1>16, <2>2
<1>19. \A p, q \in d + 1 .. d + m : p # q => list[p] # list[q]
  <2>1. TAKE p, q \in d + 1 .. d + m
  <2>2. HAVE p # q
  <2>3. p - d # q - d
    <3>1. p \in Int /\ q \in Int /\ d \in Int
      BY <1>2
    <3>. QED  BY <2>2, <3>1
  <2>4. u[p - d] # u[q - d]
    BY <1>7, <1>16, <2>3
  <2>. QED  BY <1>16, <2>4
<1>20. \A q \in DOMAIN body.findings :
         \E p \in d + 1 .. d + m : list[p] = Reviewing(s)!Promoted("agent", body.findings[q])
  <2>1. TAKE q \in DOMAIN body.findings
  <2>2. PICK i \in 1 .. m : u[i] = F[q]
    BY <1>2, <1>7
  <2>. QED  BY <1>2, <1>8, <1>17, <2>2
<1>21. IsCollected(s, body, list, d, m)
  BY <1>13, <1>14, <1>15, <1>18, <1>19, <1>20 DEF IsCollected
<1>. QED  BY <1>21 DEF list, d

LEMMA MergeSound ==
  ASSUME NEW s, ReviewAssumptions(s), NEW body, body.findings \in Seq(Reviewing(s)!Findings),
         Reviewing(s)!Accepted(body)
  PROVE  MergedSound(s, Reviewing(s)!InOrder(Reviewing(s)!Collected(body)), body)
<1>. DEFINE list == Reviewing(s)!Collected(body)
            all == Reviewing(s)!InOrder(list)
            d == Len(s.Review)
<1>1. /\ s.Review \in Seq(Reviewing(s)!Findings) /\ d \in Nat /\ DOMAIN s.Review = 1 .. d
      /\ \A k \in 1 .. d : s.Review[k] \in Reviewing(s)!Findings
  BY DEF ReviewAssumptions, Reviewing!RawsAssumption
<1>2. PICK m \in Nat : IsCollected(s, body, list, d, m)
  BY CollectedList
<1>. HIDE DEF list
<1>3. /\ DOMAIN list = 1 .. d + m
      /\ \A p \in 1 .. d : list[p] = Reviewing(s)!Promoted("deterministic", s.Review[p])
      /\ \A p \in d + 1 .. d + m :
           \E q \in DOMAIN body.findings : list[p] = Reviewing(s)!Promoted("agent", body.findings[q])
      /\ \A p, q \in d + 1 .. d + m : p # q => list[p] # list[q]
      /\ \A q \in DOMAIN body.findings :
           \E p \in d + 1 .. d + m : list[p] = Reviewing(s)!Promoted("agent", body.findings[q])
  BY <1>2 DEF IsCollected
<1>. HIDE DEF d
<1>. DEFINE n == d + m
<1>4. n \in Nat /\ DOMAIN list = 1 .. n /\ Comparable(list)
  BY <1>1, <1>2, <1>3 DEF IsCollected
<1>. HIDE DEF n
<1>5. PICK f \in [1 .. n -> 1 .. n] :
        /\ all = [k \in 1 .. n |-> list[f[k]]]
        /\ \A i, j \in 1 .. n : i # j => f[i] # f[j]
        /\ \A p \in 1 .. n : \E k \in 1 .. n : f[k] = p
        /\ \A i, j \in 1 .. n : i < j => ~Reviewing(s)!Before(list[f[j]], list[f[i]])
  BY <1>4, ListInOrder
<1>. HIDE DEF all
<1>6. DOMAIN all = 1 .. n /\ \A i \in 1 .. n : f[i] \in 1 .. n /\ all[i] = list[f[i]]
  BY <1>5
<1>7. /\ \A p \in 1 .. n : p \in 1 .. d \/ p \in d + 1 .. d + m
      /\ \A p \in 1 .. d : p \in 1 .. n
      /\ \A p \in d + 1 .. d + m : p \in 1 .. n
  <2>1. d \in Nat /\ m \in Nat /\ n = d + m
    BY <1>1 DEF n
  <2>. QED  BY <2>1
<1>0. \A source, h : Reviewing(s)!Promoted(source, h).source = source
  BY DEF Reviewing!Promoted
<1>8. \A p \in 1 .. d : list[p].source = "deterministic"
  BY <1>0, <1>3
<1>9. \A p \in d + 1 .. d + m : list[p].source = "agent"
  BY <1>0, <1>3
<1>10. /\ \A i \in From(all, "deterministic") : i \in 1 .. n /\ f[i] \in 1 .. d
       /\ \A i \in From(all, "agent") : i \in 1 .. n /\ f[i] \in d + 1 .. d + m
       /\ DOMAIN all = From(all, "deterministic") \cup From(all, "agent")
  BY <1>6, <1>7, <1>8, <1>9 DEF From
<1>11. \A i, j \in DOMAIN all : i < j => ~Reviewing(s)!Before(all[j], all[i])
  BY <1>5, <1>6
<1>12. \A i \in From(all, "deterministic") :
         \E k \in DOMAIN s.Review : all[i] = Reviewing(s)!Promoted("deterministic", s.Review[k])
  BY <1>1, <1>3, <1>6, <1>10
<1>13. ASSUME NEW k \in DOMAIN s.Review
       PROVE  Cardinality({i \in DOMAIN all :
                             all[i] = Reviewing(s)!Promoted("deterministic", s.Review[k])})
                = Cardinality({j \in DOMAIN s.Review : s.Review[j] = s.Review[k]})
  <2>. DEFINE x == Reviewing(s)!Promoted("deterministic", s.Review[k])
              A == {i \in DOMAIN all : all[i] = x}
              B == {j \in DOMAIN s.Review : s.Review[j] = s.Review[k]}
              g == [i \in A |-> f[i]]
  <2>0. x.source = "deterministic"
    BY DEF Reviewing!Promoted
  <2>1. \A p \in 1 .. d : list[p] = x <=> s.Review[p] = s.Review[k]
    <3>1. TAKE p \in 1 .. d
    <3>2. s.Review[p] \in Reviewing(s)!Findings /\ s.Review[k] \in Reviewing(s)!Findings
      BY <1>1
    <3>3. list[p] = Reviewing(s)!Promoted("deterministic", s.Review[p])
      BY <1>3
    <3>4. list[p] = x => s.Review[p] = s.Review[k]
      <4>1. x = Reviewing(s)!Promoted("deterministic", s.Review[k])
        OBVIOUS
      <4>2. \A a, b \in Reviewing(s)!Findings :
              Reviewing(s)!Promoted("deterministic", a) = Reviewing(s)!Promoted("deterministic", b) => a = b
        BY DEF Reviewing!Promoted, Reviewing!Findings
      <4>. QED  BY <3>2, <3>3, <4>1, <4>2
    <3>. QED  BY <3>3, <3>4
  <2>. HIDE DEF x
  <2>2. \A i \in A : i \in 1 .. n /\ f[i] \in B
    <3>1. TAKE i \in A
    <3>2. i \in 1 .. n /\ list[f[i]] = x /\ f[i] \in 1 .. d
      BY <1>6, <1>7, <1>9, <2>0
    <3>. QED  BY <1>1, <2>1, <3>2
  <2>3. \A j \in B : \E i \in A : f[i] = j
    <3>1. TAKE j \in B
    <3>2. j \in 1 .. d /\ list[j] = x /\ j \in 1 .. n
      BY <1>1, <1>7, <2>1
    <3>3. PICK i \in 1 .. n : f[i] = j
      BY <1>5, <3>2
    <3>. QED  BY <1>6, <3>2, <3>3
  <2>4. IsFiniteSet(A)
    <3>1. A \in SUBSET (1 .. n)
      BY <1>6
    <3>. QED  BY <1>4, <3>1, IntervalCardinality, FS_Subset
  <2>. HIDE DEF A, B
  <2>5. g \in [A -> B]
    BY <2>2
  <2>6. \A i, j \in A : g[i] = g[j] => i = j
    BY <1>5, <2>2
  <2>7. \A j \in B : \E i \in A : g[i] = j
    BY <2>3
  <2>. HIDE DEF g
  <2>8. g \in Bijection(A, B)
    BY <2>5, <2>6, <2>7 DEF Bijection, Injection, Surjection, IsInjective
  <2>9. Cardinality(B) = Cardinality(A)
    BY <2>4, <2>8, FS_Bijection DEF ExistsBijection
  <2>. QED  BY <2>9 DEF A, B, x
<1>14. \A i, j \in From(all, "agent") : i # j => all[i] # all[j]
  BY <1>3, <1>5, <1>6, <1>10
<1>15. {all[i] : i \in From(all, "agent")} =
         {Reviewing(s)!Promoted("agent", h) : h \in {body.findings[q] : q \in DOMAIN body.findings}}
  <2>1. \A i \in From(all, "agent") :
          \E q \in DOMAIN body.findings : all[i] = Reviewing(s)!Promoted("agent", body.findings[q])
    BY <1>3, <1>6, <1>10
  <2>2. \A q \in DOMAIN body.findings :
          \E i \in From(all, "agent") : all[i] = Reviewing(s)!Promoted("agent", body.findings[q])
    <3>1. TAKE q \in DOMAIN body.findings
    <3>2. PICK p \in d + 1 .. d + m : list[p] = Reviewing(s)!Promoted("agent", body.findings[q])
      BY <1>3
    <3>3. PICK i \in 1 .. n : f[i] = p
      BY <1>5, <1>7, <3>2
    <3>4. i \in From(all, "agent")
      BY <1>6, <1>9, <3>2, <3>3 DEF From
    <3>. QED  BY <1>6, <3>2, <3>3, <3>4
  <2>. QED  BY <2>1, <2>2
<1>16. ASSUME NEW i \in From(all, "agent"), NEW ref \in all[i].refs, ref.start # 0
       PROVE  \E hunk \in s.Targets[ref.target] : {ref.start, ref.end} \subseteq hunk
  <2>1. PICK q \in DOMAIN body.findings : all[i] = Reviewing(s)!Promoted("agent", body.findings[q])
    BY <1>3, <1>6, <1>10
  <2>2. ref \in body.findings[q].refs
    BY <1>16, <2>1 DEF Reviewing!Promoted
  <2>3. Reviewing(s)!ValidReference(ref)
    BY <2>2 DEF Reviewing!Accepted, Reviewing!ValidFinding
  <2>4. body.findings[q] \in Reviewing(s)!Findings
    OBVIOUS
  <2>5. ref.start \in Nat /\ ref.end \in Nat
    BY <2>2, <2>4 DEF Reviewing!Findings, Reviewing!References
  <2>6. ref.start <= ref.end /\ \E hunk \in s.Targets[ref.target] : ref.start .. ref.end \subseteq hunk
    BY <1>16, <2>3 DEF Reviewing!ValidReference, Reviewing!InOneHunk
  <2>7. {ref.start, ref.end} \subseteq ref.start .. ref.end
    BY <2>5, <2>6
  <2>. QED  BY <2>6, <2>7
<1>. QED
  BY <1>10, <1>11, <1>12, <1>13, <1>14, <1>15, <1>16 DEF MergedSound, all, list

(* What the adapters make of what was raised or returned.                  *)
Tables(s) ==
  LET classes == [i \in DOMAIN Reviewing(s)!Clauses |-> Reviewing(s)!Clauses[i].class]
      codes == [i \in DOMAIN Reviewing(s)!Clauses |-> Reviewing(s)!Clauses[i].code]
  IN  \/ /\ DOMAIN Reviewing(s)!Clauses = 1 .. 9
         /\ classes[1] = "AuthenticationError" /\ classes[2] = "PermissionDeniedError"
         /\ classes[3] = "RateLimitError" /\ classes[4] = "APITimeoutError"
         /\ classes[5] = "APIConnectionError" /\ classes[6] = "APIResponseValidationError"
         /\ classes[7] = "ContentFilterFinishReasonError"
         /\ classes[8] = "APIStatusError" /\ classes[9] = "APIError"
      \/ /\ DOMAIN Reviewing(s)!Clauses = 1 .. 8
         /\ classes[1] = "AuthenticationError" /\ classes[2] = "PermissionDeniedError"
         /\ classes[3] = "RateLimitError" /\ classes[4] = "APITimeoutError"
         /\ classes[5] = "APIConnectionError" /\ classes[6] = "APIResponseValidationError"
         /\ classes[7] = "APIStatusError" /\ classes[8] = "APIError"

LEMMA ClausesAre ==
  ASSUME NEW s, ReviewAssumptions(s)
  PROVE  /\ \A i \in DOMAIN Reviewing(s)!Clauses :
              Reviewing(s)!Clauses[i].code \in Reviewing(s)!ProviderCodes \cup {"by_status"}
         /\ DOMAIN Reviewing(s)!Clauses \subseteq Nat
         /\ Tables(s)
<1>. DEFINE C == Reviewing(s)!Clauses
            S == [class : {"AuthenticationError", "PermissionDeniedError", "RateLimitError",
                           "APITimeoutError", "APIConnectionError", "APIResponseValidationError",
                           "ContentFilterFinishReasonError", "APIStatusError", "APIError"},
                  code : {"authentication_failed", "rate_limited", "timeout", "unavailable",
                          "invalid_response", "refused", "by_status", "request_failed"}]
            A == <<[class |-> "AuthenticationError", code |-> "authentication_failed"],
                   [class |-> "PermissionDeniedError", code |-> "authentication_failed"],
                   [class |-> "RateLimitError", code |-> "rate_limited"],
                   [class |-> "APITimeoutError", code |-> "timeout"],
                   [class |-> "APIConnectionError", code |-> "unavailable"],
                   [class |-> "APIResponseValidationError", code |-> "invalid_response"]>>
            B == IF s.Vendor = "openai"
                   THEN <<[class |-> "ContentFilterFinishReasonError", code |-> "refused"]>>
                   ELSE <<>>
            D == <<[class |-> "APIStatusError", code |-> "by_status"],
                   [class |-> "APIError", code |-> "request_failed"]>>
            n == Len(B)
            P == A \o B
            Codes == Reviewing(s)!ProviderCodes \cup {"by_status"}
<1>1. C = P \o D
  BY DEF Reviewing!Clauses
<1>2. /\ A \in Seq(S) /\ Len(A) = 6
      /\ A[1].class = "AuthenticationError" /\ A[2].class = "PermissionDeniedError"
      /\ A[3].class = "RateLimitError" /\ A[4].class = "APITimeoutError"
      /\ A[5].class = "APIConnectionError" /\ A[6].class = "APIResponseValidationError"
  OBVIOUS
<1>3. D \in Seq(S) /\ Len(D) = 2 /\ D[1].class = "APIStatusError" /\ D[2].class = "APIError"
  OBVIOUS
<1>4. /\ B \in Seq(S) /\ n \in {0, 1}
      /\ n = 1 => B[1].class = "ContentFilterFinishReasonError"
  <2>1. CASE s.Vendor = "openai"
    <3>1. B = <<[class |-> "ContentFilterFinishReasonError", code |-> "refused"]>>
      BY <2>1
    <3>0. [class |-> "ContentFilterFinishReasonError", code |-> "refused"] \in S
      OBVIOUS
    <3>2. \A x \in S : <<x>> \in Seq(S) /\ Len(<<x>>) = 1
      OBVIOUS
    <3>. QED  BY <3>0, <3>1, <3>2
  <2>2. CASE s.Vendor # "openai"
    <3>1. B = <<>>
      BY <2>2
    <3>. QED  BY <3>1
  <2>. QED  BY <2>1, <2>2
<1>5. \A i \in 1 .. 6 : A[i].code \in Codes
  <2>1. \A i \in 1 .. 6 : i = 1 \/ i = 2 \/ i = 3 \/ i = 4 \/ i = 5 \/ i = 6
    OBVIOUS
  <2>. QED  BY <2>1 DEF Reviewing!ProviderCodes, Reviewing!Retryable
<1>6. \A i \in 1 .. 2 : D[i].code \in Codes
  <2>1. \A i \in 1 .. 2 : i = 1 \/ i = 2
    OBVIOUS
  <2>. QED  BY <2>1 DEF Reviewing!ProviderCodes
<1>7. n = 1 => B[1].code \in Codes
  BY DEF Reviewing!ProviderCodes
<1>. HIDE DEF C, S, A, B, D, Codes, n
<1>8. /\ P \in Seq(S) /\ Len(P) = 6 + n
      /\ \A i \in 1 .. 6 + n : P[i] = IF i <= 6 THEN A[i] ELSE B[i - 6]
  <2>1. Len(B) = n
    BY DEF n
  <2>2. /\ P \in Seq(S) /\ Len(P) = Len(A) + Len(B)
        /\ \A i \in 1 .. Len(A) + Len(B) :
             P[i] = IF i <= Len(A) THEN A[i] ELSE B[i - Len(A)]
    BY <1>2, <1>4, ConcatProperties
  <2>. QED  BY <1>2, <2>1, <2>2
<1>. HIDE DEF P
<1>9. /\ C \in Seq(S) /\ Len(C) = 8 + n
      /\ \A i \in 1 .. 8 + n : C[i] = IF i <= 6 + n THEN P[i] ELSE D[i - (6 + n)]
  <2>1. /\ P \o D \in Seq(S) /\ Len(P \o D) = Len(P) + Len(D)
        /\ \A i \in 1 .. Len(P) + Len(D) :
             (P \o D)[i] = IF i <= Len(P) THEN P[i] ELSE D[i - Len(P)]
    BY <1>3, <1>8, ConcatProperties
  <2>2. Len(P) + Len(D) = 8 + n
    BY <1>3, <1>4, <1>8
  <2>. QED  BY <1>1, <1>4, <1>8, <2>1, <2>2
<1>10. /\ \A i \in 1 .. 6 : C[i] = A[i]
       /\ n = 1 => C[7] = B[1]
       /\ C[7 + n] = D[1] /\ C[8 + n] = D[2]
  <2>1. \A i \in 1 .. 6 : i \in 1 .. 8 + n /\ i \in 1 .. 6 + n /\ i <= 6 + n /\ i <= 6
    BY <1>4
  <2>2. \A i \in 1 .. 6 : C[i] = A[i]
    <3>1. \A i \in 1 .. 6 : C[i] = P[i]
      BY <1>9, <2>1
    <3>. QED  BY <1>8, <2>1, <3>1
  <2>3. n = 1 => C[7] = B[1]
    BY <1>8, <1>9
  <2>4. CASE n = 0
    <3>1. \A i \in 1 .. 8 : ~(i <= 6) => C[i] = D[i - 6]
      BY <1>9, <2>4
    <3>2. C[7] = D[7 - 6] /\ C[8] = D[8 - 6]
      BY <3>1
    <3>. QED  BY <2>2, <2>3, <2>4, <3>2
  <2>5. CASE n = 1
    <3>1. \A i \in 1 .. 9 : ~(i <= 7) => C[i] = D[i - 7]
      BY <1>9, <2>5
    <3>2. C[8] = D[8 - 7] /\ C[9] = D[9 - 7]
      BY <3>1
    <3>. QED  BY <2>2, <2>3, <2>5, <3>2
  <2>. QED  BY <1>4, <2>4, <2>5
<1>11. DOMAIN C = 1 .. 8 + n
  BY <1>9
<1>12. \A i \in DOMAIN C : C[i].code \in Codes
  <2>1. \A i \in 1 .. 8 + n : i \in 1 .. 6 \/ (n = 1 /\ i = 7) \/ i = 7 + n \/ i = 8 + n
    BY <1>4
  <2>2. D[1].code \in Codes /\ D[2].code \in Codes
    BY <1>6
  <2>. QED  BY <1>5, <1>7, <1>10, <1>11, <2>1, <2>2
<1>13. DOMAIN C \subseteq Nat
  BY <1>4, <1>11
<1>14. Tables(s)
  <2>1. CASE n = 0
    <3>1. /\ DOMAIN C = 1 .. 8 /\ C[7] = D[1] /\ C[8] = D[2]
      BY <1>10, <1>11, <2>1
    <3>. QED  BY <1>2, <1>3, <1>10, <3>1 DEF Tables, C
  <2>2. CASE n = 1
    <3>1. /\ DOMAIN C = 1 .. 9 /\ C[7] = B[1] /\ C[8] = D[1] /\ C[9] = D[2]
      BY <1>10, <1>11, <2>2
    <3>. QED  BY <1>2, <1>3, <1>4, <1>10, <2>2, <3>1 DEF Tables, C
  <2>. QED  BY <1>4, <2>1, <2>2
<1>. QED  BY <1>12, <1>13, <1>14 DEF C, Codes

LEMMA SuperclassesAre ==
  ASSUME NEW s
  PROVE  /\ DOMAIN Reviewing(s)!Superclasses =
              {"AuthenticationError", "PermissionDeniedError", "RateLimitError", "APIStatusError",
               "APIConnectionError", "APITimeoutError", "APIResponseValidationError",
               "ContentFilterFinishReasonError", "APIError", "OtherError"}
         /\ \A class \in {"AuthenticationError", "PermissionDeniedError", "RateLimitError"} :
              Reviewing(s)!Superclasses[class] = {"APIError", "APIStatusError", class}
         /\ Reviewing(s)!Superclasses["APIStatusError"] = {"APIError", "APIStatusError"}
         /\ Reviewing(s)!Superclasses["APIConnectionError"] = {"APIError", "APIConnectionError"}
         /\ Reviewing(s)!Superclasses["APITimeoutError"] =
              {"APIError", "APIConnectionError", "APITimeoutError"}
         /\ Reviewing(s)!Superclasses["APIResponseValidationError"] =
              {"APIError", "APIResponseValidationError"}
         /\ \A class \in {"ContentFilterFinishReasonError", "APIError", "OtherError"} :
              Reviewing(s)!Superclasses[class] = {class}
BY DEF Reviewing!Superclasses, Reviewing!APIError, Reviewing!APIStatusError, Reviewing!APIConnectionError

(* The first clause that matches names the most specific class of those    *)
(* that do.                                                                *)
LEMMA FirstIsMostSpecific ==
  ASSUME NEW s, ReviewAssumptions(s), NEW raised \in DOMAIN Reviewing(s)!Superclasses,
         Reviewing(s)!Catching(raised) # {}
  PROVE  LET chosen == Reviewing(s)!Chosen(Reviewing(s)!Catching(raised)) IN
         /\ chosen \in Reviewing(s)!Catching(raised) /\ chosen \in DOMAIN Reviewing(s)!Clauses
         /\ \A i \in Reviewing(s)!Catching(raised) :
              Reviewing(s)!Clauses[i].class
                \in Reviewing(s)!Superclasses[Reviewing(s)!Clauses[chosen].class]
<1>. DEFINE catching == Reviewing(s)!Catching(raised)
            k == Reviewing(s)!Chosen(catching)
            class(i) == Reviewing(s)!Clauses[i].class
            above == Reviewing(s)!Superclasses[raised]
<1>1. Tables(s) /\ DOMAIN Reviewing(s)!Clauses \subseteq Nat
  BY ClausesAre
<1>2. /\ catching \in SUBSET Nat /\ catching # {}
      /\ \A i \in catching : i \in DOMAIN Reviewing(s)!Clauses /\ class(i) \in above
  BY <1>1 DEF Reviewing!Catching
<1>3. \E i \in catching : \A j \in catching : i <= j
  BY <1>2, LeastNat
<1>4. k \in catching /\ \A j \in catching : k <= j
  BY <1>3 DEF Reviewing!Chosen
<1>. HIDE DEF k, catching
<1>5. ASSUME NEW i \in catching
      PROVE  class(i) \in Reviewing(s)!Superclasses[class(k)]
  <2>1. /\ i \in DOMAIN Reviewing(s)!Clauses /\ k \in DOMAIN Reviewing(s)!Clauses /\ k <= i
        /\ class(i) \in above /\ class(k) \in above
    BY <1>2, <1>4
  <2>2. CASE class(i) = class(k)
    <3>1. class(k) \in DOMAIN Reviewing(s)!Superclasses
      BY <1>1, <2>1, SuperclassesAre DEF Tables
    <3>2. \A x \in DOMAIN Reviewing(s)!Superclasses : x \in Reviewing(s)!Superclasses[x]
      BY SuperclassesAre
    <3>. QED  BY <2>2, <3>1, <3>2
  <2>3. CASE class(i) # class(k)
    <3>1. \/ class(k) \in {"AuthenticationError", "PermissionDeniedError", "RateLimitError", "APIStatusError"}
             /\ class(i) \in {"APIError", "APIStatusError"}
          \/ class(k) = "APITimeoutError" /\ class(i) \in {"APIError", "APIConnectionError"}
          \/ class(k) \in {"APIConnectionError", "APIResponseValidationError"} /\ class(i) = "APIError"
      BY <1>1, <2>1, <2>3, SuperclassesAre DEF Tables
    <3>. QED  BY <3>1, SuperclassesAre
  <2>. QED  BY <2>2, <2>3
<1>. QED  BY <1>2, <1>4, <1>5 DEF k, catching

(* What AnswersTranslated says of one raw outcome and what became of it.   *)
Translated(s, raw, got) ==
  LET Handles(class, code) ==
        \E k \in DOMAIN Reviewing(s)!Clauses :
          /\ Reviewing(s)!Clauses[k].class = class
          /\ Reviewing(s)!Clauses[k].code \in {code, "by_status"}
      matching == {Reviewing(s)!Clauses[k].class : k \in Reviewing(s)!Catching(raw.raised)}
  IN  /\ got.kind = "error" /\ raw.raised # "none" =>
           \E class \in matching :
             Handles(class, got.code) /\ matching \subseteq Reviewing(s)!Superclasses[class]
      /\ got.kind = "response" =>
           /\ raw.raised = "none" /\ raw.stop \in Reviewing(s)!Complete
           /\ {raw.blocks[i] : i \in DOMAIN raw.blocks} \subseteq Reviewing(s)!Readable

LEMMA AdaptedSound ==
  ASSUME NEW s, ReviewAssumptions(s), NEW raw \in s.Raws
  PROVE  LET got == Reviewing(s)!Adapted(raw) IN
         /\ Translated(s, raw, got)
         /\ got.kind \in {"error", "response", "raise"}
         /\ got.code \in Reviewing(s)!ProviderCodes \cup {"none"}
         /\ got.kind = "error" => got.code \in Reviewing(s)!ProviderCodes
         /\ got.kind = "response" => got.code = "none"
         /\ got.body.findings \in Seq(Reviewing(s)!Findings)
<1>. DEFINE got == Reviewing(s)!Adapted(raw)
<1>1. /\ raw.raised \in DOMAIN Reviewing(s)!Superclasses \cup {"none"}
      /\ raw.body.findings \in Seq(Reviewing(s)!Findings)
  BY DEF ReviewAssumptions, Reviewing!RawsAssumption
<1>2. Reviewing(s)!NoBody.findings \in Seq(Reviewing(s)!Findings)
  BY DEF Reviewing!NoBody
<1>3. \A status : Reviewing(s)!StatusCode(status) \in Reviewing(s)!ProviderCodes
  BY DEF Reviewing!StatusCode, Reviewing!ProviderCodes, Reviewing!Retryable
<1>4. Reviewing(s)!Returned(raw) \in Reviewing(s)!ProviderCodes \cup {"none"}
  BY DEF Reviewing!Returned, Reviewing!Incomplete, Reviewing!ProviderCodes, Reviewing!Retryable
<1>5. "none" \notin DOMAIN Reviewing(s)!Superclasses /\ "none" \notin Reviewing(s)!ProviderCodes
  BY SuperclassesAre DEF Reviewing!ProviderCodes, Reviewing!Retryable
<1>6. CASE raw.raised # "none" /\ Reviewing(s)!Catching(raw.raised) = {}
  <2>1. got = [kind |-> "raise", code |-> "none", body |-> Reviewing(s)!NoBody]
    BY <1>6 DEF Reviewing!Adapted
  <2>. QED  BY <1>2, <2>1 DEF Translated
<1>7. CASE raw.raised # "none" /\ Reviewing(s)!Catching(raw.raised) # {}
  <2>. DEFINE k == Reviewing(s)!Chosen(Reviewing(s)!Catching(raw.raised))
              class == Reviewing(s)!Clauses[k].class
  <2>1. got = [kind |-> "error", code |-> Reviewing(s)!Caught(raw), body |-> Reviewing(s)!NoBody]
    BY <1>7 DEF Reviewing!Adapted, Reviewing!Failed
  <2>2. /\ k \in Reviewing(s)!Catching(raw.raised) /\ k \in DOMAIN Reviewing(s)!Clauses
        /\ \A i \in Reviewing(s)!Catching(raw.raised) :
             Reviewing(s)!Clauses[i].class \in Reviewing(s)!Superclasses[class]
    BY <1>1, <1>7, FirstIsMostSpecific
  <2>3. Reviewing(s)!Caught(raw) =
          IF Reviewing(s)!Clauses[k].code = "by_status"
            THEN Reviewing(s)!StatusCode(raw.status) ELSE Reviewing(s)!Clauses[k].code
    BY DEF Reviewing!Caught
  <2>. HIDE DEF k
  <2>4. Reviewing(s)!Clauses[k].code \in Reviewing(s)!ProviderCodes \cup {"by_status"}
    BY <2>2, ClausesAre
  <2>5. Reviewing(s)!Caught(raw) \in Reviewing(s)!ProviderCodes
    BY <1>3, <2>3, <2>4
  <2>6. Reviewing(s)!Clauses[k].code \in {Reviewing(s)!Caught(raw), "by_status"}
    BY <2>3
  <2>7. Translated(s, raw, got)
    BY <2>1, <2>2, <2>6 DEF Translated
  <2>. QED  BY <1>2, <2>1, <2>5, <2>7
<1>8. CASE raw.raised = "none" /\ Reviewing(s)!Returned(raw) # "none"
  <2>1. got = [kind |-> "error", code |-> Reviewing(s)!Returned(raw), body |-> Reviewing(s)!NoBody]
    BY <1>8 DEF Reviewing!Adapted, Reviewing!Failed
  <2>. QED  BY <1>2, <1>4, <1>8, <2>1 DEF Translated
<1>9. CASE raw.raised = "none" /\ Reviewing(s)!Returned(raw) = "none"
  <2>1. got = [kind |-> "response", code |-> "none", body |-> raw.body]
    BY <1>9 DEF Reviewing!Adapted
  <2>2. raw.stop \in Reviewing(s)!Complete
    <3>1. Reviewing(s)!Incomplete(raw.stop) # "none"
      BY DEF Reviewing!Incomplete
    <3>. QED  BY <1>9, <3>1 DEF Reviewing!Returned
  <2>3. Reviewing(s)!Bad(raw.blocks) = {}
    BY <1>9, <2>2 DEF Reviewing!Returned
  <2>4. {raw.blocks[i] : i \in DOMAIN raw.blocks} \subseteq Reviewing(s)!Readable
    BY <2>3 DEF Reviewing!Bad
  <2>. QED  BY <1>1, <1>9, <2>1, <2>2, <2>4 DEF Translated
<1>. QED  BY <1>6, <1>7, <1>8, <1>9

(* A step of a review changes nothing of another.                          *)
Only(r, v, w) == DOMAIN w = DOMAIN v /\ \A q \in DOMAIN v \ {r} : w[q] = v[q]
OnlyOf(r) ==
  /\ now' = now /\ closed' = closed
  /\ Only(r, pc, pc') /\ Only(r, began, began') /\ Only(r, total, total')
  /\ Only(r, budget, budget') /\ Only(r, deadline, deadline') /\ Only(r, wake, wake')
  /\ Only(r, attempts, attempts') /\ Only(r, answer, answer') /\ Only(r, calls, calls')
  /\ Only(r, findings, findings') /\ Only(r, outcome, outcome')

LEMMA StepIsOwn ==
  ASSUME NEW s, ReviewTyped(s),
         NEW r \in s.Reviews, Reviewing(s)!Step(r)
  PROVE  OnlyOf(r)
<1>. USE DEF OnlyOf, Only, Reviewing!Goto, Reviewing!Raise, Reviewing!Quiet,
     Reviewing!NoCall, Reviewing!NoClock, Reviewing!clock, Reviewing!index
<1>1. /\ DOMAIN pc = s.Reviews /\ DOMAIN began = s.Reviews /\ DOMAIN total = s.Reviews
      /\ DOMAIN budget = s.Reviews /\ DOMAIN deadline = s.Reviews /\ DOMAIN wake = s.Reviews
      /\ DOMAIN attempts = s.Reviews /\ DOMAIN answer = s.Reviews /\ DOMAIN calls = s.Reviews
      /\ DOMAIN findings = s.Reviews /\ DOMAIN outcome = s.Reviews
  BY DEF ReviewTyped, Reviewing!TypeOK
<1>2. ASSUME Reviewing(s)!Begin(r)
      PROVE  OnlyOf(r)
  BY <1>1, <1>2 DEF Reviewing!Begin
<1>3. ASSUME Reviewing(s)!AskInputs(r)
      PROVE  OnlyOf(r)
  BY <1>1, <1>3 DEF Reviewing!AskInputs
<1>4. ASSUME Reviewing(s)!TakeLock(r)
      PROVE  OnlyOf(r)
  BY <1>1, <1>4 DEF Reviewing!TakeLock
<1>5. ASSUME Reviewing(s)!InputsLockTimesOut(r)
      PROVE  OnlyOf(r)
  BY <1>1, <1>5 DEF Reviewing!InputsLockTimesOut
<1>6. ASSUME Reviewing(s)!CheckIndex(r)
      PROVE  OnlyOf(r)
  BY <1>1, <1>6 DEF Reviewing!CheckIndex
<1>7. ASSUME Reviewing(s)!InputsDone(r)
      PROVE  OnlyOf(r)
  BY <1>1, <1>7 DEF Reviewing!InputsDone
<1>8. ASSUME Reviewing(s)!Validate(r)
      PROVE  OnlyOf(r)
  BY <1>1, <1>8 DEF Reviewing!Validate
<1>9. ASSUME Reviewing(s)!DeterministicReview(r)
      PROVE  OnlyOf(r)
  BY <1>1, <1>9 DEF Reviewing!DeterministicReview
<1>10. ASSUME Reviewing(s)!AskIndex(r)
      PROVE  OnlyOf(r)
  BY <1>1, <1>10 DEF Reviewing!AskIndex
<1>11. ASSUME Reviewing(s)!IndexLockTimesOut(r)
      PROVE  OnlyOf(r)
  BY <1>1, <1>11 DEF Reviewing!IndexLockTimesOut, Reviewing!RetrievalTimesOut
<1>12. ASSUME Reviewing(s)!Retrieve(r)
      PROVE  OnlyOf(r)
  BY <1>1, <1>12 DEF Reviewing!Retrieve
<1>13. ASSUME Reviewing(s)!Search(r)
      PROVE  OnlyOf(r)
  BY <1>1, <1>13 DEF Reviewing!Search, Reviewing!RetrievalTimesOut
<1>14. ASSUME Reviewing(s)!Searched(r)
      PROVE  OnlyOf(r)
  BY <1>1, <1>14 DEF Reviewing!Searched
<1>15. ASSUME Reviewing(s)!BuildPrompt(r)
      PROVE  OnlyOf(r)
  BY <1>1, <1>15 DEF Reviewing!BuildPrompt
<1>16. ASSUME Reviewing(s)!Provider(r)
      PROVE  OnlyOf(r)
  BY <1>1, <1>16 DEF Reviewing!Provider, Reviewing!Attempt
<1>17. ASSUME Reviewing(s)!Wake(r)
      PROVE  OnlyOf(r)
  BY <1>1, <1>17 DEF Reviewing!Wake
<1>18. ASSUME Reviewing(s)!Ask(r)
      PROVE  OnlyOf(r)
  BY <1>1, <1>18 DEF Reviewing!Ask, Reviewing!Called
<1>19. ASSUME Reviewing(s)!Answer(r)
      PROVE  OnlyOf(r)
  BY <1>1, <1>19 DEF Reviewing!Answer, Reviewing!Attempt
<1>20. ASSUME Reviewing(s)!Route(r)
      PROVE  OnlyOf(r)
  BY <1>1, <1>20 DEF Reviewing!Route, Reviewing!Attempt, Reviewing!Permitted
<1>21. ASSUME Reviewing(s)!Parse(r)
      PROVE  OnlyOf(r)
  BY <1>1, <1>21 DEF Reviewing!Parse
<1>22. ASSUME Reviewing(s)!Merge(r)
      PROVE  OnlyOf(r)
  BY <1>1, <1>22 DEF Reviewing!Merge
<1>23. ASSUME Reviewing(s)!Finalize(r)
      PROVE  OnlyOf(r)
  BY <1>1, <1>23 DEF Reviewing!Finalize
<1>. QED  BY <1>2, <1>3, <1>4, <1>5, <1>6, <1>7, <1>8, <1>9, <1>10, <1>11, <1>12, <1>13,
     <1>14, <1>15, <1>16, <1>17, <1>18, <1>19, <1>20, <1>21, <1>22, <1>23 DEF Reviewing!Step


LEMMA BudgetStep ==
  ASSUME NEW s, ReviewAssumptions(s), ReviewTyped(s),
         NEW r \in s.Reviews, Reviewing(s)!Step(r), BudgetRuns(s, r)
  PROVE  BudgetRuns(s, r)'
<1>. USE DEF BudgetRuns, Over, AtInputs, AtIndex, Timed, Asking, Answered,
     Reviewing!Goto, Reviewing!Raise, Reviewing!Quiet, Reviewing!NoCall,
     Reviewing!NoClock, Reviewing!clock, Reviewing!index
<1>1. /\ DOMAIN pc = s.Reviews /\ DOMAIN began = s.Reviews /\ DOMAIN total = s.Reviews
      /\ DOMAIN budget = s.Reviews /\ DOMAIN deadline = s.Reviews /\ DOMAIN wake = s.Reviews
      /\ DOMAIN attempts = s.Reviews /\ DOMAIN answer = s.Reviews /\ DOMAIN calls = s.Reviews
      /\ DOMAIN findings = s.Reviews /\ DOMAIN outcome = s.Reviews
  BY DEF ReviewTyped, Reviewing!TypeOK
<1>2. /\ s.Total \in Nat /\ s.Total > 0 /\ s.PerAttempt \in Nat /\ s.PerAttempt > 0
      /\ s.QueryTime \in Nat /\ s.MaxAttempts \in Nat /\ s.MaxTime \in Nat
  BY DEF ReviewAssumptions, Reviewing!BudgetAssumption
<1>3. /\ now \in Nat /\ began[r] \in Nat /\ total[r] \in Nat /\ budget[r] \in Nat
      /\ deadline[r] \in Nat /\ wake[r] \in Nat
  <2>1. s.MaxTime \in Nat /\ s.Total \in Nat
    BY DEF ReviewAssumptions, Reviewing!BudgetAssumption
  <2>. QED  BY <2>1 DEF ReviewTyped, Reviewing!TypeOK, Reviewing!Times
<1>4. ASSUME Reviewing(s)!Begin(r)
      PROVE  BudgetRuns(s, r)'
  BY <1>1, <1>2, <1>3, <1>4 DEF Reviewing!Begin
<1>5. ASSUME Reviewing(s)!AskInputs(r)
      PROVE  BudgetRuns(s, r)'
  BY <1>1, <1>2, <1>3, <1>5 DEF Reviewing!AskInputs, Reviewing!Effective,
     Reviewing!Smaller
<1>6. ASSUME Reviewing(s)!TakeLock(r)
      PROVE  BudgetRuns(s, r)'
  BY <1>1, <1>2, <1>3, <1>6 DEF Reviewing!TakeLock
<1>7. ASSUME Reviewing(s)!InputsLockTimesOut(r)
      PROVE  BudgetRuns(s, r)'
  BY <1>1, <1>2, <1>3, <1>7 DEF Reviewing!InputsLockTimesOut
<1>8. ASSUME Reviewing(s)!CheckIndex(r)
      PROVE  BudgetRuns(s, r)'
  BY <1>1, <1>2, <1>3, <1>8 DEF Reviewing!CheckIndex
<1>9. ASSUME Reviewing(s)!InputsDone(r)
      PROVE  BudgetRuns(s, r)'
  BY <1>1, <1>2, <1>3, <1>9 DEF Reviewing!InputsDone
<1>10. ASSUME Reviewing(s)!Validate(r)
      PROVE  BudgetRuns(s, r)'
  BY <1>1, <1>2, <1>3, <1>10 DEF Reviewing!Validate
<1>11. ASSUME Reviewing(s)!DeterministicReview(r)
      PROVE  BudgetRuns(s, r)'
  BY <1>1, <1>2, <1>3, <1>11 DEF Reviewing!DeterministicReview
<1>12. ASSUME Reviewing(s)!AskIndex(r)
      PROVE  BudgetRuns(s, r)'
  BY <1>1, <1>2, <1>3, <1>12 DEF Reviewing!AskIndex, Reviewing!Effective,
     Reviewing!Smaller
<1>13. ASSUME Reviewing(s)!IndexLockTimesOut(r)
      PROVE  BudgetRuns(s, r)'
  BY <1>1, <1>2, <1>3, <1>13 DEF Reviewing!IndexLockTimesOut,
     Reviewing!RetrievalTimesOut, Reviewing!Effective, Reviewing!Smaller
<1>14. ASSUME Reviewing(s)!Retrieve(r)
      PROVE  BudgetRuns(s, r)'
  BY <1>1, <1>2, <1>3, <1>14 DEF Reviewing!Retrieve
<1>15. ASSUME Reviewing(s)!Search(r)
      PROVE  BudgetRuns(s, r)'
  BY <1>1, <1>2, <1>3, <1>15 DEF Reviewing!Search, Reviewing!RetrievalTimesOut,
     Reviewing!Effective, Reviewing!Smaller
<1>16. ASSUME Reviewing(s)!Searched(r)
      PROVE  BudgetRuns(s, r)'
  BY <1>1, <1>2, <1>3, <1>16 DEF Reviewing!Searched, Reviewing!Effective,
     Reviewing!Smaller
<1>17. ASSUME Reviewing(s)!BuildPrompt(r)
      PROVE  BudgetRuns(s, r)'
  BY <1>1, <1>2, <1>3, <1>17 DEF Reviewing!BuildPrompt
<1>18. ASSUME Reviewing(s)!Provider(r)
      PROVE  BudgetRuns(s, r)'
  BY <1>1, <1>2, <1>3, <1>18 DEF Reviewing!Provider, Reviewing!Attempt
<1>19. ASSUME Reviewing(s)!Wake(r)
      PROVE  BudgetRuns(s, r)'
  BY <1>1, <1>2, <1>3, <1>19 DEF Reviewing!Wake
<1>20. ASSUME Reviewing(s)!Ask(r)
      PROVE  BudgetRuns(s, r)'
  BY <1>1, <1>2, <1>3, <1>20 DEF Reviewing!Ask, Reviewing!Called
<1>21. ASSUME Reviewing(s)!Answer(r)
      PROVE  BudgetRuns(s, r)'
  BY <1>1, <1>2, <1>3, <1>21 DEF Reviewing!Answer, Reviewing!Attempt
<1>22. ASSUME Reviewing(s)!Route(r)
      PROVE  BudgetRuns(s, r)'
  BY <1>1, <1>2, <1>3, <1>22 DEF Reviewing!Route, Reviewing!Attempt, Reviewing!Permitted
<1>23. ASSUME Reviewing(s)!Parse(r)
      PROVE  BudgetRuns(s, r)'
  BY <1>1, <1>2, <1>3, <1>23 DEF Reviewing!Parse
<1>24. ASSUME Reviewing(s)!Merge(r)
      PROVE  BudgetRuns(s, r)'
  BY <1>1, <1>2, <1>3, <1>24 DEF Reviewing!Merge
<1>25. ASSUME Reviewing(s)!Finalize(r)
      PROVE  BudgetRuns(s, r)'
  BY <1>1, <1>2, <1>3, <1>25 DEF Reviewing!Finalize
<1>. QED  BY <1>4, <1>5, <1>6, <1>7, <1>8, <1>9, <1>10, <1>11, <1>12, <1>13, <1>14,
     <1>15, <1>16, <1>17, <1>18, <1>19, <1>20, <1>21, <1>22, <1>23, <1>24, <1>25 DEF Reviewing!Step


LEMMA SameLength ==
  ASSUME NEW S, NEW q \in Seq(S), NEW w, DOMAIN w = DOMAIN q, w = [i \in DOMAIN w |-> w[i]]
  PROVE  Len(w) = Len(q)
OBVIOUS

LEMMA CallsCountedStep ==
  ASSUME NEW s, ReviewAssumptions(s), ReviewTyped(s),
         NEW r \in s.Reviews, Reviewing(s)!Step(r), CallsCounted(s, r)
  PROVE  CallsCounted(s, r)'
<1>. USE DEF CallsCounted, Uncalled, AtInputs, AtIndex, Asking, Answered, Last,
     Reviewing!Goto, Reviewing!Raise, Reviewing!Quiet, Reviewing!NoCall,
     Reviewing!NoClock, Reviewing!clock, Reviewing!index
<1>1. /\ DOMAIN pc = s.Reviews /\ DOMAIN began = s.Reviews /\ DOMAIN total = s.Reviews
      /\ DOMAIN budget = s.Reviews /\ DOMAIN deadline = s.Reviews /\ DOMAIN wake = s.Reviews
      /\ DOMAIN attempts = s.Reviews /\ DOMAIN answer = s.Reviews /\ DOMAIN calls = s.Reviews
      /\ DOMAIN findings = s.Reviews /\ DOMAIN outcome = s.Reviews
  BY DEF ReviewTyped, Reviewing!TypeOK
<1>2. /\ s.Total \in Nat /\ s.Total > 0 /\ s.PerAttempt \in Nat /\ s.PerAttempt > 0
      /\ s.QueryTime \in Nat /\ s.MaxAttempts \in Nat /\ s.MaxAttempts > 0 /\ s.MaxTime \in Nat
  BY DEF ReviewAssumptions, Reviewing!BudgetAssumption
<1>3. /\ calls[r] \in Seq(CallSet(s)) /\ Len(calls[r]) \in Nat
      /\ DOMAIN calls[r] = 1 .. Len(calls[r]) /\ attempts[r] \in Nat
  <2>1. calls[r] \in Seq(CallSet(s))
    BY DEF ReviewTyped, CallSet
  <2>2. attempts[r] \in 0 .. s.MaxAttempts /\ s.MaxAttempts \in Nat
    BY DEF ReviewTyped, Reviewing!TypeOK, ReviewAssumptions, Reviewing!BudgetAssumption
  <2>. QED  BY <2>1, <2>2
<1>4. CallsCounted(s, r)
  OBVIOUS
<1>5. ASSUME Reviewing(s)!Begin(r)
      PROVE  CallsCounted(s, r)'
  BY <1>1, <1>2, <1>3, <1>4, <1>5 DEF Reviewing!Begin
<1>6. ASSUME Reviewing(s)!AskInputs(r)
      PROVE  CallsCounted(s, r)'
  BY <1>1, <1>2, <1>3, <1>4, <1>6 DEF Reviewing!AskInputs
<1>7. ASSUME Reviewing(s)!TakeLock(r)
      PROVE  CallsCounted(s, r)'
  BY <1>1, <1>2, <1>3, <1>4, <1>7 DEF Reviewing!TakeLock
<1>8. ASSUME Reviewing(s)!InputsLockTimesOut(r)
      PROVE  CallsCounted(s, r)'
  BY <1>1, <1>2, <1>3, <1>4, <1>8 DEF Reviewing!InputsLockTimesOut
<1>9. ASSUME Reviewing(s)!CheckIndex(r)
      PROVE  CallsCounted(s, r)'
  BY <1>1, <1>2, <1>3, <1>4, <1>9 DEF Reviewing!CheckIndex
<1>10. ASSUME Reviewing(s)!InputsDone(r)
      PROVE  CallsCounted(s, r)'
  BY <1>1, <1>2, <1>3, <1>4, <1>10 DEF Reviewing!InputsDone
<1>11. ASSUME Reviewing(s)!Validate(r)
      PROVE  CallsCounted(s, r)'
  BY <1>1, <1>2, <1>3, <1>4, <1>11 DEF Reviewing!Validate
<1>12. ASSUME Reviewing(s)!DeterministicReview(r)
      PROVE  CallsCounted(s, r)'
  BY <1>1, <1>2, <1>3, <1>4, <1>12 DEF Reviewing!DeterministicReview
<1>13. ASSUME Reviewing(s)!AskIndex(r)
      PROVE  CallsCounted(s, r)'
  BY <1>1, <1>2, <1>3, <1>4, <1>13 DEF Reviewing!AskIndex
<1>14. ASSUME Reviewing(s)!IndexLockTimesOut(r)
      PROVE  CallsCounted(s, r)'
  BY <1>1, <1>2, <1>3, <1>4, <1>14 DEF Reviewing!IndexLockTimesOut,
     Reviewing!RetrievalTimesOut
<1>15. ASSUME Reviewing(s)!Retrieve(r)
      PROVE  CallsCounted(s, r)'
  BY <1>1, <1>2, <1>3, <1>4, <1>15 DEF Reviewing!Retrieve
<1>16. ASSUME Reviewing(s)!Search(r)
      PROVE  CallsCounted(s, r)'
  BY <1>1, <1>2, <1>3, <1>4, <1>16 DEF Reviewing!Search, Reviewing!RetrievalTimesOut
<1>17. ASSUME Reviewing(s)!Searched(r)
      PROVE  CallsCounted(s, r)'
  BY <1>1, <1>2, <1>3, <1>4, <1>17 DEF Reviewing!Searched
<1>18. ASSUME Reviewing(s)!BuildPrompt(r)
      PROVE  CallsCounted(s, r)'
  BY <1>1, <1>2, <1>3, <1>4, <1>18 DEF Reviewing!BuildPrompt
<1>19. ASSUME Reviewing(s)!Provider(r)
      PROVE  CallsCounted(s, r)'
  BY <1>1, <1>2, <1>3, <1>4, <1>19 DEF Reviewing!Provider, Reviewing!Attempt
<1>20. ASSUME Reviewing(s)!Wake(r)
      PROVE  CallsCounted(s, r)'
  BY <1>1, <1>2, <1>3, <1>4, <1>20 DEF Reviewing!Wake
<1>21. ASSUME Reviewing(s)!Ask(r)
      PROVE  CallsCounted(s, r)'
  <2>1. CASE now >= deadline[r]
    BY <1>1, <1>2, <1>3, <1>4, <1>21, <2>1 DEF Reviewing!Ask, Reviewing!Called
  <2>2. CASE ~(now >= deadline[r])
    <3>1. PICK call : calls' = [calls EXCEPT ![r] = Append(calls[r], call)]
      BY <1>1, <1>2, <1>3, <1>4, <1>21, <2>2 DEF Reviewing!Ask, Reviewing!Called
    <3>2. calls'[r] = Append(calls[r], call)
      BY <1>1, <1>2, <1>3, <1>4, <3>1
    <3>3. Len(calls'[r]) = Len(calls[r]) + 1
      BY <1>1, <1>2, <1>3, <1>4, <3>2
    <3>4. UNCHANGED <<attempts, answer, findings>> /\ pc' = [pc EXCEPT ![r] = "calling"] /\ pc[r] = "asked"
      BY <1>21, <2>2 DEF Reviewing!Ask, Reviewing!Called
    <3>5. pc'[r] = "calling" /\ attempts'[r] = attempts[r] /\ Len(calls[r]) = attempts[r]
          /\ attempts[r] < s.MaxAttempts
      BY <1>1, <1>2, <1>3, <1>4, <3>4
    <3>. QED  BY <3>3, <3>5
  <2>. QED  BY <1>1, <1>2, <1>3, <1>4, <2>1, <2>2
<1>22. ASSUME Reviewing(s)!Answer(r)
      PROVE  CallsCounted(s, r)'
  <2>1. PICK raw \in s.Raws : LET got == Reviewing(s)!Adapted(raw) IN
          /\ calls' = [calls EXCEPT ![r][attempts[r] + 1].ended = now,
                                    ![r][attempts[r] + 1].raw = raw,
                                    ![r][attempts[r] + 1].got = got]
          /\ \/ /\ got.kind \in {"error", "response"}
                /\ attempts' = [attempts EXCEPT ![r] = attempts[r] + 1]
                /\ answer' = [answer EXCEPT ![r] = got]
                /\ pc' = [pc EXCEPT ![r] = "route"]
             \/ pc' = [pc EXCEPT ![r] = "ended"] /\ UNCHANGED <<attempts, answer>>
    BY <1>22 DEF Reviewing!Answer, Reviewing!Attempt
  <2>. DEFINE n == Len(calls[r])
              got == Reviewing(s)!Adapted(raw)
  <2>2. n = attempts[r] + 1 /\ n \in DOMAIN calls[r]
    BY <1>1, <1>2, <1>3, <1>4, <1>22 DEF Reviewing!Answer, Reviewing!Attempt
  <2>3. calls'[r] = [calls[r] EXCEPT ![n].ended = now, ![n].raw = raw, ![n].got = got]
    BY <1>1, <1>2, <1>3, <1>4, <2>1, <2>2
  <2>4. DOMAIN calls'[r] = DOMAIN calls[r]
    BY <2>3
  <2>5. calls'[r][n].got = got
    <3>1. calls[r][n] \in CallSet(s)
      BY <1>1, <1>2, <1>3, <1>4, <2>2
    <3>. QED  BY <2>2, <2>3, <3>1 DEF CallSet
  <2>6. Len(calls'[r]) = n
    BY <1>1, <1>2, <1>3, <1>4, <2>2, <2>4, SameLength
  <2>6a. pc'[r] = "route" =>
           /\ attempts'[r] = n /\ answer'[r] = got /\ got.kind \in {"error", "response"}
    BY <1>1, <2>1, <2>2
  <2>. HIDE DEF got
  <2>7. pc'[r] \in {"route", "ended"}
    BY <1>1, <1>2, <1>3, <1>4, <2>1
  <2>8. CASE pc'[r] = "route"
    <3>1. /\ attempts'[r] = n /\ answer'[r] = got /\ got.kind \in {"error", "response"}
      BY <2>6a, <2>8
    <3>2. n > 0 /\ Len(calls'[r]) = n /\ calls'[r][n].got = got
      BY <1>1, <1>2, <1>3, <1>4, <2>2, <2>5, <2>6
    <3>. QED  BY <2>8, <3>1, <3>2
  <2>9. CASE pc'[r] = "ended"
    BY <2>9
  <2>. QED  BY <2>7, <2>8, <2>9
<1>23. ASSUME Reviewing(s)!Route(r)
      PROVE  CallsCounted(s, r)'
  BY <1>1, <1>2, <1>3, <1>4, <1>23 DEF Reviewing!Route, Reviewing!Attempt,
     Reviewing!Permitted
<1>24. ASSUME Reviewing(s)!Parse(r)
      PROVE  CallsCounted(s, r)'
  BY <1>1, <1>2, <1>3, <1>4, <1>24 DEF Reviewing!Parse
<1>25. ASSUME Reviewing(s)!Merge(r)
      PROVE  CallsCounted(s, r)'
  BY <1>1, <1>2, <1>3, <1>4, <1>25 DEF Reviewing!Merge
<1>26. ASSUME Reviewing(s)!Finalize(r)
      PROVE  CallsCounted(s, r)'
  BY <1>1, <1>2, <1>3, <1>4, <1>26 DEF Reviewing!Finalize
<1>. QED  BY <1>5, <1>6, <1>7, <1>8, <1>9, <1>10, <1>11, <1>12, <1>13, <1>14, <1>15,
     <1>16, <1>17, <1>18, <1>19, <1>20, <1>21, <1>22, <1>23, <1>24, <1>25, <1>26 DEF Reviewing!Step


LEMMA RetryWaitsStep ==
  ASSUME NEW s, ReviewAssumptions(s), ReviewTyped(s),
         NEW r \in s.Reviews, Reviewing(s)!Step(r),
         CallsCounted(s, r), RetryWaits(s, r), BudgetRuns(s, r)
  PROVE  RetryWaits(s, r)'
<1>. USE DEF RetryWaits, Asking, Reviewing!Goto, Reviewing!Raise, Reviewing!Quiet,
     Reviewing!NoCall, Reviewing!NoClock, Reviewing!clock, Reviewing!index
<1>1. /\ DOMAIN pc = s.Reviews /\ DOMAIN began = s.Reviews /\ DOMAIN total = s.Reviews
      /\ DOMAIN budget = s.Reviews /\ DOMAIN deadline = s.Reviews /\ DOMAIN wake = s.Reviews
      /\ DOMAIN attempts = s.Reviews /\ DOMAIN answer = s.Reviews /\ DOMAIN calls = s.Reviews
      /\ DOMAIN findings = s.Reviews /\ DOMAIN outcome = s.Reviews
  BY DEF ReviewTyped, Reviewing!TypeOK
<1>2. /\ s.Total \in Nat /\ s.Total > 0 /\ s.PerAttempt \in Nat /\ s.PerAttempt > 0
      /\ s.QueryTime \in Nat /\ s.MaxAttempts \in Nat /\ s.MaxAttempts > 0 /\ s.MaxTime \in Nat
  BY DEF ReviewAssumptions, Reviewing!BudgetAssumption
<1>3. /\ now \in Nat /\ began[r] \in Nat /\ total[r] \in Nat /\ budget[r] \in Nat
      /\ deadline[r] \in Nat /\ wake[r] \in Nat
  <2>1. s.MaxTime \in Nat /\ s.Total \in Nat
    BY DEF ReviewAssumptions, Reviewing!BudgetAssumption
  <2>. QED  BY <2>1 DEF ReviewTyped, Reviewing!TypeOK, Reviewing!Times
<1>4. /\ calls[r] \in Seq(CallSet(s)) /\ Len(calls[r]) \in Nat
      /\ DOMAIN calls[r] = 1 .. Len(calls[r]) /\ attempts[r] \in Nat
  <2>1. calls[r] \in Seq(CallSet(s))
    BY DEF ReviewTyped, CallSet
  <2>2. attempts[r] \in 0 .. s.MaxAttempts /\ s.MaxAttempts \in Nat
    BY DEF ReviewTyped, Reviewing!TypeOK, ReviewAssumptions, Reviewing!BudgetAssumption
  <2>. QED  BY <2>1, <2>2
<1>5. Len(calls[r]) > 0 => Last(r).ended \in Nat
  <2>1. Len(calls[r]) > 0 => Last(r) \in CallSet(s)
    BY <1>4 DEF Last
  <2>2. s.MaxTime \in Nat
    BY DEF ReviewAssumptions, Reviewing!BudgetAssumption
  <2>. QED  BY <2>1, <2>2 DEF CallSet
<1>6. CallsCounted(s, r) /\ RetryWaits(s, r) /\ BudgetRuns(s, r)
  OBVIOUS
<1>7. ASSUME Reviewing(s)!Begin(r)
      PROVE  RetryWaits(s, r)'
  BY <1>1, <1>2, <1>3, <1>4, <1>5, <1>6, <1>7 DEF Reviewing!Begin, Last, CallsCounted,
     Uncalled
<1>8. ASSUME Reviewing(s)!AskInputs(r)
      PROVE  RetryWaits(s, r)'
  BY <1>1, <1>2, <1>3, <1>4, <1>5, <1>6, <1>8 DEF Reviewing!AskInputs, Last,
     CallsCounted, Uncalled
<1>9. ASSUME Reviewing(s)!TakeLock(r)
      PROVE  RetryWaits(s, r)'
  BY <1>1, <1>2, <1>3, <1>4, <1>5, <1>6, <1>9 DEF Reviewing!TakeLock, Last,
     CallsCounted, Uncalled
<1>10. ASSUME Reviewing(s)!InputsLockTimesOut(r)
      PROVE  RetryWaits(s, r)'
  BY <1>1, <1>2, <1>3, <1>4, <1>5, <1>6, <1>10 DEF Reviewing!InputsLockTimesOut, Last,
     CallsCounted, Uncalled
<1>11. ASSUME Reviewing(s)!CheckIndex(r)
      PROVE  RetryWaits(s, r)'
  BY <1>1, <1>2, <1>3, <1>4, <1>5, <1>6, <1>11 DEF Reviewing!CheckIndex, Last,
     CallsCounted, Uncalled
<1>12. ASSUME Reviewing(s)!InputsDone(r)
      PROVE  RetryWaits(s, r)'
  BY <1>1, <1>2, <1>3, <1>4, <1>5, <1>6, <1>12 DEF Reviewing!InputsDone, Last,
     CallsCounted, Uncalled
<1>13. ASSUME Reviewing(s)!Validate(r)
      PROVE  RetryWaits(s, r)'
  BY <1>1, <1>2, <1>3, <1>4, <1>5, <1>6, <1>13 DEF Reviewing!Validate, Last,
     CallsCounted, Uncalled
<1>14. ASSUME Reviewing(s)!DeterministicReview(r)
      PROVE  RetryWaits(s, r)'
  BY <1>1, <1>2, <1>3, <1>4, <1>5, <1>6, <1>14 DEF Reviewing!DeterministicReview, Last,
     CallsCounted, Uncalled
<1>15. ASSUME Reviewing(s)!AskIndex(r)
      PROVE  RetryWaits(s, r)'
  BY <1>1, <1>2, <1>3, <1>4, <1>5, <1>6, <1>15 DEF Reviewing!AskIndex, Last,
     CallsCounted, Uncalled
<1>16. ASSUME Reviewing(s)!IndexLockTimesOut(r)
      PROVE  RetryWaits(s, r)'
  BY <1>1, <1>2, <1>3, <1>4, <1>5, <1>6, <1>16 DEF Reviewing!IndexLockTimesOut,
     Reviewing!RetrievalTimesOut, Last, CallsCounted, Uncalled
<1>17. ASSUME Reviewing(s)!Retrieve(r)
      PROVE  RetryWaits(s, r)'
  BY <1>1, <1>2, <1>3, <1>4, <1>5, <1>6, <1>17 DEF Reviewing!Retrieve, Last,
     CallsCounted, Uncalled
<1>18. ASSUME Reviewing(s)!Search(r)
      PROVE  RetryWaits(s, r)'
  BY <1>1, <1>2, <1>3, <1>4, <1>5, <1>6, <1>18 DEF Reviewing!Search,
     Reviewing!RetrievalTimesOut, Last, CallsCounted, Uncalled
<1>19. ASSUME Reviewing(s)!Searched(r)
      PROVE  RetryWaits(s, r)'
  BY <1>1, <1>2, <1>3, <1>4, <1>5, <1>6, <1>19 DEF Reviewing!Searched, Last,
     CallsCounted, Uncalled
<1>20. ASSUME Reviewing(s)!BuildPrompt(r)
      PROVE  RetryWaits(s, r)'
  <2>1. pc[r] = "prompt" /\ UNCHANGED calls /\ pc'[r] \in {"provider", "ended"}
    BY <1>1, <1>20 DEF Reviewing!BuildPrompt
  <2>2. calls'[r] = <<>>
    BY <1>6, <2>1 DEF CallsCounted, Uncalled
  <2>3. Len(calls'[r]) = 0
    BY <2>2
  <2>. QED  BY <2>1, <2>3
<1>21. ASSUME Reviewing(s)!Provider(r)
      PROVE  RetryWaits(s, r)'
  <2>1. /\ pc[r] = "provider" /\ UNCHANGED calls /\ now' = now
        /\ Len(calls[r]) = attempts[r]
    BY <1>6, <1>21 DEF Reviewing!Provider, Reviewing!Attempt, CallsCounted
  <2>2. Len(calls'[r]) = attempts[r] /\ Last(r)' = Last(r) /\ attempts[r] \in Nat
    BY <1>4, <2>1 DEF Last
  <2>3. CASE attempts[r] = 0
    <3>1. pc'[r] = "asked"
      BY <1>1, <1>21, <2>3 DEF Reviewing!Provider, Reviewing!Attempt
    <3>. QED  BY <2>2, <2>3, <3>1
  <2>4. CASE attempts[r] > 0
    <3>1. /\ Last(r).ended <= now /\ Last(r).got.kind = "error"
          /\ Last(r).got.code \in Reviewing(s)!Retryable /\ Last(r).ended \in Nat
      BY <1>4, <1>5, <1>6, <2>1, <2>4
    <3>2. attempts[r] + 1 # 1
      BY <1>4, <2>4
    <3>3. \/ pc'[r] = "ended"
          \/ pc'[r] = "sleeping" /\ wake'[r] = now + Reviewing(s)!Backoff(attempts[r] + 1)
      BY <1>1, <1>21, <3>2 DEF Reviewing!Provider, Reviewing!Attempt
    <3>4. now + Reviewing(s)!Backoff(attempts[r] + 1)
            >= Last(r).ended + Reviewing(s)!Backoff(attempts[r] + 1)
      <4>1. Reviewing(s)!Backoff(attempts[r] + 1) \in Nat
        BY DEF Reviewing!Backoff
      <4>. QED  BY <1>3, <3>1, <4>1
    <3>. QED  BY <2>1, <2>2, <2>4, <3>1, <3>3, <3>4
  <2>. QED  BY <1>4, <2>3, <2>4
<1>22. ASSUME Reviewing(s)!Wake(r)
      PROVE  RetryWaits(s, r)'
  <2>1. /\ pc[r] = "sleeping" /\ UNCHANGED calls /\ now' = now /\ pc'[r] = "asked"
        /\ now >= wake[r]
    BY <1>1, <1>22 DEF Reviewing!Wake
  <2>2. Len(calls'[r]) = Len(calls[r]) /\ Last(r)' = Last(r)
    BY <2>1 DEF Last
  <2>3. /\ Last(r).ended <= now /\ Last(r).got.kind = "error"
        /\ Last(r).got.code \in Reviewing(s)!Retryable
        /\ wake[r] >= Last(r).ended + Reviewing(s)!Backoff(Len(calls[r]) + 1)
        /\ Last(r).ended \in Nat
    BY <1>4, <1>5, <1>6, <2>1
  <2>4. now >= Last(r).ended + Reviewing(s)!Backoff(Len(calls[r]) + 1)
    <3>1. Reviewing(s)!Backoff(Len(calls[r]) + 1) \in Nat
      BY DEF Reviewing!Backoff
    <3>. QED  BY <1>3, <2>1, <2>3, <3>1
  <2>. QED  BY <2>1, <2>2, <2>3, <2>4
<1>23. ASSUME Reviewing(s)!Ask(r)
      PROVE  RetryWaits(s, r)'
  <2>1. pc'[r] \in {"ended", "calling"}
    BY <1>1, <1>2, <1>3, <1>4, <1>5, <1>6, <1>23 DEF Reviewing!Ask, Reviewing!Called, Last, CallsCounted, Uncalled
  <2>. QED  BY <2>1
<1>24. ASSUME Reviewing(s)!Answer(r)
      PROVE  RetryWaits(s, r)'
  <2>1. PICK raw \in s.Raws : calls' = [calls EXCEPT ![r][attempts[r] + 1].ended = now,
                                    ![r][attempts[r] + 1].raw = raw,
                                    ![r][attempts[r] + 1].got = Reviewing(s)!Adapted(raw)]
    BY <1>24 DEF Reviewing!Answer, Reviewing!Attempt, Last, CallsCounted, Uncalled
  <2>. DEFINE n == Len(calls[r])
              got == Reviewing(s)!Adapted(raw)
  <2>2. n = attempts[r] + 1 /\ n \in DOMAIN calls[r]
    BY <1>1, <1>2, <1>3, <1>4, <1>5, <1>6, <1>24 DEF Reviewing!Answer, Reviewing!Attempt, Last, CallsCounted, Uncalled, CallsCounted
  <2>3. calls'[r] = [calls[r] EXCEPT ![n].ended = now, ![n].raw = raw, ![n].got = got]
    BY <1>1, <1>2, <1>3, <1>4, <1>5, <1>6, <2>1, <2>2
  <2>4. DOMAIN calls'[r] = DOMAIN calls[r]
    BY <2>3
  <2>5. calls'[r][n].ended = now
    <3>1. calls[r][n] \in CallSet(s)
      BY <1>1, <1>2, <1>3, <1>4, <1>5, <1>6, <2>2
    <3>. QED  BY <2>2, <2>3, <3>1 DEF CallSet
  <2>6. Len(calls'[r]) = n
    BY <1>1, <1>2, <1>3, <1>4, <1>5, <1>6, <2>2, <2>4, SameLength
  <2>. HIDE DEF got
  <2>7. pc'[r] \in {"route", "ended"} /\ now' = now
    BY <1>1, <1>24 DEF Reviewing!Answer, Reviewing!Attempt, Last, CallsCounted, Uncalled
  <2>8. now <= now
    BY <1>3
  <2>. QED  BY <2>5, <2>6, <2>7, <2>8 DEF Last
<1>25. ASSUME Reviewing(s)!Route(r)
      PROVE  RetryWaits(s, r)'
  BY <1>1, <1>2, <1>3, <1>4, <1>5, <1>6, <1>25 DEF Reviewing!Route, Reviewing!Attempt,
     Reviewing!Permitted, Last, CallsCounted, Uncalled
<1>26. ASSUME Reviewing(s)!Parse(r)
      PROVE  RetryWaits(s, r)'
  BY <1>1, <1>2, <1>3, <1>4, <1>5, <1>6, <1>26 DEF Reviewing!Parse, Last, CallsCounted,
     Uncalled
<1>27. ASSUME Reviewing(s)!Merge(r)
      PROVE  RetryWaits(s, r)'
  BY <1>1, <1>2, <1>3, <1>4, <1>5, <1>6, <1>27 DEF Reviewing!Merge, Last, CallsCounted,
     Uncalled
<1>28. ASSUME Reviewing(s)!Finalize(r)
      PROVE  RetryWaits(s, r)'
  BY <1>1, <1>2, <1>3, <1>4, <1>5, <1>6, <1>28 DEF Reviewing!Finalize, Last,
     CallsCounted, Uncalled
<1>. QED  BY <1>7, <1>8, <1>9, <1>10, <1>11, <1>12, <1>13, <1>14, <1>15, <1>16, <1>17,
     <1>18, <1>19, <1>20, <1>21, <1>22, <1>23, <1>24, <1>25, <1>26, <1>27, <1>28 DEF Reviewing!Step


LEMMA CallsKeptSame ==
  ASSUME NEW s, NEW r, CallsKept(s, r), UNCHANGED <<calls, began>>
  PROVE  CallsKept(s, r)'
BY DEF CallsKept, CallKept, Over

LEMMA CallsKeptStep ==
  ASSUME NEW s, ReviewAssumptions(s), ReviewTyped(s),
         NEW r \in s.Reviews, Reviewing(s)!Step(r),
         CallsCounted(s, r), RetryWaits(s, r), BudgetRuns(s, r), CallsKept(s, r)
  PROVE  CallsKept(s, r)'
<1>. USE DEF Reviewing!Goto, Reviewing!Raise, Reviewing!Quiet, Reviewing!NoCall,
     Reviewing!NoClock, Reviewing!clock, Reviewing!index
<1>1. /\ DOMAIN pc = s.Reviews /\ DOMAIN began = s.Reviews /\ DOMAIN total = s.Reviews
      /\ DOMAIN budget = s.Reviews /\ DOMAIN deadline = s.Reviews /\ DOMAIN wake = s.Reviews
      /\ DOMAIN attempts = s.Reviews /\ DOMAIN answer = s.Reviews /\ DOMAIN calls = s.Reviews
      /\ DOMAIN findings = s.Reviews /\ DOMAIN outcome = s.Reviews
  BY DEF ReviewTyped, Reviewing!TypeOK
<1>2. /\ s.Total \in Nat /\ s.Total > 0 /\ s.PerAttempt \in Nat /\ s.PerAttempt > 0
      /\ s.QueryTime \in Nat /\ s.MaxAttempts \in Nat /\ s.MaxAttempts > 0 /\ s.MaxTime \in Nat
  BY DEF ReviewAssumptions, Reviewing!BudgetAssumption
<1>3. /\ now \in Nat /\ began[r] \in Nat /\ total[r] \in Nat /\ budget[r] \in Nat
      /\ deadline[r] \in Nat /\ wake[r] \in Nat
  <2>1. s.MaxTime \in Nat /\ s.Total \in Nat
    BY DEF ReviewAssumptions, Reviewing!BudgetAssumption
  <2>. QED  BY <2>1 DEF ReviewTyped, Reviewing!TypeOK, Reviewing!Times
<1>4. /\ calls[r] \in Seq(CallSet(s)) /\ Len(calls[r]) \in Nat
      /\ DOMAIN calls[r] = 1 .. Len(calls[r]) /\ attempts[r] \in Nat
  <2>1. calls[r] \in Seq(CallSet(s))
    BY DEF ReviewTyped, CallSet
  <2>2. attempts[r] \in 0 .. s.MaxAttempts /\ s.MaxAttempts \in Nat
    BY DEF ReviewTyped, Reviewing!TypeOK, ReviewAssumptions, Reviewing!BudgetAssumption
  <2>. QED  BY <2>1, <2>2
<1>5. Len(calls[r]) > 0 => Last(r).ended \in Nat
  <2>1. Len(calls[r]) > 0 => Last(r) \in CallSet(s)
    BY <1>4 DEF Last
  <2>2. s.MaxTime \in Nat
    BY DEF ReviewAssumptions, Reviewing!BudgetAssumption
  <2>. QED  BY <2>1, <2>2 DEF CallSet
<1>6. /\ CallsCounted(s, r) /\ RetryWaits(s, r) /\ BudgetRuns(s, r)
      /\ CallsKept(s, r)
  OBVIOUS
<1>7. ASSUME Reviewing(s)!Begin(r)
      PROVE  CallsKept(s, r)'
  <2>1. calls'[r] = <<>>
    BY <1>6, <1>7 DEF Reviewing!Begin, CallsCounted, Uncalled
  <2>2. DOMAIN calls'[r] = {}
    BY <2>1
  <2>. QED  BY <2>2 DEF CallsKept
<1>8. ASSUME Reviewing(s)!AskInputs(r)
      PROVE  CallsKept(s, r)'
  <2>1. UNCHANGED <<calls, began>>
    BY <1>8 DEF Reviewing!AskInputs
  <2>. QED  BY <1>6, <2>1, CallsKeptSame
<1>9. ASSUME Reviewing(s)!TakeLock(r)
      PROVE  CallsKept(s, r)'
  <2>1. UNCHANGED <<calls, began>>
    BY <1>9 DEF Reviewing!TakeLock
  <2>. QED  BY <1>6, <2>1, CallsKeptSame
<1>10. ASSUME Reviewing(s)!InputsLockTimesOut(r)
      PROVE  CallsKept(s, r)'
  <2>1. UNCHANGED <<calls, began>>
    BY <1>10 DEF Reviewing!InputsLockTimesOut
  <2>. QED  BY <1>6, <2>1, CallsKeptSame
<1>11. ASSUME Reviewing(s)!CheckIndex(r)
      PROVE  CallsKept(s, r)'
  <2>1. UNCHANGED <<calls, began>>
    BY <1>11 DEF Reviewing!CheckIndex
  <2>. QED  BY <1>6, <2>1, CallsKeptSame
<1>12. ASSUME Reviewing(s)!InputsDone(r)
      PROVE  CallsKept(s, r)'
  <2>1. UNCHANGED <<calls, began>>
    BY <1>12 DEF Reviewing!InputsDone
  <2>. QED  BY <1>6, <2>1, CallsKeptSame
<1>13. ASSUME Reviewing(s)!Validate(r)
      PROVE  CallsKept(s, r)'
  <2>1. calls'[r] = <<>>
    BY <1>6, <1>13 DEF Reviewing!Validate, CallsCounted, Uncalled
  <2>2. DOMAIN calls'[r] = {}
    BY <2>1
  <2>. QED  BY <2>2 DEF CallsKept
<1>14. ASSUME Reviewing(s)!DeterministicReview(r)
      PROVE  CallsKept(s, r)'
  <2>1. UNCHANGED <<calls, began>>
    BY <1>14 DEF Reviewing!DeterministicReview
  <2>. QED  BY <1>6, <2>1, CallsKeptSame
<1>15. ASSUME Reviewing(s)!AskIndex(r)
      PROVE  CallsKept(s, r)'
  <2>1. UNCHANGED <<calls, began>>
    BY <1>15 DEF Reviewing!AskIndex
  <2>. QED  BY <1>6, <2>1, CallsKeptSame
<1>16. ASSUME Reviewing(s)!IndexLockTimesOut(r)
      PROVE  CallsKept(s, r)'
  <2>1. UNCHANGED <<calls, began>>
    BY <1>16 DEF Reviewing!IndexLockTimesOut, Reviewing!RetrievalTimesOut
  <2>. QED  BY <1>6, <2>1, CallsKeptSame
<1>17. ASSUME Reviewing(s)!Retrieve(r)
      PROVE  CallsKept(s, r)'
  <2>1. UNCHANGED <<calls, began>>
    BY <1>17 DEF Reviewing!Retrieve
  <2>. QED  BY <1>6, <2>1, CallsKeptSame
<1>18. ASSUME Reviewing(s)!Search(r)
      PROVE  CallsKept(s, r)'
  <2>1. UNCHANGED <<calls, began>>
    BY <1>18 DEF Reviewing!Search, Reviewing!RetrievalTimesOut
  <2>. QED  BY <1>6, <2>1, CallsKeptSame
<1>19. ASSUME Reviewing(s)!Searched(r)
      PROVE  CallsKept(s, r)'
  <2>1. UNCHANGED <<calls, began>>
    BY <1>19 DEF Reviewing!Searched
  <2>. QED  BY <1>6, <2>1, CallsKeptSame
<1>20. ASSUME Reviewing(s)!BuildPrompt(r)
      PROVE  CallsKept(s, r)'
  <2>1. UNCHANGED <<calls, began>>
    BY <1>20 DEF Reviewing!BuildPrompt
  <2>. QED  BY <1>6, <2>1, CallsKeptSame
<1>21. ASSUME Reviewing(s)!Provider(r)
      PROVE  CallsKept(s, r)'
  <2>1. UNCHANGED <<calls, began>>
    BY <1>21 DEF Reviewing!Provider, Reviewing!Attempt
  <2>. QED  BY <1>6, <2>1, CallsKeptSame
<1>22. ASSUME Reviewing(s)!Wake(r)
      PROVE  CallsKept(s, r)'
  <2>1. UNCHANGED <<calls, began>>
    BY <1>22 DEF Reviewing!Wake
  <2>. QED  BY <1>6, <2>1, CallsKeptSame
<1>23. ASSUME Reviewing(s)!Ask(r)
      PROVE  CallsKept(s, r)'
  <2>1. CASE now >= deadline[r]
    <3>1. UNCHANGED <<calls, began>>
      BY <1>23, <2>1 DEF Reviewing!Ask, Reviewing!Called
    <3>. QED  BY <1>6, <3>1, CallsKeptSame
  <2>2. CASE ~(now >= deadline[r])
    <3>. DEFINE call == [at |-> now, timeout |-> Reviewing(s)!Smaller(s.PerAttempt, deadline[r] - now),
                         ended |-> 0, raw |-> Reviewing(s)!NoRaw, got |-> Reviewing(s)!NoAnswer]
    <3>0. PICK n \in Nat : n = Len(calls[r])
      BY <1>4
    <3>1. calls' = [calls EXCEPT ![r] = Append(calls[r], call)] /\ began' = began /\ pc[r] = "asked"
      BY <1>23, <2>2 DEF Reviewing!Ask, Reviewing!Called
    <3>2. calls'[r] = Append(calls[r], call)
      BY <1>1, <3>1
    <3>3. CallFits(call, Over(s, r))
      BY <1>2, <1>3, <1>6, <2>2, <3>1
         DEF BudgetRuns, Timed, Asking, Over, Reviewing!Smaller, CallFits
    <3>4. CallAnswered(s, call)
      BY DEF CallAnswered
    <3>5. n > 0 => CallFollows(s, call, calls[r][n], n + 1)
      BY <1>6, <3>0, <3>1 DEF RetryWaits, Asking, Last, CallFollows
    <3>. HIDE DEF call
    <3>6. n \in Nat /\ DOMAIN calls'[r] = 1 .. n + 1 /\ calls'[r][n + 1] = call
          /\ \A i \in 1 .. n : calls'[r][i] = calls[r][i]
      BY <1>4, <3>0, <3>2
    <3>7. ASSUME NEW i \in 1 .. n
          PROVE  CallKept(s, r, i)'
      <4>1. CallKept(s, r, i)
        BY <1>4, <1>6, <3>0 DEF CallsKept
      <4>2. calls'[r][i] = calls[r][i]
        BY <3>6
      <4>3. i > 1 => calls'[r][i - 1] = calls[r][i - 1]
        <5>1. i > 1 => i - 1 \in 1 .. n
          BY <3>6
        <5>. QED  BY <3>6, <5>1
      <4>. QED  BY <3>1, <4>1, <4>2, <4>3 DEF CallKept, Over
    <3>. DEFINE m == n + 1
    <3>8. /\ m \in Nat /\ (m > 1 => n > 0 /\ m - 1 = n) /\ calls'[r][m] = call
          /\ n > 0 => calls'[r][n] = calls[r][n]
      BY <3>6
    <3>9. n > 0 => CallFollows(s, call, calls[r][n], m)
      BY <3>5
    <3>10. \A i \in DOMAIN calls'[r] : i \in 1 .. n \/ i = m
      BY <3>6
    <3>. HIDE DEF m
    <3>11. CallKept(s, r, m)'
      <4>1. Over(s, r)' = Over(s, r)
        BY <3>1 DEF Over
      <4>2. CASE m > 1
        <5>1. n > 0 /\ m - 1 = n
          BY <3>8, <4>2
        <5>2. calls'[r][m - 1] = calls[r][n]
          BY <3>8, <5>1, Zenon
        <5>3. CallFollows(s, calls'[r][m], calls'[r][m - 1], m)
          BY <3>8, <3>9, <5>1, <5>2, Zenon
        <5>. QED  BY <3>3, <3>4, <3>8, <4>1, <5>3, Zenon DEF CallKept
      <4>3. CASE ~(m > 1)
        BY <3>3, <3>4, <3>8, <4>1, <4>3, Zenon DEF CallKept
      <4>. QED  BY <4>2, <4>3
    <3>. QED  BY <3>7, <3>10, <3>11 DEF CallsKept
  <2>. QED  BY <2>1, <2>2
<1>24. ASSUME Reviewing(s)!Answer(r)
      PROVE  CallsKept(s, r)'
  <2>1. PICK raw \in s.Raws : calls' = [calls EXCEPT ![r][attempts[r] + 1].ended = now,
                                    ![r][attempts[r] + 1].raw = raw,
                                    ![r][attempts[r] + 1].got = Reviewing(s)!Adapted(raw)]
    BY <1>24 DEF Reviewing!Answer, Reviewing!Attempt
  <2>. DEFINE n == Len(calls[r])
              got == Reviewing(s)!Adapted(raw)
  <2>2. n = attempts[r] + 1 /\ n \in DOMAIN calls[r] /\ began' = began
    BY <1>4, <1>6, <1>24 DEF Reviewing!Answer, Reviewing!Attempt, CallsCounted
  <2>3. calls'[r] = [calls[r] EXCEPT ![n].ended = now, ![n].raw = raw, ![n].got = got]
    BY <1>1, <2>1, <2>2
  <2>4. /\ DOMAIN calls'[r] = DOMAIN calls[r]
        /\ \A i \in DOMAIN calls[r] \ {n} : calls'[r][i] = calls[r][i]
    BY <2>3
  <2>5. /\ calls'[r][n].raw = raw /\ calls'[r][n].got = got
        /\ calls'[r][n].at = calls[r][n].at /\ calls'[r][n].timeout = calls[r][n].timeout
    <3>1. calls[r][n] \in CallSet(s)
      BY <1>4, <2>2
    <3>. QED  BY <2>2, <2>3, <3>1 DEF CallSet
  <2>. HIDE DEF got, n
  <2>6. n \in Nat /\ DOMAIN calls[r] = 1 .. n
    BY <1>4 DEF n
  <2>7. ASSUME NEW i \in DOMAIN calls'[r]
        PROVE  CallKept(s, r, i)'
    <3>1. i \in 1 .. n /\ CallKept(s, r, i)
      BY <1>6, <2>4, <2>6, <2>7 DEF CallsKept
    <3>2. i > 1 => i - 1 \in DOMAIN calls[r] \ {n}
      BY <2>6, <3>1
    <3>3. i > 1 => calls'[r][i - 1] = calls[r][i - 1]
      BY <2>4, <3>2
    <3>4. calls'[r][i].at = calls[r][i].at /\ calls'[r][i].timeout = calls[r][i].timeout
      BY <2>4, <2>5, <2>6, <3>1
    <3>5. CallFits(calls'[r][i], Over(s, r))
      BY <3>1, <3>4 DEF CallKept, CallFits
    <3>6. i > 1 => CallFollows(s, calls'[r][i], calls'[r][i - 1], i)
      BY <3>1, <3>3, <3>4 DEF CallKept, CallFollows
    <3>7. CallAnswered(s, calls'[r][i])
      BY <2>4, <2>5, <2>6, <3>1 DEF CallKept, CallAnswered, got
    <3>8. Over(s, r)' = Over(s, r)
      BY <2>2 DEF Over
    <3>. QED  BY <3>5, <3>6, <3>7, <3>8, Zenon DEF CallKept
  <2>. QED  BY <2>7 DEF CallsKept
<1>25. ASSUME Reviewing(s)!Route(r)
      PROVE  CallsKept(s, r)'
  <2>1. UNCHANGED <<calls, began>>
    BY <1>25 DEF Reviewing!Route, Reviewing!Attempt, Reviewing!Permitted
  <2>. QED  BY <1>6, <2>1, CallsKeptSame
<1>26. ASSUME Reviewing(s)!Parse(r)
      PROVE  CallsKept(s, r)'
  <2>1. UNCHANGED <<calls, began>>
    BY <1>26 DEF Reviewing!Parse
  <2>. QED  BY <1>6, <2>1, CallsKeptSame
<1>27. ASSUME Reviewing(s)!Merge(r)
      PROVE  CallsKept(s, r)'
  <2>1. UNCHANGED <<calls, began>>
    BY <1>27 DEF Reviewing!Merge
  <2>. QED  BY <1>6, <2>1, CallsKeptSame
<1>28. ASSUME Reviewing(s)!Finalize(r)
      PROVE  CallsKept(s, r)'
  <2>1. UNCHANGED <<calls, began>>
    BY <1>28 DEF Reviewing!Finalize
  <2>. QED  BY <1>6, <2>1, CallsKeptSame
<1>. QED  BY <1>7, <1>8, <1>9, <1>10, <1>11, <1>12, <1>13, <1>14, <1>15, <1>16, <1>17,
     <1>18, <1>19, <1>20, <1>21, <1>22, <1>23, <1>24, <1>25, <1>26, <1>27, <1>28 DEF Reviewing!Step


LEMMA ResultKeptStep ==
  ASSUME NEW s, ReviewAssumptions(s), ReviewTyped(s),
         NEW r \in s.Reviews, Reviewing(s)!Step(r),
         CallsCounted(s, r), RetryWaits(s, r), BudgetRuns(s, r), CallsKept(s, r)
  PROVE  ResultKept(s, r)'
<1>. USE DEF ResultKept, Reviewing!Goto, Reviewing!Raise, Reviewing!Quiet,
     Reviewing!NoCall, Reviewing!NoClock, Reviewing!clock, Reviewing!index
<1>1. /\ DOMAIN pc = s.Reviews /\ DOMAIN began = s.Reviews /\ DOMAIN total = s.Reviews
      /\ DOMAIN budget = s.Reviews /\ DOMAIN deadline = s.Reviews /\ DOMAIN wake = s.Reviews
      /\ DOMAIN attempts = s.Reviews /\ DOMAIN answer = s.Reviews /\ DOMAIN calls = s.Reviews
      /\ DOMAIN findings = s.Reviews /\ DOMAIN outcome = s.Reviews
  BY DEF ReviewTyped, Reviewing!TypeOK
<1>2. /\ outcome[r].kind = "none" /\ pc[r] # "ended"
  <2>1. pc[r] # "ended"
    BY DEF Reviewing!Step, Reviewing!Begin, Reviewing!AskInputs, Reviewing!TakeLock, Reviewing!InputsLockTimesOut, Reviewing!CheckIndex, Reviewing!InputsDone, Reviewing!Validate, Reviewing!DeterministicReview, Reviewing!AskIndex, Reviewing!IndexLockTimesOut, Reviewing!Retrieve, Reviewing!Search, Reviewing!Searched, Reviewing!BuildPrompt, Reviewing!Provider, Reviewing!Wake, Reviewing!Ask, Reviewing!Answer, Reviewing!Route, Reviewing!Parse, Reviewing!Merge, Reviewing!Finalize
  <2>. QED  BY <2>1 DEF ReviewTyped, Reviewing!TypeOK
<1>3. /\ now \in Nat /\ began[r] \in Nat /\ total[r] \in Nat /\ budget[r] \in Nat
      /\ deadline[r] \in Nat /\ wake[r] \in Nat
  <2>1. s.MaxTime \in Nat /\ s.Total \in Nat
    BY DEF ReviewAssumptions, Reviewing!BudgetAssumption
  <2>. QED  BY <2>1 DEF ReviewTyped, Reviewing!TypeOK, Reviewing!Times
<1>4. /\ calls[r] \in Seq(CallSet(s)) /\ Len(calls[r]) \in Nat
      /\ DOMAIN calls[r] = 1 .. Len(calls[r]) /\ attempts[r] \in Nat
  <2>1. calls[r] \in Seq(CallSet(s))
    BY DEF ReviewTyped, CallSet
  <2>2. attempts[r] \in 0 .. s.MaxAttempts /\ s.MaxAttempts \in Nat
    BY DEF ReviewTyped, Reviewing!TypeOK, ReviewAssumptions, Reviewing!BudgetAssumption
  <2>. QED  BY <2>1, <2>2
<1>5. /\ s.Total \in Nat /\ s.Total > 0 /\ s.PerAttempt \in Nat /\ s.PerAttempt > 0
      /\ s.QueryTime \in Nat /\ s.MaxAttempts \in Nat /\ s.MaxAttempts > 0 /\ s.MaxTime \in Nat
  BY DEF ReviewAssumptions, Reviewing!BudgetAssumption
<1>6. /\ CallsCounted(s, r) /\ RetryWaits(s, r) /\ BudgetRuns(s, r)
      /\ CallsKept(s, r)
  OBVIOUS
<1>7. ASSUME Reviewing(s)!Begin(r)
      PROVE  ResultKept(s, r)'
  BY <1>1, <1>2, <1>3, <1>4, <1>5, <1>6, <1>7 DEF Reviewing!Begin
<1>8. ASSUME Reviewing(s)!AskInputs(r)
      PROVE  ResultKept(s, r)'
  BY <1>1, <1>2, <1>3, <1>4, <1>5, <1>6, <1>8 DEF Reviewing!AskInputs, Reviewing!Smaller
<1>9. ASSUME Reviewing(s)!TakeLock(r)
      PROVE  ResultKept(s, r)'
  BY <1>1, <1>2, <1>3, <1>4, <1>5, <1>6, <1>9 DEF Reviewing!TakeLock
<1>10. ASSUME Reviewing(s)!InputsLockTimesOut(r)
      PROVE  ResultKept(s, r)'
  BY <1>1, <1>2, <1>3, <1>4, <1>5, <1>6, <1>10 DEF Reviewing!InputsLockTimesOut
<1>11. ASSUME Reviewing(s)!CheckIndex(r)
      PROVE  ResultKept(s, r)'
  BY <1>1, <1>2, <1>3, <1>4, <1>5, <1>6, <1>11 DEF Reviewing!CheckIndex
<1>12. ASSUME Reviewing(s)!InputsDone(r)
      PROVE  ResultKept(s, r)'
  BY <1>1, <1>2, <1>3, <1>4, <1>5, <1>6, <1>12 DEF Reviewing!InputsDone
<1>13. ASSUME Reviewing(s)!Validate(r)
      PROVE  ResultKept(s, r)'
  BY <1>1, <1>2, <1>3, <1>4, <1>5, <1>6, <1>13 DEF Reviewing!Validate
<1>14. ASSUME Reviewing(s)!DeterministicReview(r)
      PROVE  ResultKept(s, r)'
  BY <1>1, <1>2, <1>3, <1>4, <1>5, <1>6, <1>14 DEF Reviewing!DeterministicReview
<1>15. ASSUME Reviewing(s)!AskIndex(r)
      PROVE  ResultKept(s, r)'
  BY <1>1, <1>2, <1>3, <1>4, <1>5, <1>6, <1>15 DEF Reviewing!AskIndex
<1>16. ASSUME Reviewing(s)!IndexLockTimesOut(r)
      PROVE  ResultKept(s, r)'
  BY <1>1, <1>2, <1>3, <1>4, <1>5, <1>6, <1>16 DEF Reviewing!IndexLockTimesOut,
     Reviewing!RetrievalTimesOut
<1>17. ASSUME Reviewing(s)!Retrieve(r)
      PROVE  ResultKept(s, r)'
  BY <1>1, <1>2, <1>3, <1>4, <1>5, <1>6, <1>17 DEF Reviewing!Retrieve
<1>18. ASSUME Reviewing(s)!Search(r)
      PROVE  ResultKept(s, r)'
  BY <1>1, <1>2, <1>3, <1>4, <1>5, <1>6, <1>18 DEF Reviewing!Search,
     Reviewing!RetrievalTimesOut
<1>19. ASSUME Reviewing(s)!Searched(r)
      PROVE  ResultKept(s, r)'
  BY <1>1, <1>2, <1>3, <1>4, <1>5, <1>6, <1>19 DEF Reviewing!Searched
<1>20. ASSUME Reviewing(s)!BuildPrompt(r)
      PROVE  ResultKept(s, r)'
  BY <1>1, <1>2, <1>3, <1>4, <1>5, <1>6, <1>20 DEF Reviewing!BuildPrompt
<1>21. ASSUME Reviewing(s)!Provider(r)
      PROVE  ResultKept(s, r)'
  BY <1>1, <1>2, <1>3, <1>4, <1>5, <1>6, <1>21 DEF Reviewing!Provider, Reviewing!Attempt
<1>22. ASSUME Reviewing(s)!Wake(r)
      PROVE  ResultKept(s, r)'
  BY <1>1, <1>2, <1>3, <1>4, <1>5, <1>6, <1>22 DEF Reviewing!Wake
<1>23. ASSUME Reviewing(s)!Ask(r)
      PROVE  ResultKept(s, r)'
  BY <1>1, <1>2, <1>3, <1>4, <1>5, <1>6, <1>23 DEF Reviewing!Ask, Reviewing!Called
<1>24. ASSUME Reviewing(s)!Answer(r)
      PROVE  ResultKept(s, r)'
  BY <1>1, <1>2, <1>3, <1>4, <1>5, <1>6, <1>24 DEF Reviewing!Answer, Reviewing!Attempt
<1>25. ASSUME Reviewing(s)!Route(r)
      PROVE  ResultKept(s, r)'
  BY <1>1, <1>2, <1>3, <1>4, <1>5, <1>6, <1>25 DEF Reviewing!Route, Reviewing!Attempt,
     Reviewing!Permitted
<1>26. ASSUME Reviewing(s)!Parse(r)
      PROVE  ResultKept(s, r)'
  BY <1>1, <1>2, <1>3, <1>4, <1>5, <1>6, <1>26 DEF Reviewing!Parse
<1>27. ASSUME Reviewing(s)!Merge(r)
      PROVE  ResultKept(s, r)'
  BY <1>1, <1>2, <1>3, <1>4, <1>5, <1>6, <1>27 DEF Reviewing!Merge
<1>28. ASSUME Reviewing(s)!Finalize(r)
      PROVE  ResultKept(s, r)'
  <2>1. \/ outcome'[r].kind = "error"
        \/ outcome'[r].at = now /\ now < deadline[r]
    BY <1>1, <1>3, <1>28 DEF Reviewing!Finalize
  <2>2. pc[r] = "finalize" /\ UNCHANGED <<calls, findings, began>>
    BY <1>28 DEF Reviewing!Finalize
  <2>3. /\ deadline[r] = Over(s, r) /\ Len(calls[r]) > 0 /\ Last(r).got.kind = "response"
        /\ Reviewing(s)!Accepted(Last(r).got.body)
        /\ findings[r] = Reviewing(s)!InOrder(Reviewing(s)!Collected(Last(r).got.body))
    BY <1>4, <1>6, <2>2 DEF BudgetRuns, Timed, Answered, CallsCounted
  <2>4. Over(s, r)' = Over(s, r) /\ Last(r)' = Last(r) /\ calls'[r] = calls[r]
        /\ findings'[r] = findings[r]
    BY <2>2 DEF Over, Last
  <2>. QED  BY <2>1, <2>3, <2>4
<1>. QED  BY <1>7, <1>8, <1>9, <1>10, <1>11, <1>12, <1>13, <1>14, <1>15, <1>16, <1>17,
     <1>18, <1>19, <1>20, <1>21, <1>22, <1>23, <1>24, <1>25, <1>26, <1>27, <1>28 DEF Reviewing!Step


(* An error that is not the provider's and blames a deadline that is over. *)
Plain(s, r) ==
  outcome'[r].kind = "error" =>
    /\ outcome'[r].attempts = Len(calls[r]) /\ outcome'[r].at = now
    /\ outcome'[r].code \notin Reviewing(s)!ProviderCodes
    /\ outcome'[r].code = "budget_exceeded" => now >= Over(s, r)
    /\ outcome'[r].detail = "deadline_exceeded" => now < Over(s, r)
    /\ outcome'[r].code = "invalid_index" => closed \/ r \notin s.Matching
    /\ began'[r] = began[r]

LEMMA PlainIsKept ==
  ASSUME NEW s, NEW r, Plain(s, r), UNCHANGED <<calls, closed>>
  PROVE  ErrorKept(s, r)'
<1>. SUFFICES ASSUME outcome'[r].kind = "error"
              PROVE  ErrorKept(s, r)'
  BY DEF ErrorKept
<1>1. Over(s, r)' = Over(s, r) /\ Len(calls'[r]) = Len(calls[r])
  BY DEF Plain, Over
<1>. QED  BY <1>1 DEF ErrorKept, Plain

LEMMA ErrorKeptStep ==
  ASSUME NEW s, ReviewAssumptions(s), ReviewTyped(s),
         NEW r \in s.Reviews, Reviewing(s)!Step(r),
         CallsCounted(s, r), RetryWaits(s, r), BudgetRuns(s, r), CallsKept(s, r)
  PROVE  ErrorKept(s, r)'
<1>. USE DEF Reviewing!ProviderCodes, Reviewing!Retryable, Reviewing!RetrievalCodes,
     Reviewing!Goto, Reviewing!Raise, Reviewing!Quiet, Reviewing!NoCall,
     Reviewing!NoClock, Reviewing!clock, Reviewing!index
<1>1. /\ DOMAIN pc = s.Reviews /\ DOMAIN began = s.Reviews /\ DOMAIN total = s.Reviews
      /\ DOMAIN budget = s.Reviews /\ DOMAIN deadline = s.Reviews /\ DOMAIN wake = s.Reviews
      /\ DOMAIN attempts = s.Reviews /\ DOMAIN answer = s.Reviews /\ DOMAIN calls = s.Reviews
      /\ DOMAIN findings = s.Reviews /\ DOMAIN outcome = s.Reviews
  BY DEF ReviewTyped, Reviewing!TypeOK
<1>2. /\ outcome[r].kind = "none" /\ pc[r] # "ended"
  <2>1. pc[r] # "ended"
    BY DEF Reviewing!Step, Reviewing!Begin, Reviewing!AskInputs, Reviewing!TakeLock, Reviewing!InputsLockTimesOut, Reviewing!CheckIndex, Reviewing!InputsDone, Reviewing!Validate, Reviewing!DeterministicReview, Reviewing!AskIndex, Reviewing!IndexLockTimesOut, Reviewing!Retrieve, Reviewing!Search, Reviewing!Searched, Reviewing!BuildPrompt, Reviewing!Provider, Reviewing!Wake, Reviewing!Ask, Reviewing!Answer, Reviewing!Route, Reviewing!Parse, Reviewing!Merge, Reviewing!Finalize
  <2>. QED  BY <2>1 DEF ReviewTyped, Reviewing!TypeOK
<1>3. /\ now \in Nat /\ began[r] \in Nat /\ total[r] \in Nat /\ budget[r] \in Nat
      /\ deadline[r] \in Nat /\ wake[r] \in Nat
  <2>1. s.MaxTime \in Nat /\ s.Total \in Nat
    BY DEF ReviewAssumptions, Reviewing!BudgetAssumption
  <2>. QED  BY <2>1 DEF ReviewTyped, Reviewing!TypeOK, Reviewing!Times
<1>4. /\ calls[r] \in Seq(CallSet(s)) /\ Len(calls[r]) \in Nat
      /\ DOMAIN calls[r] = 1 .. Len(calls[r]) /\ attempts[r] \in Nat
  <2>1. calls[r] \in Seq(CallSet(s))
    BY DEF ReviewTyped, CallSet
  <2>2. attempts[r] \in 0 .. s.MaxAttempts /\ s.MaxAttempts \in Nat
    BY DEF ReviewTyped, Reviewing!TypeOK, ReviewAssumptions, Reviewing!BudgetAssumption
  <2>. QED  BY <2>1, <2>2
<1>5. /\ s.Total \in Nat /\ s.Total > 0 /\ s.PerAttempt \in Nat /\ s.PerAttempt > 0
      /\ s.QueryTime \in Nat /\ s.MaxAttempts \in Nat /\ s.MaxAttempts > 0 /\ s.MaxTime \in Nat
  BY DEF ReviewAssumptions, Reviewing!BudgetAssumption
<1>6. /\ CallsCounted(s, r) /\ RetryWaits(s, r) /\ BudgetRuns(s, r)
      /\ CallsKept(s, r)
  OBVIOUS
<1>7. Len(calls[r]) > 0 => Last(r).ended \in Nat
  <2>1. Len(calls[r]) > 0 => Last(r) \in CallSet(s)
    BY <1>4 DEF Last
  <2>2. s.MaxTime \in Nat
    BY DEF ReviewAssumptions, Reviewing!BudgetAssumption
  <2>. QED  BY <2>1, <2>2 DEF CallSet
<1>8. ASSUME Reviewing(s)!Begin(r)
      PROVE  ErrorKept(s, r)'
  <2>1. UNCHANGED <<calls, closed>>
    BY <1>8 DEF Reviewing!Begin
  <2>2. Len(calls[r]) = 0
    <3>1. calls[r] = <<>>
      BY <1>6, <1>8 DEF Reviewing!Begin, CallsCounted, Uncalled, AtInputs, AtIndex, Asking, Answered
    <3>. QED  BY <3>1
  <2>5. Plain(s, r)
    BY <1>1, <1>2, <2>2, <1>8 DEF Reviewing!Begin, Plain
  <2>. QED  BY <2>1, <2>5, PlainIsKept
<1>9. ASSUME Reviewing(s)!AskInputs(r)
      PROVE  ErrorKept(s, r)'
  <2>1. UNCHANGED <<calls, closed>>
    BY <1>9 DEF Reviewing!AskInputs
  <2>2. Len(calls[r]) = 0
    <3>1. calls[r] = <<>>
      BY <1>6, <1>9 DEF Reviewing!AskInputs, CallsCounted, Uncalled, AtInputs, AtIndex, Asking, Answered
    <3>. QED  BY <3>1
  <2>3. total[r] = Over(s, r)
    BY <1>6, <1>9 DEF Reviewing!AskInputs, BudgetRuns, AtInputs
  <2>4. Over(s, r) \in Int /\ now \in Int
    BY <1>3, <1>5 DEF Over
  <2>5. Plain(s, r)
    BY <1>1, <1>2, <2>2, <2>3, <2>4, <1>9 DEF Reviewing!AskInputs, Plain
  <2>. QED  BY <2>1, <2>5, PlainIsKept
<1>10. ASSUME Reviewing(s)!TakeLock(r)
      PROVE  ErrorKept(s, r)'
  <2>1. UNCHANGED <<calls, closed>>
    BY <1>10 DEF Reviewing!TakeLock
  <2>2. Len(calls[r]) = 0
    <3>1. calls[r] = <<>>
      BY <1>6, <1>10 DEF Reviewing!TakeLock, CallsCounted, Uncalled, AtInputs, AtIndex, Asking, Answered
    <3>. QED  BY <3>1
  <2>5. Plain(s, r)
    BY <1>1, <1>2, <2>2, <1>10 DEF Reviewing!TakeLock, Plain
  <2>. QED  BY <2>1, <2>5, PlainIsKept
<1>11. ASSUME Reviewing(s)!InputsLockTimesOut(r)
      PROVE  ErrorKept(s, r)'
  <2>1. UNCHANGED <<calls, closed>>
    BY <1>11 DEF Reviewing!InputsLockTimesOut
  <2>2. Len(calls[r]) = 0
    <3>1. calls[r] = <<>>
      BY <1>6, <1>11 DEF Reviewing!InputsLockTimesOut, CallsCounted, Uncalled, AtInputs, AtIndex, Asking, Answered
    <3>. QED  BY <3>1
  <2>3. total[r] = Over(s, r)
    BY <1>6, <1>11 DEF Reviewing!InputsLockTimesOut, BudgetRuns, AtInputs
  <2>4. Over(s, r) \in Int /\ now \in Int
    BY <1>3, <1>5 DEF Over
  <2>5. Plain(s, r)
    BY <1>1, <1>2, <2>2, <2>3, <2>4, <1>11 DEF Reviewing!InputsLockTimesOut, Plain
  <2>. QED  BY <2>1, <2>5, PlainIsKept
<1>12. ASSUME Reviewing(s)!CheckIndex(r)
      PROVE  ErrorKept(s, r)'
  <2>1. UNCHANGED <<calls, closed>>
    BY <1>12 DEF Reviewing!CheckIndex
  <2>2. Len(calls[r]) = 0
    <3>1. calls[r] = <<>>
      BY <1>6, <1>12 DEF Reviewing!CheckIndex, CallsCounted, Uncalled, AtInputs, AtIndex, Asking, Answered
    <3>. QED  BY <3>1
  <2>5. Plain(s, r)
    BY <1>1, <1>2, <2>2, <1>12 DEF Reviewing!CheckIndex, Plain
  <2>. QED  BY <2>1, <2>5, PlainIsKept
<1>13. ASSUME Reviewing(s)!InputsDone(r)
      PROVE  ErrorKept(s, r)'
  <2>1. UNCHANGED <<calls, closed>>
    BY <1>13 DEF Reviewing!InputsDone
  <2>2. Len(calls[r]) = 0
    <3>1. calls[r] = <<>>
      BY <1>6, <1>13 DEF Reviewing!InputsDone, CallsCounted, Uncalled, AtInputs, AtIndex, Asking, Answered
    <3>. QED  BY <3>1
  <2>3. total[r] = Over(s, r)
    BY <1>6, <1>13 DEF Reviewing!InputsDone, BudgetRuns, AtInputs
  <2>4. Over(s, r) \in Int /\ now \in Int
    BY <1>3, <1>5 DEF Over
  <2>5. Plain(s, r)
    BY <1>1, <1>2, <2>2, <2>3, <2>4, <1>13 DEF Reviewing!InputsDone, Plain
  <2>. QED  BY <2>1, <2>5, PlainIsKept
<1>14. ASSUME Reviewing(s)!Validate(r)
      PROVE  ErrorKept(s, r)'
  <2>1. UNCHANGED <<calls, closed>>
    BY <1>14 DEF Reviewing!Validate
  <2>2. Len(calls[r]) = 0
    <3>1. calls[r] = <<>>
      BY <1>6, <1>14 DEF Reviewing!Validate, CallsCounted, Uncalled, AtInputs, AtIndex, Asking, Answered
    <3>. QED  BY <3>1
  <2>5. Plain(s, r)
    BY <1>1, <1>2, <2>2, <1>14 DEF Reviewing!Validate, Plain
  <2>. QED  BY <2>1, <2>5, PlainIsKept
<1>15. ASSUME Reviewing(s)!DeterministicReview(r)
      PROVE  ErrorKept(s, r)'
  <2>1. UNCHANGED <<calls, closed>>
    BY <1>15 DEF Reviewing!DeterministicReview
  <2>2. Len(calls[r]) = 0
    <3>1. calls[r] = <<>>
      BY <1>6, <1>15 DEF Reviewing!DeterministicReview, CallsCounted, Uncalled, AtInputs, AtIndex, Asking, Answered
    <3>. QED  BY <3>1
  <2>5. Plain(s, r)
    BY <1>1, <1>2, <2>2, <1>15 DEF Reviewing!DeterministicReview, Plain
  <2>. QED  BY <2>1, <2>5, PlainIsKept
<1>16. ASSUME Reviewing(s)!AskIndex(r)
      PROVE  ErrorKept(s, r)'
  <2>1. UNCHANGED <<calls, closed>>
    BY <1>16 DEF Reviewing!AskIndex
  <2>2. Len(calls[r]) = 0
    <3>1. calls[r] = <<>>
      BY <1>6, <1>16 DEF Reviewing!AskIndex, CallsCounted, Uncalled, AtInputs, AtIndex, Asking, Answered
    <3>. QED  BY <3>1
  <2>3. Reviewing(s)!Effective(r) = Over(s, r)
    <3>1. total[r] = Over(s, r) /\ deadline[r] >= Over(s, r)
      BY <1>6, <1>16 DEF Reviewing!AskIndex, BudgetRuns, AtIndex
    <3>. QED  BY <1>3, <3>1 DEF Reviewing!Effective, Reviewing!Smaller
  <2>4. Over(s, r) \in Int /\ now \in Int
    BY <1>3, <1>5 DEF Over
  <2>5. Plain(s, r)
    BY <1>1, <1>2, <2>2, <2>3, <2>4, <1>16 DEF Reviewing!AskIndex, Plain
  <2>. QED  BY <2>1, <2>5, PlainIsKept
<1>17. ASSUME Reviewing(s)!IndexLockTimesOut(r)
      PROVE  ErrorKept(s, r)'
  <2>1. UNCHANGED <<calls, closed>>
    BY <1>17 DEF Reviewing!IndexLockTimesOut, Reviewing!RetrievalTimesOut
  <2>2. Len(calls[r]) = 0
    <3>1. calls[r] = <<>>
      BY <1>6, <1>17 DEF Reviewing!IndexLockTimesOut, Reviewing!RetrievalTimesOut, CallsCounted, Uncalled, AtInputs, AtIndex, Asking, Answered
    <3>. QED  BY <3>1
  <2>3. Reviewing(s)!Effective(r) = Over(s, r)
    <3>1. total[r] = Over(s, r) /\ deadline[r] >= Over(s, r)
      BY <1>6, <1>17 DEF Reviewing!IndexLockTimesOut, Reviewing!RetrievalTimesOut, BudgetRuns, AtIndex
    <3>. QED  BY <1>3, <3>1 DEF Reviewing!Effective, Reviewing!Smaller
  <2>4. Over(s, r) \in Int /\ now \in Int
    BY <1>3, <1>5 DEF Over
  <2>5. Plain(s, r)
    BY <1>1, <1>2, <2>2, <2>3, <2>4, <1>17 DEF Reviewing!IndexLockTimesOut, Reviewing!RetrievalTimesOut, Plain
  <2>. QED  BY <2>1, <2>5, PlainIsKept
<1>18. ASSUME Reviewing(s)!Retrieve(r)
      PROVE  ErrorKept(s, r)'
  <2>1. UNCHANGED <<calls, closed>>
    BY <1>18 DEF Reviewing!Retrieve
  <2>2. Len(calls[r]) = 0
    <3>1. calls[r] = <<>>
      BY <1>6, <1>18 DEF Reviewing!Retrieve, CallsCounted, Uncalled, AtInputs, AtIndex, Asking, Answered
    <3>. QED  BY <3>1
  <2>5. Plain(s, r)
    BY <1>1, <1>2, <2>2, <1>18 DEF Reviewing!Retrieve, Plain
  <2>. QED  BY <2>1, <2>5, PlainIsKept
<1>19. ASSUME Reviewing(s)!Search(r)
      PROVE  ErrorKept(s, r)'
  <2>1. UNCHANGED <<calls, closed>>
    BY <1>19 DEF Reviewing!Search, Reviewing!RetrievalTimesOut
  <2>2. Len(calls[r]) = 0
    <3>1. calls[r] = <<>>
      BY <1>6, <1>19 DEF Reviewing!Search, Reviewing!RetrievalTimesOut, CallsCounted, Uncalled, AtInputs, AtIndex, Asking, Answered
    <3>. QED  BY <3>1
  <2>3. Reviewing(s)!Effective(r) = Over(s, r)
    <3>1. total[r] = Over(s, r) /\ deadline[r] >= Over(s, r)
      BY <1>6, <1>19 DEF Reviewing!Search, Reviewing!RetrievalTimesOut, BudgetRuns, AtIndex
    <3>. QED  BY <1>3, <3>1 DEF Reviewing!Effective, Reviewing!Smaller
  <2>4. Over(s, r) \in Int /\ now \in Int
    BY <1>3, <1>5 DEF Over
  <2>5. Plain(s, r)
    BY <1>1, <1>2, <2>2, <2>3, <2>4, <1>19 DEF Reviewing!Search, Reviewing!RetrievalTimesOut, Plain
  <2>. QED  BY <2>1, <2>5, PlainIsKept
<1>20. ASSUME Reviewing(s)!Searched(r)
      PROVE  ErrorKept(s, r)'
  <2>1. UNCHANGED <<calls, closed>>
    BY <1>20 DEF Reviewing!Searched
  <2>2. Len(calls[r]) = 0
    <3>1. calls[r] = <<>>
      BY <1>6, <1>20 DEF Reviewing!Searched, CallsCounted, Uncalled, AtInputs, AtIndex, Asking, Answered
    <3>. QED  BY <3>1
  <2>3. Reviewing(s)!Effective(r) = Over(s, r)
    <3>1. total[r] = Over(s, r) /\ deadline[r] >= Over(s, r)
      BY <1>6, <1>20 DEF Reviewing!Searched, BudgetRuns, AtIndex
    <3>. QED  BY <1>3, <3>1 DEF Reviewing!Effective, Reviewing!Smaller
  <2>4. Over(s, r) \in Int /\ now \in Int
    BY <1>3, <1>5 DEF Over
  <2>5. Plain(s, r)
    BY <1>1, <1>2, <2>2, <2>3, <2>4, <1>20 DEF Reviewing!Searched, Plain
  <2>. QED  BY <2>1, <2>5, PlainIsKept
<1>21. ASSUME Reviewing(s)!BuildPrompt(r)
      PROVE  ErrorKept(s, r)'
  <2>1. UNCHANGED <<calls, closed>>
    BY <1>21 DEF Reviewing!BuildPrompt
  <2>2. Len(calls[r]) = 0
    <3>1. calls[r] = <<>>
      BY <1>6, <1>21 DEF Reviewing!BuildPrompt, CallsCounted, Uncalled, AtInputs, AtIndex, Asking, Answered
    <3>. QED  BY <3>1
  <2>5. Plain(s, r)
    BY <1>1, <1>2, <2>2, <1>21 DEF Reviewing!BuildPrompt, Plain
  <2>. QED  BY <2>1, <2>5, PlainIsKept
<1>22. ASSUME Reviewing(s)!Provider(r)
      PROVE  ErrorKept(s, r)'
  <2>. DEFINE next == attempts[r] + 1
  <2>1. pc[r] = "provider" /\ UNCHANGED <<calls, began, closed>>
    BY <1>22 DEF Reviewing!Provider, Reviewing!Attempt
  <2>2. Len(calls[r]) = attempts[r] /\ attempts[r] < s.MaxAttempts /\ deadline[r] = Over(s, r)
    BY <1>6, <2>1 DEF CallsCounted, Asking, BudgetRuns, Timed
  <2>3. \/ outcome'[r].kind = "none"
        \/ /\ next # 1 /\ now + Reviewing(s)!Backoff(next) >= deadline[r]
           /\ outcome'[r] = [kind |-> "error", code |-> "budget_exceeded",
                             node |-> "invoke_provider", attempts |-> attempts[r],
                             at |-> now, detail |-> "none"]
    BY <1>1, <1>2, <1>22 DEF Reviewing!Provider, Reviewing!Attempt
  <2>4. next # 1 => attempts[r] > 0 /\ attempts[r] \in 1 .. s.MaxAttempts - 1
    BY <1>4, <1>5, <2>2
  <2>5. attempts[r] > 0 => Last(r).got.code \in Reviewing(s)!Retryable
    BY <1>6, <2>1, <2>2 DEF RetryWaits, Asking
  <2>6. Over(s, r)' = Over(s, r) /\ Last(r)' = Last(r) /\ Len(calls'[r]) = attempts[r]
    BY <2>1, <2>2 DEF Over, Last
  <2>7. CASE outcome'[r].kind = "none"
    BY <2>7 DEF ErrorKept
  <2>8. CASE outcome'[r].kind # "none"
    <3>1. /\ outcome'[r].code = "budget_exceeded" /\ outcome'[r].attempts = attempts[r]
          /\ outcome'[r].detail = "none"
          /\ outcome'[r].at + Reviewing(s)!Backoff(attempts[r] + 1) >= Over(s, r)
          /\ attempts[r] \in 1 .. s.MaxAttempts - 1
          /\ Last(r).got.code \in Reviewing(s)!Retryable
      BY <2>2, <2>3, <2>4, <2>5, <2>8
    <3>. QED  BY <2>6, <3>1 DEF ErrorKept
  <2>. QED  BY <2>7, <2>8
<1>23. ASSUME Reviewing(s)!Wake(r)
      PROVE  ErrorKept(s, r)'
  <2>1. UNCHANGED <<calls, closed>>
    BY <1>23 DEF Reviewing!Wake
  <2>2. Len(calls[r]) = attempts[r]
    BY <1>6, <1>23 DEF Reviewing!Wake, CallsCounted, Uncalled, AtInputs, AtIndex, Asking, Answered
  <2>5. Plain(s, r)
    BY <1>1, <1>2, <2>2, <1>23 DEF Reviewing!Wake, Plain
  <2>. QED  BY <2>1, <2>5, PlainIsKept
<1>24. ASSUME Reviewing(s)!Ask(r)
      PROVE  ErrorKept(s, r)'
  <2>1. pc[r] = "asked" /\ began' = began
    BY <1>24 DEF Reviewing!Ask, Reviewing!Called
  <2>2. CASE now >= deadline[r]
    <3>1. /\ UNCHANGED <<calls, closed>>
          /\ outcome'[r].code = "budget_exceeded" /\ outcome'[r].attempts = attempts[r]
          /\ outcome'[r].at = now /\ outcome'[r].detail = "none"
      BY <1>1, <2>2, <1>24 DEF Reviewing!Ask, Reviewing!Called
    <3>2. Len(calls[r]) = attempts[r] /\ deadline[r] = Over(s, r)
      BY <1>6, <2>1 DEF CallsCounted, BudgetRuns, Timed, Asking
    <3>3. Plain(s, r)
      BY <2>1, <2>2, <3>1, <3>2 DEF Plain
    <3>. QED  BY <3>1, <3>3, PlainIsKept
  <2>3. CASE ~(now >= deadline[r])
    <3>1. outcome'[r].kind = "none"
      BY <1>2, <2>3, <1>24 DEF Reviewing!Ask, Reviewing!Called
    <3>. QED  BY <3>1 DEF ErrorKept
  <2>. QED  BY <2>2, <2>3
<1>25. ASSUME Reviewing(s)!Answer(r)
      PROVE  ErrorKept(s, r)'
  <2>1. pc[r] = "calling" /\ began' = began
    BY <1>25 DEF Reviewing!Answer, Reviewing!Attempt
  <2>2. Len(calls[r]) = attempts[r] + 1 /\ deadline[r] = Over(s, r)
    BY <1>6, <2>1 DEF CallsCounted, BudgetRuns, Timed
  <2>3. \/ outcome'[r].kind = "none"
        \/ /\ outcome'[r].attempts = attempts[r] + 1 /\ outcome'[r].detail = "none"
           /\ \/ outcome'[r].code = "budget_exceeded" /\ now >= deadline[r] /\ outcome'[r].at = now
              \/ outcome'[r].code = "workflow_execution_failed"
    BY <1>1, <1>2, <1>25 DEF Reviewing!Answer, Reviewing!Attempt
  <2>4. PICK raw \in s.Raws : calls' = [calls EXCEPT ![r][attempts[r] + 1].ended = now,
                                    ![r][attempts[r] + 1].raw = raw,
                                    ![r][attempts[r] + 1].got = Reviewing(s)!Adapted(raw)]
    BY <1>25 DEF Reviewing!Answer, Reviewing!Attempt
  <2>. DEFINE n == Len(calls[r])
              got == Reviewing(s)!Adapted(raw)
  <2>5. calls'[r] = [calls[r] EXCEPT ![n].ended = now, ![n].raw = raw, ![n].got = got]
    BY <1>1, <2>2, <2>4
  <2>6. Len(calls'[r]) = Len(calls[r])
    BY <1>4, <2>5, SameLength
  <2>7. Over(s, r)' = Over(s, r)
    BY <2>1 DEF Over
  <2>. QED  BY <2>2, <2>3, <2>6, <2>7 DEF ErrorKept
<1>26. ASSUME Reviewing(s)!Route(r)
      PROVE  ErrorKept(s, r)'
  <2>. DEFINE n == Len(calls[r])
  <2>1. pc[r] = "route" /\ UNCHANGED <<calls, began, closed>>
    BY <1>26 DEF Reviewing!Route, Reviewing!Attempt, Reviewing!Permitted
  <2>2. /\ n = attempts[r] /\ n > 0 /\ n <= s.MaxAttempts /\ deadline[r] = Over(s, r)
        /\ answer[r] = Last(r).got /\ answer[r].kind \in {"error", "response"}
    <3>1. n <= s.MaxAttempts
      BY DEF ReviewTyped, Reviewing!TypeOK
    <3>. QED  BY <1>6, <2>1, <3>1 DEF CallsCounted, Answered, BudgetRuns, Timed
  <2>3. /\ answer[r].code \in Reviewing(s)!ProviderCodes \cup {"none"}
        /\ answer[r].kind = "error" => answer[r].code \in Reviewing(s)!ProviderCodes
    <3>1. CallKept(s, r, n) /\ Last(r) = calls[r][n]
      BY <1>4, <1>6, <2>2 DEF CallsKept, Last
    <3>2. Last(r).got # Reviewing(s)!NoAnswer
      BY <2>2 DEF Reviewing!NoAnswer
    <3>3. PICK raw \in s.Raws : answer[r] = Reviewing(s)!Adapted(raw)
      BY <2>2, <3>1, <3>2 DEF CallKept, CallAnswered
    <3>. QED  BY <3>3, AdaptedSound
  <2>4. Over(s, r)' = Over(s, r) /\ Last(r)' = Last(r) /\ calls'[r] = calls[r]
    BY <2>1 DEF Over, Last
  <2>5. \/ outcome'[r].kind = "none"
        \/ /\ outcome'[r].attempts = n /\ outcome'[r].detail = "none" /\ outcome'[r].at = now
           /\ \/ /\ answer[r].kind = "error"
                 /\ outcome'[r].code = Reviewing(s)!Mapped(answer[r].code)
                 /\ answer[r].code \in Reviewing(s)!Retryable => ~(attempts[r] < s.MaxAttempts)
              \/ /\ outcome'[r].code = "budget_exceeded"
                 /\ answer[r].code \in Reviewing(s)!Retryable /\ attempts[r] < s.MaxAttempts
                 /\ ~(now + Reviewing(s)!Backoff(attempts[r] + 1) < deadline[r])
    BY <1>1, <1>2, <2>2, <1>26 DEF Reviewing!Route, Reviewing!Attempt, Reviewing!Permitted
  <2>6. n < s.MaxAttempts => n \in 1 .. s.MaxAttempts - 1
    BY <1>4, <1>5, <2>2
  <2>7. ~(n < s.MaxAttempts) => n = s.MaxAttempts
    BY <1>4, <1>5, <2>2
  <2>8. CASE outcome'[r].kind = "none"
    BY <2>8 DEF ErrorKept
  <2>9. CASE /\ outcome'[r].attempts = n /\ outcome'[r].detail = "none"
             /\ answer[r].kind = "error"
             /\ outcome'[r].code = Reviewing(s)!Mapped(answer[r].code)
             /\ answer[r].code \in Reviewing(s)!Retryable => ~(attempts[r] < s.MaxAttempts)
    <3>1. answer[r].code \in Reviewing(s)!ProviderCodes
      BY <2>3, <2>9
    <3>2. outcome'[r].code \notin {"budget_exceeded", "invalid_index", "invalid_response"}
      BY <2>9, <3>1 DEF Reviewing!Mapped
    <3>3. outcome'[r].code \in Reviewing(s)!ProviderCodes => outcome'[r].code = answer[r].code
      BY <2>9 DEF Reviewing!Mapped
    <3>4. outcome'[r].code \in Reviewing(s)!ProviderCodes =>
            /\ Last(r).got.code = outcome'[r].code
            /\ outcome'[r].code \in Reviewing(s)!Retryable => n = s.MaxAttempts
      BY <2>2, <2>7, <2>9, <3>3
    <3>. QED  BY <2>4, <2>9, <3>2, <3>4 DEF ErrorKept
  <2>10. CASE /\ outcome'[r].attempts = n /\ outcome'[r].detail = "none" /\ outcome'[r].at = now
              /\ outcome'[r].code = "budget_exceeded"
              /\ answer[r].code \in Reviewing(s)!Retryable /\ attempts[r] < s.MaxAttempts
              /\ ~(now + Reviewing(s)!Backoff(attempts[r] + 1) < deadline[r])
    <3>1. Reviewing(s)!Backoff(n + 1) \in Nat
      BY DEF Reviewing!Backoff
    <3>2. now + Reviewing(s)!Backoff(n + 1) >= Over(s, r)
      BY <1>3, <2>2, <2>10, <3>1
    <3>3. n \in 1 .. s.MaxAttempts - 1 /\ Last(r).got.code \in Reviewing(s)!Retryable
      BY <2>2, <2>6, <2>10
    <3>. QED  BY <2>4, <2>10, <3>2, <3>3 DEF ErrorKept
  <2>. QED  BY <2>5, <2>8, <2>9, <2>10
<1>27. ASSUME Reviewing(s)!Parse(r)
      PROVE  ErrorKept(s, r)'
  <2>1. UNCHANGED <<calls, closed>>
    BY <1>27 DEF Reviewing!Parse
  <2>2. Len(calls[r]) = attempts[r]
    BY <1>6, <1>27 DEF Reviewing!Parse, CallsCounted, Uncalled, AtInputs, AtIndex, Asking, Answered
  <2>5. Plain(s, r)
    BY <1>1, <1>2, <2>2, <1>27 DEF Reviewing!Parse, Plain
  <2>. QED  BY <2>1, <2>5, PlainIsKept
<1>28. ASSUME Reviewing(s)!Merge(r)
      PROVE  ErrorKept(s, r)'
  <2>1. UNCHANGED <<calls, closed>>
    BY <1>28 DEF Reviewing!Merge
  <2>2. Len(calls[r]) = attempts[r]
    BY <1>6, <1>28 DEF Reviewing!Merge, CallsCounted, Uncalled, AtInputs, AtIndex, Asking, Answered
  <2>5. Plain(s, r)
    BY <1>1, <1>2, <2>2, <1>28 DEF Reviewing!Merge, Plain
  <2>. QED  BY <2>1, <2>5, PlainIsKept
<1>29. ASSUME Reviewing(s)!Finalize(r)
      PROVE  ErrorKept(s, r)'
  <2>1. UNCHANGED <<calls, closed>>
    BY <1>29 DEF Reviewing!Finalize
  <2>2. Len(calls[r]) = attempts[r]
    BY <1>6, <1>29 DEF Reviewing!Finalize, CallsCounted, Uncalled, AtInputs, AtIndex, Asking, Answered
  <2>3. deadline[r] = Over(s, r)
    BY <1>6, <1>29 DEF Reviewing!Finalize, BudgetRuns, Timed, Asking, Answered
  <2>4. Over(s, r) \in Int /\ now \in Int
    BY <1>3, <1>5 DEF Over
  <2>5. Plain(s, r)
    BY <1>1, <1>2, <2>2, <2>3, <2>4, <1>29 DEF Reviewing!Finalize, Plain
  <2>. QED  BY <2>1, <2>5, PlainIsKept
<1>. QED  BY <1>8, <1>9, <1>10, <1>11, <1>12, <1>13, <1>14, <1>15, <1>16, <1>17, <1>18,
     <1>19, <1>20, <1>21, <1>22, <1>23, <1>24, <1>25, <1>26, <1>27, <1>28, <1>29 DEF Reviewing!Step


(* What TypeOK says, taken apart.                                          *)
PlacesTyped(s) ==
  /\ pc \in [s.Reviews -> Reviewing(s)!Points]
  /\ lock \in s.Reviews \cup {"free", "other"}
  /\ attempts \in [s.Reviews -> 0 .. s.MaxAttempts]
ClocksTyped(s) ==
  /\ began \in [s.Reviews -> Reviewing(s)!Times] /\ total \in [s.Reviews -> Reviewing(s)!Times]
  /\ budget \in [s.Reviews -> Reviewing(s)!Times]
  /\ deadline \in [s.Reviews -> Reviewing(s)!Times]
  /\ wake \in [s.Reviews -> Reviewing(s)!Times]
EndTyped(s, r) ==
  /\ answer[r] \in Reviewing(s)!Answers \cup {Reviewing(s)!NoAnswer}
  /\ outcome[r].kind \in {"none", "result", "error"}
  /\ (pc[r] = "ended") <=> (outcome[r].kind # "none")

LEMMA PlacesStep ==
  ASSUME NEW s, ReviewAssumptions(s), ReviewTyped(s),
         NEW r \in s.Reviews, Reviewing(s)!Step(r),
         CallsCounted(s, r), BudgetRuns(s, r)
  PROVE  PlacesTyped(s)'
<1>. USE DEF PlacesTyped, Reviewing!Goto, Reviewing!Raise, Reviewing!Quiet,
     Reviewing!NoCall, Reviewing!NoClock, Reviewing!clock, Reviewing!index,
     Reviewing!Points
<1>1. /\ DOMAIN pc = s.Reviews /\ DOMAIN began = s.Reviews /\ DOMAIN total = s.Reviews
      /\ DOMAIN budget = s.Reviews /\ DOMAIN deadline = s.Reviews /\ DOMAIN wake = s.Reviews
      /\ DOMAIN attempts = s.Reviews /\ DOMAIN answer = s.Reviews /\ DOMAIN calls = s.Reviews
      /\ DOMAIN findings = s.Reviews /\ DOMAIN outcome = s.Reviews
  BY DEF ReviewTyped, Reviewing!TypeOK
<1>2. PlacesTyped(s)
  BY DEF ReviewTyped, Reviewing!TypeOK
<1>3. ASSUME Reviewing(s)!Begin(r)
      PROVE  PlacesTyped(s)'
  BY <1>1, <1>2, <1>3 DEF Reviewing!Begin
<1>4. ASSUME Reviewing(s)!AskInputs(r)
      PROVE  PlacesTyped(s)'
  BY <1>1, <1>2, <1>4 DEF Reviewing!AskInputs
<1>5. ASSUME Reviewing(s)!TakeLock(r)
      PROVE  PlacesTyped(s)'
  BY <1>1, <1>2, <1>5 DEF Reviewing!TakeLock
<1>6. ASSUME Reviewing(s)!InputsLockTimesOut(r)
      PROVE  PlacesTyped(s)'
  BY <1>1, <1>2, <1>6 DEF Reviewing!InputsLockTimesOut
<1>7. ASSUME Reviewing(s)!CheckIndex(r)
      PROVE  PlacesTyped(s)'
  BY <1>1, <1>2, <1>7 DEF Reviewing!CheckIndex
<1>8. ASSUME Reviewing(s)!InputsDone(r)
      PROVE  PlacesTyped(s)'
  BY <1>1, <1>2, <1>8 DEF Reviewing!InputsDone
<1>9. ASSUME Reviewing(s)!Validate(r)
      PROVE  PlacesTyped(s)'
  BY <1>1, <1>2, <1>9 DEF Reviewing!Validate
<1>10. ASSUME Reviewing(s)!DeterministicReview(r)
      PROVE  PlacesTyped(s)'
  BY <1>1, <1>2, <1>10 DEF Reviewing!DeterministicReview
<1>11. ASSUME Reviewing(s)!AskIndex(r)
      PROVE  PlacesTyped(s)'
  BY <1>1, <1>2, <1>11 DEF Reviewing!AskIndex
<1>12. ASSUME Reviewing(s)!IndexLockTimesOut(r)
      PROVE  PlacesTyped(s)'
  BY <1>1, <1>2, <1>12 DEF Reviewing!IndexLockTimesOut, Reviewing!RetrievalTimesOut
<1>13. ASSUME Reviewing(s)!Retrieve(r)
      PROVE  PlacesTyped(s)'
  BY <1>1, <1>2, <1>13 DEF Reviewing!Retrieve
<1>14. ASSUME Reviewing(s)!Search(r)
      PROVE  PlacesTyped(s)'
  BY <1>1, <1>2, <1>14 DEF Reviewing!Search, Reviewing!RetrievalTimesOut
<1>15. ASSUME Reviewing(s)!Searched(r)
      PROVE  PlacesTyped(s)'
  BY <1>1, <1>2, <1>15 DEF Reviewing!Searched
<1>16. ASSUME Reviewing(s)!BuildPrompt(r)
      PROVE  PlacesTyped(s)'
  BY <1>1, <1>2, <1>16 DEF Reviewing!BuildPrompt
<1>17. ASSUME Reviewing(s)!Provider(r)
      PROVE  PlacesTyped(s)'
  BY <1>1, <1>2, <1>17 DEF Reviewing!Provider, Reviewing!Attempt
<1>18. ASSUME Reviewing(s)!Wake(r)
      PROVE  PlacesTyped(s)'
  BY <1>1, <1>2, <1>18 DEF Reviewing!Wake
<1>19. ASSUME Reviewing(s)!Ask(r)
      PROVE  PlacesTyped(s)'
  BY <1>1, <1>2, <1>19 DEF Reviewing!Ask, Reviewing!Called
<1>20. ASSUME Reviewing(s)!Answer(r)
      PROVE  PlacesTyped(s)'
  <2>1. attempts[r] < s.MaxAttempts /\ attempts[r] \in Nat /\ s.MaxAttempts \in Nat
    <3>1. pc[r] = "calling"
      BY <1>20 DEF Reviewing!Answer, Reviewing!Attempt
    <3>2. s.MaxAttempts \in Nat
      BY DEF ReviewAssumptions, Reviewing!BudgetAssumption
    <3>. QED  BY <1>2, <3>1, <3>2 DEF CallsCounted
  <2>2. attempts[r] + 1 \in 0 .. s.MaxAttempts
    BY <2>1
  <2>3. /\ pc' = [pc EXCEPT ![r] = "route"] \/ pc' = [pc EXCEPT ![r] = "ended"]
        /\ attempts' = attempts \/ attempts' = [attempts EXCEPT ![r] = attempts[r] + 1]
        /\ lock' = lock
    BY <1>20 DEF Reviewing!Answer, Reviewing!Attempt
  <2>. QED  BY <1>1, <1>2, <2>2, <2>3
<1>21. ASSUME Reviewing(s)!Route(r)
      PROVE  PlacesTyped(s)'
  BY <1>1, <1>2, <1>21 DEF Reviewing!Route, Reviewing!Attempt, Reviewing!Permitted
<1>22. ASSUME Reviewing(s)!Parse(r)
      PROVE  PlacesTyped(s)'
  BY <1>1, <1>2, <1>22 DEF Reviewing!Parse
<1>23. ASSUME Reviewing(s)!Merge(r)
      PROVE  PlacesTyped(s)'
  BY <1>1, <1>2, <1>23 DEF Reviewing!Merge
<1>24. ASSUME Reviewing(s)!Finalize(r)
      PROVE  PlacesTyped(s)'
  BY <1>1, <1>2, <1>24 DEF Reviewing!Finalize
<1>. QED  BY <1>3, <1>4, <1>5, <1>6, <1>7, <1>8, <1>9, <1>10, <1>11, <1>12, <1>13,
     <1>14, <1>15, <1>16, <1>17, <1>18, <1>19, <1>20, <1>21, <1>22, <1>23, <1>24 DEF Reviewing!Step

LEMMA ClocksStep ==
  ASSUME NEW s, ReviewAssumptions(s), ReviewTyped(s),
         NEW r \in s.Reviews, Reviewing(s)!Step(r),
         CallsCounted(s, r), BudgetRuns(s, r)
  PROVE  ClocksTyped(s)'
<1>. USE DEF ClocksTyped, Reviewing!Goto, Reviewing!Raise, Reviewing!Quiet,
     Reviewing!NoCall, Reviewing!NoClock, Reviewing!clock, Reviewing!index
<1>1. /\ DOMAIN pc = s.Reviews /\ DOMAIN began = s.Reviews /\ DOMAIN total = s.Reviews
      /\ DOMAIN budget = s.Reviews /\ DOMAIN deadline = s.Reviews /\ DOMAIN wake = s.Reviews
      /\ DOMAIN attempts = s.Reviews /\ DOMAIN answer = s.Reviews /\ DOMAIN calls = s.Reviews
      /\ DOMAIN findings = s.Reviews /\ DOMAIN outcome = s.Reviews
  BY DEF ReviewTyped, Reviewing!TypeOK
<1>2. ClocksTyped(s)
  BY DEF ReviewTyped, Reviewing!TypeOK
<1>3. /\ s.Total \in Nat /\ s.QueryTime \in Nat /\ s.MaxTime \in Nat
  BY DEF ReviewAssumptions, Reviewing!BudgetAssumption
<1>4. now \in 0 .. s.MaxTime
  BY DEF ReviewTyped, Reviewing!TypeOK
<1>5. ASSUME Reviewing(s)!Begin(r)
      PROVE  ClocksTyped(s)'
  <2>1. now \in Reviewing(s)!Times /\ now + s.Total \in Reviewing(s)!Times
    BY <1>3, <1>4 DEF Reviewing!Times
  <2>. QED  BY <1>1, <1>2, <2>1, <1>5 DEF Reviewing!Begin
<1>6. ASSUME Reviewing(s)!AskInputs(r)
      PROVE  ClocksTyped(s)'
  <2>1. ASSUME now < total[r]
        PROVE  now + Reviewing(s)!Smaller(total[r] - now, s.QueryTime) \in Reviewing(s)!Times
    <3>1. total[r] \in Nat /\ total[r] <= s.MaxTime + s.Total
      BY <1>2, <1>3, <1>4 DEF Reviewing!Times, Reviewing!Effective, Reviewing!Smaller
    <3>. QED  BY <1>3, <1>4, <2>1, <3>1 DEF Reviewing!Times, Reviewing!Smaller
  <2>2. total[r] \in Nat /\ now \in Nat
    BY <1>2, <1>3, <1>4 DEF Reviewing!Times, Reviewing!Effective, Reviewing!Smaller
  <2>. QED  BY <1>1, <1>2, <2>1, <2>2, <1>6 DEF Reviewing!AskInputs
<1>7. ASSUME Reviewing(s)!TakeLock(r)
      PROVE  ClocksTyped(s)'
  BY <1>1, <1>2, <1>3, <1>4, <1>7 DEF Reviewing!TakeLock
<1>8. ASSUME Reviewing(s)!InputsLockTimesOut(r)
      PROVE  ClocksTyped(s)'
  BY <1>1, <1>2, <1>3, <1>4, <1>8 DEF Reviewing!InputsLockTimesOut
<1>9. ASSUME Reviewing(s)!CheckIndex(r)
      PROVE  ClocksTyped(s)'
  BY <1>1, <1>2, <1>3, <1>4, <1>9 DEF Reviewing!CheckIndex
<1>10. ASSUME Reviewing(s)!InputsDone(r)
      PROVE  ClocksTyped(s)'
  BY <1>1, <1>2, <1>3, <1>4, <1>10 DEF Reviewing!InputsDone
<1>11. ASSUME Reviewing(s)!Validate(r)
      PROVE  ClocksTyped(s)'
  <2>1. now \in Reviewing(s)!Times /\ now + s.Total \in Reviewing(s)!Times
    BY <1>3, <1>4 DEF Reviewing!Times
  <2>. QED  BY <1>1, <1>2, <2>1, <1>11 DEF Reviewing!Validate
<1>12. ASSUME Reviewing(s)!DeterministicReview(r)
      PROVE  ClocksTyped(s)'
  BY <1>1, <1>2, <1>3, <1>4, <1>12 DEF Reviewing!DeterministicReview
<1>13. ASSUME Reviewing(s)!AskIndex(r)
      PROVE  ClocksTyped(s)'
  <2>1. ASSUME now < Reviewing(s)!Effective(r)
        PROVE  now + Reviewing(s)!Smaller(Reviewing(s)!Effective(r) - now, s.QueryTime) \in Reviewing(s)!Times
    <3>1. Reviewing(s)!Effective(r) \in Nat /\ Reviewing(s)!Effective(r) <= s.MaxTime + s.Total
      BY <1>2, <1>3, <1>4 DEF Reviewing!Times, Reviewing!Effective, Reviewing!Smaller
    <3>. QED  BY <1>3, <1>4, <2>1, <3>1 DEF Reviewing!Times, Reviewing!Smaller
  <2>2. Reviewing(s)!Effective(r) \in Nat /\ now \in Nat
    BY <1>2, <1>3, <1>4 DEF Reviewing!Times, Reviewing!Effective, Reviewing!Smaller
  <2>. QED  BY <1>1, <1>2, <2>1, <2>2, <1>13 DEF Reviewing!AskIndex
<1>14. ASSUME Reviewing(s)!IndexLockTimesOut(r)
      PROVE  ClocksTyped(s)'
  BY <1>1, <1>2, <1>3, <1>4, <1>14 DEF Reviewing!IndexLockTimesOut,
     Reviewing!RetrievalTimesOut
<1>15. ASSUME Reviewing(s)!Retrieve(r)
      PROVE  ClocksTyped(s)'
  BY <1>1, <1>2, <1>3, <1>4, <1>15 DEF Reviewing!Retrieve
<1>16. ASSUME Reviewing(s)!Search(r)
      PROVE  ClocksTyped(s)'
  BY <1>1, <1>2, <1>3, <1>4, <1>16 DEF Reviewing!Search, Reviewing!RetrievalTimesOut
<1>17. ASSUME Reviewing(s)!Searched(r)
      PROVE  ClocksTyped(s)'
  <2>1. Reviewing(s)!Effective(r) \in Reviewing(s)!Times
    BY <1>2 DEF Reviewing!Effective, Reviewing!Smaller
  <2>. QED  BY <1>1, <1>2, <2>1, <1>17 DEF Reviewing!Searched
<1>18. ASSUME Reviewing(s)!BuildPrompt(r)
      PROVE  ClocksTyped(s)'
  BY <1>1, <1>2, <1>3, <1>4, <1>18 DEF Reviewing!BuildPrompt
<1>19. ASSUME Reviewing(s)!Provider(r)
      PROVE  ClocksTyped(s)'
  <2>. DEFINE until == now + Reviewing(s)!Backoff(attempts[r] + 1)
  <2>1. ASSUME until < deadline[r]
        PROVE  until \in Reviewing(s)!Times
    <3>1. deadline[r] \in Nat /\ deadline[r] <= s.MaxTime + s.Total
      BY <1>2, <1>3 DEF Reviewing!Times
    <3>. QED  BY <1>3, <1>4, <2>1, <3>1 DEF Reviewing!Times, Reviewing!Backoff
  <2>2. until \in Nat /\ deadline[r] \in Nat
    BY <1>2, <1>3, <1>4 DEF Reviewing!Times, Reviewing!Backoff
  <2>. HIDE DEF until
  <2>3. ASSUME until < deadline[r], wake' = [wake EXCEPT ![r] = until]
        PROVE  wake' \in [s.Reviews -> Reviewing(s)!Times]
    BY <1>2, <2>1, <2>3
  <2>4. \/ wake' = wake
        \/ until < deadline[r] /\ wake' = [wake EXCEPT ![r] = until]
    BY <2>2, <1>19 DEF Reviewing!Provider, Reviewing!Attempt, until
  <2>5. UNCHANGED <<began, total, budget, deadline>>
    BY <1>19 DEF Reviewing!Provider, Reviewing!Attempt
  <2>. QED  BY <1>2, <2>3, <2>4, <2>5
<1>20. ASSUME Reviewing(s)!Wake(r)
      PROVE  ClocksTyped(s)'
  BY <1>1, <1>2, <1>3, <1>4, <1>20 DEF Reviewing!Wake
<1>21. ASSUME Reviewing(s)!Ask(r)
      PROVE  ClocksTyped(s)'
  BY <1>1, <1>2, <1>3, <1>4, <1>21 DEF Reviewing!Ask, Reviewing!Called
<1>22. ASSUME Reviewing(s)!Answer(r)
      PROVE  ClocksTyped(s)'
  BY <1>1, <1>2, <1>3, <1>4, <1>22 DEF Reviewing!Answer, Reviewing!Attempt
<1>23. ASSUME Reviewing(s)!Route(r)
      PROVE  ClocksTyped(s)'
  BY <1>1, <1>2, <1>3, <1>4, <1>23 DEF Reviewing!Route, Reviewing!Attempt,
     Reviewing!Permitted
<1>24. ASSUME Reviewing(s)!Parse(r)
      PROVE  ClocksTyped(s)'
  BY <1>1, <1>2, <1>3, <1>4, <1>24 DEF Reviewing!Parse
<1>25. ASSUME Reviewing(s)!Merge(r)
      PROVE  ClocksTyped(s)'
  BY <1>1, <1>2, <1>3, <1>4, <1>25 DEF Reviewing!Merge
<1>26. ASSUME Reviewing(s)!Finalize(r)
      PROVE  ClocksTyped(s)'
  BY <1>1, <1>2, <1>3, <1>4, <1>26 DEF Reviewing!Finalize
<1>. QED  BY <1>5, <1>6, <1>7, <1>8, <1>9, <1>10, <1>11, <1>12, <1>13, <1>14, <1>15,
     <1>16, <1>17, <1>18, <1>19, <1>20, <1>21, <1>22, <1>23, <1>24, <1>25, <1>26 DEF Reviewing!Step

LEMMA EndStep ==
  ASSUME NEW s, ReviewAssumptions(s), ReviewTyped(s),
         NEW r \in s.Reviews, Reviewing(s)!Step(r),
         CallsCounted(s, r), BudgetRuns(s, r)
  PROVE  EndTyped(s, r)'
<1>. USE DEF EndTyped, Reviewing!Goto, Reviewing!Raise, Reviewing!Quiet,
     Reviewing!NoCall, Reviewing!NoClock, Reviewing!clock, Reviewing!index
<1>1. /\ DOMAIN pc = s.Reviews /\ DOMAIN began = s.Reviews /\ DOMAIN total = s.Reviews
      /\ DOMAIN budget = s.Reviews /\ DOMAIN deadline = s.Reviews /\ DOMAIN wake = s.Reviews
      /\ DOMAIN attempts = s.Reviews /\ DOMAIN answer = s.Reviews /\ DOMAIN calls = s.Reviews
      /\ DOMAIN findings = s.Reviews /\ DOMAIN outcome = s.Reviews
  BY DEF ReviewTyped, Reviewing!TypeOK
<1>2. EndTyped(s, r)
  BY DEF ReviewTyped, Reviewing!TypeOK
<1>3. ASSUME Reviewing(s)!Begin(r)
      PROVE  EndTyped(s, r)'
  BY <1>1, <1>2, <1>3 DEF Reviewing!Begin
<1>4. ASSUME Reviewing(s)!AskInputs(r)
      PROVE  EndTyped(s, r)'
  BY <1>1, <1>2, <1>4 DEF Reviewing!AskInputs
<1>5. ASSUME Reviewing(s)!TakeLock(r)
      PROVE  EndTyped(s, r)'
  BY <1>1, <1>2, <1>5 DEF Reviewing!TakeLock
<1>6. ASSUME Reviewing(s)!InputsLockTimesOut(r)
      PROVE  EndTyped(s, r)'
  BY <1>1, <1>2, <1>6 DEF Reviewing!InputsLockTimesOut
<1>7. ASSUME Reviewing(s)!CheckIndex(r)
      PROVE  EndTyped(s, r)'
  BY <1>1, <1>2, <1>7 DEF Reviewing!CheckIndex
<1>8. ASSUME Reviewing(s)!InputsDone(r)
      PROVE  EndTyped(s, r)'
  BY <1>1, <1>2, <1>8 DEF Reviewing!InputsDone
<1>9. ASSUME Reviewing(s)!Validate(r)
      PROVE  EndTyped(s, r)'
  BY <1>1, <1>2, <1>9 DEF Reviewing!Validate
<1>10. ASSUME Reviewing(s)!DeterministicReview(r)
      PROVE  EndTyped(s, r)'
  BY <1>1, <1>2, <1>10 DEF Reviewing!DeterministicReview
<1>11. ASSUME Reviewing(s)!AskIndex(r)
      PROVE  EndTyped(s, r)'
  BY <1>1, <1>2, <1>11 DEF Reviewing!AskIndex
<1>12. ASSUME Reviewing(s)!IndexLockTimesOut(r)
      PROVE  EndTyped(s, r)'
  BY <1>1, <1>2, <1>12 DEF Reviewing!IndexLockTimesOut, Reviewing!RetrievalTimesOut
<1>13. ASSUME Reviewing(s)!Retrieve(r)
      PROVE  EndTyped(s, r)'
  BY <1>1, <1>2, <1>13 DEF Reviewing!Retrieve
<1>14. ASSUME Reviewing(s)!Search(r)
      PROVE  EndTyped(s, r)'
  BY <1>1, <1>2, <1>14 DEF Reviewing!Search, Reviewing!RetrievalTimesOut
<1>15. ASSUME Reviewing(s)!Searched(r)
      PROVE  EndTyped(s, r)'
  BY <1>1, <1>2, <1>15 DEF Reviewing!Searched
<1>16. ASSUME Reviewing(s)!BuildPrompt(r)
      PROVE  EndTyped(s, r)'
  BY <1>1, <1>2, <1>16 DEF Reviewing!BuildPrompt
<1>17. ASSUME Reviewing(s)!Provider(r)
      PROVE  EndTyped(s, r)'
  BY <1>1, <1>2, <1>17 DEF Reviewing!Provider, Reviewing!Attempt
<1>18. ASSUME Reviewing(s)!Wake(r)
      PROVE  EndTyped(s, r)'
  BY <1>1, <1>2, <1>18 DEF Reviewing!Wake
<1>19. ASSUME Reviewing(s)!Ask(r)
      PROVE  EndTyped(s, r)'
  BY <1>1, <1>2, <1>19 DEF Reviewing!Ask, Reviewing!Called
<1>20. ASSUME Reviewing(s)!Answer(r)
      PROVE  EndTyped(s, r)'
  BY <1>1, <1>2, <1>20 DEF Reviewing!Answer, Reviewing!Attempt, Reviewing!Answers
<1>21. ASSUME Reviewing(s)!Route(r)
      PROVE  EndTyped(s, r)'
  BY <1>1, <1>2, <1>21 DEF Reviewing!Route, Reviewing!Attempt, Reviewing!Permitted
<1>22. ASSUME Reviewing(s)!Parse(r)
      PROVE  EndTyped(s, r)'
  BY <1>1, <1>2, <1>22 DEF Reviewing!Parse
<1>23. ASSUME Reviewing(s)!Merge(r)
      PROVE  EndTyped(s, r)'
  BY <1>1, <1>2, <1>23 DEF Reviewing!Merge
<1>24. ASSUME Reviewing(s)!Finalize(r)
      PROVE  EndTyped(s, r)'
  BY <1>1, <1>2, <1>24 DEF Reviewing!Finalize
<1>. QED  BY <1>3, <1>4, <1>5, <1>6, <1>7, <1>8, <1>9, <1>10, <1>11, <1>12, <1>13,
     <1>14, <1>15, <1>16, <1>17, <1>18, <1>19, <1>20, <1>21, <1>22, <1>23, <1>24 DEF Reviewing!Step


CallsTyped(s) ==
  /\ calls \in [s.Reviews -> Seq(CallSet(s))]
  /\ \A q \in s.Reviews : Len(calls[q]) <= s.MaxAttempts

LEMMA CallsTypedStep ==
  ASSUME NEW s, ReviewAssumptions(s), ReviewTyped(s),
         NEW r \in s.Reviews, Reviewing(s)!Step(r),
         CallsCounted(s, r), BudgetRuns(s, r)
  PROVE  CallsTyped(s)'
<1>. USE DEF CallsTyped, Reviewing!Goto, Reviewing!Raise, Reviewing!Quiet,
     Reviewing!NoCall, Reviewing!NoClock, Reviewing!clock, Reviewing!index
<1>1. /\ DOMAIN pc = s.Reviews /\ DOMAIN began = s.Reviews /\ DOMAIN total = s.Reviews
      /\ DOMAIN budget = s.Reviews /\ DOMAIN deadline = s.Reviews /\ DOMAIN wake = s.Reviews
      /\ DOMAIN attempts = s.Reviews /\ DOMAIN answer = s.Reviews /\ DOMAIN calls = s.Reviews
      /\ DOMAIN findings = s.Reviews /\ DOMAIN outcome = s.Reviews
  BY DEF ReviewTyped, Reviewing!TypeOK
<1>2. CallsTyped(s)
  BY DEF ReviewTyped, Reviewing!TypeOK
<1>3. /\ now \in 0 .. s.MaxTime /\ now \in Nat /\ deadline[r] \in Nat /\ s.PerAttempt \in Nat
      /\ s.MaxTime \in Nat
  <2>1. s.MaxTime \in Nat /\ s.Total \in Nat /\ s.PerAttempt \in Nat
    BY DEF ReviewAssumptions, Reviewing!BudgetAssumption
  <2>. QED  BY <2>1 DEF ReviewTyped, Reviewing!TypeOK, Reviewing!Times
<1>4. /\ calls[r] \in Seq(CallSet(s)) /\ Len(calls[r]) \in Nat
      /\ DOMAIN calls[r] = 1 .. Len(calls[r]) /\ attempts[r] \in Nat /\ s.MaxAttempts \in Nat
  <2>1. calls[r] \in Seq(CallSet(s))
    BY DEF ReviewTyped, CallSet
  <2>2. attempts[r] \in 0 .. s.MaxAttempts /\ s.MaxAttempts \in Nat
    BY DEF ReviewTyped, Reviewing!TypeOK, ReviewAssumptions, Reviewing!BudgetAssumption
  <2>. QED  BY <2>1, <2>2
<1>5. ASSUME Reviewing(s)!Begin(r)
      PROVE  CallsTyped(s)'
  <2>1. calls' = calls
    BY <1>5 DEF Reviewing!Begin
  <2>. QED  BY <1>2, <2>1
<1>6. ASSUME Reviewing(s)!AskInputs(r)
      PROVE  CallsTyped(s)'
  <2>1. calls' = calls
    BY <1>6 DEF Reviewing!AskInputs
  <2>. QED  BY <1>2, <2>1
<1>7. ASSUME Reviewing(s)!TakeLock(r)
      PROVE  CallsTyped(s)'
  <2>1. calls' = calls
    BY <1>7 DEF Reviewing!TakeLock
  <2>. QED  BY <1>2, <2>1
<1>8. ASSUME Reviewing(s)!InputsLockTimesOut(r)
      PROVE  CallsTyped(s)'
  <2>1. calls' = calls
    BY <1>8 DEF Reviewing!InputsLockTimesOut
  <2>. QED  BY <1>2, <2>1
<1>9. ASSUME Reviewing(s)!CheckIndex(r)
      PROVE  CallsTyped(s)'
  <2>1. calls' = calls
    BY <1>9 DEF Reviewing!CheckIndex
  <2>. QED  BY <1>2, <2>1
<1>10. ASSUME Reviewing(s)!InputsDone(r)
      PROVE  CallsTyped(s)'
  <2>1. calls' = calls
    BY <1>10 DEF Reviewing!InputsDone
  <2>. QED  BY <1>2, <2>1
<1>11. ASSUME Reviewing(s)!Validate(r)
      PROVE  CallsTyped(s)'
  <2>1. calls' = calls
    BY <1>11 DEF Reviewing!Validate
  <2>. QED  BY <1>2, <2>1
<1>12. ASSUME Reviewing(s)!DeterministicReview(r)
      PROVE  CallsTyped(s)'
  <2>1. calls' = calls
    BY <1>12 DEF Reviewing!DeterministicReview
  <2>. QED  BY <1>2, <2>1
<1>13. ASSUME Reviewing(s)!AskIndex(r)
      PROVE  CallsTyped(s)'
  <2>1. calls' = calls
    BY <1>13 DEF Reviewing!AskIndex
  <2>. QED  BY <1>2, <2>1
<1>14. ASSUME Reviewing(s)!IndexLockTimesOut(r)
      PROVE  CallsTyped(s)'
  <2>1. calls' = calls
    BY <1>14 DEF Reviewing!IndexLockTimesOut, Reviewing!RetrievalTimesOut
  <2>. QED  BY <1>2, <2>1
<1>15. ASSUME Reviewing(s)!Retrieve(r)
      PROVE  CallsTyped(s)'
  <2>1. calls' = calls
    BY <1>15 DEF Reviewing!Retrieve
  <2>. QED  BY <1>2, <2>1
<1>16. ASSUME Reviewing(s)!Search(r)
      PROVE  CallsTyped(s)'
  <2>1. calls' = calls
    BY <1>16 DEF Reviewing!Search, Reviewing!RetrievalTimesOut
  <2>. QED  BY <1>2, <2>1
<1>17. ASSUME Reviewing(s)!Searched(r)
      PROVE  CallsTyped(s)'
  <2>1. calls' = calls
    BY <1>17 DEF Reviewing!Searched
  <2>. QED  BY <1>2, <2>1
<1>18. ASSUME Reviewing(s)!BuildPrompt(r)
      PROVE  CallsTyped(s)'
  <2>1. calls' = calls
    BY <1>18 DEF Reviewing!BuildPrompt
  <2>. QED  BY <1>2, <2>1
<1>19. ASSUME Reviewing(s)!Provider(r)
      PROVE  CallsTyped(s)'
  <2>1. calls' = calls
    BY <1>19 DEF Reviewing!Provider, Reviewing!Attempt
  <2>. QED  BY <1>2, <2>1
<1>20. ASSUME Reviewing(s)!Wake(r)
      PROVE  CallsTyped(s)'
  <2>1. calls' = calls
    BY <1>20 DEF Reviewing!Wake
  <2>. QED  BY <1>2, <2>1
<1>21. ASSUME Reviewing(s)!Ask(r)
      PROVE  CallsTyped(s)'
  <2>. DEFINE call == [at |-> now, timeout |-> Reviewing(s)!Smaller(s.PerAttempt, deadline[r] - now),
                       ended |-> 0, raw |-> Reviewing(s)!NoRaw, got |-> Reviewing(s)!NoAnswer]
  <2>1. call \in CallSet(s)
    BY <1>3, <1>4 DEF CallSet, Reviewing!Smaller
  <2>2. Append(calls[r], call) \in Seq(CallSet(s)) /\ Len(Append(calls[r], call)) <= s.MaxAttempts
    <3>1. Len(calls[r]) < s.MaxAttempts
      BY <1>4, <1>21 DEF Reviewing!Ask, Reviewing!Called, CallsCounted, Asking
    <3>. HIDE DEF call
    <3>. QED  BY <1>2, <1>4, <2>1, <3>1
  <2>3. calls' = calls \/ calls' = [calls EXCEPT ![r] = Append(calls[r], call)]
    BY <1>3, <1>21 DEF Reviewing!Ask, Reviewing!Called
  <2>. HIDE DEF call
  <2>4. CASE calls' = calls
    BY <1>2, <2>4
  <2>5. CASE calls' = [calls EXCEPT ![r] = Append(calls[r], call)]
    BY <1>1, <1>2, <2>2, <2>5
  <2>. QED  BY <2>3, <2>4, <2>5
<1>22. ASSUME Reviewing(s)!Answer(r)
      PROVE  CallsTyped(s)'
  <2>1. PICK raw \in s.Raws : calls' = [calls EXCEPT ![r][attempts[r] + 1].ended = now,
                                    ![r][attempts[r] + 1].raw = raw,
                                    ![r][attempts[r] + 1].got = Reviewing(s)!Adapted(raw)]
    BY <1>22 DEF Reviewing!Answer, Reviewing!Attempt
  <2>. DEFINE got == Reviewing(s)!Adapted(raw)
  <2>2. PICK n \in Nat : n = Len(calls[r])
    BY <1>4
  <2>3. n = attempts[r] + 1 /\ n \in DOMAIN calls[r] /\ DOMAIN calls[r] = 1 .. n
    BY <1>4, <2>2, <1>22 DEF Reviewing!Answer, Reviewing!Attempt, CallsCounted
  <2>4. got \in Reviewing(s)!Answers
    BY DEF Reviewing!Answers
  <2>. HIDE DEF got
  <2>. DEFINE call == [calls[r][n] EXCEPT !.ended = now, !.raw = raw, !.got = got]
  <2>5. calls[r][n] \in CallSet(s) /\ call \in CallSet(s)
    <3>1. calls[r][n] \in CallSet(s)
      BY <1>4, <2>3
    <3>2. raw \in s.Raws
      BY <2>1
    <3>. QED  BY <1>3, <2>4, <3>1, <3>2 DEF CallSet
  <2>6. calls' = [calls EXCEPT ![r] = [calls[r] EXCEPT ![n] = call]]
    BY <1>1, <2>1, <2>3 DEF got
  <2>. HIDE DEF call
  <2>. DEFINE list == [calls[r] EXCEPT ![n] = call]
  <2>7. list \in Seq(CallSet(s)) /\ Len(list) = n
    <3>1. calls[r] \in [1 .. n -> CallSet(s)]
      BY <1>4, <2>2
    <3>2. list \in [1 .. n -> CallSet(s)]
      BY <2>3, <2>5, <3>1
    <3>. HIDE DEF list
    <3>. QED  BY <3>2
  <2>. HIDE DEF list
  <2>8. calls' = [calls EXCEPT ![r] = list]
    BY <2>6 DEF list
  <2>9. n <= s.MaxAttempts
    BY <1>2, <2>2
  <2>. QED  BY <1>1, <1>2, <2>7, <2>8, <2>9
<1>23. ASSUME Reviewing(s)!Route(r)
      PROVE  CallsTyped(s)'
  <2>1. calls' = calls
    BY <1>23 DEF Reviewing!Route, Reviewing!Attempt, Reviewing!Permitted
  <2>. QED  BY <1>2, <2>1
<1>24. ASSUME Reviewing(s)!Parse(r)
      PROVE  CallsTyped(s)'
  <2>1. calls' = calls
    BY <1>24 DEF Reviewing!Parse
  <2>. QED  BY <1>2, <2>1
<1>25. ASSUME Reviewing(s)!Merge(r)
      PROVE  CallsTyped(s)'
  <2>1. calls' = calls
    BY <1>25 DEF Reviewing!Merge
  <2>. QED  BY <1>2, <2>1
<1>26. ASSUME Reviewing(s)!Finalize(r)
      PROVE  CallsTyped(s)'
  <2>1. calls' = calls
    BY <1>26 DEF Reviewing!Finalize
  <2>. QED  BY <1>2, <2>1
<1>. QED  BY <1>5, <1>6, <1>7, <1>8, <1>9, <1>10, <1>11, <1>12, <1>13, <1>14, <1>15,
     <1>16, <1>17, <1>18, <1>19, <1>20, <1>21, <1>22, <1>23, <1>24, <1>25, <1>26 DEF Reviewing!Step


LEMMA LockKeptStep ==
  ASSUME NEW s, ReviewAssumptions(s), ReviewTyped(s),
         NEW r \in s.Reviews, Reviewing(s)!Step(r),
         \A q \in s.Reviews : LockKept(s, q)
  PROVE  \A q \in s.Reviews : LockKept(s, q)'
<1>. USE DEF LockKept, Reviewing!Goto, Reviewing!Raise, Reviewing!Quiet,
     Reviewing!NoCall, Reviewing!NoClock, Reviewing!clock, Reviewing!index
<1>1. /\ DOMAIN pc = s.Reviews /\ "free" \notin s.Reviews /\ "other" \notin s.Reviews
  BY DEF ReviewTyped, Reviewing!TypeOK, ReviewAssumptions, Reviewing!ReviewsAssumption
<1>2. \A q \in s.Reviews : LockKept(s, q)
  OBVIOUS
<1>3. ASSUME Reviewing(s)!Begin(r)
      PROVE  \A q \in s.Reviews : LockKept(s, q)'
  BY <1>1, <1>2, <1>3 DEF Reviewing!Begin
<1>4. ASSUME Reviewing(s)!AskInputs(r)
      PROVE  \A q \in s.Reviews : LockKept(s, q)'
  BY <1>1, <1>2, <1>4 DEF Reviewing!AskInputs
<1>5. ASSUME Reviewing(s)!TakeLock(r)
      PROVE  \A q \in s.Reviews : LockKept(s, q)'
  BY <1>1, <1>2, <1>5 DEF Reviewing!TakeLock
<1>6. ASSUME Reviewing(s)!InputsLockTimesOut(r)
      PROVE  \A q \in s.Reviews : LockKept(s, q)'
  BY <1>1, <1>2, <1>6 DEF Reviewing!InputsLockTimesOut
<1>7. ASSUME Reviewing(s)!CheckIndex(r)
      PROVE  \A q \in s.Reviews : LockKept(s, q)'
  BY <1>1, <1>2, <1>7 DEF Reviewing!CheckIndex
<1>8. ASSUME Reviewing(s)!InputsDone(r)
      PROVE  \A q \in s.Reviews : LockKept(s, q)'
  BY <1>1, <1>2, <1>8 DEF Reviewing!InputsDone
<1>9. ASSUME Reviewing(s)!Validate(r)
      PROVE  \A q \in s.Reviews : LockKept(s, q)'
  BY <1>1, <1>2, <1>9 DEF Reviewing!Validate
<1>10. ASSUME Reviewing(s)!DeterministicReview(r)
      PROVE  \A q \in s.Reviews : LockKept(s, q)'
  BY <1>1, <1>2, <1>10 DEF Reviewing!DeterministicReview
<1>11. ASSUME Reviewing(s)!AskIndex(r)
      PROVE  \A q \in s.Reviews : LockKept(s, q)'
  BY <1>1, <1>2, <1>11 DEF Reviewing!AskIndex
<1>12. ASSUME Reviewing(s)!IndexLockTimesOut(r)
      PROVE  \A q \in s.Reviews : LockKept(s, q)'
  BY <1>1, <1>2, <1>12 DEF Reviewing!IndexLockTimesOut, Reviewing!RetrievalTimesOut
<1>13. ASSUME Reviewing(s)!Retrieve(r)
      PROVE  \A q \in s.Reviews : LockKept(s, q)'
  BY <1>1, <1>2, <1>13 DEF Reviewing!Retrieve
<1>14. ASSUME Reviewing(s)!Search(r)
      PROVE  \A q \in s.Reviews : LockKept(s, q)'
  BY <1>1, <1>2, <1>14 DEF Reviewing!Search, Reviewing!RetrievalTimesOut
<1>15. ASSUME Reviewing(s)!Searched(r)
      PROVE  \A q \in s.Reviews : LockKept(s, q)'
  BY <1>1, <1>2, <1>15 DEF Reviewing!Searched
<1>16. ASSUME Reviewing(s)!BuildPrompt(r)
      PROVE  \A q \in s.Reviews : LockKept(s, q)'
  BY <1>1, <1>2, <1>16 DEF Reviewing!BuildPrompt
<1>17. ASSUME Reviewing(s)!Provider(r)
      PROVE  \A q \in s.Reviews : LockKept(s, q)'
  BY <1>1, <1>2, <1>17 DEF Reviewing!Provider, Reviewing!Attempt
<1>18. ASSUME Reviewing(s)!Wake(r)
      PROVE  \A q \in s.Reviews : LockKept(s, q)'
  BY <1>1, <1>2, <1>18 DEF Reviewing!Wake
<1>19. ASSUME Reviewing(s)!Ask(r)
      PROVE  \A q \in s.Reviews : LockKept(s, q)'
  BY <1>1, <1>2, <1>19 DEF Reviewing!Ask, Reviewing!Called
<1>20. ASSUME Reviewing(s)!Answer(r)
      PROVE  \A q \in s.Reviews : LockKept(s, q)'
  BY <1>1, <1>2, <1>20 DEF Reviewing!Answer, Reviewing!Attempt
<1>21. ASSUME Reviewing(s)!Route(r)
      PROVE  \A q \in s.Reviews : LockKept(s, q)'
  BY <1>1, <1>2, <1>21 DEF Reviewing!Route, Reviewing!Attempt, Reviewing!Permitted
<1>22. ASSUME Reviewing(s)!Parse(r)
      PROVE  \A q \in s.Reviews : LockKept(s, q)'
  BY <1>1, <1>2, <1>22 DEF Reviewing!Parse
<1>23. ASSUME Reviewing(s)!Merge(r)
      PROVE  \A q \in s.Reviews : LockKept(s, q)'
  BY <1>1, <1>2, <1>23 DEF Reviewing!Merge
<1>24. ASSUME Reviewing(s)!Finalize(r)
      PROVE  \A q \in s.Reviews : LockKept(s, q)'
  BY <1>1, <1>2, <1>24 DEF Reviewing!Finalize
<1>. QED  BY <1>3, <1>4, <1>5, <1>6, <1>7, <1>8, <1>9, <1>10, <1>11, <1>12, <1>13,
     <1>14, <1>15, <1>16, <1>17, <1>18, <1>19, <1>20, <1>21, <1>22, <1>23, <1>24 DEF Reviewing!Step

(* What is kept of one review, whatever the others do.                     *)
Kept(s, r) ==
  /\ BudgetRuns(s, r) /\ CallsCounted(s, r) /\ RetryWaits(s, r) /\ CallsKept(s, r)
  /\ ResultKept(s, r) /\ ErrorKept(s, r)
Same(r) ==
  /\ pc'[r] = pc[r] /\ began'[r] = began[r] /\ total'[r] = total[r] /\ budget'[r] = budget[r]
  /\ deadline'[r] = deadline[r] /\ wake'[r] = wake[r] /\ attempts'[r] = attempts[r]
  /\ answer'[r] = answer[r] /\ calls'[r] = calls[r] /\ findings'[r] = findings[r]
  /\ outcome'[r] = outcome[r]

LEMMA KeptElsewhere ==
  ASSUME NEW s, ReviewAssumptions(s), ReviewTyped(s), NEW r \in s.Reviews, Kept(s, r),
         Same(r), now' \in Nat, now <= now', closed => closed'
  PROVE  Kept(s, r)'
<1>1. /\ now \in Nat /\ began[r] \in Nat /\ total[r] \in Nat /\ wake[r] \in Nat
      /\ s.Total \in Nat /\ s.MaxTime \in Nat
  <2>1. s.MaxTime \in Nat /\ s.Total \in Nat
    BY DEF ReviewAssumptions, Reviewing!BudgetAssumption
  <2>. QED  BY <2>1 DEF ReviewTyped, Reviewing!TypeOK, Reviewing!Times
<1>2. Over(s, r)' = Over(s, r) /\ Last(r)' = Last(r) /\ calls'[r] = calls[r]
  BY DEF Same, Over, Last
<1>3. BudgetRuns(s, r)'
  BY <1>1, <1>2 DEF Kept, BudgetRuns, Same
<1>4. CallsCounted(s, r)'
  BY <1>2 DEF Kept, CallsCounted, Same
<1>5. RetryWaits(s, r)'
  <2>1. \A n \in Nat : Reviewing(s)!Backoff(n) \in Nat
    BY DEF Reviewing!Backoff
  <2>2. calls[r] \in Seq(CallSet(s))
    BY DEF ReviewTyped
  <2>3. Len(calls[r]) > 0 => Last(r).ended \in Nat
    <3>1. Len(calls[r]) > 0 => Last(r) \in CallSet(s)
      BY <2>2 DEF Last
    <3>. QED  BY <1>1, <3>1 DEF CallSet
  <2>4. Len(calls[r]) \in Nat
    BY <2>2
  <2>. DEFINE n == Len(calls[r])
  <2>5. n + 1 \in Nat
    BY <2>4
  <2>6. Reviewing(s)!Backoff(n + 1) \in Nat
    BY <2>1, <2>5
  <2>7. RetryWaits(s, r)
    BY DEF Kept
  <2>8. (Len(calls[r]) = n)' /\ pc'[r] = pc[r] /\ wake'[r] = wake[r]
    BY <1>2 DEF Same
  <2>. QED  BY <1>1, <1>2, <2>3, <2>4, <2>6, <2>7, <2>8 DEF RetryWaits
<1>6. CallsKept(s, r)'
  <2>1. CallsKept(s, r)
    BY DEF Kept
  <2>. QED  BY <1>2, <2>1 DEF CallsKept, CallKept
<1>7. ResultKept(s, r)'
  BY <1>2 DEF Kept, ResultKept, Same
<1>8. ErrorKept(s, r)'
  BY <1>2 DEF Kept, ErrorKept, Same
<1>. QED  BY <1>3, <1>4, <1>5, <1>6, <1>7, <1>8 DEF Kept


LEMMA ReviewTypes ==
  ASSUME NEW s, ReviewAssumptions(s), ReviewInv(s), Reviewing(s)!Next
  PROVE  ReviewTyped(s)'
<1>1. /\ ReviewTyped(s) /\ PlacesTyped(s) /\ ClocksTyped(s) /\ CallsTyped(s)
      /\ \A r \in s.Reviews : EndTyped(s, r)
      /\ now \in 0 .. s.MaxTime /\ closed \in BOOLEAN
  BY DEF ReviewInv, ReviewTyped, Reviewing!TypeOK, PlacesTyped, ClocksTyped, CallsTyped, EndTyped
<1>2. ASSUME /\ PlacesTyped(s)' /\ ClocksTyped(s)' /\ CallsTyped(s)'
             /\ \A r \in s.Reviews : EndTyped(s, r)'
             /\ now' \in 0 .. s.MaxTime /\ closed' \in BOOLEAN
             /\ DOMAIN answer' = DOMAIN answer /\ DOMAIN findings' = DOMAIN findings
             /\ DOMAIN outcome' = DOMAIN outcome
      PROVE  ReviewTyped(s)'
  BY <1>1, <1>2 DEF ReviewTyped, Reviewing!TypeOK, PlacesTyped, ClocksTyped, CallsTyped, EndTyped
<1>3. ASSUME NEW r \in s.Reviews, Reviewing(s)!Step(r)
      PROVE  ReviewTyped(s)'
  <2>1. CallsCounted(s, r) /\ BudgetRuns(s, r)
    BY DEF ReviewInv
  <2>2. PlacesTyped(s)' /\ ClocksTyped(s)' /\ CallsTyped(s)' /\ EndTyped(s, r)'
    BY <1>1, <1>3, <2>1, PlacesStep, ClocksStep, CallsTypedStep, EndStep
  <2>3. OnlyOf(r)
    BY <1>1, <1>3, StepIsOwn
  <2>4. /\ DOMAIN pc = s.Reviews /\ DOMAIN answer = s.Reviews /\ DOMAIN findings = s.Reviews
        /\ DOMAIN outcome = s.Reviews
    BY <1>1 DEF ReviewTyped, Reviewing!TypeOK
  <2>5. ASSUME NEW q \in s.Reviews \ {r}
        PROVE  EndTyped(s, q)'
    <3>1. EndTyped(s, q)
      BY <1>1
    <3>. QED  BY <2>3, <2>4, <3>1 DEF OnlyOf, Only, EndTyped
  <2>6. /\ now' = now /\ closed' = closed
        /\ DOMAIN answer' = DOMAIN answer /\ DOMAIN findings' = DOMAIN findings
        /\ DOMAIN outcome' = DOMAIN outcome
    BY <2>3 DEF OnlyOf, Only
  <2>. QED  BY <1>1, <1>2, <2>2, <2>5, <2>6
<1>4. ASSUME /\ UNCHANGED <<pc, began, total, budget, deadline, attempts, answer, wake, calls,
                            findings, outcome>>
             /\ lock' \in s.Reviews \cup {"free", "other"}
             /\ now' \in 0 .. s.MaxTime /\ closed' \in BOOLEAN
      PROVE  ReviewTyped(s)'
  <2>1. PlacesTyped(s)' /\ ClocksTyped(s)' /\ CallsTyped(s)'
    BY <1>1, <1>4 DEF PlacesTyped, ClocksTyped, CallsTyped
  <2>2. \A r \in s.Reviews : EndTyped(s, r)'
    BY <1>1, <1>4 DEF EndTyped
  <2>. QED  BY <1>2, <1>4, <2>1, <2>2
<1>5. CASE Reviewing(s)!OtherTakes \/ Reviewing(s)!OtherReleases \/ Reviewing(s)!Close
  <2>. USE DEF Reviewing!Others, Reviewing!NoClock, Reviewing!NoCall, Reviewing!Quiet,
       Reviewing!clock
  <2>1. lock \in s.Reviews \cup {"free", "other"}
    BY <1>1 DEF PlacesTyped
  <2>. QED  BY <1>1, <1>4, <1>5, <2>1
            DEF Reviewing!OtherTakes, Reviewing!OtherReleases, Reviewing!Close
<1>6. CASE Reviewing(s)!Tick
  <2>. USE DEF Reviewing!NoClock, Reviewing!NoCall, Reviewing!Quiet, Reviewing!index
  <2>1. lock \in s.Reviews \cup {"free", "other"}
    BY <1>1 DEF PlacesTyped
  <2>2. s.MaxTime \in Nat
    BY DEF ReviewAssumptions, Reviewing!BudgetAssumption
  <2>3. now' \in 0 .. s.MaxTime
    BY <1>1, <1>6, <2>2 DEF Reviewing!Tick
  <2>. QED  BY <1>1, <1>4, <1>6, <2>1, <2>3 DEF Reviewing!Tick
<1>. QED  BY <1>3, <1>5, <1>6 DEF Reviewing!Next

LEMMA ReviewSteps ==
  ASSUME NEW s, ReviewAssumptions(s), ReviewInv(s), Reviewing(s)!Next
  PROVE  ReviewInv(s)'
<1>1. ReviewTyped(s) /\ ReviewTyped(s)'
  BY ReviewTypes DEF ReviewInv
<1>2. \A r \in s.Reviews : Kept(s, r) /\ LockKept(s, r)
  BY DEF ReviewInv, Kept
<1>3. now \in Nat /\ now' \in Nat
  <2>1. s.MaxTime \in Nat
    BY DEF ReviewAssumptions, Reviewing!BudgetAssumption
  <2>. QED  BY <1>1, <2>1 DEF ReviewTyped, Reviewing!TypeOK
<1>4. ASSUME \A r \in s.Reviews : Kept(s, r)' /\ LockKept(s, r)'
      PROVE  ReviewInv(s)'
  BY <1>1, <1>4 DEF ReviewInv, Kept
<1>5. ASSUME NEW r \in s.Reviews, Reviewing(s)!Step(r)
      PROVE  ReviewInv(s)'
  <2>1. \A q \in s.Reviews : LockKept(s, q)'
    BY <1>1, <1>2, <1>5, LockKeptStep
  <2>2. Kept(s, r)'
    <3>1. /\ BudgetRuns(s, r) /\ CallsCounted(s, r) /\ RetryWaits(s, r) /\ CallsKept(s, r)
          /\ ResultKept(s, r) /\ ErrorKept(s, r) /\ LockKept(s, r)
      BY <1>2 DEF Kept
    <3>2. /\ BudgetRuns(s, r)' /\ CallsCounted(s, r)' /\ RetryWaits(s, r)' /\ CallsKept(s, r)'
      BY <1>1, <1>5, <3>1, BudgetStep, CallsCountedStep, RetryWaitsStep, CallsKeptStep
    <3>3. ResultKept(s, r)' /\ ErrorKept(s, r)'
      BY <1>1, <1>5, <3>1, ResultKeptStep, ErrorKeptStep
    <3>. QED  BY <3>2, <3>3 DEF Kept
  <2>3. ASSUME NEW q \in s.Reviews \ {r}
        PROVE  Kept(s, q)'
    <3>1. OnlyOf(r)
      BY <1>1, <1>5, StepIsOwn
    <3>2. Same(q) /\ now' = now /\ closed' = closed
      <4>1. /\ DOMAIN pc = s.Reviews /\ DOMAIN began = s.Reviews /\ DOMAIN total = s.Reviews
            /\ DOMAIN budget = s.Reviews /\ DOMAIN deadline = s.Reviews
            /\ DOMAIN wake = s.Reviews /\ DOMAIN attempts = s.Reviews
            /\ DOMAIN answer = s.Reviews /\ DOMAIN calls = s.Reviews
            /\ DOMAIN findings = s.Reviews /\ DOMAIN outcome = s.Reviews
        BY <1>1 DEF ReviewTyped, Reviewing!TypeOK
      <4>. QED  BY <3>1, <4>1 DEF OnlyOf, Only, Same
    <3>. QED  BY <1>1, <1>2, <1>3, <3>2, KeptElsewhere
  <2>. QED  BY <1>4, <2>1, <2>2, <2>3
<1>6. ASSUME /\ UNCHANGED <<pc, began, total, budget, deadline, attempts, answer, wake, calls,
                            findings, outcome>>
             /\ now <= now' /\ (closed => closed')
             /\ \A r \in s.Reviews : LockKept(s, r)'
      PROVE  ReviewInv(s)'
  <2>1. \A r \in s.Reviews : Kept(s, r)'
    <3>. SUFFICES ASSUME NEW r \in s.Reviews
                  PROVE  Kept(s, r)'
      OBVIOUS
    <3>1. Same(r) /\ Kept(s, r)
      BY <1>2, <1>6 DEF Same
    <3>. QED  BY <1>1, <1>3, <1>6, <3>1, KeptElsewhere, Zenon
  <2>. QED  BY <1>4, <1>6, <2>1
<1>7. CASE Reviewing(s)!OtherTakes \/ Reviewing(s)!OtherReleases \/ Reviewing(s)!Close
  <2>. USE DEF Reviewing!Others, Reviewing!NoClock, Reviewing!NoCall, Reviewing!Quiet,
       Reviewing!clock, Reviewing!OtherTakes, Reviewing!OtherReleases, Reviewing!Close
  <2>1. "free" \notin s.Reviews /\ "other" \notin s.Reviews
    BY DEF ReviewAssumptions, Reviewing!ReviewsAssumption
  <2>2. \A r \in s.Reviews : LockKept(s, r)'
    BY <1>2, <1>7, <2>1 DEF LockKept
  <2>. QED  BY <1>3, <1>6, <1>7, <2>2
<1>8. CASE Reviewing(s)!Tick
  <2>. USE DEF Reviewing!NoClock, Reviewing!NoCall, Reviewing!Quiet, Reviewing!index,
       Reviewing!Tick
  <2>1. \A r \in s.Reviews : LockKept(s, r)'
    BY <1>2, <1>8 DEF LockKept
  <2>. QED  BY <1>3, <1>6, <1>8, <2>1
<1>. QED  BY <1>5, <1>7, <1>8 DEF Reviewing!Next

LEMMA ReviewStarts ==
  ASSUME NEW s, ReviewAssumptions(s), Reviewing(s)!Init
  PROVE  ReviewInv(s)
<1>. USE DEF Reviewing!Init
<1>1. s.Total \in Nat /\ s.MaxTime \in Nat /\ s.MaxAttempts \in Nat
  BY DEF ReviewAssumptions, Reviewing!BudgetAssumption
<1>2. 0 \in Reviewing(s)!Times /\ {"begin", "validate"} \subseteq Reviewing(s)!Points
  BY <1>1 DEF Reviewing!Times, Reviewing!Points
<1>3. calls \in [s.Reviews -> Seq(CallSet(s))] /\ \A r \in s.Reviews : Len(calls[r]) = 0
  OBVIOUS
<1>4. \A r \in s.Reviews : EndTyped(s, r)
  BY DEF EndTyped, Reviewing!NoOutcome
<1>5. ReviewTyped(s)
  <2>1. ClocksTyped(s)
    BY <1>2 DEF ClocksTyped
  <2>2. PlacesTyped(s)
    BY <1>1, <1>2 DEF PlacesTyped
  <2>3. CallsTyped(s)
    BY <1>1, <1>3 DEF CallsTyped
  <2>4. /\ DOMAIN answer = s.Reviews /\ DOMAIN findings = s.Reviews /\ DOMAIN outcome = s.Reviews
    OBVIOUS
  <2>5. now \in 0 .. s.MaxTime
    BY <1>1
  <2>6. closed \in BOOLEAN
    OBVIOUS
  <2>. QED  BY <1>4, <2>1, <2>2, <2>3, <2>4, <2>5, <2>6
            DEF ReviewTyped, Reviewing!TypeOK, PlacesTyped, ClocksTyped, CallsTyped, EndTyped
<1>6. ASSUME NEW r \in s.Reviews
      PROVE  Kept(s, r) /\ LockKept(s, r)
  <2>1. /\ pc[r] \in {"begin", "validate"} /\ (pc[r] = "begin" <=> r \in s.Indexed)
        /\ calls[r] = <<>> /\ attempts[r] = 0 /\ began[r] = 0 /\ outcome[r].kind = "none"
        /\ now = 0
    BY DEF Reviewing!NoOutcome
  <2>2. BudgetRuns(s, r)
    BY <2>1 DEF BudgetRuns, AtInputs, AtIndex, Timed, Asking, Answered
  <2>3. CallsCounted(s, r)
    BY <2>1 DEF CallsCounted, Asking, Answered
  <2>4. RetryWaits(s, r)
    BY <2>1 DEF RetryWaits, Asking
  <2>5. CallsKept(s, r)
    <3>1. DOMAIN calls[r] = {}
      BY <2>1
    <3>. QED  BY <3>1 DEF CallsKept
  <2>6. ResultKept(s, r) /\ ErrorKept(s, r)
    BY <2>1 DEF ResultKept, ErrorKept
  <2>7. LockKept(s, r)
    <3>1. "free" \notin s.Reviews
      BY DEF ReviewAssumptions, Reviewing!ReviewsAssumption
    <3>. QED  BY <2>1, <3>1 DEF LockKept
  <2>. QED  BY <2>2, <2>3, <2>4, <2>5, <2>6, <2>7 DEF Kept
<1>. QED  BY <1>5, <1>6 DEF ReviewInv, Kept

LEMMA ReviewUnchanged ==
  ASSUME NEW s, ReviewInv(s), UNCHANGED <<reviewVars, pc, lock>>
  PROVE  ReviewInv(s)'
BY DEF ReviewInv, reviewVars, ReviewTyped, Reviewing!TypeOK, BudgetRuns, CallsCounted, RetryWaits,
   CallsKept, CallKept, ResultKept, ErrorKept, LockKept, Over, Last


LEMMA CallsAnswered ==
  ASSUME NEW s, ReviewInv(s), NEW r \in s.Reviews
  PROVE  /\ Len(calls[r]) \in Nat /\ DOMAIN calls[r] = 1 .. Len(calls[r])
         /\ \A i \in 1 .. Len(calls[r]) : CallKept(s, r, i)
<1>1. calls[r] \in Seq(CallSet(s))
  BY DEF ReviewInv, ReviewTyped
<1>. QED  BY <1>1 DEF ReviewInv, CallsKept

LEMMA FindingsAreSound ==
  ASSUME NEW s, ReviewAssumptions(s), ReviewInv(s)
  PROVE  Reviewing(s)!FindingsSound
<1>. SUFFICES ASSUME NEW r \in s.Reviews, outcome[r].kind = "result"
              PROVE  MergedSound(s, findings[r], calls[r][Len(calls[r])].got.body)
  BY CardinalitySame DEF Reviewing!FindingsSound, MergedSound, From, Reviewing!Range
<1>1. /\ Len(calls[r]) > 0 /\ Last(r).got.kind = "response"
      /\ Reviewing(s)!Accepted(Last(r).got.body)
      /\ findings[r] = Reviewing(s)!InOrder(Reviewing(s)!Collected(Last(r).got.body))
  BY DEF ReviewInv, ResultKept
<1>2. CallAnswered(s, Last(r))
  <2>1. Len(calls[r]) \in 1 .. Len(calls[r])
    BY <1>1, CallsAnswered
  <2>. QED  BY <2>1, CallsAnswered DEF CallKept, Last
<1>3. Last(r).got.body.findings \in Seq(Reviewing(s)!Findings)
  <2>1. Last(r).raw \in s.Raws /\ Last(r).got = Reviewing(s)!Adapted(Last(r).raw)
    BY <1>1, <1>2 DEF CallAnswered, Reviewing!NoAnswer
  <2>. QED  BY <2>1, AdaptedSound
<1>. QED  BY <1>1, <1>3, MergeSound DEF Last

LEMMA AnswersAreTranslated ==
  ASSUME NEW s, ReviewAssumptions(s), ReviewInv(s)
  PROVE  Reviewing(s)!AnswersTranslated
<1>1. ASSUME NEW r \in s.Reviews, NEW i \in DOMAIN calls[r]
      PROVE  Translated(s, calls[r][i].raw, calls[r][i].got)
  <2>1. CallAnswered(s, calls[r][i])
    BY CallsAnswered DEF CallKept
  <2>2. CASE calls[r][i].got = Reviewing(s)!NoAnswer
    BY <2>2 DEF Translated, Reviewing!NoAnswer
  <2>3. CASE /\ calls[r][i].raw \in s.Raws
             /\ calls[r][i].got = Reviewing(s)!Adapted(calls[r][i].raw)
    BY <2>3, AdaptedSound
  <2>. QED  BY <2>1, <2>2, <2>3 DEF CallAnswered
<1>. QED  BY <1>1 DEF Reviewing!AnswersTranslated, Translated, Reviewing!Range

LEMMA CallsAreSpaced ==
  ASSUME NEW s, ReviewAssumptions(s), ReviewInv(s)
  PROVE  Reviewing(s)!CallsInBudget /\ Reviewing(s)!RetriesSpaced
<1>1. Reviewing(s)!CallsInBudget
  BY CallsAnswered DEF Reviewing!CallsInBudget, CallKept, CallFits, Over
<1>2. ASSUME NEW r \in s.Reviews, NEW i \in 2 .. Len(calls[r])
      PROVE  CallFollows(s, calls[r][i], calls[r][i - 1], i)
  <2>1. i \in 1 .. Len(calls[r]) /\ i > 1
    BY CallsAnswered
  <2>. QED  BY <2>1, CallsAnswered DEF CallKept
<1>3. Reviewing(s)!RetriesSpaced
  BY <1>2 DEF Reviewing!RetriesSpaced, CallFollows
<1>. QED  BY <1>1, <1>3

LEMMA ReviewSafe ==
  ASSUME NEW s, ReviewAssumptions(s), ReviewInv(s)
  PROVE  /\ Reviewing(s)!TypeOK
         /\ Reviewing(s)!CallsInBudget /\ Reviewing(s)!RetriesSpaced /\ Reviewing(s)!FindingsSound
         /\ Reviewing(s)!AnswersTranslated /\ Reviewing(s)!ResultInTime
         /\ Reviewing(s)!ErrorIsHonest /\ Reviewing(s)!IndexGuarded
<1>1. Reviewing(s)!ResultInTime
  BY DEF ReviewInv, ResultKept, Over, Reviewing!ResultInTime
<1>2. Reviewing(s)!ErrorIsHonest
  BY DEF ReviewInv, ErrorKept, Over, Last, Reviewing!ErrorIsHonest
<1>3. Reviewing(s)!IndexGuarded
  BY DEF ReviewInv, LockKept, Reviewing!IndexGuarded
<1>4. Reviewing(s)!TypeOK
  BY DEF ReviewInv, ReviewTyped
<1>. QED  BY <1>1, <1>2, <1>3, <1>4, CallsAreSpaced, FindingsAreSound, AnswersAreTranslated

ReviewsInv ==
  \A i \in DOMAIN ReviewSettings : part = "review" /\ setting = i => ReviewInv(ReviewSettings[i])

LEMMA ReviewsStart == Init => ReviewsInv
<1>1. ASSUME NEW i \in DOMAIN ReviewSettings, Reviewing(ReviewSettings[i])!Init
      PROVE  ReviewInv(ReviewSettings[i])
  BY <1>1, ReviewStarts, ReviewAssumption DEF ReviewAssumptions
<1>2. Init => (part = "review" => \E i \in DOMAIN ReviewSettings :
                 setting = i /\ Reviewing(ReviewSettings[i])!Init)
  BY DEF Init
<1>. QED  BY <1>1, <1>2 DEF ReviewsInv

LEMMA ReviewsStep == ReviewsInv /\ [Next]_vars => ReviewsInv'
<1>. SUFFICES ASSUME ReviewsInv, [Next]_vars,
                     NEW i \in DOMAIN ReviewSettings, part' = "review", setting' = i
              PROVE  ReviewInv(ReviewSettings[i])'
  BY DEF ReviewsInv
<1>. DEFINE s == ReviewSettings[i]
<1>1. ReviewAssumptions(s)
  BY ReviewAssumption DEF ReviewAssumptions
<1>2. CASE IsReview(i) /\ Reviewing(s)!Next
  <2>1. ReviewInv(s)
    BY <1>2 DEF ReviewsInv, IsReview
  <2>. QED  BY <1>1, <1>2, <2>1, ReviewSteps
<1>3. CASE UNCHANGED vars
  <2>1. ReviewInv(s)
    BY <1>3 DEF ReviewsInv, vars
  <2>. QED  BY <1>3, <2>1, ReviewUnchanged DEF vars
<1>. QED
  BY <1>2, <1>3 DEF Next, IsReview, IsCache, IsIndex, IsQuery, IsFile

(* However the clock jumps, whoever holds the lock of the index or closes  *)
(* it, and whatever the provider raises or returns: a review keeps to its  *)
(* budget and its backoffs, its result and its errors say what happened,   *)
(* and its findings are those of the rules and of the last answer.         *)
THEOREM ReviewsKeepTheirBudget == Spec => []ReviewIsSound
<1>1. ReviewsInv => ReviewIsSound
  <2>1. \A i \in DOMAIN ReviewSettings : ReviewAssumptions(ReviewSettings[i])
    BY ReviewAssumption DEF ReviewAssumptions
  <2>. QED  BY <2>1, ReviewSafe DEF ReviewsInv, ReviewIsSound
<1>. QED  BY <1>1, ReviewsStart, ReviewsStep, PTL DEF Spec
=============================================================================
