-------------------------- MODULE EventStoreProofs --------------------------
(***************************************************************************)
(* The event files keep what was acknowledged, for every number of writers,*)
(* readers and events, through crashes, failed calls and power failures.   *)
(***************************************************************************)
EXTENDS EventStore, TLAPS

(* What a writer knows, at each point of a load and of an append.          *)
Loading(p) ==
  /\ pr[p].pc # "corrupt"
  /\ pr[p].pc \in {"clean", "unlink"} => pr[p].todo = temps
  /\ At(p, "unlink") => pr[p].rec \in temps
  /\ At(p, "load") => temps = {}

Appending(p) ==
  /\ pr[p].pc \in {"write", "seal", "link", "drop"} => pr[p].rec \in temps
  /\ pr[p].pc \in {"write", "seal", "link", "drop", "sync", "cache"} => pr[p].rec \in Records
  /\ pr[p].pc \in {"write", "seal", "link"} => ~Published(pr[p].rec)
  /\ At(p, "link") => inode[pr[p].rec] = "sealed"
  /\ pr[p].pc \in {"loaded", "write", "seal", "link"} => pr[p].seen = Len(finals)
  /\ pr[p].pc \in {"drop", "sync", "cache"} => Len(finals) = pr[p].seen + 1
  /\ At(p, "cache") => synced = Len(finals)

(* Only a writer is ever past the load.                                    *)
ReadersLoad ==
  \A p \in Readers :
    /\ pr[p].pc \in {"idle", "list", "clean", "unlink", "load", "loaded", "corrupt"}
    /\ At(p, "loaded") => pr[p].seen = Len(finals)

IInv ==
  /\ TypeOK
  /\ EventsAreWhole
  /\ acked <= synced
  /\ ReadersLoad
  /\ \A p \in Writers : Loading(p) /\ Appending(p)

LEMMA InitIInv == Init => IInv
  BY StoreAssumption DEF Init, IInv, TypeOK, EventsAreWhole, ReadersLoad, Loading, Appending,
     At, Procs, Locals, Pcs, Idle, Published

(* A process continues with new locals; the others keep theirs.            *)
LEMMA GotoLocals ==
  ASSUME pr \in [Procs -> Locals], NEW p \in Procs,
         NEW pc \in Pcs, NEW todo \in SUBSET Records, NEW rec \in Records \cup {None},
         NEW seen \in Nat, Goto(p, pc, todo, rec, seen)
  PROVE  /\ pr' \in [Procs -> Locals]
         /\ pr'[p].pc = pc /\ pr'[p].todo = todo /\ pr'[p].rec = rec /\ pr'[p].seen = seen
         /\ \A q \in Procs \ {p} : pr'[q] = pr[q]
BY DEF Goto, Locals

(* While a process is not idle, every writer but itself is.                *)
LEMMA OtherWritersIdle ==
  ASSUME IInv, NEW p \in Procs, ~At(p, "idle")
  PROVE  \A q \in Writers \ {p} : At(q, "idle")
  BY DEF IInv, TypeOK, Procs

(* It is enough to look at the process that took the step.                 *)
LEMMA OneProcess ==
  ASSUME IInv, NEW p \in Procs, ~At(p, "idle"),
         pr' \in [Procs -> Locals],
         \A q \in Procs \ {p} : pr'[q] = pr[q],
         finals' \in Seq(Records), temps' \subseteq Records, ghosts' \subseteq Records,
         inode' \in [Records -> {"none", "partial", "written", "sealed"}],
         synced' \in 0..Len(finals'), acked' \in Nat, acked' <= synced',
         EventsAreWhole',
         locked' = IF At(p, "idle")' THEN locked \ {p} ELSE locked,
         p \in Readers => finals' = finals,
         p \in Readers => /\ pr'[p].pc \in {"idle", "list", "clean", "unlink", "load",
                                           "loaded", "corrupt"}
                          /\ At(p, "loaded")' => pr'[p].seen = Len(finals'),
         p \in Writers => Loading(p)' /\ Appending(p)'
  PROVE  IInv'
<1>1. \A q \in Writers \ {p} : At(q, "idle")' /\ Loading(q)' /\ Appending(q)'
  BY OtherWritersIdle DEF At, Procs, Loading, Appending
<1>2. p \in Writers => \A q \in Readers : At(q, "idle")
  BY StoreAssumption DEF IInv, TypeOK, Procs
<1>3. ReadersLoad'
  BY <1>2, StoreAssumption DEF IInv, ReadersLoad, At, Procs
<1>4. TypeOK'
  BY StoreAssumption DEF IInv, TypeOK, At, Procs
<1>. QED  BY <1>1, <1>3, <1>4 DEF IInv

(* What every action needs of the invariant.                               *)
LEMMA Types ==
  ASSUME IInv, NEW p \in Procs
  PROVE  /\ pr \in [Procs -> Locals] /\ Len(finals) \in Nat /\ finals \in Seq(Records)
         /\ pr[p].pc \in Pcs /\ pr[p].todo \in SUBSET Records
         /\ pr[p].rec \in Records \cup {None} /\ pr[p].seen \in Nat
  BY DEF IInv, TypeOK, Locals

-----------------------------------------------------------------------------
(* Loading.                                                                *)

(* Every step of a load leaves the events and what was acknowledged alone. *)
LEMMA LoadingStep ==
  ASSUME IInv, NEW p \in Procs, ~At(p, "idle"),
         pr' \in [Procs -> Locals],
         \A q \in Procs \ {p} : pr'[q] = pr[q],
         UNCHANGED <<finals, inode, acked>>,
         temps' \subseteq Records, ghosts' \subseteq Records,
         synced' \in {synced, Len(finals)},
         locked' = IF At(p, "idle")' THEN locked \ {p} ELSE locked,
         pr'[p].pc \in {"idle", "list", "clean", "unlink", "load", "loaded", "corrupt"},
         At(p, "loaded")' => pr'[p].seen = Len(finals),
         p \in Writers => Loading(p)'
  PROVE  IInv'
<1>1. EventsAreWhole'
  BY DEF IInv, EventsAreWhole
<1>2. synced' \in 0..Len(finals') /\ acked' \in Nat /\ acked' <= synced'
  BY Types DEF IInv, TypeOK
<1>3. Appending(p)'
  BY DEF Appending, At
<1>4. finals' \in Seq(Records) /\ inode' \in [Records -> {"none", "partial", "written", "sealed"}]
  BY DEF IInv, TypeOK
<1>. QED  BY <1>1, <1>2, <1>3, <1>4, OneProcess DEF At

LEMMA LockPreserves ==
  ASSUME IInv, NEW p \in Procs, Lock(p)
  PROVE  IInv'
<1>1. /\ pr' \in [Procs -> Locals]
      /\ pr'[p].pc = "list"
      /\ \A q \in Procs \ {p} : pr'[q] = pr[q]
  BY GotoLocals, Types DEF Lock, Pcs
<1>. QED
  BY <1>1, StoreAssumption DEF Lock, directory, IInv, TypeOK, EventsAreWhole, ReadersLoad,
     Loading, Appending, At, Procs, Pcs, Published

LEMMA ListTempsPreserves ==
  ASSUME IInv, NEW p \in Procs, ListTemps(p)
  PROVE  IInv'
<1>1. temps \in SUBSET Records
  BY DEF IInv, TypeOK
<1>2. /\ pr' \in [Procs -> Locals]
      /\ pr'[p].pc = "clean" /\ pr'[p].todo = temps
      /\ \A q \in Procs \ {p} : pr'[q] = pr[q]
  BY <1>1, GotoLocals, Types DEF ListTemps, Pcs
<1>3. Loading(p)'
  BY <1>2 DEF ListTemps, directory, Loading, At
<1>4. temps' \subseteq Records /\ ghosts' \subseteq Records
  BY DEF ListTemps, directory, IInv, TypeOK
<1>. QED
  BY <1>2, <1>3, <1>4, LoadingStep DEF ListTemps, directory, At

LEMMA StatTempPreserves ==
  ASSUME IInv, NEW p \in Procs, StatTemp(p)
  PROVE  IInv'
<1>. DEFINE next(r) == IF r \in temps /\ (Published(r) => inode[r] = "sealed")
                       THEN "unlink" ELSE "corrupt"
<1>1. PICK r \in pr[p].todo : Goto(p, next(r), pr[p].todo, r, 0)
  BY DEF StatTemp
<1>2. r \in Records /\ next(r) \in Pcs /\ next(r) \in {"unlink", "corrupt"}
  BY Types DEF Pcs
<1>. HIDE DEF next
<1>3. /\ pr' \in [Procs -> Locals]
      /\ pr'[p].pc = next(r) /\ pr'[p].rec = r /\ pr'[p].todo = pr[p].todo
      /\ \A q \in Procs \ {p} : pr'[q] = pr[q]
  BY <1>1, <1>2, GotoLocals, Types
<1>4. ASSUME p \in Writers
      PROVE  Loading(p)'
  <2>1. pr[p].todo = temps /\ r \in temps
    BY <1>4 DEF StatTemp, IInv, Loading, At
  <2>2. Published(r) => inode[r] = "sealed"
    BY DEF IInv, EventsAreWhole, Published
  <2>3. next(r) = "unlink"
    BY <2>1, <2>2 DEF next
  <2>. QED  BY <1>3, <2>1, <2>3 DEF StatTemp, directory, Loading, At
<1>5. temps' \subseteq Records /\ ghosts' \subseteq Records
  BY DEF StatTemp, directory, IInv, TypeOK
<1>. QED
  BY <1>2, <1>3, <1>4, <1>5, LoadingStep DEF StatTemp, directory, At

LEMMA UnlinkTempPreserves ==
  ASSUME IInv, NEW p \in Procs, UnlinkTemp(p)
  PROVE  IInv'
<1>. DEFINE r == pr[p].rec
            next == IF r \in temps THEN "clean" ELSE "corrupt"
<1>1. next \in Pcs /\ next \in {"clean", "corrupt"} /\ pr[p].todo \ {r} \in SUBSET Records
  BY Types DEF Pcs
<1>2. Goto(p, next, pr[p].todo \ {r}, r, 0)
  BY DEF UnlinkTemp
<1>. HIDE DEF next
<1>3. /\ pr' \in [Procs -> Locals]
      /\ pr'[p].pc = next /\ pr'[p].todo = pr[p].todo \ {r}
      /\ \A q \in Procs \ {p} : pr'[q] = pr[q]
  BY <1>1, <1>2, GotoLocals, Types
<1>4. ASSUME p \in Writers
      PROVE  Loading(p)'
  <2>1. pr[p].todo = temps /\ r \in temps
    BY <1>4 DEF UnlinkTemp, IInv, Loading, At
  <2>2. next = "clean"
    BY <2>1 DEF next
  <2>. QED  BY <1>3, <2>1, <2>2 DEF UnlinkTemp, Loading, At
<1>5. /\ temps' = temps \ {r}
      /\ ghosts' = IF r \in temps THEN ghosts \cup {r} ELSE ghosts
  BY DEF UnlinkTemp
<1>6. temps' \subseteq Records /\ ghosts' \subseteq Records
  BY <1>5 DEF IInv, TypeOK
<1>. QED
  BY <1>1, <1>3, <1>4, <1>6, LoadingStep DEF UnlinkTemp, At

LEMMA EndCleanupPreserves ==
  ASSUME IInv, NEW p \in Procs, EndCleanup(p)
  PROVE  IInv'
<1>1. /\ pr' \in [Procs -> Locals]
      /\ pr'[p].pc = "load"
      /\ \A q \in Procs \ {p} : pr'[q] = pr[q]
  BY GotoLocals, Types DEF EndCleanup, Pcs
<1>2. /\ UNCHANGED <<finals, temps>>
      /\ temps' \subseteq Records /\ ghosts' \subseteq Records
      /\ synced' \in {synced, Len(finals)}
  BY DEF EndCleanup, Fsync, directory, IInv, TypeOK
<1>3. ASSUME p \in Writers
      PROVE  Loading(p)'
  BY <1>1, <1>2, <1>3 DEF EndCleanup, IInv, Loading, At
<1>. QED
  BY <1>1, <1>2, <1>3, LoadingStep DEF EndCleanup, At

LEMMA LoadEventChainPreserves ==
  ASSUME IInv, NEW p \in Procs, LoadEventChain(p)
  PROVE  IInv'
<1>. DEFINE next == IF temps = {} /\ \A n \in DOMAIN finals : inode[finals[n]] = "sealed"
                    THEN "loaded" ELSE "corrupt"
<1>1. Goto(p, next, {}, None, Len(finals))
  BY DEF LoadEventChain
<1>2. next \in Pcs /\ next \in {"loaded", "corrupt"}
  BY DEF Pcs
<1>3. ASSUME p \in Writers
      PROVE  next = "loaded"
  BY <1>3 DEF LoadEventChain, IInv, EventsAreWhole, Loading, At
<1>. HIDE DEF next
<1>4. /\ pr' \in [Procs -> Locals]
      /\ pr'[p].pc = next /\ pr'[p].seen = Len(finals)
      /\ \A q \in Procs \ {p} : pr'[q] = pr[q]
  BY <1>1, <1>2, GotoLocals, Types
<1>5. ASSUME p \in Writers
      PROVE  Loading(p)'
  BY <1>3, <1>4, <1>5 DEF Loading, At
<1>6. temps' \subseteq Records /\ ghosts' \subseteq Records
  BY DEF LoadEventChain, directory, IInv, TypeOK
<1>. QED
  BY <1>2, <1>4, <1>5, <1>6, LoadingStep DEF LoadEventChain, directory, At

(* The lock is given back and the locals forgotten.                        *)
LEMMA Released ==
  ASSUME IInv, NEW p \in Procs, Release(p)
  PROVE  /\ pr' \in [Procs -> Locals]
         /\ pr'[p].pc = "idle"
         /\ \A q \in Procs \ {p} : pr'[q] = pr[q]
         /\ locked' = locked \ {p}
         /\ Loading(p)' /\ Appending(p)'
<1>1. /\ pr' \in [Procs -> Locals]
      /\ pr'[p].pc = "idle"
      /\ \A q \in Procs \ {p} : pr'[q] = pr[q]
  BY GotoLocals, Types DEF Release, Pcs
<1>. QED  BY <1>1 DEF Release, Loading, Appending, At

LEMMA EndLoadPreserves ==
  ASSUME IInv, NEW p \in Procs, EndLoad(p)
  PROVE  IInv'
<1>1. Release(p) /\ UNCHANGED <<directory, inode, acked>> /\ ~At(p, "idle")
  BY DEF EndLoad, At
<1>2. temps' \subseteq Records /\ ghosts' \subseteq Records
  BY <1>1 DEF directory, IInv, TypeOK
<1>. QED
  BY <1>1, <1>2, Released, LoadingStep DEF directory, At

-----------------------------------------------------------------------------
(* Appending.                                                              *)

(* Only a writer appends, and it appends one of the records.               *)
LEMMA OnlyWritersAppend ==
  ASSUME IInv, NEW p \in Procs, pr[p].pc \in {"write", "seal", "link", "drop", "sync", "cache"}
  PROVE  p \in Writers /\ pr[p].rec \in Records /\ Appending(p) /\ ~At(p, "idle")
  BY DEF IInv, ReadersLoad, Appending, Procs, At

(* The writer that takes a step keeps the others out.                      *)
LEMMA AppendingStep ==
  ASSUME IInv, NEW p \in Writers, ~At(p, "idle"),
         pr' \in [Procs -> Locals],
         \A q \in Procs \ {p} : pr'[q] = pr[q],
         finals' \in Seq(Records), temps' \subseteq Records, ghosts' \subseteq Records,
         inode' \in [Records -> {"none", "partial", "written", "sealed"}],
         synced' \in 0..Len(finals'), synced <= synced', acked' = acked,
         EventsAreWhole', locked' = locked,
         pr'[p].pc \in {"write", "seal", "link", "drop", "sync", "cache"},
         Appending(p)'
  PROVE  IInv'
<1>1. p \in Procs /\ p \notin Readers
  BY StoreAssumption DEF Procs
<1>2. synced \in Nat /\ synced' \in Nat /\ acked' \in Nat /\ acked' <= synced'
  BY DEF IInv, TypeOK
<1>3. Loading(p)' /\ ~At(p, "idle")'
  BY DEF Loading, At
<1>. QED  BY <1>1, <1>2, <1>3, OneProcess DEF At

LEMMA CreateTempPreserves ==
  ASSUME IInv, NEW p \in Procs, CreateTemp(p)
  PROVE  IInv'
<1>1. PICK r \in Records :
        /\ inode[r] = "none"
        /\ inode' = [inode EXCEPT ![r] = "partial"]
        /\ temps' = temps \cup {r}
        /\ Goto(p, "write", {}, r, pr[p].seen)
  BY DEF CreateTemp
<1>2. /\ pr' \in [Procs -> Locals]
      /\ pr'[p].pc = "write" /\ pr'[p].rec = r /\ pr'[p].seen = pr[p].seen
      /\ \A q \in Procs \ {p} : pr'[q] = pr[q]
  <2>1. "write" \in Pcs /\ {} \in SUBSET Records /\ r \in Records \cup {None}
    BY DEF Pcs
  <2>. QED  BY <1>1, <2>1, GotoLocals, Types
<1>3. p \in Writers /\ ~At(p, "idle") /\ pr[p].seen = Len(finals)
  BY DEF CreateTemp, IInv, Appending, At
<1>4. inode' \in [Records -> {"none", "partial", "written", "sealed"}]
  BY <1>1 DEF IInv, TypeOK
<1>5. /\ temps' \subseteq Records
      /\ UNCHANGED <<finals, ghosts, synced, locked, acked>>
      /\ ghosts' \subseteq Records /\ finals' \in Seq(Records)
      /\ synced \in 0..Len(finals)
  BY <1>1 DEF CreateTemp, IInv, TypeOK
<1>6. ~Published(r)
  BY <1>1 DEF IInv, EventsAreWhole, Published
<1>7. \A n \in DOMAIN finals : finals[n] \in Records /\ finals[n] # r
  BY <1>5, <1>6 DEF Published
<1>8. EventsAreWhole'
  BY <1>1, <1>5, <1>7 DEF IInv, TypeOK, EventsAreWhole
<1>9. Appending(p)'
  BY <1>1, <1>2, <1>3, <1>5, <1>6 DEF Appending, At, Published
<1>. QED
  BY <1>2, <1>3, <1>4, <1>5, <1>8, <1>9, AppendingStep

LEMMA WriteTempPreserves ==
  ASSUME IInv, NEW p \in Procs, WriteTemp(p)
  PROVE  IInv'
<1>. DEFINE r == pr[p].rec
<1>1. pr[p].pc = "write" /\ p \in Writers /\ r \in Records /\ Appending(p) /\ ~At(p, "idle")
  BY OnlyWritersAppend DEF WriteTemp, Step, At
<1>2. /\ pr' \in [Procs -> Locals]
      /\ pr'[p].pc = "seal" /\ pr'[p].rec = r /\ pr'[p].seen = pr[p].seen
      /\ \A q \in Procs \ {p} : pr'[q] = pr[q]
  BY GotoLocals, Types DEF WriteTemp, Step, Pcs
<1>3. UNCHANGED <<finals, temps, ghosts, synced, locked, acked>>
  BY DEF WriteTemp, directory
<1>4. inode' = [inode EXCEPT ![r] = "written"]
  BY DEF WriteTemp
<1>5. /\ inode' \in [Records -> {"none", "partial", "written", "sealed"}]
      /\ temps' \subseteq Records /\ ghosts' \subseteq Records /\ finals' \in Seq(Records)
      /\ synced \in 0..Len(finals)
  BY <1>1, <1>3, <1>4 DEF IInv, TypeOK
<1>6. \A n \in DOMAIN finals : finals[n] \in Records /\ finals[n] # r
  BY <1>1, <1>3, <1>5 DEF Appending, Published
<1>7. EventsAreWhole'
  BY <1>3, <1>4, <1>6 DEF IInv, TypeOK, EventsAreWhole
<1>8. Appending(p)'
  BY <1>1, <1>2, <1>3 DEF Appending, At, Published
<1>. QED
  BY <1>1, <1>2, <1>3, <1>5, <1>7, <1>8, AppendingStep

LEMMA SealTempPreserves ==
  ASSUME IInv, NEW p \in Procs, SealTemp(p)
  PROVE  IInv'
<1>. DEFINE r == pr[p].rec
<1>1. pr[p].pc = "seal" /\ p \in Writers /\ r \in Records /\ Appending(p) /\ ~At(p, "idle")
  BY OnlyWritersAppend DEF SealTemp, Step, At
<1>2. /\ pr' \in [Procs -> Locals]
      /\ pr'[p].pc = "link" /\ pr'[p].rec = r /\ pr'[p].seen = pr[p].seen
      /\ \A q \in Procs \ {p} : pr'[q] = pr[q]
  BY GotoLocals, Types DEF SealTemp, Step, Pcs
<1>3. UNCHANGED <<finals, temps, ghosts, synced, locked, acked>>
  BY DEF SealTemp, directory
<1>4. inode' = [inode EXCEPT ![r] = "sealed"]
  BY DEF SealTemp
<1>5. /\ inode' \in [Records -> {"none", "partial", "written", "sealed"}]
      /\ temps' \subseteq Records /\ ghosts' \subseteq Records /\ finals' \in Seq(Records)
      /\ synced \in 0..Len(finals)
      /\ inode'[r] = "sealed"
  BY <1>1, <1>3, <1>4 DEF IInv, TypeOK
<1>6. \A n \in DOMAIN finals : finals[n] \in Records
  BY <1>3, <1>5
<1>7. EventsAreWhole'
  BY <1>3, <1>4, <1>6 DEF IInv, TypeOK, EventsAreWhole
<1>8. Appending(p)'
  BY <1>1, <1>2, <1>3, <1>5 DEF Appending, At, Published
<1>. QED
  BY <1>1, <1>2, <1>3, <1>5, <1>7, <1>8, AppendingStep

LEMMA LinkEventPreserves ==
  ASSUME IInv, NEW p \in Procs, LinkEvent(p)
  PROVE  IInv'
<1>. DEFINE r == pr[p].rec
<1>1. pr[p].pc = "link" /\ p \in Writers /\ r \in Records /\ Appending(p) /\ ~At(p, "idle")
  BY OnlyWritersAppend DEF LinkEvent, Step, At
<1>2. /\ pr' \in [Procs -> Locals]
      /\ pr'[p].pc = "drop" /\ pr'[p].rec = r /\ pr'[p].seen = pr[p].seen
      /\ \A q \in Procs \ {p} : pr'[q] = pr[q]
  BY GotoLocals, Types DEF LinkEvent, Step, Pcs
<1>3. /\ finals' = Append(finals, r)
      /\ UNCHANGED <<temps, ghosts, synced, inode, locked, acked>>
      /\ Len(finals) = pr[p].seen /\ r \in temps
  BY DEF LinkEvent
<1>4. finals \in Seq(Records) /\ Len(finals) \in Nat /\ synced \in 0..Len(finals)
  BY Types DEF IInv, TypeOK
<1>5. /\ finals' \in Seq(Records)
      /\ Len(finals') = Len(finals) + 1
      /\ DOMAIN finals' = 1..(Len(finals) + 1)
      /\ \A n \in 1..Len(finals) : finals'[n] = finals[n]
      /\ finals'[Len(finals) + 1] = r
  BY <1>1, <1>3, <1>4
<1>6. synced' \in 0..Len(finals') /\ synced <= synced'
  BY <1>3, <1>4, <1>5
<1>7. \A n \in 1..Len(finals) : inode[finals[n]] = "sealed"
  BY <1>4 DEF IInv, EventsAreWhole
<1>8. inode[r] = "sealed"
  BY <1>1 DEF Appending, At
<1>9. EventsAreWhole'
  <2>. SUFFICES ASSUME NEW n \in DOMAIN finals'
                PROVE  inode'[finals'[n]] = "sealed"
    BY DEF EventsAreWhole
  <2>1. CASE n \in 1..Len(finals)
    BY <1>3, <1>5, <1>7, <2>1
  <2>2. CASE n = Len(finals) + 1
    BY <1>3, <1>5, <1>8, <2>2
  <2>. QED  BY <1>4, <1>5, <2>1, <2>2
<1>10. Appending(p)'
  BY <1>1, <1>2, <1>3, <1>4, <1>5 DEF Appending, At
<1>11. /\ temps' \subseteq Records /\ ghosts' \subseteq Records
       /\ inode' \in [Records -> {"none", "partial", "written", "sealed"}]
  BY <1>3 DEF IInv, TypeOK
<1>. QED
  BY <1>1, <1>2, <1>3, <1>5, <1>6, <1>9, <1>10, <1>11, AppendingStep

LEMMA DropTempPreserves ==
  ASSUME IInv, NEW p \in Procs, DropTemp(p)
  PROVE  IInv'
<1>. DEFINE r == pr[p].rec
<1>1. pr[p].pc = "drop" /\ p \in Writers /\ r \in Records /\ Appending(p) /\ ~At(p, "idle")
  BY OnlyWritersAppend DEF DropTemp, Step, At
<1>2. /\ pr' \in [Procs -> Locals]
      /\ pr'[p].pc = "sync" /\ pr'[p].rec = r /\ pr'[p].seen = pr[p].seen
      /\ \A q \in Procs \ {p} : pr'[q] = pr[q]
  <2>1. Goto(p, "sync", pr[p].todo, r, pr[p].seen) /\ "sync" \in Pcs
    BY DEF DropTemp, Step, Pcs
  <2>. QED  BY <2>1, GotoLocals, Types
<1>3. /\ UNCHANGED <<finals, synced, inode, locked, acked>>
      /\ temps' = temps \ {r} /\ ghosts' = ghosts \cup {r}
  BY DEF DropTemp
<1>4. /\ inode' \in [Records -> {"none", "partial", "written", "sealed"}]
      /\ temps' \subseteq Records /\ ghosts' \subseteq Records /\ finals' \in Seq(Records)
      /\ synced \in 0..Len(finals)
  BY <1>1, <1>3 DEF IInv, TypeOK
<1>5. EventsAreWhole'
  BY <1>3 DEF IInv, EventsAreWhole
<1>6. Appending(p)'
  BY <1>1, <1>2, <1>3 DEF Appending, At
<1>. QED
  BY <1>1, <1>2, <1>3, <1>4, <1>5, <1>6, AppendingStep

LEMMA SyncDirectoryPreserves ==
  ASSUME IInv, NEW p \in Procs, SyncDirectory(p)
  PROVE  IInv'
<1>. DEFINE r == pr[p].rec
<1>1. pr[p].pc = "sync" /\ p \in Writers /\ r \in Records /\ Appending(p) /\ ~At(p, "idle")
  BY OnlyWritersAppend DEF SyncDirectory, Step, At
<1>2. /\ pr' \in [Procs -> Locals]
      /\ pr'[p].pc = "cache" /\ pr'[p].rec = r /\ pr'[p].seen = pr[p].seen
      /\ \A q \in Procs \ {p} : pr'[q] = pr[q]
  BY GotoLocals, Types DEF SyncDirectory, Step, Pcs
<1>3. /\ UNCHANGED <<finals, temps, inode, locked, acked>>
      /\ ghosts' = {} /\ synced' = Len(finals)
  BY DEF SyncDirectory, Fsync
<1>4. /\ inode' \in [Records -> {"none", "partial", "written", "sealed"}]
      /\ temps' \subseteq Records /\ ghosts' \subseteq Records /\ finals' \in Seq(Records)
      /\ synced' \in 0..Len(finals') /\ synced <= synced'
  BY <1>3, Types DEF IInv, TypeOK
<1>5. EventsAreWhole'
  BY <1>3 DEF IInv, EventsAreWhole
<1>6. Appending(p)'
  BY <1>1, <1>2, <1>3 DEF Appending, At
<1>. QED
  BY <1>1, <1>2, <1>3, <1>4, <1>5, <1>6, AppendingStep

LEMMA ReturnAppendPreserves ==
  ASSUME IInv, NEW p \in Procs, ReturnAppend(p)
  PROVE  IInv' /\ acked' \in acked..Len(finals)
<1>1. pr[p].pc = "cache" /\ p \in Writers /\ Appending(p) /\ ~At(p, "idle")
  BY OnlyWritersAppend DEF ReturnAppend, At
<1>2. UNCHANGED <<directory, inode>> /\ acked' = pr[p].seen + 1
  BY DEF ReturnAppend
<1>3. acked' = synced /\ synced = Len(finals)
  BY <1>1, <1>2 DEF Appending, At
<1>4. /\ inode' \in [Records -> {"none", "partial", "written", "sealed"}]
      /\ temps' \subseteq Records /\ ghosts' \subseteq Records /\ finals' \in Seq(Records)
      /\ synced' \in 0..Len(finals') /\ acked' \in Nat /\ acked' <= synced'
      /\ acked \in Nat /\ acked <= synced
  BY <1>2, <1>3, Types DEF directory, IInv, TypeOK
<1>5. EventsAreWhole'
  BY <1>2 DEF directory, IInv, EventsAreWhole
<1>6. p \notin Readers
  BY <1>1, StoreAssumption
<1>7. CASE Release(p)
  BY <1>1, <1>2, <1>3, <1>4, <1>5, <1>6, <1>7, Types, Released, OneProcess DEF At
<1>8. CASE Goto(p, "list", {}, None, 0) /\ UNCHANGED locked
  <2>1. /\ pr' \in [Procs -> Locals]
        /\ pr'[p].pc = "list"
        /\ \A q \in Procs \ {p} : pr'[q] = pr[q]
    BY <1>8, GotoLocals, Types DEF Pcs
  <2>2. Loading(p)' /\ Appending(p)'
    BY <2>1 DEF Loading, Appending, At
  <2>. QED  BY <1>1, <1>2, <1>3, <1>4, <1>5, <1>6, <1>8, <2>1, <2>2, Types, OneProcess DEF At
<1>. QED
  BY <1>3, <1>4, <1>7, <1>8, Types DEF ReturnAppend

-----------------------------------------------------------------------------
(* Failures.                                                               *)

LEMMA CallFailsPreserves ==
  ASSUME IInv, NEW p \in Procs, CallFails(p)
  PROVE  IInv'
<1>. DEFINE r == pr[p].rec
<1>1. Release(p) /\ UNCHANGED <<finals, synced, inode, acked>> /\ ~At(p, "idle")
  BY DEF CallFails
<1>2. \/ UNCHANGED <<temps, ghosts>>
      \/ /\ temps' = temps \ {r}
         /\ ghosts' = ghosts \cup (temps \cap {r})
  BY DEF CallFails
<1>3. /\ temps' \subseteq Records /\ ghosts' \subseteq Records
      /\ synced' \in {synced, Len(finals)}
  BY <1>1, <1>2 DEF IInv, TypeOK
<1>. QED
  BY <1>1, <1>3, Released, LoadingStep DEF At

LEMMA CrashPreserves ==
  ASSUME IInv, NEW p \in Procs, Crash(p)
  PROVE  IInv'
<1>1. Release(p) /\ UNCHANGED <<directory, inode, acked>> /\ ~At(p, "idle")
  BY DEF Crash
<1>2. /\ temps' \subseteq Records /\ ghosts' \subseteq Records
      /\ synced' \in {synced, Len(finals)}
  BY <1>1 DEF directory, IInv, TypeOK
<1>. QED
  BY <1>1, <1>2, Released, LoadingStep DEF directory, At

(* What the power failure leaves of the chain is a prefix of it.           *)
LEMMA Truncated ==
  ASSUME IInv, NEW n \in synced..Len(finals)
  PROVE  LET cut == SubSeq(finals, 1, n)
         IN  /\ n \in Nat /\ cut \in Seq(Records) /\ Len(cut) = n /\ acked <= n
             /\ acked \in Nat
             /\ \A k \in DOMAIN cut : k \in DOMAIN finals /\ cut[k] = finals[k]
<1>1. finals \in Seq(Records) /\ Len(finals) \in Nat /\ synced \in 0..Len(finals)
      /\ acked \in Nat /\ acked <= synced
  BY Types DEF IInv, TypeOK
<1>2. n \in Nat /\ n <= Len(finals) /\ acked <= n
  BY <1>1
<1>3. SubSeq(finals, 1, n) \in Seq(Records)
  BY <1>1, <1>2
<1>4. Len(SubSeq(finals, 1, n)) = n
  BY <1>1, <1>2
<1>5. \A k \in 1..n : SubSeq(finals, 1, n)[k] = finals[k]
  BY <1>1, <1>2
<1>6. DOMAIN SubSeq(finals, 1, n) = 1..n /\ DOMAIN finals = 1..Len(finals)
  BY <1>1, <1>3, <1>4
<1>. QED  BY <1>1, <1>2, <1>3, <1>4, <1>5, <1>6

LEMMA PowerFailurePreserves ==
  ASSUME IInv, PowerFailure
  PROVE  IInv'
<1>1. PICK n \in synced..Len(finals) : finals' = SubSeq(finals, 1, n) /\ synced' = n
  BY DEF PowerFailure
<1>2. /\ n \in Nat /\ finals' \in Seq(Records) /\ Len(finals') = n /\ acked <= n /\ acked \in Nat
      /\ \A k \in DOMAIN finals' : k \in DOMAIN finals /\ finals'[k] = finals[k]
  BY <1>1, Truncated
<1>3. pr' = [p \in Procs |-> Idle] /\ locked' = {} /\ acked' = acked
  BY DEF PowerFailure
<1>4. /\ pr' \in [Procs -> Locals]
      /\ \A p \in Procs : pr'[p].pc = "idle"
  BY <1>3 DEF Idle, Locals, Pcs
<1>5. /\ inode' = [r \in Records |-> IF inode[r] = "written" THEN "partial" ELSE inode[r]]
      /\ temps' \in SUBSET (temps \cup ghosts) /\ ghosts' = {}
  BY DEF PowerFailure
<1>6. /\ inode' \in [Records -> {"none", "partial", "written", "sealed"}]
      /\ temps' \subseteq Records /\ ghosts' \subseteq Records
  BY <1>5 DEF IInv, TypeOK
<1>7. TypeOK'
  BY <1>1, <1>2, <1>3, <1>4, <1>6 DEF TypeOK, At, Procs
<1>8. EventsAreWhole'
  <2>. SUFFICES ASSUME NEW k \in DOMAIN finals'
                PROVE  inode'[finals'[k]] = "sealed"
    BY DEF EventsAreWhole
  <2>1. inode[finals[k]] = "sealed" /\ finals[k] \in Records
    BY <1>2, Types DEF IInv, EventsAreWhole
  <2>. QED  BY <1>2, <1>5, <2>1
<1>9. acked' <= synced'
  BY <1>1, <1>2, <1>3
<1>10. ReadersLoad' /\ \A p \in Writers : Loading(p)' /\ Appending(p)'
  BY <1>4 DEF ReadersLoad, Loading, Appending, At, Procs
<1>. QED  BY <1>7, <1>8, <1>9, <1>10 DEF IInv

LEMMA StutterPreserves ==
  ASSUME IInv, UNCHANGED vars
  PROVE  IInv'
  BY DEF vars, directory, IInv, TypeOK, EventsAreWhole, ReadersLoad, Loading, Appending,
     At, Published

LEMMA NextPreserves ==
  ASSUME IInv, [Next]_vars
  PROVE  IInv'
<1>1. ASSUME NEW p \in Procs, Load(p)
      PROVE  IInv'
  BY <1>1, LockPreserves, ListTempsPreserves, StatTempPreserves, UnlinkTempPreserves,
     EndCleanupPreserves, LoadEventChainPreserves, EndLoadPreserves DEF Load
<1>2. ASSUME NEW p \in Procs, AppendEvent(p)
      PROVE  IInv'
  BY <1>2, CreateTempPreserves, WriteTempPreserves, SealTempPreserves, LinkEventPreserves,
     DropTempPreserves, SyncDirectoryPreserves, ReturnAppendPreserves DEF AppendEvent
<1>. QED
  BY <1>1, <1>2, CallFailsPreserves, CrashPreserves, PowerFailurePreserves, StutterPreserves
     DEF Next

-----------------------------------------------------------------------------
(* The event files in every reachable state: well typed, every event       *)
(* complete, nothing acknowledged that is not on disk, and every process   *)
(* between two system calls knowing what it relies on next.                *)
THEOREM StoreInvariant == Spec => []IInv
  BY InitIInv, NextPreserves, PTL DEF Spec

(* The flock of _locked_session excludes as the code intends.              *)
THEOREM StoreTypeCorrect == Spec => []TypeOK
  BY StoreInvariant, PTL DEF IInv

(* No crash, failed call or power failure of _write_event_immutable leaves *)
(* an event file that is torn.                                             *)
THEOREM EventsAreAlwaysWhole == Spec => []EventsAreWhole
  BY StoreInvariant, PTL DEF IInv

(* _cleanup_stale_event_temps never removes the temporary file of a live   *)
(* append.                                                                 *)
THEOREM LiveTempIsAlwaysKept == Spec => []LiveTempIsKept
<1>1. IInv => LiveTempIsKept
  BY DEF IInv, Appending, LiveTempIsKept
<1>. QED  BY <1>1, StoreInvariant, PTL

(* Files and temporary files agree with the appends, for any number of     *)
(* writers and readers, crashes and power failures.                        *)
THEOREM FilesAreAlwaysSound == Spec => []FilesAreSound
<1>1. EventsAreWhole /\ LiveTempIsKept => FilesAreSound
  BY DEF FilesAreSound
<1>. QED  BY <1>1, EventsAreAlwaysWhole, LiveTempIsAlwaysKept, PTL

(* _load_event_chain accepts, under the exclusive lock, whatever a process *)
(* that died or failed before left in the directory.                       *)
THEOREM ExclusiveLoadAlwaysSucceeds == Spec => []ExclusiveLoadSucceeds
<1>1. IInv => ExclusiveLoadSucceeds
  BY DEF IInv, Loading, ExclusiveLoadSucceeds, At
<1>. QED  BY <1>1, StoreInvariant, PTL

(* A load shows the whole chain, and with it every acknowledged event,     *)
(* until its lock is given back.                                           *)
THEOREM LoadIsAlwaysCurrent == Spec => []LoadIsCurrent
<1>1. ASSUME IInv
      PROVE  LoadIsCurrent
  <2>. SUFFICES ASSUME NEW p \in Procs, At(p, "loaded")
                PROVE  pr[p].seen = Len(finals) /\ acked <= pr[p].seen
    BY DEF LoadIsCurrent
  <2>1. pr[p].seen = Len(finals)
    BY <1>1 DEF IInv, ReadersLoad, Appending, At, Procs
  <2>2. Len(finals) \in Nat /\ synced \in 0..Len(finals) /\ acked \in Nat /\ acked <= synced
    BY <1>1, Types DEF IInv, TypeOK
  <2>. QED  BY <2>1, <2>2
<1>. QED  BY <1>1, StoreInvariant, PTL

-----------------------------------------------------------------------------
(* Refinement.                                                             *)

LEMMA InitImplements == Init => Durable!Init
  BY DEF Init, Durable!Init

LEMMA LinkImplements ==
  ASSUME IInv, NEW p \in Procs, LinkEvent(p)
  PROVE  Durable!Publish
<1>1. pr[p].rec \in Records /\ ~Published(pr[p].rec)
  BY OnlyWritersAppend DEF LinkEvent, Step, At, Appending
<1>2. finals' = Append(finals, pr[p].rec) /\ UNCHANGED acked
  BY DEF LinkEvent
<1>. QED  BY <1>1, <1>2 DEF Durable!Publish, Published

LEMMA StepImplements ==
  ASSUME IInv, [Next]_vars
  PROVE  [Durable!Next]_(Durable!logVars)
<1>1. ASSUME NEW p \in Procs, LinkEvent(p)
      PROVE  Durable!Next
  BY <1>1, LinkImplements DEF Durable!Next
<1>2. ASSUME NEW p \in Procs, ReturnAppend(p)
      PROVE  Durable!Next
  <2>1. acked' \in acked..Len(finals)
    BY <1>2, ReturnAppendPreserves
  <2>. QED  BY <1>2, <2>1 DEF ReturnAppend, directory, Durable!Next, Durable!Acknowledge
<1>3. ASSUME PowerFailure
      PROVE  Durable!Next
  <2>1. PICK n \in synced..Len(finals) : finals' = SubSeq(finals, 1, n)
    BY <1>3 DEF PowerFailure
  <2>2. n \in acked..Len(finals)
    BY Types DEF IInv, TypeOK
  <2>. QED  BY <1>3, <2>1, <2>2 DEF PowerFailure, Durable!Next, Durable!Lose
<1>4. ASSUME NEW p \in Procs, Load(p)
      PROVE  UNCHANGED <<finals, acked>>
  BY <1>4 DEF Load, Lock, ListTemps, StatTemp, UnlinkTemp, EndCleanup, LoadEventChain, EndLoad,
     Fsync, directory
<1>5. ASSUME NEW p \in Procs, CreateTemp(p) \/ WriteTemp(p) \/ SealTemp(p) \/ DropTemp(p)
                              \/ SyncDirectory(p) \/ CallFails(p) \/ Crash(p)
      PROVE  UNCHANGED <<finals, acked>>
  BY <1>5 DEF CreateTemp, WriteTemp, SealTemp, DropTemp, SyncDirectory, CallFails, Crash,
     Fsync, directory
<1>6. ASSUME UNCHANGED vars
      PROVE  UNCHANGED <<finals, acked>>
  BY <1>6 DEF vars, directory
<1>. QED
  BY <1>1, <1>2, <1>3, <1>4, <1>5, <1>6 DEF Next, AppendEvent, Durable!logVars

(* The event files implement a log that grows at its end and never loses   *)
(* an event that an append has reported as written.                        *)
THEOREM StoreImplementsLog == Spec => KeepsAcknowledged
  BY InitImplements, StepImplements, StoreInvariant, PTL DEF Spec, KeepsAcknowledged, Durable!Spec
=============================================================================
