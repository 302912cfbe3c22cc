---------------------- MODULE GitHubPublicationProofs ----------------------
(***************************************************************************)
(* Proofs about GitHubPublication, for any publishers and users and any    *)
(* number of batches, objects, pull requests and power failures: what is   *)
(* published is the proposal, writes are approved, the records are whole,  *)
(* and each of the three implements its abstract specification.            *)
(*                                                                         *)
(* Each part has an invariant of the same form: types, what its state      *)
(* means between the steps, and what the one process that holds the lock   *)
(* knows at its program counter (CheckKnows, RepairKnows, RecordKnows).    *)
(* Everybody else is idle and knows nothing, so a step has to establish    *)
(* only what its own process knows next.  Where a claim is made for        *)
(* behaviours without a late write, the invariant has a second half under  *)
(* lost = 0.  The three are put together at the end.                       *)
(***************************************************************************)
EXTENDS GitHubPublication, SequenceTheorems, TLAPS
-----------------------------------------------------------------------------
(* What holds between the steps of publish_check.                          *)

CheckLocals ==
  [pc : Checking!Pcs, check : Nat \cup {None},
   status : {"in_progress", "completed", None}, count : Nat, done : Nat]

(* The program counters before the authorization is complete, those of a   *)
(* publication under way, and those at which a check run is known.         *)
Authorizing == {"principal", "source", "approve"}
Revalidating == {"recheck", "recompare"}
Publishing == Checking!Pcs \ ({"idle"} \cup Authorizing \cup Revalidating)
Looking == {"find", "find_created", "create"}
Taken == Publishing \ Looking

(* Annotations that are the first ones of the proposal, in their order.    *)
Ordered(s) == Len(s) <= Batches /\ \A i \in 1..Len(s) : s[i] = i

(* A list of annotations that begins with another.                         *)
Extends(t, s) == Len(s) <= Len(t) /\ \A i \in 1..Len(s) : t[i] = s[i]

Annotated(c) == checks[c].annotations

(* What the holder of the lock knows at its program counter.               *)
CheckKnows(p) ==
  /\ pr[p].pc = "source" => approval \in {None, ActorOf[p]} /\ result = None
  /\ pr[p].pc = "approve" => approval = None /\ result = None
  /\ pr[p].pc \in Publishing => approval = ActorOf[p] /\ result = None
  /\ pr[p].pc \in Revalidating => result # None
  /\ pr[p].pc \in Taken => pr[p].check \in DOMAIN checks
  /\ pr[p].pc \in {"compare", "compare_lost", "compare_appended", "compare_final"} =>
       pr[p].count <= Len(Annotated(pr[p].check))
  /\ pr[p].pc \in {"append", "reread", "reread_lost", "compare_lost", "compare_appended"} =>
       pr[p].done < Batches
  /\ pr[p].pc = "compare_final" /\ pr[p].count = Batches
         /\ (\A i \in 1..Batches : Annotated(pr[p].check)[i] = i) =>
       pr[p].check \in exact
  /\ pr[p].pc = "record" => pr[p].check \in exact

(* What it knows besides as long as no write was late: nobody else changes *)
(* what is on GitHub.                                                      *)
CheckKnowsAll(p) ==
  /\ pr[p].pc = "create" => checks = <<>>
  /\ pr[p].pc \in {"compare", "compare_lost", "compare_appended", "compare_final"} =>
       pr[p].count = Len(Annotated(pr[p].check))
  /\ pr[p].pc = "append" => Len(Annotated(pr[p].check)) = pr[p].done
  /\ pr[p].pc = "complete" => Len(Annotated(pr[p].check)) = Batches
  /\ pr[p].pc \in {"compare_final", "record"} => checks[pr[p].check].status = "completed"

(* A write as publish_check sends it.                                      *)
CheckWrites == [op : {"create", "append", "complete"}, check : Nat, batch : 0..Batches, id : Nat]

Meant(w) ==
  /\ w \in CheckWrites /\ w.check \in 0..Len(checks)
  /\ w.op # "create" => w.check \in DOMAIN checks
  /\ w.op = "append" => w.batch \in 1..Batches

(* Writes on their way, and what was recorded, come from an approval.      *)
CheckRecords ==
  /\ checks # <<>> \/ late # {} \/ result # None => approval # None
  /\ result # None => result \in exact
  /\ \A c \in DOMAIN checks : Checking!Complete(checks[c]) => c \in exact
  /\ \A w \in late : Meant(w)

CheckInOrder ==
  /\ late = {}
  /\ Len(checks) <= 1
  /\ \A c \in DOMAIN checks :
       /\ Ordered(Annotated(c))
       /\ checks[c].status = "completed" => Len(Annotated(c)) = Batches
  /\ result # None => checks[result].status = "completed"

CheckInv ==
  /\ Checking!TypeOK
  /\ pr \in [Publishers -> CheckLocals]
  /\ CheckRecords
  /\ \A p \in Publishers : CheckKnows(p)
  /\ lost = 0 => CheckInOrder /\ \A p \in Publishers : CheckKnowsAll(p)

-----------------------------------------------------------------------------
(* Lists of annotations.                                                   *)

LEMMA ProposedList ==
  /\ Checking!Proposed \in Seq(1..Batches)
  /\ Len(Checking!Proposed) = Batches
  /\ \A i \in 1..Batches : Checking!Proposed[i] = i
<1>. Batches \in Nat
  BY CheckAssumption DEF Checking!BoundsAssumption
<1>1. Checking!Proposed \in [1..Batches -> 1..Batches] /\ DOMAIN Checking!Proposed = 1..Batches
  BY DEF Checking!Proposed
<1>2. Checking!Proposed \in Seq(1..Batches)
  BY <1>1, SeqDef
<1>. QED  BY <1>1, <1>2, LenProperties DEF Checking!Proposed

LEMMA OrderedIsPrefix ==
  ASSUME NEW s \in Seq(1..Batches)
  PROVE  /\ Checking!IsPrefix(s, Checking!Proposed) <=> Ordered(s)
         /\ s = Checking!Proposed <=> Ordered(s) /\ Len(s) = Batches
         /\ \A n \in 0..Batches :
              s = SubSeq(Checking!Proposed, 1, n) <=> Ordered(s) /\ Len(s) = n
<1>. Batches \in Nat
  BY CheckAssumption DEF Checking!BoundsAssumption
<1>. DEFINE t(n) == SubSeq(Checking!Proposed, 1, n)
<1>1. ASSUME NEW n \in 0..Batches
      PROVE  t(n) \in Seq(1..Batches) /\ Len(t(n)) = n /\ \A i \in 1..n : t(n)[i] = i
  BY ProposedList, SubSeqProperties
<1>2. Len(s) \in Nat /\ SubSeq(s, 1, Len(s)) \in Seq(1..Batches)
      /\ Len(SubSeq(s, 1, Len(s))) = Len(s)
      /\ \A i \in 1..Len(s) : SubSeq(s, 1, Len(s))[i] = s[i]
  <2>1. Len(s) \in Nat /\ \A i \in 1..Len(s) : s[i] \in 1..Batches
    BY LenProperties, ElementOfSeq
  <2>. QED  BY <2>1, SubSeqProperties
<1>3. ASSUME NEW n \in 0..Batches
      PROVE  s = t(n) <=> Ordered(s) /\ Len(s) = n
  <2>1. Ordered(s) /\ Len(s) = n => s = t(n)
    BY <1>1, <1>2, SeqEqual DEF Ordered
  <2>. QED  BY <1>1, <2>1 DEF Ordered
<1>4. Checking!IsPrefix(s, Checking!Proposed) <=> Ordered(s)
  <2>1. Len(s) <= Batches => t(Len(s)) \in Seq(1..Batches) /\ Len(t(Len(s))) = Len(s)
    BY <1>1, <1>2
  <2>2. Len(s) <= Batches /\ Ordered(s) => SubSeq(s, 1, Len(s)) = t(Len(s))
    <3>1. SUFFICES ASSUME Len(s) <= Batches, Ordered(s)
                   PROVE  SubSeq(s, 1, Len(s)) = t(Len(s))
      OBVIOUS
    <3>2. Len(s) \in 0..Batches /\ \A i \in 1..Len(s) : t(Len(s))[i] = i
      BY <1>1, <1>2, <3>1
    <3>. HIDE DEF t
    <3>3. \A i \in 1..Len(SubSeq(s, 1, Len(s))) : SubSeq(s, 1, Len(s))[i] = t(Len(s))[i]
      BY <1>2, <3>1, <3>2 DEF Ordered
    <3>. QED  BY <1>2, <2>1, <3>1, <3>3, SeqEqual
  <2>3. Len(s) <= Batches /\ SubSeq(s, 1, Len(s)) = t(Len(s)) => Ordered(s)
    BY <1>1, <1>2 DEF Ordered
  <2>. QED  BY <2>2, <2>3, ProposedList DEF Checking!IsPrefix, Ordered
<1>5. s = Checking!Proposed <=> Ordered(s) /\ Len(s) = Batches
  <2>1. Ordered(s) /\ Len(s) = Batches => s = Checking!Proposed
    BY ProposedList, SeqEqual DEF Ordered
  <2>. QED  BY <2>1, ProposedList DEF Ordered
<1>. QED  BY <1>3, <1>4, <1>5

LEMMA FirstList ==
  Checking!First \in Seq(1..Batches) /\ Ordered(Checking!First)
<1>. Batches \in Nat
  BY CheckAssumption DEF Checking!BoundsAssumption
<1>. QED  BY ProposedList, SubSeqProperties DEF Checking!First, Ordered

(* A reading as long as it was announced is what is there, up to there.    *)
LEMMA ReadPart ==
  ASSUME NEW c, NEW count \in Nat, Annotated(c) \in Seq(1..Batches),
         count <= Len(Annotated(c))
  PROVE  LET got == Checking!Read(c, count)
         IN  /\ got \in Seq(1..Batches)
             /\ Len(got) = count => \A i \in 1..count : got[i] = Annotated(c)[i]
             /\ count = Len(Annotated(c)) => got = Annotated(c)
<1>. DEFINE all == Annotated(c)
            n == IF 2 * ((count + 1) \div 2) < Len(all) THEN 2 * ((count + 1) \div 2) ELSE Len(all)
            got == Checking!Read(c, count)
<1>1. Len(all) \in Nat /\ \A i \in 1..Len(all) : all[i] \in 1..Batches
  BY LenProperties, ElementOfSeq
<1>2. n \in Nat /\ n <= Len(all) /\ (count = Len(all) => n = count)
  BY <1>1
<1>3. got = SubSeq(all, 1, n)
  BY DEF Checking!Read, Annotated
<1>. HIDE DEF all, n, got
<1>4. /\ got \in Seq(1..Batches) /\ Len(got) = n
      /\ \A i \in 1..n : got[i] = all[i]
  BY <1>1, <1>2, <1>3, SubSeqProperties
<1>5. count = Len(all) => got = all
  BY <1>1, <1>2, <1>4, SeqEqual DEF all
<1>. QED  BY <1>4, <1>5 DEF all, n, got

-----------------------------------------------------------------------------
(* Writes.                                                                 *)

(* Check runs are only added and annotations only appended, and a check    *)
(* run that is complete is remembered as such.                             *)
Grown ==
  /\ checks' \in Seq(Checking!CheckRun)
  /\ exact \subseteq exact' /\ exact' \subseteq DOMAIN checks'
  /\ \A c \in DOMAIN checks :
       c \in DOMAIN checks' /\ Extends(checks'[c].annotations, checks[c].annotations)
  /\ \A c \in DOMAIN checks' : Checking!Complete(checks'[c]) => c \in exact'

LEMMA CheckRunFields ==
  ASSUME Checking!TypeOK
  PROVE  /\ Len(checks) \in Nat /\ DOMAIN checks = 1..Len(checks)
         /\ \A c \in DOMAIN checks :
              /\ checks[c] \in Checking!CheckRun
              /\ checks[c].status \in {"in_progress", "completed"}
              /\ Annotated(c) \in Seq(1..Batches)
              /\ Len(Annotated(c)) \in Nat
<1>1. /\ Len(checks) \in Nat /\ DOMAIN checks = 1..Len(checks)
      /\ \A c \in DOMAIN checks : checks[c] \in Checking!CheckRun
  BY LenProperties, ElementOfSeq DEF Checking!TypeOK
<1>. QED  BY <1>1, LenProperties DEF Checking!CheckRun, Annotated

LEMMA CreateEffect ==
  ASSUME Checking!TypeOK, NEW w, w.op = "create"
  PROVE  LET new == Checking!Effect(w)
         IN  /\ new \in Seq(Checking!CheckRun) /\ DOMAIN new = 1..(Len(checks) + 1)
             /\ \A c \in DOMAIN checks : new[c] = checks[c]
             /\ new[Len(checks) + 1] = [status |-> "in_progress", annotations |-> Checking!First]
<1>. DEFINE run == [status |-> "in_progress", annotations |-> Checking!First]
<1>1. run \in Checking!CheckRun
  BY FirstList DEF Checking!CheckRun
<1>2. Checking!Effect(w) = Append(checks, run)
  BY DEF Checking!Effect
<1>. HIDE DEF run
<1>3. checks \in Seq(Checking!CheckRun)
  BY DEF Checking!TypeOK
<1>4. /\ Append(checks, run) \in Seq(Checking!CheckRun)
      /\ Len(Append(checks, run)) = Len(checks) + 1
      /\ \A i \in 1..Len(checks) : Append(checks, run)[i] = checks[i]
      /\ Append(checks, run)[Len(checks) + 1] = run
  BY <1>1, <1>3, AppendProperties
<1>. QED  BY <1>2, <1>4, LenProperties, CheckRunFields DEF run

LEMMA UpdateEffect ==
  ASSUME Checking!TypeOK, NEW w, Meant(w), w.op # "create"
  PROVE  LET new == Checking!Effect(w)
             c == w.check
         IN  /\ new \in Seq(Checking!CheckRun) /\ DOMAIN new = DOMAIN checks
             /\ \A d \in DOMAIN checks : d # c => new[d] = checks[d]
             /\ w.op = "append" =>
                  /\ new[c].status = "in_progress"
                  /\ new[c].annotations = Append(Annotated(c), w.batch)
             /\ w.op # "append" =>
                  new[c].status = "completed" /\ new[c].annotations = Annotated(c)
<1>. DEFINE c == w.check
            run == IF w.op = "append"
                   THEN [status |-> "in_progress", annotations |-> Append(Annotated(c), w.batch)]
                   ELSE [checks[c] EXCEPT !.status = "completed"]
<1>1. c \in 1..Len(checks) /\ checks[c] \in Checking!CheckRun /\ Annotated(c) \in Seq(1..Batches)
  BY CheckRunFields DEF Meant
<1>2. run \in Checking!CheckRun
  <2>1. w.op = "append" => Append(Annotated(c), w.batch) \in Seq(1..Batches)
    BY <1>1, AppendProperties DEF Meant
  <2>. QED  BY <1>1, <2>1 DEF Checking!CheckRun
<1>3. Checking!Effect(w) = [checks EXCEPT ![c] = run]
  BY DEF Checking!Effect, Annotated
<1>4. /\ w.op = "append" =>
           run.status = "in_progress" /\ run.annotations = Append(Annotated(c), w.batch)
      /\ w.op # "append" => run.status = "completed" /\ run.annotations = Annotated(c)
  BY <1>1 DEF Checking!CheckRun, Annotated
<1>. HIDE DEF run
<1>5. checks \in Seq(Checking!CheckRun)
  BY DEF Checking!TypeOK
<1>6. Checking!Effect(w) \in Seq(Checking!CheckRun)
  BY <1>1, <1>2, <1>3, <1>5, ExceptSeq
<1>. QED  BY <1>1, <1>3, <1>4, <1>6

LEMMA CarryOutGrows ==
  ASSUME Checking!TypeOK, CheckRecords, NEW w, Meant(w), Checking!CarryOut(w)
  PROVE  Grown
<1>1. \A c \in DOMAIN checks : Extends(Annotated(c), Annotated(c)) /\ Len(Annotated(c)) \in Nat
  BY CheckRunFields DEF Extends
<1>2. checks' \in Seq(Checking!CheckRun)
  BY CreateEffect, UpdateEffect DEF Checking!CarryOut
<1>3. \A c \in DOMAIN checks :
        c \in DOMAIN checks' /\ Extends(checks'[c].annotations, Annotated(c))
  <2>1. CASE w.op = "create"
    BY <1>1, <2>1, CreateEffect, CheckRunFields DEF Checking!CarryOut, Annotated
  <2>2. CASE w.op = "append"
    <3>1. Extends(Append(Annotated(w.check), w.batch), Annotated(w.check))
      <4>1. Annotated(w.check) \in Seq(1..Batches) /\ w.batch \in 1..Batches
        BY <2>2, CheckRunFields DEF Meant
      <4>. QED  BY <4>1, AppendProperties, LenProperties DEF Extends
    <3>. QED  BY <1>1, <2>2, <3>1, UpdateEffect DEF Checking!CarryOut, Annotated
  <2>3. CASE w.op \notin {"create", "append"}
    BY <1>1, <2>3, UpdateEffect DEF Checking!CarryOut, Annotated
  <2>. QED  BY <2>1, <2>2, <2>3
<1>. QED  BY <1>2, <1>3 DEF Grown, Checking!CarryOut, Annotated, Checking!TypeOK

LEMMA WriteGrows ==
  ASSUME Checking!TypeOK, CheckRecords, NEW w, Meant(w), NEW how, Checking!Write(w, how)
  PROVE  /\ Grown
         /\ lost' \in 0..LateBound /\ lost <= lost'
         /\ late' \subseteq Checking!LateWrites'
         /\ \A v \in late' : Meant(v)'
         /\ lost' = 0 => lost = 0 /\ late' = late
         /\ how \in {"answered", "unanswered"} => Checking!CarryOut(w)
         /\ how \notin {"answered", "unanswered"} => checks' = checks
<1>. LateBound \in Nat /\ Batches \in Nat
  BY CheckAssumption DEF Checking!BoundsAssumption
<1>1. Grown
  <2>1. CASE Checking!CarryOut(w)
    BY <2>1, CarryOutGrows
  <2>2. CASE UNCHANGED <<checks, exact>>
    BY <2>2, CheckRunFields DEF Grown, CheckRecords, Extends, Checking!TypeOK, Annotated
  <2>. QED  BY <2>1, <2>2 DEF Checking!Write
<1>2. /\ Len(checks) \in Nat /\ Len(checks') \in Nat /\ Len(checks) <= Len(checks')
      /\ DOMAIN checks \subseteq DOMAIN checks'
  <2>1. /\ Len(checks) \in Nat /\ DOMAIN checks = 1..Len(checks)
        /\ Len(checks') \in Nat /\ DOMAIN checks' = 1..Len(checks')
    BY <1>1, CheckRunFields, LenProperties DEF Grown
  <2>2. DOMAIN checks \subseteq DOMAIN checks'
    BY <1>1 DEF Grown
  <2>. QED  BY <2>1, <2>2
<1>3. \A v \in late : v \in Checking!LateWrites' /\ Meant(v)'
  BY <1>2, CheckRunFields
     DEF Checking!TypeOK, Checking!LateWrites, CheckRecords, Meant, CheckWrites
<1>4. /\ lost \in Nat /\ lost' \in 0..LateBound /\ lost <= lost'
      /\ lost' = 0 => lost = 0 /\ late' = late
  BY DEF Checking!Write, Checking!TypeOK
<1>5. \A v \in late' : v \in Checking!LateWrites' /\ Meant(v)'
  <2>. PICK u : u = [w EXCEPT !.id = lost + 1]
    OBVIOUS
  <2>1. CASE how = "late"
    <3>1. lost + 1 \in 0..LateBound /\ lost' = lost + 1 /\ late' = late \cup {u}
      BY <1>4, <2>1 DEF Checking!Write
    <3>2. u \in Checking!LateWrites' /\ Meant(u)'
      BY <1>2, <1>4, <3>1, CheckRunFields DEF Meant, CheckWrites, Checking!LateWrites
    <3>. QED  BY <1>3, <3>1, <3>2
  <2>2. CASE how # "late"
    BY <1>3, <2>2 DEF Checking!Write
  <2>. QED  BY <2>1, <2>2
<1>. QED  BY <1>1, <1>4, <1>5 DEF Checking!Write

-----------------------------------------------------------------------------
(* Steps of publish_check.                                                 *)

CheckRest == <<approval, result, checks, late, lost, exact, source, permitted, expired>>

(* Only the holder of the lock is not idle.                                *)
LEMMA OneChecker ==
  ASSUME CheckInv, NEW p \in Publishers, pr[p].pc # "idle", NEW l \in CheckLocals,
         pr' = [pr EXCEPT ![p] = l], lock' = IF l.pc = "idle" THEN None ELSE lock
  PROVE  /\ pr' \in [Publishers -> CheckLocals] /\ pr'[p] = l
         /\ lock' \in Publishers \cup {None}
         /\ \A q \in Publishers : q # p => pr[q].pc = "idle" /\ pr'[q] = pr[q]
         /\ \A q \in Publishers : pr'[q].pc = "idle" <=> lock' # q
<1>1. None \notin Publishers
  BY CheckAssumption DEF Checking!PublishersAssumption
<1>2. /\ lock \in Publishers \cup {None}
      /\ \A q \in Publishers : pr[q].pc = "idle" <=> lock # q
  BY DEF CheckInv, Checking!TypeOK, Checking!At
<1>3. pr \in [Publishers -> CheckLocals]
  BY DEF CheckInv
<1>. QED  BY <1>1, <1>2, <1>3

(* A step that changes nothing but what its process knows.                 *)
LEMMA QuietCheck ==
  ASSUME CheckInv, NEW p \in Publishers, pr[p].pc # "idle", UNCHANGED CheckRest,
         NEW l \in CheckLocals, l.check \in DOMAIN checks \cup {None},
         pr' = [pr EXCEPT ![p] = l], lock' = IF l.pc = "idle" THEN None ELSE lock,
         CheckKnows(p)', lost = 0 => CheckKnowsAll(p)'
  PROVE  CheckInv'
<1>1. /\ pr' \in [Publishers -> CheckLocals] /\ pr'[p] = l
      /\ lock' \in Publishers \cup {None}
      /\ \A q \in Publishers : q # p => pr[q].pc = "idle" /\ pr'[q] = pr[q]
      /\ \A q \in Publishers : pr'[q].pc = "idle" <=> lock' # q
  BY OneChecker
<1>2. \A q \in Publishers : q # p => CheckKnows(q)' /\ CheckKnowsAll(q)'
  <2>. SUFFICES ASSUME NEW q \in Publishers, q # p PROVE CheckKnows(q)' /\ CheckKnowsAll(q)'
    OBVIOUS
  <2>1. pr'[q].pc = "idle"
    BY <1>1
  <2>. QED  BY <2>1 DEF CheckKnows, CheckKnowsAll, Publishing, Authorizing, Revalidating,
                        Taken, Looking
<1>3. Checking!TypeOK'
  BY <1>1 DEF CheckInv, CheckRest, Checking!TypeOK, Checking!LateWrites, Checking!At, CheckLocals
<1>4. CheckRecords' /\ (lost = 0 => CheckInOrder')
  BY DEF CheckInv, CheckRest, CheckRecords, CheckInOrder, Meant, Annotated, Checking!Complete
<1>. QED  BY <1>1, <1>2, <1>3, <1>4 DEF CheckInv, CheckRest

LEMMA CheckReturns ==
  ASSUME CheckInv, NEW p \in Publishers, pr[p].pc # "idle", UNCHANGED CheckRest,
         Checking!Return(p)
  PROVE  CheckInv'
<1>. DEFINE l == Checking!Idle
<1>1. l \in CheckLocals /\ l.pc = "idle" /\ l.check = None
  BY DEF Checking!Idle, CheckLocals, Checking!Pcs
<1>2. pr' = [pr EXCEPT ![p] = l] /\ lock' = None
  BY DEF Checking!Return
<1>3. pr'[p].pc = "idle"
  BY <1>1, <1>2 DEF CheckInv
<1>4. CheckKnows(p)' /\ CheckKnowsAll(p)'
  BY <1>3 DEF CheckKnows, CheckKnowsAll, Publishing, Authorizing, Revalidating, Taken, Looking
<1>. HIDE DEF l
<1>. QED  BY <1>1, <1>2, <1>4, QuietCheck

LEMMA CheckGoes ==
  ASSUME CheckInv, NEW p \in Publishers, pr[p].pc # "idle", UNCHANGED CheckRest,
         NEW pc \in Checking!Pcs \ {"idle"}, Checking!Goto(p, pc), UNCHANGED lock,
         pr'[p] = [pr[p] EXCEPT !.pc = pc] => CheckKnows(p)' /\ (lost = 0 => CheckKnowsAll(p)')
  PROVE  CheckInv'
<1>. DEFINE l == [pr[p] EXCEPT !.pc = pc]
<1>1. pr[p] \in CheckLocals /\ pr[p].check \in DOMAIN checks \cup {None}
  BY DEF CheckInv, Checking!TypeOK
<1>2. l \in CheckLocals /\ l.pc = pc /\ l.check = pr[p].check
  BY <1>1 DEF CheckLocals
<1>3. pr' = [pr EXCEPT ![p] = l] /\ pr'[p] = l
  BY DEF Checking!Goto, CheckInv
<1>4. CheckKnows(p)' /\ (lost = 0 => CheckKnowsAll(p)')
  BY <1>3
<1>. HIDE DEF l
<1>. QED  BY <1>1, <1>2, <1>3, <1>4, QuietCheck

(* The check run that a publisher has just read.                           *)
LEMMA CheckSees ==
  ASSUME CheckInv, NEW p \in Publishers, pr[p].pc # "idle", UNCHANGED CheckRest,
         NEW pc \in Checking!Pcs \ {"idle"}, NEW c \in DOMAIN checks,
         Checking!Saw(p, c, pc), UNCHANGED lock,
         (/\ pr'[p].pc = pc /\ pr'[p].check = c /\ pr'[p].status = checks[c].status
          /\ pr'[p].count = Len(Annotated(c)) /\ pr'[p].done = pr[p].done) =>
            CheckKnows(p)' /\ (lost = 0 => CheckKnowsAll(p)')
  PROVE  CheckInv'
<1>. DEFINE l == [pc |-> pc, check |-> c, status |-> checks[c].status,
                  count |-> Len(Annotated(c)), done |-> pr[p].done]
<1>1. pr[p] \in CheckLocals
  BY DEF CheckInv
<1>2. Checking!TypeOK
  BY DEF CheckInv
<1>3. l \in CheckLocals
  BY <1>1, <1>2, CheckRunFields DEF CheckLocals
<1>4. pr' = [pr EXCEPT ![p] = l] /\ pr'[p] = l
  BY DEF Checking!Saw, CheckInv, CheckRest, Annotated
<1>5. CheckKnows(p)' /\ (lost = 0 => CheckKnowsAll(p)')
  BY <1>4
<1>6. l.pc = pc /\ l.check = c
  OBVIOUS
<1>. HIDE DEF l
<1>. QED  BY <1>3, <1>4, <1>5, <1>6, QuietCheck

LEMMA CheckRequires ==
  ASSUME CheckInv, NEW p \in Publishers, pr[p].pc # "idle", UNCHANGED CheckRest,
         NEW holds \in BOOLEAN, NEW pc \in Checking!Pcs \ {"idle"}, Checking!Require(p, holds, pc),
         holds /\ pr'[p] = [pr[p] EXCEPT !.pc = pc] =>
           CheckKnows(p)' /\ (lost = 0 => CheckKnowsAll(p)')
  PROVE  CheckInv'
BY CheckReturns, CheckGoes DEF Checking!Require

LEMMA CheckQuietSteps ==
  ASSUME CheckInv, NEW p \in Publishers,
         \/ Checking!ReadPrincipal(p) \/ Checking!ReadSource(p) \/ Checking!Find(p)
         \/ Checking!Reread(p) \/ Checking!RereadCompleted(p) \/ Checking!ReadFinal(p)
         \/ Checking!Recheck(p) \/ Checking!Recompare(p) \/ Checking!Abort(p)
  PROVE  CheckInv'
<1>0. /\ Checking!TypeOK /\ CheckRecords /\ CheckKnows(p)
      /\ lost = 0 => CheckInOrder /\ CheckKnowsAll(p)
      /\ pr[p] \in CheckLocals
  BY DEF CheckInv
<1>1. CASE Checking!ReadPrincipal(p)
  <2>. DEFINE pc == IF result # None THEN "recheck" ELSE "source"
  <2>1. /\ pr[p].pc = "principal" /\ UNCHANGED CheckRest
        /\ Checking!Require(p, ActorOf[p] \in permitted /\ approval \in {None, ActorOf[p]}, pc)
    BY <1>1 DEF Checking!ReadPrincipal, Checking!At, CheckRest, Checking!records,
                Checking!remote, Checking!world
  <2>2. pc \in Checking!Pcs \ {"idle"}
    BY DEF Checking!Pcs
  <2>3. approval \in {None, ActorOf[p]} /\ pr'[p] = [pr[p] EXCEPT !.pc = pc] =>
          CheckKnows(p)' /\ CheckKnowsAll(p)'
    BY <1>0, <2>1 DEF CheckLocals, CheckRest, CheckKnows, CheckKnowsAll, Publishing,
                      Authorizing, Revalidating, Taken, Looking
  <2>. QED  BY <2>1, <2>2, <2>3, CheckRequires
<1>2. CASE Checking!ReadSource(p)
  <2>. DEFINE pc == IF approval = None THEN "approve" ELSE "find"
  <2>1. /\ pr[p].pc = "source" /\ UNCHANGED CheckRest /\ Checking!Require(p, source = "same", pc)
    BY <1>2 DEF Checking!ReadSource, Checking!At, CheckRest, Checking!records,
                Checking!remote, Checking!world
  <2>2. pc \in Checking!Pcs \ {"idle"}
    BY DEF Checking!Pcs
  <2>3. pr'[p] = [pr[p] EXCEPT !.pc = pc] => CheckKnows(p)' /\ CheckKnowsAll(p)'
    BY <1>0, <2>1 DEF CheckLocals, CheckRest, CheckKnows, CheckKnowsAll, Publishing,
                      Authorizing, Revalidating, Taken, Looking
  <2>. QED  BY <2>1, <2>2, <2>3, CheckRequires
<1>3. CASE Checking!Find(p)
  <2>1. pr[p].pc \in {"find", "find_created"} /\ UNCHANGED CheckRest
    BY <1>3 DEF Checking!Find, CheckRest, Checking!records, Checking!remote, Checking!world
  <2>2. approval = ActorOf[p] /\ result = None
    BY <1>0, <2>1 DEF CheckKnows, Publishing, Authorizing, Revalidating, Checking!Pcs
  <2>3. CASE Len(checks) = 1
    <3>1. Checking!Saw(p, 1, "compare") /\ UNCHANGED lock /\ 1 \in DOMAIN checks
      BY <1>0, <1>3, <2>3, CheckRunFields DEF Checking!Find
    <3>2. /\ pr'[p].pc = "compare" /\ pr'[p].check = 1 /\ pr'[p].count = Len(Annotated(1))
          => CheckKnows(p)' /\ CheckKnowsAll(p)'
      BY <1>0, <2>1, <2>2, <3>1, CheckRunFields
         DEF CheckRest, CheckKnows, CheckKnowsAll, Publishing,
             Authorizing, Revalidating, Taken, Looking, Annotated
    <3>3. "compare" \in Checking!Pcs \ {"idle"}
      BY DEF Checking!Pcs
    <3>. QED  BY <2>1, <3>1, <3>2, <3>3, CheckSees
  <2>4. CASE Len(checks) # 1
    <3>1. Checking!Require(p, pr[p].pc = "find" /\ checks = <<>>, "create")
      BY <1>3, <2>4 DEF Checking!Find, Checking!At
    <3>2. checks = <<>> /\ pr'[p] = [pr[p] EXCEPT !.pc = "create"] =>
            CheckKnows(p)' /\ CheckKnowsAll(p)'
      BY <1>0, <2>1, <2>2 DEF CheckLocals, CheckRest, CheckKnows, CheckKnowsAll, Publishing,
                      Authorizing, Revalidating, Taken, Looking
    <3>3. "create" \in Checking!Pcs \ {"idle"}
      BY DEF Checking!Pcs
    <3>. QED  BY <2>1, <3>1, <3>2, <3>3, CheckRequires
  <2>. QED  BY <2>3, <2>4
<1>4. CASE Checking!Reread(p)
  <2>. DEFINE pc == IF pr[p].pc = "reread" THEN "compare_appended" ELSE "compare_lost"
              c == pr[p].check
  <2>1. /\ pr[p].pc \in {"reread", "reread_lost"} /\ UNCHANGED <<CheckRest, lock>>
        /\ Checking!Saw(p, c, pc)
    BY <1>4 DEF Checking!Reread, CheckRest, Checking!records, Checking!remote, Checking!world,
                Checking!At
  <2>2. c \in DOMAIN checks /\ approval = ActorOf[p] /\ result = None /\ pr[p].done < Batches
    BY <1>0, <2>1 DEF CheckKnows, Publishing, Authorizing, Revalidating, Taken, Looking,
                      Checking!Pcs
  <2>3. /\ pr'[p].pc = pc /\ pr'[p].check = c /\ pr'[p].count = Len(Annotated(c))
        /\ pr'[p].done = pr[p].done
        => CheckKnows(p)' /\ CheckKnowsAll(p)'
    BY <1>0, <2>1, <2>2, CheckRunFields
       DEF CheckRest, CheckKnows, CheckKnowsAll, Publishing,
           Authorizing, Revalidating, Taken, Looking, Annotated
  <2>4. pc \in Checking!Pcs \ {"idle"}
    BY DEF Checking!Pcs
  <2>5. pr[p].pc # "idle" /\ UNCHANGED CheckRest /\ UNCHANGED lock
    BY <2>1
  <2>. HIDE DEF pc, c
  <2>. QED  BY <2>1, <2>2, <2>3, <2>4, <2>5, CheckSees
<1>5. CASE Checking!RereadCompleted(p)
  <2>1. /\ pr[p].pc = "reread_completed" /\ UNCHANGED CheckRest
        /\ Checking!Require(p, checks[pr[p].check].status = "completed", "final")
    BY <1>5 DEF Checking!RereadCompleted, Checking!At, CheckRest, Checking!records,
                Checking!remote, Checking!world
  <2>2. "final" \in Checking!Pcs \ {"idle"}
    BY DEF Checking!Pcs
  <2>3. pr'[p] = [pr[p] EXCEPT !.pc = "final"] => CheckKnows(p)' /\ CheckKnowsAll(p)'
    BY <1>0, <2>1 DEF CheckLocals, CheckRest, CheckKnows, CheckKnowsAll, Publishing,
                      Authorizing, Revalidating, Taken, Looking, Checking!Pcs
  <2>. QED  BY <2>1, <2>2, <2>3, CheckRequires
<1>6. CASE Checking!ReadFinal(p)
  <2>. DEFINE c == pr[p].check
  <2>1. pr[p].pc = "final" /\ UNCHANGED CheckRest
    BY <1>6 DEF Checking!ReadFinal, Checking!At, CheckRest, Checking!records,
                Checking!remote, Checking!world
  <2>2. c \in DOMAIN checks /\ approval = ActorOf[p] /\ result = None
    BY <1>0, <2>1 DEF CheckKnows, Publishing, Authorizing, Revalidating, Taken, Looking,
                      Checking!Pcs
  <2>3. CASE checks[c].status = "completed"
    <3>1. Checking!Saw(p, c, "compare_final") /\ UNCHANGED lock
      BY <1>6, <2>3 DEF Checking!ReadFinal
    <3>2. Len(Annotated(c)) = Batches /\ (\A i \in 1..Batches : Annotated(c)[i] = i) => c \in exact
      <4>1. Annotated(c) \in Seq(1..Batches) /\ Batches \in Nat
        BY <1>0, <2>2, CheckRunFields, CheckAssumption DEF Checking!BoundsAssumption
      <4>2. Len(Annotated(c)) = Batches /\ (\A i \in 1..Batches : Annotated(c)[i] = i)
              => Annotated(c) = Checking!Proposed
        BY <4>1, OrderedIsPrefix DEF Ordered
      <4>. QED  BY <1>0, <2>2, <2>3, <4>2 DEF CheckRecords, Checking!Complete, Annotated
    <3>3. /\ pr'[p].pc = "compare_final" /\ pr'[p].check = c /\ pr'[p].count = Len(Annotated(c))
          => CheckKnows(p)' /\ CheckKnowsAll(p)'
      BY <1>0, <2>1, <2>2, <2>3, <3>2, CheckRunFields
         DEF CheckRest, CheckKnows, CheckKnowsAll, Publishing,
             Authorizing, Revalidating, Taken, Looking, Annotated
    <3>4. "compare_final" \in Checking!Pcs \ {"idle"} /\ pr[p].pc # "idle"
      BY <2>1 DEF Checking!Pcs
    <3>. HIDE DEF c
    <3>. QED  BY <2>1, <2>2, <3>1, <3>3, <3>4, CheckSees
  <2>4. CASE checks[c].status # "completed"
    BY <1>6, <2>1, <2>4, CheckReturns DEF Checking!ReadFinal
  <2>. QED  BY <2>3, <2>4
<1>7. CASE Checking!Recheck(p)
  <2>1. pr[p].pc = "recheck" /\ UNCHANGED CheckRest
    BY <1>7 DEF Checking!Recheck, Checking!At, CheckRest, Checking!records,
                Checking!remote, Checking!world
  <2>2. result # None /\ result \in DOMAIN checks
    BY <1>0, <2>1 DEF CheckKnows, Revalidating, Checking!TypeOK
  <2>3. CASE checks[result].status = "completed"
    <3>1. Checking!Saw(p, result, "recompare") /\ UNCHANGED lock
      BY <1>7, <2>3 DEF Checking!Recheck
    <3>2. pr'[p].pc = "recompare" => CheckKnows(p)' /\ CheckKnowsAll(p)'
      BY <2>1, <2>2 DEF CheckRest, CheckKnows, CheckKnowsAll, Publishing,
                        Authorizing, Revalidating, Taken, Looking
    <3>3. "recompare" \in Checking!Pcs \ {"idle"}
      BY DEF Checking!Pcs
    <3>. QED  BY <2>1, <2>2, <3>1, <3>2, <3>3, CheckSees
  <2>4. CASE checks[result].status # "completed"
    BY <1>7, <2>1, <2>4, CheckReturns DEF Checking!Recheck
  <2>. QED  BY <2>3, <2>4
<1>8. CASE Checking!Recompare(p) \/ Checking!Abort(p)
  BY <1>8, CheckReturns DEF Checking!Recompare, Checking!Abort, Checking!At, CheckRest,
     Checking!records, Checking!remote, Checking!world
<1>. QED  BY <1>1, <1>2, <1>3, <1>4, <1>5, <1>6, <1>7, <1>8

(* The loop over the batches goes on.                                      *)
LEMMA CheckGoesOn ==
  ASSUME CheckInv, NEW p \in Publishers, pr[p].pc # "idle", UNCHANGED CheckRest,
         NEW done \in Nat, Checking!AfterBatches(p, done), UNCHANGED lock,
         approval = ActorOf[p], result = None, pr[p].check \in DOMAIN checks,
         lost = 0 => Len(Annotated(pr[p].check)) = done /\ done <= Batches
  PROVE  CheckInv'
<1>. DEFINE pc == IF done < Batches THEN "append"
                  ELSE IF pr[p].status = "completed" THEN "final" ELSE "complete"
            l == [pr[p] EXCEPT !.done = done, !.pc = pc]
<1>1. pr[p] \in CheckLocals /\ Batches \in Nat
  BY CheckAssumption DEF CheckInv, Checking!BoundsAssumption
<1>2. /\ l \in CheckLocals /\ l.pc = pc /\ l.check = pr[p].check /\ l.done = done
      /\ pc \in {"append", "final", "complete"}
  BY <1>1 DEF CheckLocals, Checking!Pcs
<1>3. pr' = [pr EXCEPT ![p] = l] /\ pr'[p] = l
  BY DEF Checking!AfterBatches, CheckInv
<1>. HIDE DEF l
<1>4. /\ pr'[p].pc = pc /\ pr'[p].check = pr[p].check /\ pr'[p].done = done
      /\ checks' = checks /\ approval' = approval /\ result' = result
  BY <1>2, <1>3 DEF CheckRest
<1>5. CheckKnows(p)'
  BY <1>2, <1>4
     DEF CheckKnows, Publishing, Authorizing, Revalidating, Taken, Looking, Checking!Pcs
<1>6. lost = 0 => CheckKnowsAll(p)'
  BY <1>1, <1>2, <1>4 DEF CheckKnowsAll, Annotated
<1>. QED  BY <1>2, <1>3, <1>5, <1>6, QuietCheck

LEMMA CheckCompares ==
  ASSUME CheckInv, NEW p \in Publishers,
         Checking!Compare(p) \/ Checking!CompareAppended(p) \/ Checking!CompareFinal(p)
  PROVE  CheckInv'
<1>. DEFINE c == pr[p].check
            count == pr[p].count
            got == Checking!Read(c, count)
<1>1. /\ Checking!TypeOK /\ CheckRecords /\ CheckKnows(p)
      /\ lost = 0 => CheckInOrder /\ CheckKnowsAll(p)
      /\ pr[p] \in CheckLocals /\ Batches \in Nat
  BY CheckAssumption DEF CheckInv, Checking!BoundsAssumption
<1>2. /\ pr[p].pc \in {"compare", "compare_appended", "compare_lost", "compare_final"}
      /\ UNCHANGED CheckRest
  BY DEF Checking!Compare, Checking!CompareAppended, Checking!CompareFinal, Checking!At,
         CheckRest, Checking!records, Checking!remote, Checking!world
<1>3. /\ c \in DOMAIN checks /\ approval = ActorOf[p] /\ result = None
      /\ count \in Nat /\ count <= Len(Annotated(c))
      /\ lost = 0 => count = Len(Annotated(c))
  BY <1>1, <1>2 DEF CheckKnows, CheckKnowsAll, Publishing, Authorizing, Revalidating, Taken,
                    Looking, Checking!Pcs, CheckLocals
<1>4. /\ Annotated(c) \in Seq(1..Batches)
      /\ got \in Seq(1..Batches) /\ Len(got) \in Nat
      /\ Len(got) = count => \A i \in 1..count : got[i] = Annotated(c)[i]
      /\ lost = 0 => got = Annotated(c)
  BY <1>1, <1>3, CheckRunFields, ReadPart, LenProperties
<1>5. /\ Checking!IsPrefix(got, Checking!Proposed) => Ordered(got)
      /\ got = Checking!Proposed => Ordered(got) /\ Len(got) = Batches
      /\ \A n \in 0..Batches : got = SubSeq(Checking!Proposed, 1, n) => Len(got) = n
  BY <1>4, OrderedIsPrefix
<1>6. CASE Checking!Compare(p)
  <2>1. CASE /\ Len(got) = count
             /\ Checking!IsPrefix(got, Checking!Proposed)
             /\ pr[p].status = "completed" => got = Checking!Proposed
    <3>1. Checking!AfterBatches(p, Len(got)) /\ UNCHANGED lock
      BY <1>6, <2>1 DEF Checking!Compare
    <3>2. lost = 0 => Len(Annotated(c)) = Len(got) /\ Len(got) <= Batches
      BY <1>4, <1>5, <2>1 DEF Ordered
    <3>. QED  BY <1>2, <1>3, <1>4, <3>1, <3>2, CheckGoesOn
  <2>2. CASE ~(/\ Len(got) = count
               /\ Checking!IsPrefix(got, Checking!Proposed)
               /\ pr[p].status = "completed" => got = Checking!Proposed)
    BY <1>2, <1>6, <2>2, CheckReturns DEF Checking!Compare
  <2>. QED  BY <2>1, <2>2
<1>7. CASE Checking!CompareAppended(p)
  <2>. DEFINE done == pr[p].done + 1
  <2>1. pr[p].pc \in {"compare_appended", "compare_lost"} /\ done \in 1..Batches
    BY <1>1, <1>7 DEF Checking!CompareAppended, CheckKnows, CheckLocals
  <2>2. CASE Len(got) = count /\ got = SubSeq(Checking!Proposed, 1, done)
    <3>1. CASE pr[p].pc = "compare_lost"
      <4>1. Checking!Goto(p, "reread") /\ UNCHANGED lock
        BY <1>7, <2>2, <3>1 DEF Checking!CompareAppended, Checking!At
      <4>2. pr'[p] = [pr[p] EXCEPT !.pc = "reread"] => CheckKnows(p)' /\ CheckKnowsAll(p)'
        BY <1>1, <1>2, <1>3, <2>1
           DEF CheckLocals, CheckRest, CheckKnows, CheckKnowsAll, Publishing, Authorizing,
               Revalidating, Taken, Looking, Checking!Pcs
      <4>3. "reread" \in Checking!Pcs \ {"idle"}
        BY DEF Checking!Pcs
      <4>. QED  BY <1>2, <4>1, <4>2, <4>3, CheckGoes
    <3>2. CASE pr[p].pc # "compare_lost"
      <4>1. Checking!AfterBatches(p, done) /\ UNCHANGED lock
        BY <1>7, <2>2, <3>2 DEF Checking!CompareAppended, Checking!At
      <4>2. lost = 0 => Len(Annotated(c)) = done /\ done <= Batches
        BY <1>1, <1>4, <1>5, <2>1, <2>2
      <4>. QED  BY <1>1, <1>2, <1>3, <2>1, <4>1, <4>2, CheckGoesOn
    <3>. QED  BY <3>1, <3>2
  <2>3. CASE ~(Len(got) = count /\ got = SubSeq(Checking!Proposed, 1, done))
    BY <1>2, <1>7, <2>3, CheckReturns DEF Checking!CompareAppended
  <2>. QED  BY <2>2, <2>3
<1>8. CASE Checking!CompareFinal(p)
  <2>1. /\ pr[p].pc = "compare_final"
        /\ Checking!Require(p, Len(got) = count /\ got = Checking!Proposed, "record")
    BY <1>8 DEF Checking!CompareFinal, Checking!At
  <2>2. Len(got) = count /\ got = Checking!Proposed => c \in exact
    BY <1>1, <1>4, <1>5, <2>1 DEF CheckKnows, Ordered
  <2>3. Len(got) = count /\ got = Checking!Proposed /\ pr'[p] = [pr[p] EXCEPT !.pc = "record"] =>
          CheckKnows(p)' /\ (lost = 0 => CheckKnowsAll(p)')
    BY <1>1, <1>2, <1>3, <2>1, <2>2
       DEF CheckLocals, CheckRest, CheckKnows, CheckKnowsAll, Publishing, Authorizing,
           Revalidating, Taken, Looking, Checking!Pcs
  <2>4. "record" \in Checking!Pcs \ {"idle"}
    BY DEF Checking!Pcs
  <2>. HIDE DEF got, c, count
  <2>. QED  BY <1>2, <2>1, <2>3, <2>4, CheckRequires
<1>. QED  BY <1>6, <1>7, <1>8

(* A step of the holder that changes the records or what is on GitHub.     *)
LEMMA CheckSteps ==
  ASSUME CheckInv, NEW p \in Publishers, pr[p].pc # "idle",
         UNCHANGED <<source, permitted, expired>>,
         approval' \in Checking!Actors \cup {None}, result' \in DOMAIN checks' \cup {None},
         checks' \in Seq(Checking!CheckRun), DOMAIN checks \subseteq DOMAIN checks',
         late' \subseteq Checking!LateWrites', lost' \in 0..LateBound,
         exact' \subseteq DOMAIN checks',
         NEW l \in CheckLocals, l.check \in DOMAIN checks' \cup {None},
         pr' = [pr EXCEPT ![p] = l], lock' = IF l.pc = "idle" THEN None ELSE lock,
         CheckRecords', lost' = 0 => CheckInOrder',
         l.pc # "idle" => CheckKnows(p)' /\ (lost' = 0 => CheckKnowsAll(p)')
  PROVE  CheckInv'
<1>1. /\ pr' \in [Publishers -> CheckLocals] /\ pr'[p] = l
      /\ lock' \in Publishers \cup {None}
      /\ \A q \in Publishers : q # p => pr[q].pc = "idle" /\ pr'[q] = pr[q]
      /\ \A q \in Publishers : pr'[q].pc = "idle" <=> lock' # q
  BY OneChecker
<1>2. \A q \in Publishers : pr'[q].pc = "idle" => CheckKnows(q)' /\ CheckKnowsAll(q)'
  BY DEF CheckKnows, CheckKnowsAll, Publishing, Authorizing, Revalidating, Taken, Looking
<1>3. \A q \in Publishers : CheckKnows(q)' /\ (lost' = 0 => CheckKnowsAll(q)')
  BY <1>1, <1>2
<1>4. Checking!TypeOK'
  BY <1>1 DEF CheckInv, Checking!TypeOK, Checking!At, CheckLocals
<1>. QED  BY <1>1, <1>3, <1>4 DEF CheckInv

(* The approval and the final record are saved.                            *)
LEMMA CheckSaves ==
  ASSUME CheckInv, NEW p \in Publishers, Checking!SaveApproval(p) \/ Checking!Record(p)
  PROVE  CheckInv'
<1>1. /\ Checking!TypeOK /\ CheckRecords /\ CheckKnows(p)
      /\ lost = 0 => CheckInOrder /\ CheckKnowsAll(p)
      /\ pr[p] \in CheckLocals
  BY DEF CheckInv
<1>2. ActorOf[p] \in Checking!Actors /\ ActorOf[p] # None
  BY CheckAssumption DEF Checking!PublishersAssumption, Checking!Actors
<1>3. /\ UNCHANGED <<checks, late, lost, exact, source, permitted, expired>>
      /\ pr[p].pc # "idle"
  BY DEF Checking!SaveApproval, Checking!Record, Checking!remote, Checking!world, Checking!At
<1>4. ASSUME approval' = ActorOf[p], UNCHANGED result, result = None,
             NEW l \in CheckLocals, pr' = [pr EXCEPT ![p] = l],
             lock' = IF l.pc = "idle" THEN None ELSE lock,
             l.pc \in {"find", "idle"}, l.check \in DOMAIN checks \cup {None}
      PROVE  CheckInv'
  <2>1. CheckRecords' /\ (lost' = 0 => CheckInOrder')
    BY <1>1, <1>2, <1>3, <1>4
       DEF CheckRecords, CheckInOrder, Meant, Annotated, Checking!Complete
  <2>2. pr'[p] = l
    BY <1>4 DEF CheckInv
  <2>3. l.pc # "idle" => CheckKnows(p)' /\ CheckKnowsAll(p)'
    BY <1>4, <2>2 DEF CheckKnows, CheckKnowsAll, Publishing, Authorizing, Revalidating, Taken, Looking
  <2>. QED  BY <1>1, <1>2, <1>3, <1>4, <2>1, <2>3, CheckSteps DEF Checking!TypeOK, Checking!LateWrites
<1>5. CASE Checking!SaveApproval(p)
  <2>1. pr[p].pc = "approve" /\ result = None /\ UNCHANGED result
    BY <1>1, <1>5 DEF Checking!SaveApproval, Checking!At, CheckKnows
  <2>2. CASE expired
    BY <1>3, <1>5, <2>1, <2>2, CheckReturns DEF Checking!SaveApproval, CheckRest
  <2>3. CASE ~expired /\ Checking!Goto(p, "find") /\ UNCHANGED lock
    <3>. DEFINE l == [pr[p] EXCEPT !.pc = "find"]
    <3>1. /\ l \in CheckLocals /\ pr' = [pr EXCEPT ![p] = l] /\ l.pc = "find"
          /\ l.check \in DOMAIN checks \cup {None}
      BY <1>1, <2>3 DEF CheckLocals, Checking!Pcs, Checking!Goto, CheckInv, Checking!TypeOK
    <3>. HIDE DEF l
    <3>. QED  BY <1>4, <1>5, <2>1, <2>3, <3>1 DEF Checking!SaveApproval
  <2>4. CASE ~expired /\ Checking!Return(p)
    <3>. DEFINE l == Checking!Idle
    <3>1. /\ l \in CheckLocals /\ pr' = [pr EXCEPT ![p] = l] /\ l.pc = "idle" /\ lock' = None
          /\ l.check \in DOMAIN checks \cup {None}
      BY <2>4 DEF CheckLocals, Checking!Pcs, Checking!Return, Checking!Idle
    <3>. HIDE DEF l
    <3>. QED  BY <1>4, <1>5, <2>1, <2>4, <3>1 DEF Checking!SaveApproval
  <2>. QED  BY <1>5, <2>2, <2>3, <2>4 DEF Checking!SaveApproval
<1>6. CASE Checking!Record(p)
  <2>. DEFINE l == Checking!Idle
  <2>1. /\ pr[p].pc = "record" /\ UNCHANGED approval
        /\ result' = pr[p].check /\ Checking!Return(p)
    BY <1>6 DEF Checking!Record, Checking!At
  <2>2. /\ approval = ActorOf[p] /\ pr[p].check \in DOMAIN checks /\ pr[p].check \in exact
        /\ lost = 0 => checks[pr[p].check].status = "completed"
    BY <1>1, <2>1 DEF CheckKnows, CheckKnowsAll, Publishing, Authorizing, Revalidating, Taken,
                      Looking, Checking!Pcs
  <2>3. /\ l \in CheckLocals /\ pr' = [pr EXCEPT ![p] = l] /\ l.pc = "idle" /\ lock' = None
        /\ l.check \in DOMAIN checks \cup {None}
    BY <2>1 DEF CheckLocals, Checking!Pcs, Checking!Return, Checking!Idle
  <2>4. CheckRecords' /\ (lost' = 0 => CheckInOrder')
    BY <1>1, <1>2, <1>3, <2>1, <2>2
       DEF CheckRecords, CheckInOrder, Meant, Annotated, Checking!Complete
  <2>. HIDE DEF l
  <2>. QED  BY <1>1, <1>3, <2>1, <2>2, <2>3, <2>4, CheckSteps
            DEF Checking!TypeOK, Checking!LateWrites
<1>. QED  BY <1>5, <1>6

(* What a write leaves in order as long as none is late.                   *)
LEMMA CheckWriteInOrder ==
  ASSUME CheckInv, NEW p \in Publishers, pr[p].pc \in Checking!WritingPcs,
         NEW w, Meant(w), NEW how, Checking!Write(w, how),
         pr[p].pc = "create" <=> w.op = "create",
         pr[p].pc = "append" <=> w.op = "append",
         w.op # "create" => w.check = pr[p].check,
         w.op = "append" => w.batch = pr[p].done + 1,
         UNCHANGED <<approval, result>>, lost' = 0
  PROVE  CheckInOrder'
<1>1. /\ Checking!TypeOK /\ CheckRecords /\ CheckKnows(p) /\ pr[p] \in CheckLocals
      /\ Batches \in Nat
  BY CheckAssumption DEF CheckInv, Checking!BoundsAssumption
<1>2. /\ lost = 0 /\ late' = late
      /\ how \in {"answered", "unanswered"} => Checking!CarryOut(w)
      /\ how \notin {"answered", "unanswered"} => checks' = checks
  BY <1>1, WriteGrows
<1>3. CheckInOrder /\ CheckKnowsAll(p)
  BY <1>2 DEF CheckInv
<1>4. result = None /\ (w.op # "create" => w.check \in DOMAIN checks)
  BY <1>1 DEF CheckKnows, Publishing, Authorizing, Revalidating, Checking!WritingPcs,
              Checking!Pcs, Meant
<1>5. CASE how \notin {"answered", "unanswered"}
  BY <1>2, <1>3, <1>4, <1>5 DEF CheckInOrder, Annotated
<1>6. CASE how \in {"answered", "unanswered"}
  <2>1. checks' = Checking!Effect(w)
    BY <1>2, <1>6 DEF Checking!CarryOut
  <2>2. Len(checks) \in Nat /\ DOMAIN checks = 1..Len(checks)
    BY <1>1, CheckRunFields
  <2>3. Len(checks') <= 1 /\ DOMAIN checks' = 1..Len(checks')
    <3>1. checks' \in Seq(Checking!CheckRun)
      BY <1>1, <2>1, CreateEffect, UpdateEffect
    <3>2. Len(checks') \in Nat /\ DOMAIN checks' = 1..Len(checks')
      BY <3>1, LenProperties
    <3>3. w.op = "create" => Len(checks) = 0
      BY <1>3 DEF CheckKnowsAll
    <3>4. DOMAIN checks' = IF w.op = "create" THEN 1..(Len(checks) + 1) ELSE 1..Len(checks)
      BY <1>1, <2>1, <2>2, CreateEffect, UpdateEffect
    <3>5. Len(checks) <= 1
      BY <1>3 DEF CheckInOrder
    <3>6. Len(checks') \in DOMAIN checks' \/ Len(checks') = 0
      BY <3>2
    <3>. QED  BY <2>2, <3>2, <3>3, <3>4, <3>5, <3>6
  <2>4. ASSUME NEW c \in DOMAIN checks'
        PROVE  /\ Ordered(checks'[c].annotations)
               /\ checks'[c].status = "completed" => Len(checks'[c].annotations) = Batches
    <3>1. CASE w.op = "create"
      <4>1. checks = <<>> /\ Len(checks) = 0
        BY <1>3, <3>1 DEF CheckKnowsAll
      <4>2. c = 1
        BY <1>1, <2>1, <3>1, <4>1, CreateEffect
      <4>. QED  BY <1>1, <2>1, <3>1, <4>1, <4>2, CreateEffect, FirstList
    <3>2. CASE w.op = "append"
      <4>1. c \in DOMAIN checks /\ (c # w.check => checks'[c] = checks[c])
        BY <1>1, <2>1, <3>2, UpdateEffect
      <4>2. CASE c # w.check
        BY <1>3, <4>1, <4>2 DEF CheckInOrder, Annotated
      <4>3. CASE c = w.check
        <5>1. /\ checks'[c].status = "in_progress"
              /\ checks'[c].annotations = Append(Annotated(c), w.batch)
          BY <1>1, <2>1, <3>2, <4>3, UpdateEffect
        <5>2. /\ Annotated(c) \in Seq(1..Batches) /\ Ordered(Annotated(c))
              /\ Len(Annotated(c)) \in Nat
              /\ w.batch = Len(Annotated(c)) + 1 /\ w.batch \in 1..Batches
          BY <1>1, <1>3, <3>2, <4>1, <4>3, CheckRunFields
             DEF CheckInOrder, CheckKnowsAll, Meant
        <5>3. Ordered(Append(Annotated(c), w.batch))
          BY <5>2, AppendProperties DEF Ordered
        <5>. QED  BY <5>1, <5>3
      <4>. QED  BY <4>2, <4>3
    <3>3. CASE w.op \notin {"create", "append"}
      <4>1. c \in DOMAIN checks /\ (c # w.check => checks'[c] = checks[c])
        BY <1>1, <2>1, <3>3, UpdateEffect
      <4>2. CASE c # w.check
        BY <1>3, <4>1, <4>2 DEF CheckInOrder, Annotated
      <4>3. CASE c = w.check
        <5>1. checks'[c].annotations = Annotated(c)
          BY <1>1, <2>1, <3>3, <4>3, UpdateEffect
        <5>2. Ordered(Annotated(c)) /\ Len(Annotated(c)) = Batches
          BY <1>3, <3>3, <4>1, <4>3 DEF CheckInOrder, CheckKnowsAll, Checking!WritingPcs
        <5>. QED  BY <5>1, <5>2
      <4>. QED  BY <4>2, <4>3
    <3>. QED  BY <3>1, <3>2, <3>3
  <2>. QED  BY <1>2, <1>3, <1>4, <2>3, <2>4 DEF CheckInOrder, Annotated
<1>. QED  BY <1>5, <1>6

LEMMA CheckSends ==
  ASSUME CheckInv, NEW p \in Publishers, NEW how,
         \/ Checking!Create(p, how) \/ Checking!AppendBatch(p, how)
         \/ Checking!CompleteRun(p, how)
  PROVE  CheckInv'
<1>. DEFINE w == IF pr[p].pc = "create" THEN Checking!CreateWrite
                 ELSE IF pr[p].pc = "append" THEN Checking!AppendWrite(p)
                 ELSE Checking!CompleteWrite(p)
            next == IF how = "answered"
                    THEN IF pr[p].pc = "create" THEN "compare"
                         ELSE IF pr[p].pc = "append" THEN "reread" ELSE "final"
                    ELSE IF how = "refused" THEN "idle"
                    ELSE IF pr[p].pc = "create" THEN "find_created"
                         ELSE IF pr[p].pc = "append" THEN "reread_lost" ELSE "reread_completed"
<1>1. /\ Checking!TypeOK /\ CheckRecords /\ CheckKnows(p) /\ pr[p] \in CheckLocals
      /\ Batches \in Nat
      /\ lost = 0 => CheckInOrder /\ CheckKnowsAll(p)
  BY CheckAssumption DEF CheckInv, Checking!BoundsAssumption
<1>2. /\ pr[p].pc \in Checking!WritingPcs /\ Checking!Write(w, how)
      /\ UNCHANGED <<approval, result, source, permitted, expired>>
  BY DEF Checking!Create, Checking!AppendBatch, Checking!CompleteRun, Checking!WritingPcs,
         Checking!At, Checking!records, Checking!world
<1>3. /\ approval = ActorOf[p] /\ approval # None /\ result = None
      /\ pr[p].pc # "create" => pr[p].check \in DOMAIN checks
      /\ pr[p].pc = "append" => pr[p].done < Batches
      /\ pr[p].pc # "idle"
  BY <1>1, <1>2, CheckAssumption
     DEF CheckKnows, Publishing, Authorizing, Revalidating, Taken, Looking,
         Checking!Pcs, Checking!WritingPcs, Checking!PublishersAssumption, Checking!Actors
<1>4. /\ Meant(w)
      /\ pr[p].pc = "create" <=> w.op = "create"
      /\ pr[p].pc = "append" <=> w.op = "append"
      /\ w.op # "create" => w.check = pr[p].check
      /\ w.op = "append" => w.batch = pr[p].done + 1
  BY <1>1, <1>2, <1>3, CheckRunFields
     DEF Meant, CheckWrites, Checking!CreateWrite, Checking!AppendWrite,
         Checking!CompleteWrite, Checking!WritingPcs, CheckLocals
<1>. HIDE DEF w
<1>5. /\ Grown
      /\ lost' \in 0..LateBound
      /\ late' \subseteq Checking!LateWrites'
      /\ \A v \in late' : Meant(v)'
      /\ how = "answered" => Checking!CarryOut(w)
  BY <1>1, <1>2, <1>4, WriteGrows
<1>6. CheckRecords' /\ (lost' = 0 => CheckInOrder')
  BY <1>2, <1>3, <1>4, <1>5, CheckWriteInOrder DEF CheckRecords, Grown
<1>7. /\ Len(checks') \in Nat /\ DOMAIN checks' = 1..Len(checks')
      /\ DOMAIN checks \subseteq DOMAIN checks'
      /\ \A c \in DOMAIN checks' :
           /\ Len(checks'[c].annotations) \in Nat
           /\ checks'[c].status \in {"in_progress", "completed"}
  <2>1. checks' \in Seq(Checking!CheckRun) /\ DOMAIN checks \subseteq DOMAIN checks'
    BY <1>5 DEF Grown
  <2>2. Len(checks') \in Nat /\ DOMAIN checks' = 1..Len(checks')
    BY <2>1, LenProperties
  <2>3. ASSUME NEW c \in DOMAIN checks'
        PROVE  /\ Len(checks'[c].annotations) \in Nat
               /\ checks'[c].status \in {"in_progress", "completed"}
    <3>1. checks'[c] \in Checking!CheckRun
      BY <2>1, <2>2, ElementOfSeq
    <3>2. checks'[c].annotations \in Seq(1..Batches)
      BY <3>1 DEF Checking!CheckRun
    <3>. QED  BY <3>1, <3>2, LenProperties DEF Checking!CheckRun
  <2>. QED  BY <2>1, <2>2, <2>3
<1>8. PICK l \in CheckLocals :
        /\ pr' = [pr EXCEPT ![p] = l] /\ l.pc = next
        /\ l.check \in DOMAIN checks' \cup {None}
        /\ pr[p].pc # "create" /\ next # "idle" => l.check = pr[p].check /\ l.done = pr[p].done
        /\ next = "compare" => /\ l.check \in DOMAIN checks'
                               /\ l.count = Len(checks'[l.check].annotations)
        /\ lock' = IF l.pc = "idle" THEN None ELSE lock
  <2>. DEFINE Locals(l) ==
        /\ l \in CheckLocals
        /\ pr' = [pr EXCEPT ![p] = l] /\ l.pc = next
        /\ l.check \in DOMAIN checks' \cup {None}
        /\ pr[p].pc # "create" /\ next # "idle" => l.check = pr[p].check /\ l.done = pr[p].done
        /\ next = "compare" => /\ l.check \in DOMAIN checks'
                               /\ l.count = Len(checks'[l.check].annotations)
        /\ lock' = IF l.pc = "idle" THEN None ELSE lock
  <2>1. CASE how = "answered" /\ pr[p].pc = "create"
    <3>. DEFINE c == Len(checks')
                l == [pc |-> "compare", check |-> c, status |-> checks'[c].status,
                      count |-> Len(checks'[c].annotations), done |-> pr[p].done]
    <3>1. Checking!Saw(p, c, "compare") /\ UNCHANGED lock
      BY <2>1 DEF Checking!Create, Checking!AppendBatch, Checking!CompleteRun, Checking!At
    <3>2. c \in DOMAIN checks'
      BY <1>1, <1>4, <1>5, <1>7, <2>1, CreateEffect, CheckRunFields DEF Checking!CarryOut
    <3>3. Locals(l)
      BY <1>1, <1>7, <2>1, <3>1, <3>2 DEF CheckLocals, Checking!Pcs, Checking!Saw
    <3>. QED  BY <3>3
  <2>2. CASE how = "refused"
    <3>. DEFINE l == Checking!Idle
    <3>1. Checking!Return(p)
      BY <2>2 DEF Checking!Create, Checking!AppendBatch, Checking!CompleteRun, Checking!At
    <3>2. Locals(l)
      BY <2>2, <3>1 DEF CheckLocals, Checking!Pcs, Checking!Return, Checking!Idle
    <3>. QED  BY <3>2
  <2>3. CASE how # "refused" /\ ~(how = "answered" /\ pr[p].pc = "create")
    <3>. DEFINE l == [pr[p] EXCEPT !.pc = next]
    <3>1. Checking!Goto(p, next) /\ UNCHANGED lock
      BY <1>2, <2>3 DEF Checking!Create, Checking!AppendBatch, Checking!CompleteRun,
                        Checking!At, Checking!WritingPcs
    <3>2. pr[p].check \in DOMAIN checks \cup {None} /\ next # "compare" /\ next # "idle"
      BY <1>1, <1>2, <2>3 DEF Checking!TypeOK, Checking!WritingPcs
    <3>3. Locals(l)
      BY <1>1, <1>2, <1>7, <2>3, <3>1, <3>2
         DEF CheckLocals, Checking!Pcs, Checking!Goto, Checking!WritingPcs
    <3>. QED  BY <3>3
  <2>. QED  BY <2>1, <2>2, <2>3
<1>9. pr'[p] = l
  BY <1>8 DEF CheckInv
<1>10. l.pc # "idle" => CheckKnows(p)' /\ CheckKnowsAll(p)'
  <2>. SUFFICES ASSUME l.pc # "idle" PROVE CheckKnows(p)' /\ CheckKnowsAll(p)'
    OBVIOUS
  <2>1. /\ pr'[p].pc \in {"compare", "reread", "final", "find_created", "reread_lost",
                          "reread_completed"}
        /\ approval' = ActorOf[p] /\ result' = None
        /\ pr'[p].pc # "find_created" => pr'[p].check \in DOMAIN checks'
        /\ pr'[p].pc = "compare" => pr'[p].count = Len(checks'[pr'[p].check].annotations)
        /\ pr'[p].pc \in {"reread", "reread_lost"} => pr'[p].done < Batches
    BY <1>2, <1>3, <1>7, <1>8, <1>9 DEF Checking!WritingPcs
  <2>2. pr'[p].pc = "compare" => pr'[p].count <= Len(checks'[pr'[p].check].annotations)
    BY <1>7, <2>1
  <2>. QED  BY <2>1, <2>2
            DEF CheckKnows, CheckKnowsAll, Publishing, Authorizing, Revalidating, Taken, Looking,
                Checking!Pcs, Annotated
<1>. QED  BY <1>1, <1>2, <1>3, <1>5, <1>6, <1>7, <1>8, <1>10, CheckSteps
          DEF Checking!TypeOK, Grown

LEMMA CheckBegins ==
  ASSUME CheckInv, NEW p \in Publishers, Checking!Begin(p)
  PROVE  CheckInv'
<1>1. /\ Checking!TypeOK /\ CheckRecords /\ pr \in [Publishers -> CheckLocals]
      /\ lost = 0 => CheckInOrder
  BY DEF CheckInv
<1>2. /\ UNCHANGED CheckRest /\ lock = None /\ lock' = p
      /\ pr' = [pr EXCEPT ![p].pc = "principal"]
  BY DEF Checking!Begin, Checking!Goto, CheckRest, Checking!records, Checking!remote,
         Checking!world
<1>3. /\ pr' \in [Publishers -> CheckLocals] /\ pr'[p].pc = "principal"
      /\ pr'[p].check = pr[p].check
      /\ \A q \in Publishers : q # p => pr'[q] = pr[q]
  BY <1>1, <1>2 DEF CheckLocals, Checking!Pcs
<1>4. None \notin Publishers /\ \A q \in Publishers : pr[q].pc = "idle"
  BY <1>1, <1>2, CheckAssumption DEF Checking!TypeOK, Checking!At, Checking!PublishersAssumption
<1>5. Checking!TypeOK'
  BY <1>1, <1>2, <1>3, <1>4
     DEF Checking!TypeOK, CheckRest, Checking!At, Checking!LateWrites, Checking!Pcs
<1>6. CheckRecords' /\ (lost = 0 => CheckInOrder')
  BY <1>1, <1>2 DEF CheckRest, CheckRecords, CheckInOrder, Meant, Annotated, Checking!Complete
<1>7. \A q \in Publishers : pr'[q].pc \in {"idle", "principal"}
  BY <1>3, <1>4
<1>8. \A q \in Publishers : CheckKnows(q)' /\ CheckKnowsAll(q)'
  BY <1>7 DEF CheckKnows, CheckKnowsAll, Publishing, Authorizing, Revalidating, Taken, Looking
<1>. QED  BY <1>2, <1>3, <1>5, <1>6, <1>8 DEF CheckInv, CheckRest

-----------------------------------------------------------------------------
(* Steps of others.                                                        *)

(* A write is carried out late.                                            *)
LEMMA CheckSettles ==
  ASSUME CheckInv, Checking!Settle
  PROVE  CheckInv'
<1>1. /\ Checking!TypeOK /\ CheckRecords /\ pr \in [Publishers -> CheckLocals]
      /\ \A p \in Publishers : CheckKnows(p)
      /\ lost = 0 => late = {}
      /\ Batches \in Nat
  BY CheckAssumption DEF CheckInv, CheckInOrder, Checking!BoundsAssumption
<1>2. PICK w \in late : Checking!CarryOut(w) /\ late' = late \ {w}
  BY DEF Checking!Settle
<1>3. UNCHANGED <<approval, result, lost, source, permitted, expired, lock, pr>>
  BY DEF Checking!Settle, Checking!records, Checking!world
<1>4. Grown
  BY <1>1, <1>2, CarryOutGrows DEF CheckRecords
<1>5. /\ Len(checks) \in Nat /\ Len(checks') \in Nat /\ Len(checks) <= Len(checks')
      /\ DOMAIN checks' = 1..Len(checks') /\ DOMAIN checks \subseteq DOMAIN checks'
  <2>1. /\ Len(checks) \in Nat /\ DOMAIN checks = 1..Len(checks)
        /\ Len(checks') \in Nat /\ DOMAIN checks' = 1..Len(checks')
    BY <1>1, <1>4, CheckRunFields, LenProperties DEF Grown
  <2>2. DOMAIN checks \subseteq DOMAIN checks'
    BY <1>4 DEF Grown
  <2>. QED  BY <2>1, <2>2
<1>6. \A v \in late : v \in Checking!LateWrites' /\ Meant(v)'
  BY <1>1, <1>5, CheckRunFields
     DEF Checking!TypeOK, Checking!LateWrites, CheckRecords, Meant, CheckWrites
<1>7. Checking!TypeOK'
  BY <1>1, <1>2, <1>3, <1>4, <1>5, <1>6 DEF Checking!TypeOK, Checking!At, Grown
<1>8. CheckRecords'
  BY <1>1, <1>2, <1>3, <1>4, <1>6 DEF CheckRecords, Grown
<1>9. ASSUME NEW p \in Publishers
      PROVE  CheckKnows(p)'
  <2>1. ASSUME NEW c \in DOMAIN checks
        PROVE  /\ Len(Annotated(c)) \in Nat /\ Len(checks'[c].annotations) \in Nat
               /\ Len(Annotated(c)) <= Len(checks'[c].annotations)
               /\ \A i \in 1..Len(Annotated(c)) : checks'[c].annotations[i] = Annotated(c)[i]
    <3>1. checks'[c] \in Checking!CheckRun
      BY <1>4, <1>5, ElementOfSeq DEF Grown
    <3>2. Len(checks'[c].annotations) \in Nat
      BY <3>1, LenProperties DEF Checking!CheckRun
    <3>. QED  BY <1>1, <1>4, <3>2, CheckRunFields DEF Grown, Extends, Annotated
  <2>2. CheckKnows(p) /\ pr[p] \in CheckLocals
    BY <1>1
  <2>3. pr[p].pc \in Taken => pr[p].check \in DOMAIN checks
    BY <2>2 DEF CheckKnows
  <2>4. pr[p].pc \in {"compare", "compare_lost", "compare_appended", "compare_final"} =>
          pr[p].pc \in Taken /\ pr[p].count <= Len(Annotated(pr[p].check))
    BY <2>2 DEF CheckKnows, Taken, Publishing, Looking, Authorizing, Revalidating, Checking!Pcs
  <2>5. pr[p].pc \in {"compare", "compare_lost", "compare_appended", "compare_final"} =>
          pr[p].count <= Len(checks'[pr[p].check].annotations)
    BY <2>1, <2>2, <2>3, <2>4 DEF CheckLocals
  <2>6. (/\ pr[p].pc = "compare_final" /\ pr[p].count = Batches
         /\ \A i \in 1..Batches : checks'[pr[p].check].annotations[i] = i) =>
          pr[p].check \in exact
    <3>1. SUFFICES ASSUME pr[p].pc = "compare_final", pr[p].count = Batches,
                          \A i \in 1..Batches : checks'[pr[p].check].annotations[i] = i
                   PROVE  pr[p].check \in exact
      OBVIOUS
    <3>2. pr[p].check \in DOMAIN checks /\ Batches <= Len(Annotated(pr[p].check))
      BY <2>3, <2>4, <3>1
    <3>3. \A i \in 1..Batches : i \in 1..Len(Annotated(pr[p].check))
      BY <1>1, <2>1, <3>2
    <3>4. \A i \in 1..Batches : Annotated(pr[p].check)[i] = i
      BY <2>1, <3>1, <3>2, <3>3
    <3>. QED  BY <2>2, <3>1, <3>4 DEF CheckKnows
  <2>. QED  BY <1>3, <1>4, <1>5, <2>2, <2>3, <2>5, <2>6 DEF CheckKnows, Annotated, Grown
<1>. QED  BY <1>1, <1>2, <1>3, <1>7, <1>8, <1>9 DEF CheckInv

(* The source moves, a permission is withdrawn, time passes.               *)
LEMMA CheckWorldChanges ==
  ASSUME CheckInv,
         Checking!SourceMoves \/ Checking!PermissionWithdrawn \/ Checking!Expire
  PROVE  CheckInv'
<1>1. /\ UNCHANGED <<approval, result, checks, late, lost, exact, lock, pr>>
      /\ source' \in {"same", "moved"} /\ permitted' \subseteq Checking!Actors
      /\ expired' \in BOOLEAN
  BY DEF CheckInv, Checking!TypeOK, Checking!SourceMoves, Checking!PermissionWithdrawn,
         Checking!Expire, Checking!records, Checking!remote
<1>. QED  BY <1>1 DEF CheckInv, Checking!TypeOK, Checking!LateWrites, Checking!At, CheckRecords,
                      CheckInOrder, CheckKnows, CheckKnowsAll, Meant, Annotated, Checking!Complete

-----------------------------------------------------------------------------
(* The invariant of a published check.                                     *)

LEMMA CheckInit == Checking!Init => CheckInv
<1>. SUFFICES ASSUME Checking!Init PROVE CheckInv
  OBVIOUS
<1>1. /\ checks \in Seq(Checking!CheckRun) /\ Len(checks) = 0 /\ DOMAIN checks = {}
      /\ None \notin Publishers /\ LateBound \in Nat
  BY CheckAssumption, EmptySeq
     DEF Checking!Init, Checking!PublishersAssumption, Checking!BoundsAssumption
<1>2. /\ pr \in [Publishers -> CheckLocals]
      /\ \A p \in Publishers : pr[p].pc = "idle" /\ pr[p].check = None
  BY DEF Checking!Init, Checking!Idle, CheckLocals, Checking!Pcs
<1>3. \A p \in Publishers : CheckKnows(p) /\ CheckKnowsAll(p)
  BY <1>2 DEF CheckKnows, CheckKnowsAll, Publishing, Authorizing, Revalidating, Taken, Looking
<1>4. Checking!TypeOK
  <2>1. /\ approval = None /\ result = None /\ late = {} /\ lost = 0 /\ exact = {}
        /\ source = "same" /\ permitted = Checking!Actors /\ expired = FALSE /\ lock = None
    BY DEF Checking!Init
  <2>2. \A p \in Publishers : pr[p].pc \in Checking!Pcs /\ (Checking!At(p, "idle") <=> lock # p)
    BY <1>1, <1>2, <2>1 DEF Checking!At, Checking!Pcs
  <2>3. \A p \in Publishers : pr[p].check \in DOMAIN checks \cup {None}
    BY <1>2
  <2>4. lost \in 0..LateBound
    BY <1>1, <2>1
  <2>5. /\ late \subseteq Checking!LateWrites /\ exact \subseteq DOMAIN checks
        /\ permitted \subseteq Checking!Actors
    BY <2>1
  <2>. QED  BY <1>1, <2>1, <2>2, <2>3, <2>4, <2>5 DEF Checking!TypeOK
<1>5. CheckRecords /\ CheckInOrder
  BY <1>1 DEF Checking!Init, CheckRecords, CheckInOrder
<1>. QED  BY <1>2, <1>3, <1>4, <1>5 DEF CheckInv

LEMMA CheckStep ==
  ASSUME CheckInv, Checking!Next
  PROVE  CheckInv'
<1>1. CASE \E p \in Publishers : Checking!Begin(p) \/ Checking!Step(p) \/ Checking!Abort(p)
  <2>1. PICK p \in Publishers : Checking!Begin(p) \/ Checking!Step(p) \/ Checking!Abort(p)
    BY <1>1
  <2>2. CASE \E how \in Checking!Endings :
               \/ Checking!Create(p, how)
               \/ Checking!AppendBatch(p, how)
               \/ Checking!CompleteRun(p, how)
    BY <2>2, CheckSends
  <2>3. CASE \/ Checking!ReadPrincipal(p) \/ Checking!ReadSource(p) \/ Checking!Find(p)
             \/ Checking!Reread(p) \/ Checking!RereadCompleted(p) \/ Checking!ReadFinal(p)
             \/ Checking!Recheck(p) \/ Checking!Recompare(p) \/ Checking!Abort(p)
    BY <2>3, CheckQuietSteps
  <2>4. CASE \/ Checking!Compare(p) \/ Checking!CompareAppended(p) \/ Checking!CompareFinal(p)
    BY <2>4, CheckCompares
  <2>5. CASE Checking!SaveApproval(p) \/ Checking!Record(p)
    BY <2>5, CheckSaves
  <2>6. CASE Checking!Begin(p)
    BY <2>6, CheckBegins
  <2>. QED  BY <2>1, <2>2, <2>3, <2>4, <2>5, <2>6 DEF Checking!Step
<1>2. CASE Checking!Environment
  BY <1>2, CheckSettles, CheckWorldChanges DEF Checking!Environment
<1>. QED  BY <1>1, <1>2 DEF Checking!Next

(* The invariant gives what the run checks of a published check.           *)
LEMMA CheckGoals ==
  ASSUME CheckInv
  PROVE  /\ Checking!TypeOK /\ Checking!RecordedWasExact /\ Checking!WritesAreApproved
         /\ lost = 0 => /\ Checking!AtMostOneCheckRun /\ Checking!AnnotationsInOrder
                        /\ Checking!RecordedIsExact
<1>1. /\ Checking!TypeOK /\ CheckRecords /\ \A p \in Publishers : CheckKnows(p)
      /\ lost = 0 => CheckInOrder
  BY DEF CheckInv
<1>2. Checking!RecordedWasExact
  BY <1>1 DEF CheckRecords, Checking!RecordedWasExact
<1>3. Checking!WritesAreApproved
  BY <1>1 DEF CheckKnows, Checking!WritesAreApproved, Checking!WritingPcs, Publishing,
              Authorizing, Revalidating, Checking!Pcs
<1>4. ASSUME lost = 0
      PROVE  /\ Checking!AtMostOneCheckRun /\ Checking!AnnotationsInOrder
             /\ Checking!RecordedIsExact
  <2>1. \A c \in DOMAIN checks : Annotated(c) \in Seq(1..Batches) /\ Ordered(Annotated(c))
    BY <1>1, <1>4, CheckRunFields DEF CheckInOrder
  <2>2. Checking!AnnotationsInOrder
    BY <2>1, OrderedIsPrefix DEF Checking!AnnotationsInOrder, Annotated
  <2>3. Checking!RecordedIsExact
    <3>1. SUFFICES ASSUME result # None PROVE Checking!Complete(checks[result])
      BY DEF Checking!RecordedIsExact
    <3>2. result \in DOMAIN checks /\ checks[result].status = "completed"
      BY <1>1, <1>4, <3>1 DEF CheckInOrder, Checking!TypeOK
    <3>3. Len(Annotated(result)) = Batches
      BY <1>1, <1>4, <3>2 DEF CheckInOrder
    <3>. QED  BY <2>1, <3>2, <3>3, OrderedIsPrefix DEF Checking!Complete, Annotated
  <2>. QED  BY <1>1, <1>4, <2>2, <2>3 DEF CheckInOrder, Checking!AtMostOneCheckRun
<1>. QED  BY <1>1, <1>2, <1>3, <1>4

(* A write of publish_check, when it is sent.                              *)
LEMMA CheckMeans ==
  ASSUME CheckInv, NEW p \in Publishers, NEW how,
         \/ Checking!Create(p, how) \/ Checking!AppendBatch(p, how)
         \/ Checking!CompleteRun(p, how)
  PROVE  /\ approval # None /\ UNCHANGED <<approval, result>>
         /\ \E w : Meant(w) /\ Checking!Write(w, how)
<1>. DEFINE w == IF pr[p].pc = "create" THEN Checking!CreateWrite
                 ELSE IF pr[p].pc = "append" THEN Checking!AppendWrite(p)
                 ELSE Checking!CompleteWrite(p)
<1>1. /\ Checking!TypeOK /\ CheckKnows(p) /\ pr[p] \in CheckLocals /\ Batches \in Nat
  BY CheckAssumption DEF CheckInv, Checking!BoundsAssumption
<1>2. /\ pr[p].pc \in Checking!WritingPcs /\ Checking!Write(w, how)
      /\ UNCHANGED <<approval, result>>
  BY DEF Checking!Create, Checking!AppendBatch, Checking!CompleteRun, Checking!WritingPcs,
         Checking!At, Checking!records
<1>3. /\ approval = ActorOf[p] /\ approval # None
      /\ pr[p].pc # "create" => pr[p].check \in DOMAIN checks
      /\ pr[p].pc = "append" => pr[p].done < Batches
  BY <1>1, <1>2, CheckAssumption
     DEF CheckKnows, Publishing, Authorizing, Revalidating, Taken, Looking,
         Checking!Pcs, Checking!WritingPcs, Checking!PublishersAssumption, Checking!Actors
<1>4. Meant(w)
  BY <1>1, <1>2, <1>3, CheckRunFields
     DEF Meant, CheckWrites, Checking!CreateWrite, Checking!AppendWrite,
         Checking!CompleteWrite, Checking!WritingPcs, CheckLocals
<1>. HIDE DEF w
<1>. QED  BY <1>2, <1>3, <1>4

LEMMA CarryOutShows ==
  ASSUME Checking!TypeOK, CheckRecords, NEW w, Meant(w), Checking!CarryOut(w)
  PROVE  checks' # <<>> /\ exact \subseteq exact'
<1>1. Grown
  BY CarryOutGrows
<1>2. \E c : c \in DOMAIN checks'
  <2>1. CASE w.op = "create"
    <3>1. Len(checks) + 1 \in 1..(Len(checks) + 1)
      BY CheckRunFields
    <3>. QED  BY <2>1, <3>1, CreateEffect DEF Checking!CarryOut
  <2>2. CASE w.op # "create"
    BY <1>1, <2>2 DEF Meant, Grown
  <2>. QED  BY <2>1, <2>2
<1>. QED  BY <1>1, <1>2 DEF Grown

(* A step of publish_check is one of an approved publication, or none.     *)
LEMMA CheckImplements ==
  ASSUME CheckInv, Checking!Next, part = "check", UNCHANGED part
  PROVE  Publication!Next \/ UNCHANGED Publication!publicationVars
<1>. DEFINE visible == checks # <<>>
            all == exact # {}
<1>1. /\ Checking!TypeOK /\ CheckRecords /\ \A p \in Publishers : CheckKnows(p)
      /\ None \notin Checking!Actors /\ None \notin Nat
  BY CheckAssumption DEF CheckInv, Checking!PublishersAssumption
<1>2. ASSUME UNCHANGED <<approval, result, checks, exact>>
      PROVE  UNCHANGED Publication!publicationVars
  BY <1>2 DEF Publication!publicationVars
<1>3. ASSUME UNCHANGED <<approval, result>>, approval # None,
             checks' # <<>>, exact \subseteq exact'
      PROVE  Publication!Show
  BY <1>3 DEF Publication!Show
<1>4. CASE Checking!Settle
  <2>1. PICK w \in late : Checking!CarryOut(w)
    BY <1>4 DEF Checking!Settle
  <2>2. Meant(w) /\ approval # None
    BY <1>1 DEF CheckRecords
  <2>3. checks' # <<>> /\ exact \subseteq exact'
    BY <1>1, <2>1, <2>2, CarryOutShows
  <2>4. UNCHANGED <<approval, result>>
    BY <1>4 DEF Checking!Settle, Checking!records
  <2>. QED  BY <1>3, <2>2, <2>3, <2>4 DEF Publication!Next
<1>5. CASE \E p \in Publishers, how \in Checking!Endings :
             \/ Checking!Create(p, how) \/ Checking!AppendBatch(p, how)
             \/ Checking!CompleteRun(p, how)
  <2>1. PICK p \in Publishers, how \in Checking!Endings :
               \/ Checking!Create(p, how) \/ Checking!AppendBatch(p, how)
               \/ Checking!CompleteRun(p, how)
    BY <1>5
  <2>2. /\ approval # None /\ UNCHANGED <<approval, result>>
        /\ \E w : Meant(w) /\ Checking!Write(w, how)
    BY <2>1, CheckMeans
  <2>3. PICK w : Meant(w) /\ Checking!Write(w, how)
    BY <2>2
  <2>4. CASE Checking!CarryOut(w)
    <3>1. checks' # <<>> /\ exact \subseteq exact'
      BY <1>1, <2>3, <2>4, CarryOutShows
    <3>. QED  BY <1>3, <2>2, <3>1 DEF Publication!Next
  <2>5. CASE UNCHANGED <<checks, exact>>
    BY <1>2, <2>2, <2>5
  <2>. QED  BY <2>3, <2>4, <2>5 DEF Checking!Write
<1>6. CASE \E p \in Publishers : Checking!SaveApproval(p)
  <2>1. PICK p \in Publishers : Checking!SaveApproval(p)
    BY <1>6
  <2>2. approval = None /\ ActorOf[p] \in Checking!Actors
    BY <1>1, <2>1 DEF CheckKnows, Checking!SaveApproval, Checking!At, Checking!Actors
  <2>3. UNCHANGED <<result, checks, exact>> /\ approval' \in {approval, ActorOf[p]}
    BY <2>1 DEF Checking!SaveApproval, Checking!remote
  <2>. QED  BY <1>2, <2>2, <2>3 DEF Publication!Next, Publication!Approve
<1>7. CASE \E p \in Publishers : Checking!Record(p)
  <2>1. PICK p \in Publishers : Checking!Record(p)
    BY <1>7
  <2>2. /\ UNCHANGED <<approval, checks, exact>> /\ result' = pr[p].check
        /\ pr[p].pc = "record"
    BY <2>1 DEF Checking!Record, Checking!remote, Checking!At
  <2>3. /\ result = None /\ pr[p].check \in exact /\ pr[p].check \in DOMAIN checks
    BY <1>1, <2>2 DEF CheckKnows, Taken, Publishing, Looking, Authorizing, Revalidating,
                      Checking!Pcs
  <2>4. pr[p].check \in Nat
    BY <1>1, <2>3, CheckRunFields
  <2>. QED  BY <2>2, <2>3, <2>4 DEF Publication!Next, Publication!Report
<1>8. CASE UNCHANGED <<approval, result, checks, exact>>
  BY <1>2, <1>8
<1>9. \/ \E p \in Publishers : Checking!Begin(p) \/ Checking!Step(p) \/ Checking!Abort(p)
      \/ Checking!Environment
  BY DEF Checking!Next
<1>. QED  BY <1>4, <1>5, <1>6, <1>7, <1>8, <1>9
     DEF Checking!Step, Checking!Environment, Checking!Begin, Checking!Abort,
         Checking!ReadPrincipal, Checking!ReadSource, Checking!Find, Checking!Compare,
         Checking!Reread, Checking!CompareAppended, Checking!RereadCompleted,
         Checking!ReadFinal, Checking!CompareFinal, Checking!Recheck, Checking!Recompare,
         Checking!SourceMoves, Checking!PermissionWithdrawn, Checking!Expire,
         Checking!records, Checking!remote

-----------------------------------------------------------------------------
(* What holds between the steps of publish_repair.                         *)

RepairLocals ==
  [pc : Repairing!Pcs, recover : BOOLEAN, object : 1..(Objects + 1), pull : Nat \cup {None}]

(* The program counters at which the local session is applied, those at    *)
(* which the git objects are published, and those after that.              *)
Applying == {"snapshot", "approve_local", "apply_local"}
Storing == {"object", "object_lost", "create_object"}
Branching == {"refresh_branch", "branch", "create_branch", "branch_made", "partial"}
Pulling == {"refresh_pull", "find_pull", "create_pull", "find_made"}
Finishing == {"final_branch", "final_pull", "final_source", "record"}
Sending == Storing \cup Branching \cup Pulling \cup Finishing

LocallyApplied == local \in {"applied", "gone"}

Exact(i) == pulls[i] = "exact"
WholeNow == branch = "ours" /\ \E i \in DOMAIN pulls : Exact(i)

(* What the holder of the lock knows at its program counter.               *)
RepairKnows(p) ==
  /\ pr[p].recover => partial # None
  /\ pr[p].pc = "source" => approval \in {None, ActorOf[p]} /\ result = None
  /\ pr[p].pc = "approve" => approval = None /\ result = None
  /\ pr[p].pc \in Applying \cup Sending => approval = ActorOf[p] /\ result = None
  /\ pr[p].pc = "apply_local" => local # "validated" /\ subject = approval
  /\ pr[p].pc \in Sending => LocallyApplied /\ subject = approval
  /\ pr[p].pc \notin Sending => pr[p].object = 1
  /\ pr[p].pc \in Storing => pr[p].object <= Objects /\ 1..(pr[p].object - 1) \subseteq objects
  /\ pr[p].pc \in Sending \ Storing => 1..Objects \subseteq objects
  /\ pr[p].pc = "partial" => "branch" \in made
  /\ pr[p].pc \in Pulling \cup Finishing => partial # None
  /\ pr[p].pc \in Finishing => pr[p].pull \in DOMAIN pulls
  /\ pr[p].pc = "final_pull" => (Exact(pr[p].pull) => whole)
  /\ pr[p].pc \in {"final_source", "record"} => whole

(* What it knows besides as long as no write was late.                     *)
RepairKnowsAll(p) ==
  /\ pr[p].pc = "create_pull" => \A i \in DOMAIN pulls : pulls[i] = "foreign"
  /\ pr[p].pc \in {"branch_made", "partial", "refresh_pull"} => drifted \subseteq {"branch"}
  /\ pr[p].pc \in {"find_made", "final_branch", "final_pull", "final_source"} =>
       drifted \subseteq {"pull"}
  /\ pr[p].pc \in {"approve"} \cup Applying \cup Storing \cup
                  {"refresh_branch", "branch", "create_branch", "find_pull", "create_pull",
                   "record"} =>
       drifted = {}

(* A write as publish_repair sends it.                                     *)
RepairWrites == [op : {"object", "branch", "pull"}, object : 0..Objects, id : Nat]

Due(w) ==
  /\ w \in RepairWrites
  /\ w.op = "object" => w.object \in 1..Objects
  /\ w.op = "branch" => 1..Objects \subseteq objects

RepairRecords ==
  /\ objects # {} \/ made # {} \/ late # {} =>
       LocallyApplied /\ approval # None /\ subject = approval
  /\ partial # None => "branch" \in made /\ partial = approval
  /\ result # None => partial # None
  /\ "branch" \in made => 1..Objects \subseteq objects
  /\ branch = "ours" => "branch" \in made
  /\ WholeNow => whole
  /\ \A w \in late : Due(w)

RepairInOrder ==
  /\ late = {}
  /\ Repairing!AtMostOnePull
  /\ drifted \in {{}, {"branch"}, {"pull"}}
  /\ source = "same" \/ result # None => drifted = {}

RepairInv ==
  /\ Repairing!TypeOK
  /\ pr \in [Publishers -> RepairLocals]
  /\ RepairRecords
  /\ \A p \in Publishers : RepairKnows(p)
  /\ lost = 0 => RepairInOrder /\ \A p \in Publishers : RepairKnowsAll(p)

-----------------------------------------------------------------------------
(* Steps of publish_repair.                                                *)

(* The types of the records, the local session and what GitHub has.        *)
RepairTyped ==
  /\ approval \in Repairing!Actors \cup {None} /\ partial \in Repairing!Actors \cup {None}
  /\ result \in DOMAIN pulls \cup {None}
  /\ local \in Repairing!LocalStates
  /\ subject \in Repairing!Actors \cup {Repairing!Outsider, None}
  /\ objects \subseteq 1..Objects /\ branch \in {"absent", "ours", "foreign"}
  /\ pulls \in Seq(Repairing!PullStates) /\ Len(pulls) <= Pulls
  /\ late \subseteq [op : {"object", "branch", "pull"}, object : 0..Objects, id : 1..LateBound]
  /\ lost \in 0..LateBound
  /\ made \subseteq {"branch", "pull"} /\ drifted \subseteq made /\ whole \in BOOLEAN

RepairRest ==
  <<approval, partial, result, local, subject, objects, branch, pulls, late, lost, made,
    drifted, whole, source, permitted, expired>>

LEMMA PullFields ==
  ASSUME pulls \in Seq(Repairing!PullStates)
  PROVE  /\ Len(pulls) \in Nat /\ DOMAIN pulls = 1..Len(pulls) /\ DOMAIN pulls \subseteq Nat
         /\ \A i \in DOMAIN pulls : pulls[i] \in Repairing!PullStates
<1>1. /\ Len(pulls) \in Nat /\ DOMAIN pulls = 1..Len(pulls)
      /\ \A i \in DOMAIN pulls : pulls[i] \in Repairing!PullStates
  BY LenProperties, ElementOfSeq
<1>. QED  BY <1>1

(* A step of the holder of the lock.                                       *)
LEMMA RepairSteps ==
  ASSUME RepairInv, NEW p \in Publishers, pr[p].pc # "idle",
         UNCHANGED <<source, permitted, expired>>, RepairTyped',
         DOMAIN pulls \subseteq DOMAIN pulls', partial # None => partial' # None,
         NEW l \in RepairLocals, l.pull \in DOMAIN pulls' \cup {None},
         pr' = [pr EXCEPT ![p] = l], lock' = IF l.pc = "idle" THEN None ELSE lock,
         RepairRecords', lost' = 0 => RepairInOrder',
         RepairKnows(p)', lost' = 0 => RepairKnowsAll(p)'
  PROVE  RepairInv'
<1>1. None \notin Publishers
  BY RepairAssumption DEF Repairing!PublishersAssumption
<1>2. /\ lock \in Publishers \cup {None}
      /\ \A q \in Publishers : pr[q].pc = "idle" <=> lock # q
      /\ pr \in [Publishers -> RepairLocals]
  BY DEF RepairInv, Repairing!TypeOK, Repairing!At
<1>3. /\ pr' \in [Publishers -> RepairLocals] /\ pr'[p] = l
      /\ lock' \in Publishers \cup {None}
      /\ \A q \in Publishers : q # p => pr[q].pc = "idle" /\ pr'[q] = pr[q]
      /\ \A q \in Publishers : pr'[q].pc = "idle" <=> lock' # q
  BY <1>1, <1>2
<1>4. \A q \in Publishers : RepairKnows(q)' /\ (lost' = 0 => RepairKnowsAll(q)')
  <2>1. ASSUME NEW q \in Publishers, q # p
        PROVE  RepairKnows(q)' /\ RepairKnowsAll(q)'
    <3>1. /\ pr'[q].pc = "idle" /\ pr'[q].object = 1
          /\ pr'[q].recover => partial' # None
      BY <1>3, <2>1 DEF RepairInv, RepairKnows, Sending, Storing, Branching, Pulling, Finishing
    <3>. QED  BY <3>1 DEF RepairKnows, RepairKnowsAll, Applying, Storing, Branching, Pulling,
                          Finishing, Sending
  <2>. QED  BY <2>1
<1>5. Repairing!TypeOK'
  BY <1>3 DEF RepairInv, RepairTyped, Repairing!TypeOK, Repairing!At, RepairLocals
<1>. QED  BY <1>3, <1>4, <1>5 DEF RepairInv

(* A step that changes nothing but what its process knows.                 *)
LEMMA QuietRepair ==
  ASSUME RepairInv, NEW p \in Publishers, pr[p].pc # "idle", UNCHANGED RepairRest,
         NEW l \in RepairLocals, l.pull \in DOMAIN pulls \cup {None},
         pr' = [pr EXCEPT ![p] = l], lock' = IF l.pc = "idle" THEN None ELSE lock,
         RepairKnows(p)', lost = 0 => RepairKnowsAll(p)'
  PROVE  RepairInv'
<1>1. RepairTyped'
  BY DEF RepairInv, Repairing!TypeOK, RepairTyped, RepairRest
<1>2. RepairRecords' /\ (lost = 0 => RepairInOrder')
  BY DEF RepairInv, RepairRest, RepairRecords, RepairInOrder, Repairing!AtMostOnePull, Due,
         LocallyApplied, WholeNow, Exact
<1>. QED  BY <1>1, <1>2, RepairSteps DEF RepairRest

LEMMA IdleRepair ==
  ASSUME NEW p \in Publishers, pr'[p] = Repairing!Idle
  PROVE  RepairKnows(p)' /\ RepairKnowsAll(p)'
BY DEF Repairing!Idle, RepairKnows, RepairKnowsAll, Applying, Storing, Branching, Pulling,
       Finishing, Sending

LEMMA RepairReturns ==
  ASSUME RepairInv, NEW p \in Publishers, pr[p].pc # "idle", UNCHANGED RepairRest,
         Repairing!Return(p)
  PROVE  RepairInv'
<1>. DEFINE l == Repairing!Idle
<1>1. l \in RepairLocals /\ l.pc = "idle" /\ l.pull = None
  BY RepairAssumption DEF Repairing!Idle, RepairLocals, Repairing!Pcs, Repairing!BoundsAssumption
<1>2. pr' = [pr EXCEPT ![p] = l] /\ lock' = None /\ pr'[p] = l
  BY DEF Repairing!Return, RepairInv
<1>3. RepairKnows(p)' /\ RepairKnowsAll(p)'
  BY <1>2, IdleRepair
<1>. HIDE DEF l
<1>. QED  BY <1>1, <1>2, <1>3, QuietRepair

LEMMA RepairGoes ==
  ASSUME RepairInv, NEW p \in Publishers, pr[p].pc # "idle", UNCHANGED RepairRest,
         NEW pc \in Repairing!Pcs \ {"idle"}, Repairing!Goto(p, pc),
         pr'[p] = [pr[p] EXCEPT !.pc = pc] => RepairKnows(p)' /\ (lost = 0 => RepairKnowsAll(p)')
  PROVE  RepairInv'
<1>. DEFINE l == [pr[p] EXCEPT !.pc = pc]
<1>1. pr[p] \in RepairLocals /\ pr[p].pull \in DOMAIN pulls \cup {None}
  BY DEF RepairInv, Repairing!TypeOK
<1>2. l \in RepairLocals /\ l.pc = pc /\ l.pull = pr[p].pull
  BY <1>1 DEF RepairLocals
<1>3. pr' = [pr EXCEPT ![p] = l] /\ pr'[p] = l /\ UNCHANGED lock
  BY DEF Repairing!Goto, RepairInv
<1>4. RepairKnows(p)' /\ (lost = 0 => RepairKnowsAll(p)')
  BY <1>3
<1>. HIDE DEF l
<1>. QED  BY <1>1, <1>2, <1>3, <1>4, QuietRepair

LEMMA RepairRequires ==
  ASSUME RepairInv, NEW p \in Publishers, pr[p].pc # "idle", UNCHANGED RepairRest,
         NEW holds \in BOOLEAN, NEW pc \in Repairing!Pcs \ {"idle"},
         Repairing!Require(p, holds, pc),
         holds /\ pr'[p] = [pr[p] EXCEPT !.pc = pc] =>
           RepairKnows(p)' /\ (lost = 0 => RepairKnowsAll(p)')
  PROVE  RepairInv'
BY RepairReturns, RepairGoes DEF Repairing!Require

(* On with the next git object, when GitHub has this one.                  *)
LEMMA NextObjectKnows ==
  ASSUME RepairInv, NEW p \in Publishers, pr[p].pc \in Storing, Repairing!NextObject(p),
         objects \subseteq objects', pr[p].object \in objects',
         UNCHANGED <<approval, partial, result, local, subject, drifted>>
  PROVE  \E l \in RepairLocals :
           /\ pr' = [pr EXCEPT ![p] = l] /\ l.pc # "idle" /\ l.pull = pr[p].pull
           /\ UNCHANGED lock
           /\ RepairKnows(p)' /\ (lost = 0 => RepairKnowsAll(p)')
<1>. DEFINE pc == IF pr[p].object = Objects THEN "refresh_branch" ELSE "object"
            l == [pr[p] EXCEPT !.object = pr[p].object + 1, !.pc = pc]
<1>1. /\ RepairKnows(p) /\ (lost = 0 => RepairKnowsAll(p))
      /\ pr[p] \in RepairLocals /\ pr \in [Publishers -> RepairLocals]
      /\ Objects \in Nat \ {0}
  BY RepairAssumption DEF RepairInv, Repairing!BoundsAssumption
<1>2. /\ approval = ActorOf[p] /\ result = None /\ LocallyApplied /\ subject = approval
      /\ pr[p].recover => partial # None
      /\ pr[p].object <= Objects /\ 1..(pr[p].object - 1) \subseteq objects
      /\ lost = 0 => drifted = {}
  BY <1>1 DEF RepairKnows, RepairKnowsAll, Sending
<1>3. pr' = [pr EXCEPT ![p] = l] /\ UNCHANGED lock /\ pr'[p] = l
  BY <1>1 DEF Repairing!NextObject
<1>4. /\ l \in RepairLocals /\ l.pc = pc /\ l.object = pr[p].object + 1
      /\ l.pull = pr[p].pull /\ l.recover = pr[p].recover
      /\ pr[p].object \in 1..(Objects + 1)
  <2>1. pr[p].object \in 1..(Objects + 1)
    BY <1>1 DEF RepairLocals
  <2>2. pr[p].object + 1 \in 1..(Objects + 1)
    BY <1>1, <1>2, <2>1
  <2>3. pc \in Repairing!Pcs
    BY DEF Repairing!Pcs
  <2>. HIDE DEF pc
  <2>. QED  BY <1>1, <2>1, <2>2, <2>3 DEF RepairLocals
<1>5. /\ 1..pr[p].object \subseteq objects'
      /\ pc = "object" => l.object <= Objects /\ 1..(l.object - 1) \subseteq objects'
      /\ pc = "refresh_branch" => 1..Objects \subseteq objects'
      /\ pc \in {"object", "refresh_branch"}
  BY <1>1, <1>2, <1>4
<1>. HIDE DEF l, pc
<1>6. RepairKnows(p)' /\ (lost = 0 => RepairKnowsAll(p)')
  BY <1>2, <1>3, <1>4, <1>5
     DEF RepairKnows, RepairKnowsAll, Applying, Storing, Branching, Pulling, Finishing, Sending,
         LocallyApplied
<1>7. l.pc # "idle"
  BY <1>4, <1>5
<1>. QED  BY <1>3, <1>4, <1>6, <1>7

(* The steps that only read.                                               *)
LEMMA RepairQuietSteps ==
  ASSUME RepairInv, NEW p \in Publishers,
         \/ Repairing!ReadPrincipal(p) \/ Repairing!ReadSource(p) \/ Repairing!ReadSnapshot(p)
         \/ Repairing!ReadObject(p) \/ Repairing!RefreshSource(p) \/ Repairing!ReadBranch(p)
         \/ Repairing!FindPull(p) \/ Repairing!ReadFinalBranch(p) \/ Repairing!ReadFinalPull(p)
         \/ Repairing!Recheck(p) \/ Repairing!Abort(p)
  PROVE  RepairInv'
<1>1. /\ Repairing!TypeOK /\ RepairRecords /\ RepairKnows(p)
      /\ lost = 0 => RepairInOrder /\ RepairKnowsAll(p)
      /\ pr[p] \in RepairLocals /\ pr \in [Publishers -> RepairLocals]
      /\ Objects \in Nat \ {0}
  BY RepairAssumption DEF RepairInv, Repairing!BoundsAssumption
<1>2. UNCHANGED RepairRest /\ pr[p].pc # "idle"
  BY DEF Repairing!ReadPrincipal, Repairing!ReadSource, Repairing!ReadSnapshot,
         Repairing!ReadObject, Repairing!RefreshSource, Repairing!ReadBranch,
         Repairing!FindPull, Repairing!ReadFinalBranch, Repairing!ReadFinalPull,
         Repairing!Recheck, Repairing!Abort, RepairRest, Repairing!At,
         Repairing!records, Repairing!session, Repairing!remote, Repairing!delivery,
         Repairing!history, Repairing!world
<1>3. CASE Repairing!ReadPrincipal(p)
  <2>. DEFINE holds == ActorOf[p] \in permitted /\ approval \in {None, ActorOf[p]}
              pc == IF result # None THEN "recheck" ELSE "source"
  <2>1. Repairing!Require(p, holds, pc) /\ pr[p].pc = "principal"
    BY <1>3 DEF Repairing!ReadPrincipal, Repairing!At
  <2>2. ASSUME holds, pr'[p] = [pr[p] EXCEPT !.pc = pc]
        PROVE  RepairKnows(p)' /\ RepairKnowsAll(p)'
    <3>1. /\ pr'[p].pc = pc /\ pr'[p].recover = pr[p].recover
          /\ pr'[p].object = pr[p].object
      BY <1>1, <2>2 DEF RepairLocals
    <3>2. pr[p].object = 1 /\ (pr[p].recover => partial # None)
      BY <1>1, <2>1 DEF RepairKnows, Sending, Storing, Branching, Pulling, Finishing
    <3>. QED  BY <1>2, <2>2, <3>1, <3>2
              DEF RepairKnows, RepairKnowsAll, RepairRest, Applying, Storing, Branching, Pulling,
                  Finishing, Sending
  <2>3. pc \in Repairing!Pcs \ {"idle"} /\ holds \in BOOLEAN
    BY DEF Repairing!Pcs
  <2>. HIDE DEF holds, pc
  <2>. QED  BY <1>2, <2>1, <2>2, <2>3, RepairRequires
<1>4. CASE Repairing!ReadSource(p)
  <2>. DEFINE holds == source = "same"
              pc == IF approval = None THEN "approve" ELSE "snapshot"
  <2>1. Repairing!Require(p, holds, pc) /\ pr[p].pc = "source"
    BY <1>4 DEF Repairing!ReadSource, Repairing!At
  <2>2. ASSUME holds, pr'[p] = [pr[p] EXCEPT !.pc = pc]
        PROVE  RepairKnows(p)' /\ (lost = 0 => RepairKnowsAll(p)')
    <3>1. /\ pr'[p].pc = pc /\ pr'[p].recover = pr[p].recover
          /\ pr'[p].object = pr[p].object
      BY <1>1, <2>2 DEF RepairLocals
    <3>2. /\ approval \in {None, ActorOf[p]} /\ result = None
          /\ lost = 0 => drifted = {}
      BY <1>1, <2>1, <2>2 DEF RepairKnows, RepairInOrder
    <3>3. pr[p].object = 1 /\ (pr[p].recover => partial # None)
      BY <1>1, <2>1 DEF RepairKnows, Sending, Storing, Branching, Pulling, Finishing
    <3>. QED  BY <1>2, <3>1, <3>2, <3>3
              DEF RepairKnows, RepairKnowsAll, RepairRest, Applying, Storing, Branching, Pulling,
                  Finishing, Sending
  <2>3. pc \in Repairing!Pcs \ {"idle"} /\ holds \in BOOLEAN
    BY DEF Repairing!Pcs
  <2>. HIDE DEF holds, pc
  <2>. QED  BY <1>2, <2>1, <2>2, <2>3, RepairRequires
<1>5. CASE Repairing!ReadSnapshot(p)
  <2>1. pr[p].pc = "snapshot" /\ approval = ActorOf[p] /\ result = None
    BY <1>1, <1>5 DEF Repairing!ReadSnapshot, Repairing!At, RepairKnows, Applying
  <2>2. \/ Repairing!Return(p)
        \/ Repairing!Goto(p, "approve_local")
        \/ Repairing!Goto(p, "apply_local") /\ local # "validated" /\ subject = ActorOf[p]
        \/ Repairing!Goto(p, "object") /\ local = "applied" /\ subject = ActorOf[p]
    BY <1>5 DEF Repairing!ReadSnapshot
  <2>3. ASSUME NEW pc \in {"approve_local", "apply_local", "object"},
               pc = "apply_local" => local # "validated" /\ subject = ActorOf[p],
               pc = "object" => local = "applied" /\ subject = ActorOf[p],
               pr'[p] = [pr[p] EXCEPT !.pc = pc]
        PROVE  RepairKnows(p)' /\ (lost = 0 => RepairKnowsAll(p)')
    <3>1. pr'[p].pc = pc /\ pr'[p].recover = pr[p].recover /\ pr'[p].object = pr[p].object
      BY <1>1, <2>3 DEF RepairLocals
    <3>2. pr[p].object = 1
      BY <1>1, <2>1 DEF RepairKnows, Applying, Sending, Storing, Branching, Pulling,
                             Finishing
    <3>3. lost = 0 => drifted = {}
      BY <1>1, <2>1 DEF RepairKnowsAll, Applying
    <3>4. 1..(1 - 1) = {} /\ 1 <= Objects
      BY <1>1
    <3>. QED  BY <1>1, <1>2, <2>1, <2>3, <3>1, <3>2, <3>3, <3>4
              DEF RepairKnows, RepairKnowsAll, RepairRest, Applying, Storing, Branching, Pulling,
                  Finishing, Sending, LocallyApplied
  <2>4. {"approve_local", "apply_local", "object"} \subseteq Repairing!Pcs \ {"idle"}
    BY DEF Repairing!Pcs
  <2>. QED  BY <1>2, <2>2, <2>3, <2>4, RepairReturns, RepairGoes
<1>6. CASE Repairing!ReadObject(p)
  <2>1. /\ pr[p].pc \in {"object", "object_lost"}
        /\ pr[p].pc \in Storing /\ pr[p].pc \in Sending
    BY <1>6 DEF Repairing!ReadObject, Sending, Storing
  <2>2. CASE Repairing!Exists(p)
    <3>1. Repairing!NextObject(p) /\ pr[p].object \in objects
      BY <1>6, <2>2 DEF Repairing!ReadObject, Repairing!Exists
    <3>2. PICK l \in RepairLocals :
            /\ pr' = [pr EXCEPT ![p] = l] /\ l.pc # "idle" /\ l.pull = pr[p].pull
            /\ UNCHANGED lock
            /\ RepairKnows(p)' /\ (lost = 0 => RepairKnowsAll(p)')
      BY <1>2, <2>1, <3>1, NextObjectKnows DEF RepairRest
    <3>3. l.pull \in DOMAIN pulls \cup {None}
      BY <1>1, <3>2 DEF Repairing!TypeOK
    <3>. QED  BY <1>2, <3>2, <3>3, QuietRepair
  <2>3. CASE ~Repairing!Exists(p)
    <3>. DEFINE holds == pr[p].pc = "object"
    <3>1. Repairing!Require(p, holds, "create_object")
      BY <1>6, <2>3 DEF Repairing!ReadObject, Repairing!At
    <3>2. ASSUME holds, pr'[p] = [pr[p] EXCEPT !.pc = "create_object"]
          PROVE  RepairKnows(p)' /\ (lost = 0 => RepairKnowsAll(p)')
      <4>1. /\ pr'[p].pc = "create_object" /\ pr'[p].recover = pr[p].recover
            /\ pr'[p].object = pr[p].object
        BY <1>1, <3>2 DEF RepairLocals
      <4>2. /\ approval = ActorOf[p] /\ result = None /\ LocallyApplied /\ subject = approval
            /\ pr[p].object <= Objects /\ 1..(pr[p].object - 1) \subseteq objects
            /\ pr[p].recover => partial # None
            /\ lost = 0 => drifted = {}
        BY <1>1, <2>1 DEF RepairKnows, RepairKnowsAll
      <4>. QED  BY <1>2, <4>1, <4>2
                DEF RepairKnows, RepairKnowsAll, RepairRest, Applying, Storing, Branching,
                    Pulling, Finishing, Sending, LocallyApplied
    <3>3. "create_object" \in Repairing!Pcs \ {"idle"} /\ holds \in BOOLEAN
      BY DEF Repairing!Pcs, Repairing!WritingPcs
    <3>. HIDE DEF holds
    <3>. QED  BY <1>2, <3>1, <3>2, <3>3, RepairRequires
  <2>. QED  BY <2>2, <2>3
<1>7. CASE Repairing!RefreshSource(p)
  <2>. DEFINE holds == source = "same"
              pc == CASE pr[p].pc = "refresh_branch" -> "branch"
                      [] pr[p].pc = "refresh_pull"   -> "find_pull"
                      [] pr[p].pc = "final_source"   -> "record"
  <2>1. /\ pr[p].pc \in {"refresh_branch", "refresh_pull", "final_source"}
        /\ Repairing!Require(p, holds, pc)
    BY <1>7 DEF Repairing!RefreshSource, Repairing!At
  <2>2. /\ pr[p].pc \in Sending \ Storing
        /\ pr[p].pc = "refresh_branch" => pc = "branch"
        /\ pr[p].pc = "refresh_pull" => pc = "find_pull" /\ pr[p].pc \in Pulling
        /\ pr[p].pc = "final_source" => pc = "record" /\ pr[p].pc \in Finishing
    BY <2>1 DEF Sending, Storing, Branching, Pulling, Finishing
  <2>3. ASSUME holds, pr'[p] = [pr[p] EXCEPT !.pc = pc]
        PROVE  RepairKnows(p)' /\ (lost = 0 => RepairKnowsAll(p)')
    <3>1. /\ pr'[p].pc = pc /\ pr'[p].recover = pr[p].recover
          /\ pr'[p].object = pr[p].object /\ pr'[p].pull = pr[p].pull
      BY <1>1, <2>3 DEF RepairLocals
    <3>2. /\ approval = ActorOf[p] /\ result = None /\ LocallyApplied /\ subject = approval
          /\ 1..Objects \subseteq objects
          /\ pr[p].recover => partial # None
      BY <1>1, <2>2 DEF RepairKnows
    <3>3. /\ pc \in {"find_pull", "record"} => partial # None
          /\ pc = "record" => whole /\ pr[p].pull \in DOMAIN pulls
      BY <1>1, <2>1, <2>2 DEF RepairKnows
    <3>4. lost = 0 => drifted = {}
      BY <1>1, <2>3 DEF RepairInOrder
    <3>5. pc \in {"branch", "find_pull", "record"}
      BY <2>1, <2>2
    <3>. HIDE DEF pc
    <3>. QED  BY <1>2, <3>1, <3>2, <3>3, <3>4, <3>5
              DEF RepairKnows, RepairKnowsAll, RepairRest, Applying, Storing, Branching,
                  Pulling, Finishing, Sending, LocallyApplied
  <2>4. pc \in Repairing!Pcs \ {"idle"} /\ holds \in BOOLEAN
    BY <2>1, <2>2 DEF Repairing!Pcs
  <2>. HIDE DEF holds, pc
  <2>. QED  BY <1>2, <2>1, <2>3, <2>4, RepairRequires
<1>8. CASE Repairing!ReadBranch(p)
  <2>1. /\ pr[p].pc \in {"branch", "branch_made"} /\ pr[p].pc \in Sending \ Storing
    BY <1>8 DEF Repairing!ReadBranch, Sending, Storing, Branching, Pulling, Finishing
  <2>2. \/ Repairing!Return(p)
        \/ Repairing!Goto(p, "partial") /\ branch = "ours"
        \/ Repairing!Goto(p, "refresh_pull") /\ partial # None
        \/ Repairing!Goto(p, "create_branch") /\ pr[p].pc = "branch"
    BY <1>8 DEF Repairing!ReadBranch, Repairing!At
  <2>3. ASSUME NEW pc \in {"partial", "refresh_pull", "create_branch"},
               pc = "partial" => branch = "ours",
               pc = "refresh_pull" => partial # None,
               pc = "create_branch" => pr[p].pc = "branch",
               pr'[p] = [pr[p] EXCEPT !.pc = pc]
        PROVE  RepairKnows(p)' /\ (lost = 0 => RepairKnowsAll(p)')
    <3>1. pr'[p].pc = pc /\ pr'[p].recover = pr[p].recover
      BY <1>1, <2>3 DEF RepairLocals
    <3>2. /\ approval = ActorOf[p] /\ result = None /\ LocallyApplied /\ subject = approval
          /\ 1..Objects \subseteq objects
          /\ pr[p].recover => partial # None
      BY <1>1, <2>1 DEF RepairKnows
    <3>3. /\ pc = "partial" => "branch" \in made
          /\ lost = 0 => drifted \subseteq {"branch"}
          /\ lost = 0 /\ pc = "create_branch" => drifted = {}
      BY <1>1, <2>1, <2>3 DEF RepairRecords, RepairKnowsAll
    <3>. QED  BY <1>2, <2>3, <3>1, <3>2, <3>3
              DEF RepairKnows, RepairKnowsAll, RepairRest, Applying, Storing, Branching,
                  Pulling, Finishing, Sending, LocallyApplied
  <2>4. {"partial", "refresh_pull", "create_branch"} \subseteq Repairing!Pcs \ {"idle"}
    BY DEF Repairing!Pcs, Repairing!WritingPcs
  <2>. QED  BY <1>2, <2>2, <2>3, <2>4, RepairReturns, RepairGoes
<1>9. CASE Repairing!FindPull(p)
  <2>1. /\ pr[p].pc \in {"find_pull", "find_made"}
        /\ pr[p].pc \in Sending \ Storing /\ pr[p].pc \in Pulling
    BY <1>9 DEF Repairing!FindPull, Sending, Storing, Branching, Pulling, Finishing
  <2>2. /\ approval = ActorOf[p] /\ result = None /\ LocallyApplied /\ subject = approval
        /\ 1..Objects \subseteq objects /\ partial # None
        /\ lost = 0 => drifted \subseteq {"pull"}
        /\ lost = 0 /\ pr[p].pc = "find_pull" => drifted = {}
    BY <1>1, <2>1 DEF RepairKnows, RepairKnowsAll
  <2>3. CASE pulls = <<>>
    <3>. DEFINE holds == pr[p].pc = "find_pull"
    <3>1. Repairing!Require(p, holds, "create_pull")
      BY <1>9, <2>3 DEF Repairing!FindPull, Repairing!At
    <3>2. ASSUME holds, pr'[p] = [pr[p] EXCEPT !.pc = "create_pull"]
          PROVE  RepairKnows(p)' /\ (lost = 0 => RepairKnowsAll(p)')
      <4>1. pr'[p].pc = "create_pull" /\ pr'[p].recover = pr[p].recover
        BY <1>1, <3>2 DEF RepairLocals
      <4>. QED  BY <1>2, <2>2, <2>3, <3>2, <4>1
                DEF RepairKnows, RepairKnowsAll, RepairRest, Applying, Storing, Branching,
                    Pulling, Finishing, Sending, LocallyApplied
    <3>3. "create_pull" \in Repairing!Pcs \ {"idle"} /\ holds \in BOOLEAN
      BY DEF Repairing!Pcs, Repairing!WritingPcs
    <3>. HIDE DEF holds
    <3>. QED  BY <1>2, <3>1, <3>2, <3>3, RepairRequires
  <2>4. CASE pulls = <<"exact">>
    <3>. DEFINE l == [pr[p] EXCEPT !.pc = "final_branch", !.pull = 1]
    <3>1. pr' = [pr EXCEPT ![p] = l] /\ UNCHANGED lock /\ pr'[p] = l
      BY <1>1, <1>9, <2>4 DEF Repairing!FindPull
    <3>2. l \in RepairLocals /\ l.pc = "final_branch" /\ l.pull = 1 /\ l.recover = pr[p].recover
      BY <1>1 DEF RepairLocals, Repairing!Pcs
    <3>3. 1 \in DOMAIN pulls
      BY <2>4
    <3>. HIDE DEF l
    <3>4. RepairKnows(p)' /\ (lost = 0 => RepairKnowsAll(p)')
      BY <1>2, <2>2, <3>1, <3>2, <3>3
         DEF RepairKnows, RepairKnowsAll, RepairRest, Applying, Storing, Branching,
             Pulling, Finishing, Sending, LocallyApplied
    <3>. QED  BY <1>2, <3>1, <3>2, <3>3, <3>4, QuietRepair
  <2>5. CASE pulls \notin {<<>>, <<"exact">>}
    <3>1. Repairing!Return(p)
      BY <1>9, <2>5 DEF Repairing!FindPull
    <3>. QED  BY <1>2, <3>1, RepairReturns
  <2>. QED  BY <2>3, <2>4, <2>5
<1>10. CASE Repairing!ReadFinalBranch(p) \/ Repairing!ReadFinalPull(p)
  <2>. DEFINE holds == IF pr[p].pc = "final_branch" THEN branch = "ours"
                       ELSE pulls[pr[p].pull] = "exact"
              pc == IF pr[p].pc = "final_branch" THEN "final_pull" ELSE "final_source"
  <2>1. /\ pr[p].pc \in {"final_branch", "final_pull"} /\ Repairing!Require(p, holds, pc)
        /\ pr[p].pc \in Sending \ Storing /\ pr[p].pc \in Finishing
    BY <1>10 DEF Repairing!ReadFinalBranch, Repairing!ReadFinalPull, Repairing!At,
                 Sending, Storing, Branching, Pulling, Finishing
  <2>2. ASSUME holds, pr'[p] = [pr[p] EXCEPT !.pc = pc]
        PROVE  RepairKnows(p)' /\ (lost = 0 => RepairKnowsAll(p)')
    <3>1. /\ pr'[p].pc = pc /\ pr'[p].recover = pr[p].recover /\ pr'[p].pull = pr[p].pull
          /\ pc \in {"final_pull", "final_source"}
      BY <1>1, <2>2 DEF RepairLocals
    <3>2. /\ approval = ActorOf[p] /\ result = None /\ LocallyApplied /\ subject = approval
          /\ 1..Objects \subseteq objects /\ partial # None
          /\ pr[p].pull \in DOMAIN pulls
          /\ lost = 0 => drifted \subseteq {"pull"}
      BY <1>1, <2>1 DEF RepairKnows, RepairKnowsAll
    <3>3. /\ pc = "final_pull" => (Exact(pr[p].pull) => whole)
          /\ pc = "final_source" => whole
      BY <1>1, <2>1, <2>2, <3>2 DEF RepairKnows, RepairRecords, WholeNow, Exact
    <3>. HIDE DEF pc
    <3>. QED  BY <1>2, <3>1, <3>2, <3>3
              DEF RepairKnows, RepairKnowsAll, RepairRest, Applying, Storing, Branching,
                  Pulling, Finishing, Sending, LocallyApplied, Exact
  <2>3. pc \in Repairing!Pcs \ {"idle"} /\ holds \in BOOLEAN
    BY DEF Repairing!Pcs
  <2>. HIDE DEF holds, pc
  <2>. QED  BY <1>2, <2>1, <2>2, <2>3, RepairRequires
<1>11. CASE Repairing!Recheck(p) \/ Repairing!Abort(p)
  <2>1. Repairing!Return(p)
    BY <1>11 DEF Repairing!Recheck, Repairing!Abort
  <2>. QED  BY <1>2, <2>1, RepairReturns
<1>. QED  BY <1>3, <1>4, <1>5, <1>6, <1>7, <1>8, <1>9, <1>10, <1>11

(* The holder of the lock leaves after it has changed something.           *)
LEMMA RepairLeaves ==
  ASSUME RepairInv, NEW p \in Publishers, pr[p].pc # "idle",
         UNCHANGED <<source, permitted, expired>>, RepairTyped',
         DOMAIN pulls \subseteq DOMAIN pulls', partial # None => partial' # None,
         RepairRecords', lost' = 0 => RepairInOrder', Repairing!Return(p)
  PROVE  RepairInv'
<1>. DEFINE l == Repairing!Idle
<1>1. l \in RepairLocals /\ l.pc = "idle" /\ l.pull = None
  BY RepairAssumption
     DEF Repairing!Idle, RepairLocals, Repairing!Pcs, Repairing!BoundsAssumption
<1>2. pr' = [pr EXCEPT ![p] = l] /\ lock' = None /\ pr'[p] = l
  BY DEF Repairing!Return, RepairInv
<1>3. RepairKnows(p)' /\ RepairKnowsAll(p)'
  BY <1>2, IdleRepair
<1>. HIDE DEF l
<1>. QED  BY <1>1, <1>2, <1>3, RepairSteps

(* The holder of the lock goes on or leaves after it has changed something.*)
LEMMA RepairMoves ==
  ASSUME RepairInv, NEW p \in Publishers, pr[p].pc # "idle",
         UNCHANGED <<source, permitted, expired>>, RepairTyped',
         DOMAIN pulls \subseteq DOMAIN pulls', partial # None => partial' # None,
         RepairRecords', lost' = 0 => RepairInOrder',
         NEW pc \in Repairing!Pcs \ {"idle"}, Repairing!Goto(p, pc) \/ Repairing!Return(p),
         Repairing!Goto(p, pc) /\ pr'[p] = [pr[p] EXCEPT !.pc = pc] =>
           RepairKnows(p)' /\ (lost' = 0 => RepairKnowsAll(p)')
  PROVE  RepairInv'
<1>1. /\ pr[p] \in RepairLocals /\ pr \in [Publishers -> RepairLocals]
      /\ pr[p].pull \in DOMAIN pulls \cup {None}
  BY DEF RepairInv, Repairing!TypeOK
<1>2. CASE Repairing!Goto(p, pc)
  <2>. DEFINE l == [pr[p] EXCEPT !.pc = pc]
  <2>1. l \in RepairLocals /\ l.pc = pc /\ l.pull = pr[p].pull
    BY <1>1 DEF RepairLocals
  <2>2. pr' = [pr EXCEPT ![p] = l] /\ pr'[p] = l /\ UNCHANGED lock
    BY <1>1, <1>2 DEF Repairing!Goto
  <2>3. RepairKnows(p)' /\ (lost' = 0 => RepairKnowsAll(p)')
    BY <1>2, <2>2
  <2>. HIDE DEF l
  <2>. QED  BY <1>1, <2>1, <2>2, <2>3, RepairSteps
<1>3. CASE Repairing!Return(p)
  BY <1>3, RepairLeaves
<1>. QED  BY <1>2, <1>3

(* The approval, the partial and the final record are saved.               *)
LEMMA RepairSaves ==
  ASSUME RepairInv, NEW p \in Publishers,
         \/ Repairing!SaveApproval(p) \/ Repairing!RecordPartial(p) \/ Repairing!Record(p)
  PROVE  RepairInv'
<1>1. /\ Repairing!TypeOK /\ RepairTyped /\ RepairRecords /\ RepairKnows(p)
      /\ lost = 0 => RepairInOrder /\ RepairKnowsAll(p)
      /\ pr[p] \in RepairLocals
  BY DEF RepairInv, Repairing!TypeOK, RepairTyped
<1>2. ActorOf[p] \in Repairing!Actors /\ ActorOf[p] # None
  BY RepairAssumption DEF Repairing!PublishersAssumption, Repairing!Actors
<1>3. /\ UNCHANGED <<local, subject, objects, branch, pulls, late, lost, made, drifted, whole,
                     source, permitted, expired>>
      /\ pr[p].pc # "idle"
  BY DEF Repairing!SaveApproval, Repairing!RecordPartial, Repairing!Record, Repairing!session,
         Repairing!remote, Repairing!delivery, Repairing!history, Repairing!world,
         Repairing!At
<1>4. CASE Repairing!SaveApproval(p)
  <2>1. pr[p].pc = "approve" /\ UNCHANGED <<partial, result>>
    BY <1>4 DEF Repairing!SaveApproval, Repairing!At
  <2>2. /\ approval = None /\ result = None /\ pr[p].object = 1
        /\ pr[p].recover => partial # None
        /\ lost = 0 => drifted = {}
    BY <1>1, <2>1 DEF RepairKnows, RepairKnowsAll, Sending, Storing, Branching, Pulling,
                      Finishing
  <2>3. CASE UNCHANGED approval
    <3>1. Repairing!Return(p)
      BY <1>2, <1>4, <2>2, <2>3 DEF Repairing!SaveApproval
    <3>. QED  BY <1>3, <2>1, <2>3, <3>1, RepairReturns DEF RepairRest
  <2>4. CASE approval' # approval
    <3>1. approval' = ActorOf[p] /\ (Repairing!Goto(p, "snapshot") \/ Repairing!Return(p))
      BY <1>4, <2>4 DEF Repairing!SaveApproval
    <3>2. RepairTyped'
      BY <1>1, <1>2, <1>3, <2>1, <3>1 DEF RepairTyped
    <3>3. RepairRecords' /\ (lost' = 0 => RepairInOrder')
      BY <1>1, <1>2, <1>3, <2>1, <2>2, <3>1
         DEF RepairRecords, RepairInOrder, Repairing!AtMostOnePull, Due, LocallyApplied,
             WholeNow, Exact
    <3>4. ASSUME pr'[p] = [pr[p] EXCEPT !.pc = "snapshot"]
          PROVE  RepairKnows(p)' /\ (lost' = 0 => RepairKnowsAll(p)')
      <4>1. /\ pr'[p].pc = "snapshot" /\ pr'[p].recover = pr[p].recover
            /\ pr'[p].object = pr[p].object
        BY <1>1, <3>4 DEF RepairLocals
      <4>. QED  BY <1>3, <2>1, <2>2, <3>1, <4>1
                DEF RepairKnows, RepairKnowsAll, Applying, Storing, Branching, Pulling,
                    Finishing, Sending
    <3>5. "snapshot" \in Repairing!Pcs \ {"idle"}
      BY DEF Repairing!Pcs
    <3>. QED  BY <1>3, <2>1, <3>1, <3>2, <3>3, <3>4, <3>5, RepairMoves
  <2>. QED  BY <2>3, <2>4
<1>5. CASE Repairing!RecordPartial(p)
  <2>1. /\ pr[p].pc = "partial" /\ UNCHANGED <<approval, result>> /\ partial' = ActorOf[p]
        /\ pr[p].pc \in Sending \ Storing
        /\ Repairing!Goto(p, "refresh_pull") \/ Repairing!Return(p)
    BY <1>5 DEF Repairing!RecordPartial, Repairing!At, Sending, Storing, Branching, Pulling,
                Finishing
  <2>2. /\ approval = ActorOf[p] /\ result = None /\ LocallyApplied /\ subject = approval
        /\ 1..Objects \subseteq objects /\ "branch" \in made
        /\ lost = 0 => drifted \subseteq {"branch"}
    BY <1>1, <2>1 DEF RepairKnows, RepairKnowsAll
  <2>3. RepairTyped'
    BY <1>1, <1>2, <1>3, <2>1 DEF RepairTyped
  <2>4. RepairRecords' /\ (lost' = 0 => RepairInOrder')
    BY <1>1, <1>2, <1>3, <2>1, <2>2
       DEF RepairRecords, RepairInOrder, Repairing!AtMostOnePull, Due, LocallyApplied,
           WholeNow, Exact
  <2>5. ASSUME pr'[p] = [pr[p] EXCEPT !.pc = "refresh_pull"]
        PROVE  RepairKnows(p)' /\ (lost' = 0 => RepairKnowsAll(p)')
    <3>1. pr'[p].pc = "refresh_pull" /\ pr'[p].recover = pr[p].recover
      BY <1>1, <2>5 DEF RepairLocals
    <3>. QED  BY <1>2, <1>3, <2>1, <2>2, <3>1
              DEF RepairKnows, RepairKnowsAll, Applying, Storing, Branching, Pulling,
                  Finishing, Sending, LocallyApplied
  <2>6. "refresh_pull" \in Repairing!Pcs \ {"idle"}
    BY DEF Repairing!Pcs
  <2>. QED  BY <1>2, <1>3, <2>1, <2>3, <2>4, <2>5, <2>6, RepairMoves
<1>6. CASE Repairing!Record(p)
  <2>1. /\ pr[p].pc = "record" /\ UNCHANGED <<approval, partial>> /\ result' = pr[p].pull
        /\ pr[p].pc \in Pulling \cup Finishing /\ pr[p].pc \in Finishing
        /\ Repairing!Return(p)
    BY <1>6 DEF Repairing!Record, Repairing!At, Finishing
  <2>2. /\ partial # None /\ pr[p].pull \in DOMAIN pulls
        /\ lost = 0 => drifted = {}
    BY <1>1, <2>1 DEF RepairKnows, RepairKnowsAll
  <2>3. RepairTyped'
    BY <1>1, <1>3, <2>1, <2>2 DEF RepairTyped
  <2>4. RepairRecords' /\ (lost' = 0 => RepairInOrder')
    BY <1>1, <1>3, <2>1, <2>2
       DEF RepairRecords, RepairInOrder, Repairing!AtMostOnePull, Due, LocallyApplied,
           WholeNow, Exact
  <2>. QED  BY <1>1, <1>3, <2>1, <2>3, <2>4, RepairLeaves
<1>. QED  BY <1>4, <1>5, <1>6

(* The local session is approved and applied.                              *)
LEMMA RepairAppliesLocally ==
  ASSUME RepairInv, NEW p \in Publishers,
         Repairing!ApproveLocal(p) \/ Repairing!ApplyLocal(p)
  PROVE  RepairInv'
<1>. DEFINE next == IF pr[p].pc = "approve_local" THEN "apply_local" ELSE "object"
<1>1. /\ Repairing!TypeOK /\ RepairTyped /\ RepairRecords /\ RepairKnows(p)
      /\ lost = 0 => RepairInOrder /\ RepairKnowsAll(p)
      /\ pr[p] \in RepairLocals
      /\ Objects \in Nat \ {0}
  BY RepairAssumption DEF RepairInv, Repairing!TypeOK, RepairTyped, Repairing!BoundsAssumption
<1>2. ActorOf[p] \in Repairing!Actors /\ ActorOf[p] # None
  BY RepairAssumption DEF Repairing!PublishersAssumption, Repairing!Actors
<1>3. /\ UNCHANGED <<approval, partial, result, objects, branch, pulls, late, lost, made,
                     drifted, whole, source, permitted, expired>>
      /\ pr[p].pc \in {"approve_local", "apply_local"}
  BY DEF Repairing!ApproveLocal, Repairing!ApplyLocal, Repairing!records,
         Repairing!remote, Repairing!delivery, Repairing!history, Repairing!world,
         Repairing!At
<1>4. /\ approval = ActorOf[p] /\ result = None /\ pr[p].object = 1
      /\ pr[p].recover => partial # None
      /\ pr[p].pc = "apply_local" => subject = approval
      /\ lost = 0 => drifted = {}
  BY <1>1, <1>3 DEF RepairKnows, RepairKnowsAll, Applying, Sending, Storing, Branching, Pulling,
                    Finishing
<1>5. CASE UNCHANGED <<local, subject>> /\ Repairing!Return(p)
  BY <1>3, <1>5, RepairReturns DEF RepairRest
<1>6. CASE ~(UNCHANGED <<local, subject>> /\ Repairing!Return(p))
  <2>1. /\ local \in {"validated", "approved"} /\ local' \in Repairing!LocalStates
        /\ subject' = ActorOf[p]
        /\ Repairing!Goto(p, next) \/ Repairing!Return(p)
        /\ Repairing!Goto(p, next) =>
             local' = (IF pr[p].pc = "approve_local" THEN "approved" ELSE "applied")
    <3>1. CASE Repairing!ApproveLocal(p)
      BY <1>6, <3>1 DEF Repairing!ApproveLocal, Repairing!At, Repairing!session,
                        Repairing!LocalStates
    <3>2. CASE Repairing!ApplyLocal(p)
      <4>1. pr[p].pc = "apply_local" /\ UNCHANGED subject
        BY <3>2 DEF Repairing!ApplyLocal, Repairing!At
      <4>2. CASE local' = "applied" /\ (Repairing!Goto(p, "object") \/ Repairing!Return(p))
        BY <1>4, <1>6, <3>2, <4>1, <4>2 DEF Repairing!ApplyLocal, Repairing!LocalStates
      <4>3. CASE local' \in {"applying", "closed"} /\ Repairing!Return(p)
        <5>1. ~Repairing!Goto(p, next)
          <6>1. Repairing!Return(p) => pr'[p].pc = "idle"
            BY DEF RepairInv, Repairing!Return, Repairing!Idle
          <6>2. Repairing!Goto(p, next) => pr'[p].pc = next
            BY DEF RepairInv, Repairing!Goto, RepairLocals
          <6>. QED  BY <4>3, <6>1, <6>2
        <5>. QED  BY <1>4, <1>6, <3>2, <4>1, <4>3, <5>1
                  DEF Repairing!ApplyLocal, Repairing!LocalStates
      <4>. QED  BY <1>6, <3>2, <4>1, <4>2, <4>3 DEF Repairing!ApplyLocal
    <3>. QED  BY <3>1, <3>2
  <2>2. objects = {} /\ made = {} /\ late = {} /\ partial = None
    BY <1>1, <2>1 DEF RepairRecords, LocallyApplied
  <2>3. RepairTyped'
    BY <1>1, <1>2, <1>3, <2>1 DEF RepairTyped
  <2>4. RepairRecords' /\ (lost' = 0 => RepairInOrder')
    BY <1>1, <1>3, <2>2
       DEF RepairRecords, RepairInOrder, Repairing!AtMostOnePull, Due, WholeNow, Exact
  <2>5. ASSUME Repairing!Goto(p, next), pr'[p] = [pr[p] EXCEPT !.pc = next]
        PROVE  RepairKnows(p)' /\ (lost' = 0 => RepairKnowsAll(p)')
    <3>1. /\ pr'[p].pc = next /\ pr'[p].recover = pr[p].recover
          /\ pr'[p].object = pr[p].object
      BY <1>1, <2>5 DEF RepairLocals
    <3>2. 1..(1 - 1) = {} /\ 1 <= Objects
      BY <1>1
    <3>. QED  BY <1>3, <1>4, <2>1, <2>5, <3>1, <3>2
              DEF RepairKnows, RepairKnowsAll, Applying, Storing, Branching, Pulling,
                  Finishing, Sending, LocallyApplied
  <2>6. next \in Repairing!Pcs \ {"idle"}
    BY DEF Repairing!Pcs
  <2>. HIDE DEF next
  <2>. QED  BY <1>3, <2>1, <2>3, <2>4, <2>5, <2>6, RepairMoves
<1>. QED  BY <1>5, <1>6

-----------------------------------------------------------------------------
(* Writes of publish_repair.                                               *)

(* What is on GitHub only grows by a write, and the branch is created for  *)
(* objects that are there.                                                 *)
Advanced ==
  /\ objects \subseteq objects' /\ made \subseteq made' /\ (whole => whole')
  /\ DOMAIN pulls \subseteq DOMAIN pulls'
  /\ \A i \in DOMAIN pulls : pulls'[i] = pulls[i]
  /\ objects' \subseteq 1..Objects /\ branch' \in {"absent", "ours", "foreign"}
  /\ pulls' \in Seq(Repairing!PullStates) /\ Len(pulls') <= Pulls
  /\ made' \subseteq {"branch", "pull"} /\ drifted' \subseteq made' /\ whole' \in BOOLEAN
  /\ "branch" \in made' => 1..Objects \subseteq objects'
  /\ branch' = "ours" => "branch" \in made'
  /\ WholeNow' => whole'

LEMMA RepairCarryOut ==
  ASSUME RepairTyped, RepairRecords, NEW w, Due(w), Repairing!CarryOut(w)
  PROVE  /\ Advanced
         /\ w.op = "object" => w.object \in objects' /\ drifted' = drifted
         /\ w.op # "pull" => pulls' = pulls
         /\ w.op = "branch" => drifted' \subseteq drifted \cup {"branch"}
         /\ w.op = "pull" =>
              /\ drifted' \subseteq drifted \cup {"pull"}
              /\ pulls' = pulls \/ pulls' = Append(pulls, "exact")
              /\ ~Repairing!Refused(w) => pulls' = Append(pulls, "exact")
         /\ source = "same" => drifted' = drifted
<1>. DEFINE shows == \/ w.op = "branch" /\ branch = "absent"
                     \/ w.op = "pull" /\ Repairing!CanOpenPull /\ Len(pulls) < Pulls
<1>1. /\ objects' = IF w.op = "object" THEN objects \cup {w.object} ELSE objects
      /\ branch' = IF w.op = "branch" /\ shows THEN "ours" ELSE branch
      /\ pulls' = IF w.op = "pull" /\ shows THEN Append(pulls, "exact") ELSE pulls
      /\ made' = IF shows THEN made \cup {w.op} ELSE made
      /\ drifted' = IF shows /\ source = "moved" THEN drifted \cup {w.op} ELSE drifted
      /\ whole' = \/ whole
                  \/ branch' = "ours" /\ \E i \in DOMAIN pulls' : pulls'[i] = "exact"
  BY DEF Repairing!CarryOut
<1>2. Pulls \in Nat /\ w.op \in {"object", "branch", "pull"}
  BY RepairAssumption DEF Repairing!BoundsAssumption, Due, RepairWrites
<1>3. /\ pulls \in Seq(Repairing!PullStates) /\ Len(pulls) \in Nat
      /\ DOMAIN pulls = 1..Len(pulls) /\ Len(pulls) <= Pulls
  BY PullFields DEF RepairTyped
<1>4. /\ DOMAIN pulls \subseteq DOMAIN pulls'
      /\ \A i \in DOMAIN pulls : pulls'[i] = pulls[i]
      /\ pulls' \in Seq(Repairing!PullStates) /\ Len(pulls') <= Pulls
  <2>1. CASE w.op = "pull" /\ shows
    <3>1. pulls' = Append(pulls, "exact") /\ "exact" \in Repairing!PullStates
      BY <1>1, <2>1 DEF Repairing!PullStates
    <3>2. /\ pulls' \in Seq(Repairing!PullStates) /\ Len(pulls') = Len(pulls) + 1
          /\ \A i \in 1..Len(pulls) : pulls'[i] = pulls[i]
      BY <1>3, <3>1, AppendProperties
    <3>3. DOMAIN pulls' = 1..(Len(pulls) + 1)
      BY <3>2, LenProperties
    <3>4. Len(pulls) < Pulls
      BY <2>1
    <3>. QED  BY <1>2, <1>3, <3>2, <3>3, <3>4
  <2>2. CASE ~(w.op = "pull" /\ shows)
    BY <1>1, <1>3, <2>2
  <2>. QED  BY <2>1, <2>2
<1>5. /\ objects \subseteq objects' /\ objects' \subseteq 1..Objects
      /\ w.op = "object" => w.object \in objects'
  BY <1>1 DEF Due, RepairTyped
<1>6. /\ made \subseteq made' /\ (whole => whole')
      /\ branch' \in {"absent", "ours", "foreign"}
      /\ made' \subseteq {"branch", "pull"} /\ drifted' \subseteq made' /\ whole' \in BOOLEAN
      /\ WholeNow' => whole'
  BY <1>1, <1>2 DEF RepairTyped, WholeNow, Exact
<1>7. /\ "branch" \in made' => 1..Objects \subseteq objects'
      /\ branch' = "ours" => "branch" \in made'
  BY <1>1, <1>2, <1>5 DEF RepairRecords, Due
<1>8. Advanced
  BY <1>4, <1>5, <1>6, <1>7 DEF Advanced
<1>9. w.op = "pull" /\ ~Repairing!Refused(w) => shows
  BY DEF Repairing!Refused
<1>. QED  BY <1>1, <1>5, <1>8, <1>9

LEMMA RepairWrite ==
  ASSUME RepairTyped, RepairRecords, NEW w, Due(w), NEW how, Repairing!Write(w, how)
  PROVE  /\ Advanced
         /\ late' \subseteq [op : {"object", "branch", "pull"}, object : 0..Objects,
                             id : 1..LateBound]
         /\ \A v \in late' : Due(v)'
         /\ lost' \in 0..LateBound
         /\ lost' = 0 => lost = 0 /\ late' = late
         /\ how \in {"answered", "unanswered"} => Repairing!CarryOut(w)
         /\ how \notin {"answered", "unanswered"} =>
              UNCHANGED <<objects, branch, pulls, made, drifted, whole>>
<1>. LateBound \in Nat
  BY RepairAssumption DEF Repairing!BoundsAssumption
<1>1. Advanced
  <2>1. CASE Repairing!CarryOut(w)
    BY <2>1, RepairCarryOut
  <2>2. CASE UNCHANGED <<objects, branch, pulls, made, drifted, whole>>
    BY <2>2 DEF Advanced, RepairTyped, RepairRecords, WholeNow, Exact
  <2>. QED  BY <2>1, <2>2 DEF Repairing!Write, Repairing!remote, Repairing!history
<1>2. \A v : Due(v) => Due(v)'
  BY <1>1 DEF Due, Advanced
<1>3. CASE how = "late"
  <2>. PICK u : u = [w EXCEPT !.id = lost + 1]
    OBVIOUS
  <2>1. lost' = lost + 1 /\ late' = late \cup {u} /\ lost < LateBound /\ lost \in Nat
    BY <1>3 DEF Repairing!Write, RepairTyped
  <2>2. lost + 1 \in 1..LateBound
    BY <2>1
  <2>3. /\ Due(u)
        /\ u \in [op : {"object", "branch", "pull"}, object : 0..Objects, id : 1..LateBound]
    BY <2>2 DEF Due, RepairWrites
  <2>4. \A v \in late : Due(v)
    BY DEF RepairRecords
  <2>. QED  BY <1>1, <1>2, <1>3, <2>1, <2>2, <2>3, <2>4
            DEF Repairing!Write, RepairTyped, Repairing!remote, Repairing!history
<1>4. CASE how # "late"
  BY <1>1, <1>2, <1>4 DEF Repairing!Write, Repairing!delivery, RepairTyped, RepairRecords,
                          Repairing!remote, Repairing!history
<1>. QED  BY <1>3, <1>4

(* What is kept by a write that an approved publication sends or has sent. *)
LEMMA RepairAdvances ==
  ASSUME RepairTyped, RepairRecords, Advanced, UNCHANGED <<approval, partial, result, local, subject>>,
         LocallyApplied, approval # None, subject = approval,
         \A v \in late' : Due(v)'
  PROVE  /\ RepairRecords'
         /\ late' \subseteq [op : {"object", "branch", "pull"}, object : 0..Objects,
                             id : 1..LateBound] /\ lost' \in 0..LateBound => RepairTyped'
BY DEF RepairTyped, RepairRecords, Advanced, LocallyApplied

(* A git object, the branch and the pull request are created.              *)
LEMMA RepairSends ==
  ASSUME RepairInv, NEW p \in Publishers, NEW how,
         \/ Repairing!CreateObject(p, how) \/ Repairing!CreateBranch(p, how)
         \/ Repairing!CreatePull(p, how)
  PROVE  RepairInv'
<1>. DEFINE w == CASE pr[p].pc = "create_object" -> Repairing!ObjectWrite(pr[p].object)
                   [] pr[p].pc = "create_branch" -> Repairing!BranchWrite
                   [] OTHER -> Repairing!PullWrite
            known == \/ pr[p].pc = "create_object" /\ how = "answered"
                     \/ pr[p].pc = "create_pull" /\ how = "answered"
            next == CASE pr[p].pc = "create_object" -> "object_lost"
                      [] pr[p].pc = "create_branch" -> "branch_made"
                      [] OTHER -> "find_made"
<1>1. /\ Repairing!TypeOK /\ RepairTyped /\ RepairRecords /\ RepairKnows(p)
      /\ lost = 0 => RepairInOrder /\ RepairKnowsAll(p)
      /\ pr[p] \in RepairLocals /\ pr \in [Publishers -> RepairLocals]
      /\ Objects \in Nat \ {0}
  BY RepairAssumption DEF RepairInv, Repairing!TypeOK, RepairTyped, Repairing!BoundsAssumption
<1>2. /\ pr[p].pc \in Repairing!WritingPcs /\ Repairing!Write(w, how)
      /\ UNCHANGED <<approval, partial, result, local, subject, source, permitted, expired>>
      /\ pr[p].pc # "idle"
  BY DEF Repairing!CreateObject, Repairing!CreateBranch, Repairing!CreatePull,
         Repairing!WritingPcs, Repairing!At, Repairing!records, Repairing!session,
         Repairing!world
<1>3. /\ pr[p].pc \in Sending
      /\ pr[p].pc = "create_object" <=> pr[p].pc \in Storing
  BY <1>2 DEF Repairing!WritingPcs, Sending, Storing, Branching, Pulling, Finishing
<1>4. /\ approval = ActorOf[p] /\ approval # None /\ result = None
      /\ LocallyApplied /\ subject = approval
      /\ pr[p].recover => partial # None
      /\ pr[p].pc = "create_object" =>
           pr[p].object \in 1..Objects /\ 1..(pr[p].object - 1) \subseteq objects
      /\ pr[p].pc # "create_object" => 1..Objects \subseteq objects
      /\ pr[p].pc = "create_pull" => partial # None
      /\ lost = 0 => drifted = {}
      /\ lost = 0 /\ pr[p].pc = "create_pull" => \A i \in DOMAIN pulls : pulls[i] = "foreign"
  BY <1>1, <1>2, <1>3, RepairAssumption
     DEF RepairKnows, RepairKnowsAll, Pulling, Storing, Repairing!WritingPcs,
         Repairing!PublishersAssumption, Repairing!Actors, RepairLocals
<1>5. /\ Due(w)
      /\ w.op = "object" <=> pr[p].pc = "create_object"
      /\ w.op = "branch" <=> pr[p].pc = "create_branch"
      /\ w.op = "pull" <=> pr[p].pc = "create_pull"
      /\ w.op = "object" => w.object = pr[p].object
  BY <1>1, <1>2, <1>4
     DEF Due, RepairWrites, Repairing!ObjectWrite, Repairing!BranchWrite, Repairing!PullWrite,
         Repairing!WritingPcs
<1>. HIDE DEF w
<1>6. /\ Advanced
      /\ \A v \in late' : Due(v)'
      /\ late' \subseteq [op : {"object", "branch", "pull"}, object : 0..Objects, id : 1..LateBound]
      /\ lost' \in 0..LateBound
      /\ lost' = 0 => lost = 0 /\ late' = late
      /\ how \in {"answered", "unanswered"} => Repairing!CarryOut(w)
      /\ how \notin {"answered", "unanswered"} =>
              UNCHANGED <<objects, branch, pulls, made, drifted, whole>>
  BY <1>1, <1>2, <1>5, RepairWrite
<1>7. RepairTyped' /\ RepairRecords'
  BY <1>1, <1>2, <1>4, <1>6, RepairAdvances
<1>8. /\ pr[p].pc = "create_object" => pulls' = pulls /\ drifted' = drifted
      /\ pr[p].pc = "create_branch" => pulls' = pulls /\ drifted' \subseteq drifted \cup {"branch"}
      /\ pr[p].pc = "create_pull" =>
           /\ pulls' = pulls \/ pulls' = Append(pulls, "exact")
           /\ drifted' \subseteq drifted \cup {"pull"}
      /\ source = "same" => drifted' = drifted
  BY <1>1, <1>5, <1>6, RepairCarryOut
<1>9. lost' = 0 => RepairInOrder'
  <2>. SUFFICES ASSUME lost' = 0 PROVE RepairInOrder'
    OBVIOUS
  <2>1. RepairInOrder /\ late' = {} /\ lost = 0 /\ drifted = {}
    BY <1>1, <1>4, <1>6 DEF RepairInOrder
  <2>2. Repairing!AtMostOnePull'
    <3>1. CASE pulls' = pulls
      BY <2>1, <3>1 DEF RepairInOrder, Repairing!AtMostOnePull
    <3>2. CASE pulls' # pulls
      <4>1. pr[p].pc = "create_pull" /\ pulls' = Append(pulls, "exact")
        BY <1>2, <1>8, <3>2 DEF Repairing!WritingPcs
      <4>2. /\ pulls \in Seq(Repairing!PullStates) /\ Len(pulls) \in Nat
            /\ DOMAIN pulls = 1..Len(pulls)
            /\ pulls' \in Seq(Repairing!PullStates)
        BY <1>1, <1>7, PullFields DEF RepairTyped
      <4>3. /\ Len(pulls') = Len(pulls) + 1
            /\ \A i \in 1..Len(pulls) : pulls'[i] = pulls[i]
        BY <4>1, <4>2, AppendProperties DEF Repairing!PullStates
      <4>4. DOMAIN pulls' = 1..(Len(pulls) + 1)
        BY <4>2, <4>3, LenProperties
      <4>5. \A i \in DOMAIN pulls' : pulls'[i] # "foreign" => i = Len(pulls) + 1
        BY <1>4, <2>1, <4>1, <4>2, <4>3, <4>4
      <4>. QED  BY <4>5 DEF Repairing!AtMostOnePull
    <3>. QED  BY <3>1, <3>2
  <2>. QED  BY <1>2, <1>4, <1>8, <2>1, <2>2 DEF RepairInOrder, Repairing!WritingPcs
<1>10. DOMAIN pulls \subseteq DOMAIN pulls'
  BY <1>6 DEF Advanced
<1>11. CASE pr[p].pc = "create_object" /\ how = "answered"
  <2>1. Repairing!NextObject(p)
    BY <1>11 DEF Repairing!CreateObject, Repairing!CreateBranch, Repairing!CreatePull,
                 Repairing!At
  <2>2. objects \subseteq objects' /\ pr[p].object \in objects' /\ drifted' = drifted
    BY <1>1, <1>5, <1>6, <1>8, <1>11, RepairCarryOut DEF Advanced
  <2>3. PICK l \in RepairLocals :
          /\ pr' = [pr EXCEPT ![p] = l] /\ l.pc # "idle" /\ l.pull = pr[p].pull
          /\ UNCHANGED lock
          /\ RepairKnows(p)' /\ (lost = 0 => RepairKnowsAll(p)')
    BY <1>2, <1>3, <1>11, <2>1, <2>2, NextObjectKnows
  <2>4. l.pull \in DOMAIN pulls' \cup {None}
    BY <1>1, <1>10, <2>3 DEF Repairing!TypeOK
  <2>. QED  BY <1>2, <1>6, <1>7, <1>9, <1>10, <2>3, <2>4, RepairSteps
<1>12. CASE pr[p].pc = "create_pull" /\ how = "answered"
  <2>. DEFINE l == [pr[p] EXCEPT !.pc = "final_branch", !.pull = Len(pulls')]
  <2>1. pr' = [pr EXCEPT ![p] = l] /\ UNCHANGED lock /\ ~Repairing!Refused(w)
    <3>1. Repairing!CreatePull(p, how)
      BY <1>12 DEF Repairing!CreateObject, Repairing!CreateBranch, Repairing!At
    <3>2. ~Repairing!Refused(w)
      BY <1>2, <1>12 DEF Repairing!Write
    <3>. QED  BY <1>12, <3>1, <3>2 DEF Repairing!CreatePull
  <2>2. pulls' = Append(pulls, "exact")
    BY <1>1, <1>5, <1>6, <1>12, <2>1, RepairCarryOut
  <2>3. Len(pulls') \in DOMAIN pulls' /\ Len(pulls') \in Nat
    <3>1. pulls \in Seq(Repairing!PullStates) /\ pulls' \in Seq(Repairing!PullStates)
      BY <1>1, <1>7 DEF RepairTyped
    <3>2. Len(pulls') = Len(pulls) + 1 /\ Len(pulls) \in Nat
      BY <2>2, <3>1, AppendProperties, LenProperties DEF Repairing!PullStates
    <3>. QED  BY <3>1, <3>2, LenProperties
  <2>4. /\ l \in RepairLocals /\ l.pc = "final_branch" /\ l.pull = Len(pulls')
        /\ l.recover = pr[p].recover
    BY <1>1, <2>3 DEF RepairLocals, Repairing!Pcs
  <2>5. pr'[p] = l
    BY <1>1, <2>1
  <2>. HIDE DEF l
  <2>6. RepairKnows(p)' /\ (lost' = 0 => RepairKnowsAll(p)')
    BY <1>2, <1>4, <1>6, <1>8, <1>12, <2>3, <2>4, <2>5
       DEF RepairKnows, RepairKnowsAll, Applying, Storing, Branching, Pulling, Finishing,
           Sending, LocallyApplied, Advanced
  <2>. QED  BY <1>2, <1>6, <1>7, <1>9, <1>10, <2>1, <2>3, <2>4, <2>6, RepairSteps
<1>13. CASE ~known
  <2>1. Repairing!Goto(p, next) \/ Repairing!Return(p)
    BY <1>13 DEF Repairing!CreateObject, Repairing!CreateBranch, Repairing!CreatePull,
                 Repairing!At
  <2>2. ASSUME pr'[p] = [pr[p] EXCEPT !.pc = next]
        PROVE  RepairKnows(p)' /\ (lost' = 0 => RepairKnowsAll(p)')
    <3>1. /\ pr'[p].pc = next /\ pr'[p].recover = pr[p].recover
          /\ pr'[p].object = pr[p].object
      BY <1>1, <2>2 DEF RepairLocals
    <3>2. /\ pr[p].pc = "create_object" => pr[p].object <= Objects
          /\ next = "object_lost" <=> pr[p].pc = "create_object"
          /\ next = "branch_made" <=> pr[p].pc = "create_branch"
          /\ next = "find_made" <=> pr[p].pc = "create_pull"
          /\ next \in {"object_lost", "branch_made", "find_made"}
      BY <1>2, <1>4 DEF Repairing!WritingPcs
    <3>. HIDE DEF next
    <3>. QED  BY <1>2, <1>4, <1>6, <1>8, <3>1, <3>2
              DEF RepairKnows, RepairKnowsAll, Applying, Storing, Branching, Pulling, Finishing,
                  Sending, LocallyApplied, Advanced
  <2>3. next \in Repairing!Pcs \ {"idle"}
    BY DEF Repairing!Pcs
  <2>. HIDE DEF next
  <2>. QED  BY <1>2, <1>7, <1>9, <1>10, <2>1, <2>2, <2>3, RepairMoves
<1>. QED  BY <1>11, <1>12, <1>13

LEMMA RepairBegins ==
  ASSUME RepairInv, NEW p \in Publishers, Repairing!Begin(p)
  PROVE  RepairInv'
<1>1. /\ Repairing!TypeOK /\ RepairTyped /\ RepairRecords /\ pr \in [Publishers -> RepairLocals]
      /\ \A q \in Publishers : RepairKnows(q)
      /\ lost = 0 => RepairInOrder
      /\ None \notin Publishers /\ Objects \in Nat
  BY RepairAssumption
     DEF RepairInv, RepairTyped, Repairing!TypeOK, Repairing!PublishersAssumption,
         Repairing!BoundsAssumption
<1>2. /\ UNCHANGED RepairRest /\ lock = None /\ lock' = p /\ pr[p].pc = "idle"
  BY DEF Repairing!Begin, Repairing!At, RepairRest, Repairing!records, Repairing!session,
         Repairing!remote, Repairing!delivery, Repairing!history, Repairing!world
<1>3. PICK recover \in IF partial # None \/ result # None THEN BOOLEAN ELSE {FALSE} :
        pr' = [pr EXCEPT ![p] = [Repairing!Idle EXCEPT !.pc = "principal", !.recover = recover]]
  BY DEF Repairing!Begin
<1>. DEFINE l == [Repairing!Idle EXCEPT !.pc = "principal", !.recover = recover]
<1>4. /\ l \in RepairLocals /\ l.pc = "principal" /\ l.recover = recover /\ l.object = 1
      /\ l.pull = None
      /\ recover \in BOOLEAN /\ (recover => partial # None)
  <2>1. recover \in BOOLEAN /\ (recover => partial # None)
    BY <1>1 DEF RepairRecords
  <2>2. 1 \in 1..(Objects + 1) /\ "principal" \in Repairing!Pcs
    BY <1>1 DEF Repairing!Pcs
  <2>. PICK i : i = Repairing!Idle
    OBVIOUS
  <2>3. i \in RepairLocals /\ i.object = 1 /\ i.pull = None
    BY <2>2 DEF Repairing!Idle, RepairLocals, Repairing!Pcs
  <2>4. l = [i EXCEPT !.pc = "principal", !.recover = recover]
    OBVIOUS
  <2>. HIDE DEF l
  <2>. QED  BY <2>1, <2>2, <2>3, <2>4 DEF RepairLocals
<1>. HIDE DEF l
<1>5. /\ pr' \in [Publishers -> RepairLocals] /\ pr'[p] = l
      /\ \A q \in Publishers : q # p => pr'[q] = pr[q] /\ pr[q].pc = "idle"
  <2>1. pr' = [pr EXCEPT ![p] = l]
    BY <1>3 DEF l
  <2>. QED  BY <1>1, <1>2, <1>4, <2>1 DEF Repairing!TypeOK, Repairing!At
<1>6. Repairing!TypeOK'
  BY <1>1, <1>2, <1>4, <1>5 DEF Repairing!TypeOK, RepairRest, Repairing!At, RepairLocals
<1>7. RepairRecords' /\ (lost = 0 => RepairInOrder')
  BY <1>1, <1>2
     DEF RepairRest, RepairRecords, RepairInOrder, Repairing!AtMostOnePull, Due,
         LocallyApplied, WholeNow, Exact
<1>8. ASSUME NEW q \in Publishers
      PROVE  RepairKnows(q)' /\ RepairKnowsAll(q)'
  <2>1. /\ pr'[q].pc \in {"idle", "principal"} /\ pr'[q].object = 1
        /\ pr'[q].recover => partial' # None
    BY <1>1, <1>2, <1>4, <1>5
       DEF RepairKnows, RepairRest, Sending, Storing, Branching, Pulling, Finishing
  <2>. QED  BY <2>1 DEF RepairKnows, RepairKnowsAll, Applying, Storing, Branching, Pulling,
                        Finishing, Sending
<1>. QED  BY <1>2, <1>5, <1>6, <1>7, <1>8 DEF RepairInv, RepairRest

-----------------------------------------------------------------------------
(* Steps of others.                                                        *)

(* A write is carried out late.                                            *)
LEMMA RepairSettles ==
  ASSUME RepairInv, Repairing!Settle
  PROVE  RepairInv'
<1>1. /\ Repairing!TypeOK /\ RepairTyped /\ RepairRecords /\ pr \in [Publishers -> RepairLocals]
      /\ \A p \in Publishers : RepairKnows(p)
      /\ lost = 0 => late = {}
  BY DEF RepairInv, RepairTyped, Repairing!TypeOK, RepairInOrder
<1>2. PICK w \in late : Repairing!CarryOut(w) /\ late' = late \ {w}
  BY DEF Repairing!Settle
<1>3. UNCHANGED <<approval, partial, result, local, subject, lost, source, permitted, expired,
                  lock, pr>>
  BY DEF Repairing!Settle, Repairing!records, Repairing!session, Repairing!world
<1>4. Advanced
  BY <1>1, <1>2, RepairCarryOut DEF RepairRecords
<1>5. LocallyApplied /\ approval # None /\ subject = approval /\ lost # 0
  BY <1>1, <1>2 DEF RepairRecords
<1>6. \A v \in late' : Due(v)'
  BY <1>1, <1>2, <1>4 DEF RepairRecords, Due, Advanced
<1>7. late' \subseteq late /\ lost' \in 0..LateBound
  BY <1>1, <1>2, <1>3 DEF RepairTyped
<1>8. RepairRecords' /\ RepairTyped'
  BY <1>1, <1>3, <1>4, <1>5, <1>6, <1>7, RepairAdvances DEF RepairTyped
<1>9. Repairing!TypeOK'
  BY <1>1, <1>3, <1>4, <1>8 DEF Repairing!TypeOK, RepairTyped, Advanced, Repairing!At
<1>10. \A p \in Publishers : RepairKnows(p)'
  BY <1>1, <1>3, <1>4 DEF RepairKnows, Advanced, LocallyApplied, Exact, Finishing
<1>. QED  BY <1>1, <1>3, <1>5, <1>8, <1>9, <1>10 DEF RepairInv

(* The source moves or is back, a permission is withdrawn, time passes.    *)
LEMMA RepairWorldChanges ==
  ASSUME RepairInv,
         Repairing!SourceMoves \/ Repairing!PermissionWithdrawn \/ Repairing!Expire
  PROVE  RepairInv'
<1>1. /\ UNCHANGED <<approval, partial, result, local, subject, objects, branch, pulls, late,
                     lost, made, whole, lock, pr>>
      /\ source' \in {"same", "moved"} /\ permitted' \subseteq Repairing!Actors
      /\ expired' \in BOOLEAN
      /\ drifted' = {} \/ (drifted' = drifted /\ source' = source)
  <2>1. CASE Repairing!SourceMoves
    BY <2>1 DEF RepairInv, Repairing!TypeOK, Repairing!SourceMoves, Repairing!records,
                Repairing!session, Repairing!remote, Repairing!delivery
  <2>2. CASE Repairing!PermissionWithdrawn \/ Repairing!Expire
    BY <2>2 DEF RepairInv, Repairing!TypeOK, Repairing!PermissionWithdrawn, Repairing!Expire,
                Repairing!records, Repairing!session, Repairing!remote, Repairing!delivery,
                Repairing!history
  <2>. QED  BY <2>1, <2>2
<1>2. Repairing!TypeOK'
  BY <1>1 DEF RepairInv, Repairing!TypeOK, Repairing!At
<1>3. RepairRecords' /\ (lost = 0 => RepairInOrder')
  BY <1>1 DEF RepairInv, RepairRecords, RepairInOrder, Repairing!AtMostOnePull, Due,
              LocallyApplied, WholeNow, Exact
<1>4. \A p \in Publishers : RepairKnows(p)' /\ (lost = 0 => RepairKnowsAll(p)')
  BY <1>1 DEF RepairInv, RepairKnows, RepairKnowsAll, LocallyApplied, Exact
<1>. QED  BY <1>1, <1>2, <1>3, <1>4 DEF RepairInv

(* Somebody else changes the branch or a pull request.                     *)
LEMMA RepairDisturbed ==
  ASSUME RepairInv,
         UNCHANGED <<approval, partial, result, local, subject, objects, late, lost, made,
                     drifted, whole, source, permitted, expired, lock, pr>>,
         branch' \in {"absent", "ours", "foreign"}, branch' = "ours" => branch = "ours",
         pulls' \in Seq(Repairing!PullStates), Len(pulls') <= Pulls,
         DOMAIN pulls \subseteq DOMAIN pulls',
         \A i \in DOMAIN pulls' :
           /\ pulls'[i] # "foreign" => i \in DOMAIN pulls /\ pulls[i] # "foreign"
           /\ pulls'[i] = "exact" => i \in DOMAIN pulls /\ pulls[i] = "exact"
  PROVE  RepairInv'
<1>1. Repairing!TypeOK'
  BY DEF RepairInv, Repairing!TypeOK, Repairing!At
<1>2. RepairRecords' /\ (lost = 0 => RepairInOrder')
  BY DEF RepairInv, RepairRecords, RepairInOrder, Repairing!AtMostOnePull, Due,
         LocallyApplied, WholeNow, Exact
<1>3. ASSUME NEW p \in Publishers
      PROVE  RepairKnows(p)' /\ (lost = 0 => RepairKnowsAll(p)')
  <2>1. RepairKnows(p) /\ (lost = 0 => RepairKnowsAll(p))
    BY DEF RepairInv
  <2>2. pr[p].pc = "final_pull" => (pulls'[pr[p].pull] = "exact" => whole)
    BY <2>1 DEF RepairKnows, Finishing, Exact
  <2>. QED  BY <2>1, <2>2 DEF RepairKnows, RepairKnowsAll, LocallyApplied, Exact
<1>. QED  BY <1>1, <1>2, <1>3 DEF RepairInv

LEMMA RepairInterfered ==
  ASSUME RepairInv,
         \/ Repairing!ForeignBranch \/ Repairing!BranchDeleted
         \/ Repairing!PullChanged \/ Repairing!ForeignPull
  PROVE  RepairInv'
<1>1. /\ UNCHANGED <<approval, partial, result, local, subject, objects, late, lost, made,
                     drifted, whole, source, permitted, expired, lock, pr>>
  BY DEF Repairing!ForeignBranch, Repairing!BranchDeleted, Repairing!PullChanged,
         Repairing!ForeignPull, Repairing!records, Repairing!session, Repairing!delivery,
         Repairing!history, Repairing!world
<1>2. /\ pulls \in Seq(Repairing!PullStates) /\ Len(pulls) \in Nat /\ Len(pulls) <= Pulls
      /\ DOMAIN pulls = 1..Len(pulls)
      /\ \A i \in DOMAIN pulls : pulls[i] \in Repairing!PullStates
      /\ branch \in {"absent", "ours", "foreign"}
      /\ Pulls \in Nat
  BY PullFields, RepairAssumption DEF RepairInv, Repairing!TypeOK, Repairing!BoundsAssumption
<1>3. CASE Repairing!ForeignBranch
  BY <1>1, <1>2, <1>3, RepairDisturbed DEF Repairing!ForeignBranch
<1>4. CASE Repairing!BranchDeleted
  <2>1. /\ branch' = "absent"
        /\ pulls' = [i \in DOMAIN pulls |-> IF pulls[i] = "exact" THEN "changed" ELSE pulls[i]]
    BY <1>4 DEF Repairing!BranchDeleted
  <2>2. pulls' \in [1..Len(pulls) -> Repairing!PullStates]
    BY <1>2, <2>1 DEF Repairing!PullStates
  <2>3. pulls' \in Seq(Repairing!PullStates) /\ Len(pulls') = Len(pulls)
    BY <1>2, <2>2, SeqDef, LenProperties
  <2>. QED  BY <1>1, <1>2, <2>1, <2>3, RepairDisturbed
<1>5. CASE Repairing!PullChanged
  <2>1. PICK i \in DOMAIN pulls :
          pulls[i] = "exact" /\ pulls' = [pulls EXCEPT ![i] = "changed"] /\ UNCHANGED branch
    BY <1>5 DEF Repairing!PullChanged
  <2>2. /\ pulls' \in Seq(Repairing!PullStates) /\ DOMAIN pulls' = DOMAIN pulls
        /\ Len(pulls') = Len(pulls)
    BY <1>2, <2>1, ExceptSeq DEF Repairing!PullStates
  <2>. QED  BY <1>1, <1>2, <2>1, <2>2, RepairDisturbed
<1>6. CASE Repairing!ForeignPull
  <2>1. pulls' = Append(pulls, "foreign") /\ UNCHANGED branch /\ Len(pulls) < Pulls
    BY <1>6 DEF Repairing!ForeignPull
  <2>2. /\ pulls' \in Seq(Repairing!PullStates) /\ Len(pulls') = Len(pulls) + 1
        /\ \A i \in 1..Len(pulls) : pulls'[i] = pulls[i]
        /\ pulls'[Len(pulls) + 1] = "foreign"
    BY <1>2, <2>1, AppendProperties DEF Repairing!PullStates
  <2>3. DOMAIN pulls' = 1..(Len(pulls) + 1) /\ Len(pulls') <= Pulls
    BY <1>2, <2>1, <2>2, LenProperties
  <2>4. DOMAIN pulls \subseteq DOMAIN pulls'
    BY <1>2, <2>3
  <2>5. \A i \in DOMAIN pulls' : i \in DOMAIN pulls \/ i = Len(pulls) + 1
    BY <1>2, <2>3
  <2>. QED  BY <1>1, <1>2, <2>1, <2>2, <2>3, <2>4, <2>5, RepairDisturbed
<1>. QED  BY <1>3, <1>4, <1>5, <1>6

(* Other commands on the local session.                                    *)
LEMMA RepairLocalCommand ==
  ASSUME RepairInv, Repairing!LocalCommand
  PROVE  RepairInv'
<1>1. /\ UNCHANGED <<approval, partial, result, objects, branch, pulls, late, lost, made,
                     drifted, whole, source, permitted, expired, lock, pr>>
      /\ local' \in Repairing!LocalStates /\ local' # "validated"
      /\ local # "validated" => UNCHANGED subject
      /\ LocallyApplied => local' = "gone"
      /\ subject' \in {subject, Repairing!Outsider}
  BY DEF RepairInv, Repairing!TypeOK, Repairing!LocalCommand, Repairing!records, Repairing!remote,
         Repairing!delivery, Repairing!history, Repairing!world, Repairing!LocalStates,
         LocallyApplied
<1>2. LocallyApplied => UNCHANGED subject
  BY <1>1 DEF LocallyApplied
<1>3. Repairing!TypeOK'
  BY <1>1 DEF RepairInv, Repairing!TypeOK, Repairing!At
<1>4. RepairRecords' /\ (lost = 0 => RepairInOrder')
  BY <1>1, <1>2 DEF RepairInv, RepairRecords, RepairInOrder, Repairing!AtMostOnePull, Due,
              LocallyApplied, WholeNow, Exact
<1>5. ASSUME NEW p \in Publishers
      PROVE  RepairKnows(p)' /\ (lost = 0 => RepairKnowsAll(p)')
  <2>1. RepairKnows(p) /\ (lost = 0 => RepairKnowsAll(p))
    BY DEF RepairInv
  <2>. QED  BY <1>1, <1>2, <2>1 DEF RepairKnows, RepairKnowsAll, LocallyApplied, Exact
<1>. QED  BY <1>1, <1>3, <1>4, <1>5 DEF RepairInv

-----------------------------------------------------------------------------
(* The invariant of a published repair.                                    *)

LEMMA RepairInit == Repairing!Init => RepairInv
<1>. SUFFICES ASSUME Repairing!Init PROVE RepairInv
  OBVIOUS
<1>1. /\ None \notin Publishers /\ LateBound \in Nat /\ Pulls \in Nat /\ Objects \in Nat \ {0}
  BY RepairAssumption DEF Repairing!PublishersAssumption, Repairing!BoundsAssumption
<1>2. /\ approval = None /\ partial = None /\ result = None
      /\ local = "validated" /\ subject = None
      /\ objects = {} /\ branch = "absent" /\ late = {} /\ lost = 0
      /\ made = {} /\ drifted = {} /\ whole = FALSE
      /\ source = "same" /\ permitted = Repairing!Actors /\ expired = FALSE /\ lock = None
  BY DEF Repairing!Init
<1>3. pulls \in Seq(Repairing!PullStates) /\ Len(pulls) = 0 /\ DOMAIN pulls = {}
  BY EmptySeq DEF Repairing!Init
<1>4. /\ pr \in [Publishers -> RepairLocals]
      /\ \A p \in Publishers :
           /\ pr[p].pc = "idle" /\ pr[p].recover = FALSE /\ pr[p].object = 1
           /\ pr[p].pull = None
  BY <1>1 DEF Repairing!Init, Repairing!Idle, RepairLocals, Repairing!Pcs
<1>5. \A p \in Publishers : RepairKnows(p) /\ RepairKnowsAll(p)
  BY <1>4 DEF RepairKnows, RepairKnowsAll, Applying, Storing, Branching, Pulling, Finishing,
              Sending
<1>6. RepairTyped
  <2>1. /\ lost \in 0..LateBound /\ Len(pulls) <= Pulls
        /\ "validated" \in Repairing!LocalStates
    BY <1>1, <1>2, <1>3 DEF Repairing!LocalStates
  <2>2. /\ objects \subseteq 1..Objects /\ made \subseteq {"branch", "pull"}
        /\ drifted \subseteq made
        /\ late \subseteq [op : {"object", "branch", "pull"}, object : 0..Objects, id : 1..LateBound]
    BY <1>2
  <2>. QED  BY <1>2, <1>3, <2>1, <2>2 DEF RepairTyped
<1>7. \A p \in Publishers :
        /\ pr[p].pc \in Repairing!Pcs /\ pr[p].object \in 1..(Objects + 1)
        /\ Repairing!At(p, "idle") <=> lock # p
  BY <1>1, <1>2, <1>4 DEF Repairing!At, RepairLocals
<1>8. Repairing!TypeOK
  BY <1>2, <1>4, <1>6, <1>7 DEF Repairing!TypeOK, RepairTyped
<1>9. RepairRecords /\ RepairInOrder
  BY <1>2, <1>3 DEF RepairRecords, RepairInOrder, Repairing!AtMostOnePull, WholeNow
<1>. QED  BY <1>4, <1>5, <1>8, <1>9 DEF RepairInv

LEMMA RepairStep ==
  ASSUME RepairInv, Repairing!Next
  PROVE  RepairInv'
<1>1. CASE \E p \in Publishers : Repairing!Begin(p) \/ Repairing!Step(p) \/ Repairing!Abort(p)
  <2>1. PICK p \in Publishers : Repairing!Begin(p) \/ Repairing!Step(p) \/ Repairing!Abort(p)
    BY <1>1
  <2>2. CASE \E how \in Repairing!Endings :
               \/ Repairing!CreateObject(p, how)
               \/ Repairing!CreateBranch(p, how)
               \/ Repairing!CreatePull(p, how)
    BY <2>2, RepairSends
  <2>3. CASE \/ Repairing!ReadPrincipal(p) \/ Repairing!ReadSource(p)
             \/ Repairing!ReadSnapshot(p) \/ Repairing!ReadObject(p)
             \/ Repairing!RefreshSource(p) \/ Repairing!ReadBranch(p) \/ Repairing!FindPull(p)
             \/ Repairing!ReadFinalBranch(p) \/ Repairing!ReadFinalPull(p)
             \/ Repairing!Recheck(p) \/ Repairing!Abort(p)
    BY <2>3, RepairQuietSteps
  <2>4. CASE Repairing!SaveApproval(p) \/ Repairing!RecordPartial(p) \/ Repairing!Record(p)
    BY <2>4, RepairSaves
  <2>5. CASE Repairing!ApproveLocal(p) \/ Repairing!ApplyLocal(p)
    BY <2>5, RepairAppliesLocally
  <2>6. CASE Repairing!Begin(p)
    BY <2>6, RepairBegins
  <2>. QED  BY <2>1, <2>2, <2>3, <2>4, <2>5, <2>6 DEF Repairing!Step
<1>2. CASE Repairing!Environment
  BY <1>2, RepairSettles, RepairWorldChanges, RepairInterfered, RepairLocalCommand
     DEF Repairing!Environment
<1>. QED  BY <1>1, <1>2 DEF Repairing!Next

(* The invariant gives what the run checks of a published repair.          *)
LEMMA RepairGoals ==
  ASSUME RepairInv
  PROVE  /\ Repairing!TypeOK /\ Repairing!BranchHasObjects /\ Repairing!PublishedIsApplied
         /\ Repairing!WritesAreApproved /\ Repairing!RecoveryHasBranch
         /\ lost = 0 => Repairing!AtMostOnePull /\ Repairing!DriftStopsPublication
<1>1. /\ Repairing!TypeOK /\ RepairRecords /\ \A p \in Publishers : RepairKnows(p)
      /\ lost = 0 => RepairInOrder
  BY DEF RepairInv
<1>2. Repairing!BranchHasObjects /\ Repairing!PublishedIsApplied
  BY <1>1 DEF Repairing!TypeOK, RepairRecords, Repairing!BranchHasObjects,
              Repairing!PublishedIsApplied, LocallyApplied
<1>3. Repairing!WritesAreApproved
  BY <1>1 DEF RepairKnows, Repairing!WritesAreApproved, Repairing!WritingPcs, Sending, Storing,
              Branching, Pulling, Finishing, LocallyApplied
<1>4. Repairing!RecoveryHasBranch
  BY <1>1 DEF RepairKnows, RepairRecords, Repairing!RecoveryHasBranch
<1>5. lost = 0 => Repairing!DriftStopsPublication
  BY <1>1 DEF RepairInOrder, Repairing!DriftStopsPublication
<1>. QED  BY <1>1, <1>2, <1>3, <1>4, <1>5 DEF RepairInOrder

(* A write of publish_repair, when it is sent.                             *)
LEMMA RepairMeans ==
  ASSUME RepairInv, NEW p \in Publishers, NEW how,
         \/ Repairing!CreateObject(p, how) \/ Repairing!CreateBranch(p, how)
         \/ Repairing!CreatePull(p, how)
  PROVE  /\ approval # None /\ UNCHANGED <<approval, result>>
         /\ \E w : Due(w) /\ Repairing!Write(w, how)
<1>. DEFINE w == CASE pr[p].pc = "create_object" -> Repairing!ObjectWrite(pr[p].object)
                   [] pr[p].pc = "create_branch" -> Repairing!BranchWrite
                   [] OTHER -> Repairing!PullWrite
<1>1. /\ RepairKnows(p) /\ pr[p] \in RepairLocals /\ Objects \in Nat \ {0}
  BY RepairAssumption DEF RepairInv, Repairing!BoundsAssumption
<1>2. /\ pr[p].pc \in Repairing!WritingPcs /\ Repairing!Write(w, how)
      /\ UNCHANGED <<approval, result>>
  BY DEF Repairing!CreateObject, Repairing!CreateBranch, Repairing!CreatePull,
         Repairing!WritingPcs, Repairing!At, Repairing!records
<1>3. /\ approval # None
      /\ pr[p].pc = "create_object" => pr[p].object \in 1..Objects
      /\ pr[p].pc # "create_object" => 1..Objects \subseteq objects
  BY <1>1, <1>2, RepairAssumption
     DEF RepairKnows, Sending, Storing, Branching, Pulling, Finishing, Repairing!WritingPcs,
         Repairing!PublishersAssumption, Repairing!Actors, RepairLocals
<1>4. Due(w)
  BY <1>1, <1>2, <1>3
     DEF Due, RepairWrites, Repairing!ObjectWrite, Repairing!BranchWrite, Repairing!PullWrite,
         Repairing!WritingPcs
<1>. HIDE DEF w
<1>. QED  BY <1>2, <1>3, <1>4

(* A step of publish_repair is one of an approved publication, or none.    *)
LEMMA RepairImplements ==
  ASSUME RepairInv, Repairing!Next, part \in {"repair", "delayed"}, UNCHANGED part
  PROVE  Publication!Next \/ UNCHANGED Publication!publicationVars
<1>1. /\ RepairTyped /\ RepairRecords /\ \A p \in Publishers : RepairKnows(p)
      /\ None \notin Repairing!Actors
  BY RepairAssumption
     DEF RepairInv, RepairTyped, Repairing!TypeOK, Repairing!PublishersAssumption
<1>2. ASSUME UNCHANGED <<approval, result, made, whole>>
      PROVE  UNCHANGED Publication!publicationVars
  BY <1>2 DEF Publication!publicationVars
<1>3. ASSUME UNCHANGED <<approval, result>>, approval # None, NEW w, Due(w),
             Repairing!CarryOut(w)
      PROVE  Publication!Next \/ UNCHANGED Publication!publicationVars
  <2>1. Advanced
    BY <1>1, <1>3, RepairCarryOut
  <2>2. CASE made' # {}
    <3>1. whole' \in {whole, TRUE}
      BY <1>1, <2>1 DEF Advanced, RepairTyped
    <3>. QED  BY <1>3, <2>2, <3>1 DEF Publication!Next, Publication!Show
  <2>3. CASE made' = {}
    <3>1. made = {} /\ ~(w.op = "branch" /\ branch = "absent")
          /\ ~(w.op = "pull" /\ Repairing!CanOpenPull /\ Len(pulls) < Pulls)
      BY <1>3, <2>1, <2>3 DEF Advanced, Repairing!CarryOut
    <3>2. UNCHANGED <<made, branch, pulls>>
      BY <1>3, <3>1 DEF Repairing!CarryOut
    <3>3. UNCHANGED whole
      BY <1>1, <1>3, <3>2 DEF Repairing!CarryOut, RepairRecords, WholeNow, Exact, RepairTyped
    <3>. QED  BY <1>2, <1>3, <3>2, <3>3
  <2>. QED  BY <2>2, <2>3
<1>4. CASE Repairing!Settle
  <2>1. PICK w \in late : Repairing!CarryOut(w)
    BY <1>4 DEF Repairing!Settle
  <2>2. Due(w) /\ approval # None
    BY <1>1 DEF RepairRecords
  <2>3. UNCHANGED <<approval, result>>
    BY <1>4 DEF Repairing!Settle, Repairing!records
  <2>. QED  BY <1>3, <2>1, <2>2, <2>3
<1>5. CASE \E p \in Publishers, how \in Repairing!Endings :
             \/ Repairing!CreateObject(p, how) \/ Repairing!CreateBranch(p, how)
             \/ Repairing!CreatePull(p, how)
  <2>1. PICK p \in Publishers, how \in Repairing!Endings :
               \/ Repairing!CreateObject(p, how) \/ Repairing!CreateBranch(p, how)
               \/ Repairing!CreatePull(p, how)
    BY <1>5
  <2>2. /\ approval # None /\ UNCHANGED <<approval, result>>
        /\ \E w : Due(w) /\ Repairing!Write(w, how)
    BY <2>1, RepairMeans
  <2>3. PICK w : Due(w) /\ Repairing!Write(w, how)
    BY <2>2
  <2>4. CASE UNCHANGED <<made, whole>>
    BY <1>2, <2>2, <2>4
  <2>. QED  BY <1>3, <2>2, <2>3, <2>4 DEF Repairing!Write, Repairing!history
<1>6. CASE \E p \in Publishers : Repairing!SaveApproval(p)
  <2>1. PICK p \in Publishers : Repairing!SaveApproval(p)
    BY <1>6
  <2>2. approval = None /\ ActorOf[p] \in Repairing!Actors
    BY <1>1, <2>1 DEF RepairKnows, Repairing!SaveApproval, Repairing!At, Repairing!Actors
  <2>3. /\ UNCHANGED <<result, made, whole>> /\ approval' \in {approval, ActorOf[p]}
        /\ Checking!Actors = Repairing!Actors
    BY <2>1 DEF Repairing!SaveApproval, Repairing!history, Checking!Actors, Repairing!Actors
  <2>. QED  BY <1>2, <2>2, <2>3 DEF Publication!Next, Publication!Approve
<1>7. CASE \E p \in Publishers : Repairing!Record(p)
  <2>1. PICK p \in Publishers : Repairing!Record(p)
    BY <1>7
  <2>2. /\ UNCHANGED <<approval, made, whole>> /\ result' = pr[p].pull
        /\ pr[p].pc = "record"
    BY <2>1 DEF Repairing!Record, Repairing!history, Repairing!At
  <2>3. result = None /\ whole /\ pr[p].pull \in DOMAIN pulls
    BY <1>1, <2>2 DEF RepairKnows, Sending, Finishing
  <2>4. pr[p].pull \in Nat
    BY <1>1, <2>3, PullFields DEF RepairTyped
  <2>. QED  BY <2>2, <2>3, <2>4 DEF Publication!Next, Publication!Report
<1>8. CASE UNCHANGED <<approval, result, made, whole>>
  BY <1>2, <1>8
<1>9. \/ \E p \in Publishers : Repairing!Begin(p) \/ Repairing!Step(p) \/ Repairing!Abort(p)
      \/ Repairing!Environment
  BY DEF Repairing!Next
<1>. QED  BY <1>4, <1>5, <1>6, <1>7, <1>8, <1>9
     DEF Repairing!Step, Repairing!Environment, Repairing!Begin, Repairing!Abort,
         Repairing!ReadPrincipal, Repairing!ReadSource, Repairing!ReadSnapshot,
         Repairing!ApproveLocal, Repairing!ApplyLocal, Repairing!ReadObject,
         Repairing!RefreshSource, Repairing!ReadBranch, Repairing!RecordPartial,
         Repairing!FindPull, Repairing!ReadFinalBranch, Repairing!ReadFinalPull,
         Repairing!Recheck, Repairing!SourceMoves, Repairing!PermissionWithdrawn,
         Repairing!Expire, Repairing!ForeignBranch, Repairing!BranchDeleted,
         Repairing!PullChanged, Repairing!ForeignPull, Repairing!LocalCommand,
         Repairing!records, Repairing!history

-----------------------------------------------------------------------------
(* What holds between the calls that write the records.                    *)

RecordLocals == [pc : Recording!Pcs, create : BOOLEAN, name : Recording!Names \cup {None}]

(* The program counters before the directory is there, those at which a    *)
(* temporary file is prepared, and those at which there is none.           *)
Opening == {"idle", "open", "open_sync"}
Preparing == {"write", "fill", "sync", "chmod", "sync_mode", "link"}
Cleared == {"open_sync", "recover_sync", "load", "choose", "create", "dir_sync", "written"}

(* A file that is read-only has all of its data, also on disk.             *)
FileSound(f) ==
  /\ f.mode = "ro" => f.size = "full" /\ f.diskSize = "full"
  /\ f.diskMode = "ro" => f.mode = "ro"

FileWhole(f) ==
  f.size = "full" /\ f.diskSize = "full" /\ f.mode = "ro" /\ f.diskMode = "ro"

(* What the holder of the lock knows at its program counter.               *)
RecordKnows(p) ==
  /\ pr[p].pc \notin Opening => path = Recording!Depth
  /\ pr[p].pc \in Cleared => temp = None
  /\ pr[p].pc \in {"create", "unlink", "dir_sync", "written"} \cup Preparing =>
       pr[p].name \in Recording!Names
  /\ pr[p].pc \in {"create"} \cup Preparing =>
       /\ Recording!Needs[pr[p].name] \subseteq Recording!Present
       /\ records[pr[p].name] = None =>
            Recording!Bars[pr[p].name] \cap Recording!Present = {}
  /\ pr[p].pc \in Preparing =>
       temp # None /\ temp.name = pr[p].name /\ records[pr[p].name] = None
  /\ pr[p].pc \in {"write", "fill", "sync", "chmod"} => temp.mode = "rw" /\ temp.diskMode = "rw"
  /\ pr[p].pc \in {"sync", "chmod", "sync_mode", "link"} => temp.size = "full"
  /\ pr[p].pc \in {"chmod", "sync_mode", "link"} => temp.diskSize = "full"
  /\ pr[p].pc \in {"sync_mode", "link"} => temp.mode = "ro"
  /\ pr[p].pc = "link" => temp.diskMode = "ro"
  /\ pr[p].pc \in {"unlink", "dir_sync", "written"} => records[pr[p].name] # None

(* Records are whole and stand on those they need, also on disk; what was  *)
(* on disk at the last sync is still there.                                *)
RecordsSound ==
  /\ \A n \in Recording!Names :
       records[n] # None => FileWhole(records[n]) /\ Recording!Needs[n] \subseteq Recording!Present
  /\ kept = {n \in Recording!Names : disk.records[n] # None}
  /\ \A n \in kept : records[n] = disk.records[n] /\ Recording!Needs[n] \subseteq kept
  /\ path < Recording!Depth => Recording!Present = {} /\ temp = None
  /\ disk.path < Recording!Depth => kept = {}

TempSound ==
  temp # None =>
    FileSound(temp) /\ (records[temp.name] # None => records[temp.name] = temp)

RecordInv ==
  /\ Recording!TypeOK
  /\ pr \in [Publishers -> RecordLocals]
  /\ RecordsSound
  /\ TempSound
  /\ broken = {}
  /\ \A p \in Publishers : RecordKnows(p)

-----------------------------------------------------------------------------
(* Calls of the publication records.                                       *)

RecordTyped ==
  /\ path \in 0..Recording!Depth
  /\ records \in [Recording!Names -> Recording!Files \cup {None}]
  /\ temp \in Recording!Files \cup {None}
  /\ disk \in [path : 0..Recording!Depth,
               records : [Recording!Names -> Recording!Files \cup {None}]]
  /\ kept \subseteq Recording!Names

RecordFiles == <<path, records, temp, disk, kept>>

LEMMA RecordUse ==
  ASSUME RecordInv
  PROVE  /\ RecordTyped /\ RecordsSound /\ TempSound /\ broken = {}
         /\ pr \in [Publishers -> RecordLocals]
         /\ \A p \in Publishers : pr[p] \in RecordLocals /\ RecordKnows(p)
         /\ None \notin Publishers /\ None \notin Recording!Names /\ None \notin Recording!Files
         /\ Recording!Depth = 7
BY RecordAssumption
   DEF RecordInv, RecordTyped, Recording!TypeOK, Recording!ProcessesAssumption,
       Recording!FilesAssumption, Recording!Depth

(* A call of the holder of the lock.                                       *)
LEMMA RecordSteps ==
  ASSUME RecordInv, NEW p \in Publishers, pr[p].pc # "idle", UNCHANGED failures,
         RecordTyped', RecordsSound', TempSound', broken' = {},
         NEW l \in RecordLocals,
         pr' = [pr EXCEPT ![p] = l], lock' = IF l.pc = "idle" THEN None ELSE lock,
         l.pc # "idle" => RecordKnows(p)'
  PROVE  RecordInv'
<1>1. /\ lock \in Publishers \cup {None} /\ None \notin Publishers
      /\ \A q \in Publishers : pr[q].pc = "idle" <=> lock # q
      /\ pr \in [Publishers -> RecordLocals]
  BY RecordUse DEF RecordInv, Recording!TypeOK, Recording!At
<1>2. /\ pr' \in [Publishers -> RecordLocals] /\ pr'[p] = l
      /\ lock' \in Publishers \cup {None}
      /\ \A q \in Publishers : q # p => pr[q].pc = "idle" /\ pr'[q] = pr[q]
      /\ \A q \in Publishers : pr'[q].pc = "idle" <=> lock' # q
  BY <1>1
<1>3. ASSUME NEW q \in Publishers, pr'[q].pc = "idle"
      PROVE  RecordKnows(q)'
  BY <1>3 DEF RecordKnows, Opening, Preparing, Cleared
<1>4. \A q \in Publishers : RecordKnows(q)'
  BY <1>2, <1>3
<1>5. Recording!TypeOK'
  BY <1>2 DEF RecordInv, RecordTyped, Recording!TypeOK, Recording!At, RecordLocals
<1>. QED  BY <1>2, <1>4, <1>5 DEF RecordInv

LEMMA RecordLeaves ==
  ASSUME RecordInv, NEW p \in Publishers, pr[p].pc # "idle", UNCHANGED failures,
         RecordTyped', RecordsSound', TempSound', broken' = {}, Recording!Return(p)
  PROVE  RecordInv'
<1>. DEFINE l == Recording!Idle
<1>1. l \in RecordLocals /\ l.pc = "idle"
  BY DEF Recording!Idle, RecordLocals, Recording!Pcs
<1>2. pr' = [pr EXCEPT ![p] = l] /\ lock' = None
  BY DEF Recording!Return
<1>. HIDE DEF l
<1>. QED  BY <1>1, <1>2, RecordSteps

LEMMA RecordMoves ==
  ASSUME RecordInv, NEW p \in Publishers, pr[p].pc # "idle", UNCHANGED failures,
         RecordTyped', RecordsSound', TempSound', broken' = {},
         NEW pc \in Recording!Pcs \ {"idle"}, Recording!Goto(p, pc),
         pr'[p] = [pr[p] EXCEPT !.pc = pc] => RecordKnows(p)'
  PROVE  RecordInv'
<1>. DEFINE l == [pr[p] EXCEPT !.pc = pc]
<1>1. l \in RecordLocals /\ l.pc = pc
  BY RecordUse DEF RecordLocals
<1>2. pr' = [pr EXCEPT ![p] = l] /\ pr'[p] = l /\ UNCHANGED lock
  BY DEF Recording!Goto, RecordInv
<1>. HIDE DEF l
<1>. QED  BY <1>1, <1>2, RecordSteps DEF l

(* What a call that leaves the files alone keeps.                          *)
LEMMA FilesAlone ==
  ASSUME RecordInv, UNCHANGED RecordFiles
  PROVE  RecordTyped' /\ RecordsSound' /\ TempSound'
BY RecordUse DEF RecordFiles, RecordTyped, RecordsSound, TempSound, Recording!Present

(* The directory is synced while there is no temporary file.               *)
LEMMA DirectorySynced ==
  ASSUME RecordInv, temp = None, UNCHANGED <<path, records, temp>>, Recording!Synced
  PROVE  RecordTyped' /\ RecordsSound' /\ TempSound'
<1>1. /\ RecordTyped /\ RecordsSound
      /\ disk'.path = path /\ disk'.records = records /\ kept' = Recording!Present
      /\ disk' = [path |-> path, records |-> records]
  BY RecordUse DEF Recording!Synced
<1>2. RecordTyped'
  BY <1>1 DEF RecordTyped, Recording!Present
<1>3. RecordsSound'
  BY <1>1 DEF RecordsSound, Recording!Present
<1>. QED  BY <1>2, <1>3 DEF TempSound

(* The temporary file is replaced by one that is no record.                *)
LEMMA TemporaryChanges ==
  ASSUME RecordInv, path = Recording!Depth, UNCHANGED <<path, records, disk, kept>>,
         temp' \in Recording!Files \cup {None},
         temp' # None => FileSound(temp') /\ records[temp'.name] = None
  PROVE  RecordTyped' /\ RecordsSound' /\ TempSound'
BY RecordUse DEF RecordTyped, RecordsSound, TempSound, Recording!Present

LEMMA RecordLocks ==
  ASSUME RecordInv, NEW p \in Publishers, Recording!Lock(p)
  PROVE  RecordInv'
<1>1. /\ UNCHANGED <<path, records, temp, disk, kept, broken, failures>>
      /\ lock = None /\ lock' = p
  BY DEF Recording!Lock, Recording!directory, Recording!history
<1>2. PICK create \in BOOLEAN :
        pr' = [pr EXCEPT ![p] = [Recording!Idle EXCEPT !.pc = "open", !.create = create]]
  BY DEF Recording!Lock
<1>. DEFINE l == [Recording!Idle EXCEPT !.pc = "open", !.create = create]
<1>3. l \in RecordLocals /\ l.pc = "open"
  BY DEF Recording!Idle, RecordLocals, Recording!Pcs
<1>4. pr' = [pr EXCEPT ![p] = l]
  BY <1>2
<1>. HIDE DEF l
<1>5. /\ pr' \in [Publishers -> RecordLocals] /\ pr'[p].pc = "open"
      /\ \A q \in Publishers : q # p => pr'[q] = pr[q] /\ pr[q].pc = "idle"
  BY <1>1, <1>3, <1>4, RecordUse DEF RecordInv, Recording!TypeOK, Recording!At
<1>6. \A q \in Publishers : RecordKnows(q)'
  <2>1. \A q \in Publishers : pr'[q].pc \in {"idle", "open"}
    BY <1>5
  <2>. QED  BY <2>1 DEF RecordKnows, Opening, Preparing, Cleared
<1>7. RecordTyped' /\ RecordsSound' /\ TempSound'
  BY <1>1, FilesAlone DEF RecordFiles
<1>8. Recording!TypeOK'
  BY <1>1, <1>5, <1>7, RecordUse
     DEF Recording!TypeOK, RecordTyped, Recording!At, RecordLocals, RecordInv
<1>. QED  BY <1>1, <1>5, <1>6, <1>7, <1>8 DEF RecordInv

(* The directory and its lock files.                                       *)
LEMMA RecordOpens ==
  ASSUME RecordInv, NEW p \in Publishers,
         Recording!OpenPath(p) \/ Recording!SyncPath(p)
  PROVE  RecordInv'
<1>1. /\ UNCHANGED failures /\ pr[p].pc \in {"open", "open_sync"} /\ pr[p].pc # "idle"
      /\ RecordTyped /\ RecordsSound /\ TempSound /\ broken = {} /\ RecordKnows(p)
      /\ Recording!Depth = 7 /\ pr[p] \in RecordLocals
  BY RecordUse DEF Recording!OpenPath, Recording!SyncPath, Recording!At
<1>2. path < Recording!Depth => kept = {}
  BY <1>1 DEF RecordsSound, Recording!Present
<1>3. CASE Recording!OpenPath(p) /\ path = Recording!Depth
  <2>1. /\ Recording!Goto(p, "recover") /\ UNCHANGED RecordFiles /\ UNCHANGED broken
    BY <1>3 DEF Recording!OpenPath, Recording!directory, Recording!history, RecordFiles
  <2>2. ASSUME pr'[p] = [pr[p] EXCEPT !.pc = "recover"] PROVE RecordKnows(p)'
    <3>1. pr'[p].pc = "recover" /\ path' = Recording!Depth
      BY <1>1, <1>3, <2>1, <2>2 DEF RecordLocals, RecordFiles
    <3>. QED  BY <3>1 DEF RecordKnows, Opening, Preparing, Cleared
  <2>3. "recover" \in Recording!Pcs \ {"idle"}
    BY DEF Recording!Pcs
  <2>. QED  BY <1>1, <2>1, <2>2, <2>3, FilesAlone, RecordMoves
<1>4. CASE /\ Recording!OpenPath(p) /\ path # Recording!Depth /\ pr[p].create
           /\ path' = path + 1 /\ Recording!Goto(p, "open_sync")
           /\ UNCHANGED <<records, temp, disk, kept, broken>>
  <2>1. path < Recording!Depth /\ path \in 0..6 /\ temp = None
    BY <1>1, <1>4 DEF RecordTyped, RecordsSound
  <2>2. RecordTyped' /\ RecordsSound' /\ TempSound'
    BY <1>1, <1>4, <2>1 DEF RecordTyped, RecordsSound, TempSound, Recording!Present
  <2>3. ASSUME pr'[p] = [pr[p] EXCEPT !.pc = "open_sync"] PROVE RecordKnows(p)'
    <3>1. pr'[p].pc = "open_sync"
      BY <1>1, <2>3 DEF RecordLocals
    <3>. QED  BY <1>4, <2>1, <3>1 DEF RecordKnows, Opening, Preparing, Cleared
  <2>4. "open_sync" \in Recording!Pcs \ {"idle"}
    BY DEF Recording!Pcs
  <2>. QED  BY <1>1, <1>4, <2>2, <2>3, <2>4, RecordMoves
<1>5. CASE /\ Recording!OpenPath(p) /\ path # Recording!Depth /\ ~pr[p].create
  <2>1. /\ IF path + 1 \in Recording!LockEntries
           THEN Recording!Corrupt(p) ELSE Recording!Return(p) /\ UNCHANGED broken
        /\ UNCHANGED <<path, records, temp, disk, kept>>
    BY <1>5 DEF Recording!OpenPath, Recording!directory
  <2>2. kept = {} /\ UNCHANGED RecordFiles
    BY <1>1, <1>2, <1>5, <2>1 DEF RecordTyped, RecordFiles
  <2>3. broken' = {} /\ Recording!Return(p)
    <3>1. CASE path + 1 \in Recording!LockEntries
      BY <1>1, <1>5, <2>1, <2>2, <3>1 DEF Recording!Corrupt
    <3>2. CASE path + 1 \notin Recording!LockEntries
      BY <1>1, <2>1, <3>2
    <3>. QED  BY <3>1, <3>2
  <2>. QED  BY <1>1, <2>2, <2>3, FilesAlone, RecordLeaves
<1>6. CASE Recording!SyncPath(p)
  <2>1. /\ pr[p].pc = "open_sync" /\ Recording!Synced /\ Recording!Goto(p, "open")
        /\ UNCHANGED <<path, records, temp, broken>>
    BY <1>6 DEF Recording!SyncPath, Recording!At, Recording!directory
  <2>2. temp = None
    BY <1>1, <2>1 DEF RecordKnows, Cleared
  <2>3. ASSUME pr'[p] = [pr[p] EXCEPT !.pc = "open"] PROVE RecordKnows(p)'
    <3>1. pr'[p].pc = "open"
      BY <1>1, <2>3 DEF RecordLocals
    <3>. QED  BY <3>1 DEF RecordKnows, Opening, Preparing, Cleared
  <2>4. "open" \in Recording!Pcs \ {"idle"}
    BY DEF Recording!Pcs
  <2>. QED  BY <1>1, <2>1, <2>2, <2>3, <2>4, DirectorySynced, RecordMoves
<1>7. Recording!OpenPath(p) /\ path # Recording!Depth /\ pr[p].create =>
        /\ path' = path + 1 /\ Recording!Goto(p, "open_sync")
        /\ UNCHANGED <<records, temp, disk, kept, broken>>
  BY DEF Recording!OpenPath, Recording!history
<1>. QED  BY <1>3, <1>4, <1>5, <1>6, <1>7

(* The recovery of a temporary file.                                       *)
LEMMA RecordRecovers ==
  ASSUME RecordInv, NEW p \in Publishers,
         Recording!Recover(p) \/ Recording!SyncRecovery(p)
  PROVE  RecordInv'
<1>1. /\ UNCHANGED failures /\ pr[p].pc \in {"recover", "recover_sync"} /\ pr[p].pc # "idle"
      /\ RecordTyped /\ RecordsSound /\ TempSound /\ broken = {} /\ RecordKnows(p)
      /\ Recording!Depth = 7 /\ pr[p] \in RecordLocals
  BY RecordUse DEF Recording!Recover, Recording!SyncRecovery, Recording!At
<1>2. path = Recording!Depth
  BY <1>1 DEF RecordKnows, Opening
<1>3. CASE Recording!Recover(p) /\ temp = None
  <2>1. /\ Recording!Goto(p, "load") /\ UNCHANGED RecordFiles /\ UNCHANGED broken
    BY <1>3 DEF Recording!Recover, Recording!directory, RecordFiles
  <2>2. ASSUME pr'[p] = [pr[p] EXCEPT !.pc = "load"] PROVE RecordKnows(p)'
    <3>1. pr'[p].pc = "load" /\ temp' = None /\ path' = Recording!Depth
      BY <1>1, <1>2, <1>3, <2>1, <2>2 DEF RecordLocals, RecordFiles
    <3>. QED  BY <3>1 DEF RecordKnows, Opening, Preparing, Cleared
  <2>3. "load" \in Recording!Pcs \ {"idle"}
    BY DEF Recording!Pcs
  <2>. QED  BY <1>1, <2>1, <2>2, <2>3, FilesAlone, RecordMoves
<1>4. CASE Recording!Recover(p) /\ temp # None
  <2>1. IF Recording!Linked THEN Recording!SafeRecord(temp) ELSE Recording!SafeTemporary
    <3>1. FileSound(temp) /\ (records[temp.name] # None => records[temp.name] = temp)
      BY <1>1, <1>4 DEF TempSound
    <3>2. CASE Recording!Linked
      <4>1. records[temp.name] = temp /\ temp.name \in Recording!Names
        BY <1>1, <1>4, <3>1, <3>2 DEF Recording!Linked, RecordTyped, Recording!Files
      <4>2. FileWhole(temp)
        BY <1>1, <1>4, <4>1 DEF RecordsSound
      <4>. QED  BY <3>2, <4>2 DEF FileWhole, Recording!SafeRecord
    <3>3. CASE ~Recording!Linked
      BY <3>1, <3>3 DEF FileSound, Recording!SafeTemporary
    <3>. QED  BY <3>2, <3>3
  <2>2. /\ temp' = None /\ UNCHANGED <<path, records, disk, kept, broken>>
        /\ Recording!Goto(p, "recover_sync")
    BY <1>4, <2>1 DEF Recording!Recover
  <2>3. ASSUME pr'[p] = [pr[p] EXCEPT !.pc = "recover_sync"] PROVE RecordKnows(p)'
    <3>1. pr'[p].pc = "recover_sync" /\ temp' = None /\ path' = Recording!Depth
      BY <1>1, <1>2, <2>2, <2>3 DEF RecordLocals
    <3>. QED  BY <3>1 DEF RecordKnows, Opening, Preparing, Cleared
  <2>4. "recover_sync" \in Recording!Pcs \ {"idle"}
    BY DEF Recording!Pcs
  <2>. QED  BY <1>1, <1>2, <2>2, <2>3, <2>4, TemporaryChanges, RecordMoves
<1>5. CASE Recording!SyncRecovery(p)
  <2>1. /\ pr[p].pc = "recover_sync" /\ Recording!Synced /\ Recording!Goto(p, "load")
        /\ UNCHANGED <<path, records, temp, broken>>
    BY <1>5 DEF Recording!SyncRecovery, Recording!At, Recording!directory
  <2>2. temp = None
    BY <1>1, <2>1 DEF RecordKnows, Cleared
  <2>3. ASSUME pr'[p] = [pr[p] EXCEPT !.pc = "load"] PROVE RecordKnows(p)'
    <3>1. pr'[p].pc = "load" /\ temp' = None /\ path' = Recording!Depth
      BY <1>1, <1>2, <2>1, <2>2, <2>3 DEF RecordLocals
    <3>. QED  BY <3>1 DEF RecordKnows, Opening, Preparing, Cleared
  <2>4. "load" \in Recording!Pcs \ {"idle"}
    BY DEF Recording!Pcs
  <2>. QED  BY <1>1, <2>1, <2>2, <2>3, <2>4, DirectorySynced, RecordMoves
<1>. QED  BY <1>3, <1>4, <1>5

(* What is loaded is never corrupt.                                        *)
LEMMA LoadsAreWhole ==
  ASSUME RecordInv
  PROVE  Recording!Proposable /\ ("proposal" \in kept => Recording!Loadable)
<1>1. RecordsSound /\ RecordTyped
  BY RecordUse
<1>2. /\ "proposal" \in Recording!Names
      /\ OfRepair => "binding" \in Recording!Names
  BY DEF Recording!Names
<1>3. \A n \in Recording!Names : Recording!Readable(n)
  BY <1>1 DEF RecordsSound, Recording!Readable, Recording!SafeRecord, FileWhole
<1>4. \A n \in Recording!Present : Recording!Needs[n] \subseteq Recording!Present
  BY <1>1 DEF RecordsSound, Recording!Present
<1>5. \A n \in Recording!Names \ {"proposal", "binding"} : "proposal" \in Recording!Needs[n]
  BY DEF Recording!Names, Recording!Needs
<1>6. Recording!Proposable
  BY <1>2, <1>3, <1>4, <1>5 DEF Recording!Proposable, Recording!Present
<1>7. "proposal" \in kept => "proposal" \in Recording!Present
  BY <1>1, <1>2 DEF RecordsSound, Recording!Present
<1>. QED  BY <1>3, <1>4, <1>6, <1>7 DEF Recording!Loadable

(* The records are loaded and one of them is chosen.                       *)
LEMMA RecordChooses ==
  ASSUME RecordInv, NEW p \in Publishers,
         Recording!Load(p) \/ Recording!Choose(p) \/ Recording!Written(p)
  PROVE  RecordInv'
<1>1. /\ UNCHANGED failures /\ pr[p].pc \in {"load", "choose", "written"} /\ pr[p].pc # "idle"
      /\ RecordTyped /\ RecordsSound /\ TempSound /\ broken = {} /\ RecordKnows(p)
      /\ pr[p] \in RecordLocals /\ pr \in [Publishers -> RecordLocals]
      /\ UNCHANGED RecordFiles
  BY RecordUse DEF Recording!Load, Recording!Choose, Recording!Written, Recording!At,
                   Recording!directory, Recording!history, RecordFiles
<1>2. path = Recording!Depth /\ temp = None
  BY <1>1 DEF RecordKnows, Opening, Cleared
<1>3. ASSUME UNCHANGED broken, NEW n \in Recording!Names, NEW l \in RecordLocals,
             l.pc = "create", l.name = n, pr' = [pr EXCEPT ![p] = l], UNCHANGED lock,
             Recording!Needs[n] \subseteq Recording!Present,
             records[n] = None => Recording!Bars[n] \cap Recording!Present = {}
      PROVE  RecordInv'
  <2>1. RecordKnows(p)'
    <3>1. pr'[p] = l
      BY <1>1, <1>3
    <3>. QED  BY <1>1, <1>2, <1>3, <3>1
              DEF RecordKnows, Opening, Preparing, Cleared, RecordFiles, Recording!Present
  <2>. QED  BY <1>1, <1>3, <2>1, FilesAlone, RecordSteps
<1>4. ASSUME Recording!Return(p), broken' = {}
      PROVE  RecordInv'
  BY <1>1, <1>4, FilesAlone, RecordLeaves
<1>5. CASE Recording!Load(p) /\ pr[p].create
  <2>. DEFINE n == IF OfRepair THEN "binding" ELSE "proposal"
              l == [pr[p] EXCEPT !.pc = "create", !.name = n]
  <2>1. /\ UNCHANGED broken
        /\ \/ Recording!Return(p)
           \/ /\ pr' = [pr EXCEPT ![p].pc = "create", ![p].name = n]
              /\ UNCHANGED lock
    BY <1>5, LoadsAreWhole DEF Recording!Load
  <2>2. /\ n \in Recording!Names /\ Recording!Needs[n] = {} /\ Recording!Bars[n] = {}
    BY DEF Recording!Names, Recording!Needs, Recording!Bars
  <2>. HIDE DEF n
  <2>3. /\ l \in RecordLocals /\ l.pc = "create" /\ l.name = n
        /\ [pr EXCEPT ![p].pc = "create", ![p].name = n] = [pr EXCEPT ![p] = l]
    BY <1>1, <2>2 DEF RecordLocals, Recording!Pcs
  <2>. HIDE DEF l
  <2>. QED  BY <1>1, <1>3, <1>4, <2>1, <2>2, <2>3
<1>6. CASE Recording!Load(p) /\ ~pr[p].create
  <2>1. CASE ~Recording!Loadable
    <3>1. Recording!Corrupt(p) /\ "proposal" \notin kept
      BY <1>6, <2>1, LoadsAreWhole DEF Recording!Load
    <3>. QED  BY <1>1, <1>4, <1>6, <3>1 DEF Recording!Corrupt
  <2>2. CASE Recording!Loadable
    <3>1. Recording!Goto(p, "choose") /\ UNCHANGED broken
      BY <1>6, <2>2 DEF Recording!Load
    <3>2. ASSUME pr'[p] = [pr[p] EXCEPT !.pc = "choose"] PROVE RecordKnows(p)'
      <4>1. pr'[p].pc = "choose" /\ temp' = None /\ path' = Recording!Depth
        BY <1>1, <1>2, <3>2 DEF RecordLocals, RecordFiles
      <4>. QED  BY <4>1 DEF RecordKnows, Opening, Preparing, Cleared
    <3>3. "choose" \in Recording!Pcs \ {"idle"}
      BY DEF Recording!Pcs
    <3>. QED  BY <1>1, <3>1, <3>2, <3>3, FilesAlone, RecordMoves
  <2>. QED  BY <2>1, <2>2
<1>7. CASE Recording!Choose(p)
  <2>1. UNCHANGED broken
    BY <1>7 DEF Recording!Choose, Recording!history
  <2>2. CASE Recording!Return(p)
    BY <1>1, <1>4, <2>1, <2>2
  <2>3. CASE ~Recording!Return(p)
    <3>1. PICK n \in Recording!Names :
            /\ Recording!Needs[n] \subseteq Recording!Present
            /\ records[n] = None => Recording!Bars[n] \cap Recording!Present = {}
            /\ pr' = [pr EXCEPT ![p].pc = "create", ![p].name = n]
            /\ UNCHANGED lock
      BY <1>7, <2>3 DEF Recording!Choose
    <3>. DEFINE l == [pr[p] EXCEPT !.pc = "create", !.name = n]
    <3>2. l \in RecordLocals /\ l.pc = "create" /\ l.name = n /\ pr' = [pr EXCEPT ![p] = l]
      BY <1>1, <3>1 DEF RecordLocals, Recording!Pcs
    <3>. HIDE DEF l
    <3>. QED  BY <1>3, <2>1, <3>1, <3>2
  <2>. QED  BY <2>2, <2>3
<1>8. CASE Recording!Written(p) /\ pr[p].name = "binding"
  <2>. DEFINE l == [pr[p] EXCEPT !.pc = "create", !.name = "proposal"]
  <2>1. /\ UNCHANGED <<broken, lock>> /\ pr[p].pc = "written"
        /\ pr' = [pr EXCEPT ![p] = l]
    BY <1>8 DEF Recording!Written, Recording!history, Recording!At
  <2>2. "binding" \in Recording!Names /\ records["binding"] # None
    BY <1>1, <1>8, <2>1 DEF RecordKnows
  <2>3. /\ "proposal" \in Recording!Names /\ Recording!Bars["proposal"] = {}
        /\ Recording!Needs["proposal"] \subseteq Recording!Present
    BY <2>2 DEF Recording!Names, Recording!Needs, Recording!Bars, Recording!Present
  <2>4. l \in RecordLocals /\ l.pc = "create" /\ l.name = "proposal"
    BY <1>1, <2>3 DEF RecordLocals, Recording!Pcs
  <2>. HIDE DEF l
  <2>. QED  BY <1>3, <2>1, <2>3, <2>4
<1>9. CASE Recording!Written(p) /\ pr[p].name # "binding"
  <2>. DEFINE l == [pr[p] EXCEPT !.pc = "load", !.create = FALSE]
  <2>1. /\ UNCHANGED <<broken, lock>> /\ pr' = [pr EXCEPT ![p] = l]
    BY <1>9 DEF Recording!Written, Recording!history
  <2>2. l \in RecordLocals /\ l.pc = "load"
    BY <1>1 DEF RecordLocals, Recording!Pcs
  <2>3. pr'[p] = l
    BY <1>1, <2>1
  <2>. HIDE DEF l
  <2>4. RecordKnows(p)'
    BY <1>1, <1>2, <2>2, <2>3 DEF RecordKnows, Opening, Preparing, Cleared, RecordFiles
  <2>. QED  BY <1>1, <2>1, <2>2, <2>4, FilesAlone, RecordSteps
<1>. QED  BY <1>5, <1>6, <1>7, <1>8, <1>9

(* The temporary file is prepared.                                         *)
LEMMA RecordPrepares ==
  ASSUME RecordInv, NEW p \in Publishers, pr[p].pc # "idle",
         path = Recording!Depth,
         UNCHANGED <<path, records, disk, kept, broken, failures>>,
         NEW f \in Recording!Files, temp' = f, FileSound(f), f.name = pr[p].name,
         records[pr[p].name] = None,
         Recording!Needs[pr[p].name] \subseteq Recording!Present,
         Recording!Bars[pr[p].name] \cap Recording!Present = {},
         NEW pc \in Preparing, Recording!Goto(p, pc),
         pc \in {"write", "fill", "sync", "chmod"} => f.mode = "rw" /\ f.diskMode = "rw",
         pc \in {"sync", "chmod", "sync_mode", "link"} => f.size = "full",
         pc \in {"chmod", "sync_mode", "link"} => f.diskSize = "full",
         pc \in {"sync_mode", "link"} => f.mode = "ro",
         pc = "link" => f.diskMode = "ro"
  PROVE  RecordInv'
<1>1. /\ RecordTyped /\ broken = {} /\ pr[p] \in RecordLocals
      /\ None \notin Recording!Files
  BY RecordUse
<1>2. pc \in Recording!Pcs \ {"idle"}
  BY DEF Preparing, Recording!Pcs
<1>3. RecordTyped' /\ RecordsSound' /\ TempSound'
  BY TemporaryChanges
<1>4. ASSUME pr'[p] = [pr[p] EXCEPT !.pc = pc] PROVE RecordKnows(p)'
  <2>1. /\ pr'[p].pc = pc /\ pr'[p].name = pr[p].name /\ pr[p].name \in Recording!Names
        /\ temp' # None /\ Recording!Present' = Recording!Present
    BY <1>1, <1>4 DEF RecordLocals, Recording!Files, Recording!Present
  <2>. QED  BY <2>1 DEF RecordKnows, Opening, Preparing, Cleared
<1>. QED  BY <1>1, <1>2, <1>3, <1>4, RecordMoves

LEMMA RecordFills ==
  ASSUME RecordInv, NEW p \in Publishers,
         \/ Recording!CreateTemp(p) /\ records[pr[p].name] = None
         \/ Recording!WriteTemp(p) \/ Recording!SyncTemp(p) \/ Recording!ChmodTemp(p)
  PROVE  RecordInv'
<1>1. /\ pr[p].pc \in {"create"} \cup Preparing /\ pr[p].pc # "idle"
      /\ UNCHANGED <<path, records, disk, kept, broken, failures>>
      /\ RecordTyped /\ TempSound /\ RecordKnows(p) /\ None \notin Recording!Files
      /\ pr[p].pc = "create" => records[pr[p].name] = None
  BY RecordUse DEF Recording!CreateTemp, Recording!WriteTemp, Recording!SyncTemp,
                   Recording!ChmodTemp, Recording!At, Recording!history, Preparing
<1>2. /\ path = Recording!Depth /\ pr[p].name \in Recording!Names
      /\ records[pr[p].name] = None
      /\ Recording!Needs[pr[p].name] \subseteq Recording!Present
      /\ Recording!Bars[pr[p].name] \cap Recording!Present = {}
  BY <1>1 DEF RecordKnows, Opening, Preparing
<1>3. pr[p].pc \in Preparing =>
        temp \in Recording!Files /\ temp.name = pr[p].name /\ FileSound(temp)
  BY <1>1 DEF RecordKnows, RecordTyped, TempSound
<1>4. CASE Recording!CreateTemp(p) /\ records[pr[p].name] = None
  <2>. DEFINE f == Recording!NewFile(p, pr[p].name)
  <2>1. temp' = f /\ Recording!Goto(p, "write")
    BY <1>4 DEF Recording!CreateTemp
  <2>2. /\ f \in Recording!Files /\ f.name = pr[p].name
        /\ FileSound(f) /\ f.mode = "rw" /\ f.diskMode = "rw"
    BY <1>2 DEF Recording!NewFile, Recording!Files, Recording!Values, Recording!ValueOf,
                Recording!Sizes, Recording!Modes, FileSound
  <2>. HIDE DEF f
  <2>. QED  BY <1>1, <1>2, <2>1, <2>2, RecordPrepares DEF Preparing
<1>5. CASE Recording!WriteTemp(p) /\ pr[p].pc = "write"
  <2>. DEFINE f == [temp EXCEPT !.size = "part"]
  <2>1. temp' = f /\ Recording!Goto(p, "fill")
    BY <1>5 DEF Recording!WriteTemp, Recording!At
  <2>2. temp.mode = "rw" /\ temp.diskMode = "rw"
    BY <1>1, <1>5 DEF RecordKnows
  <2>3. /\ f \in Recording!Files /\ f.name = pr[p].name
        /\ FileSound(f) /\ f.mode = "rw" /\ f.diskMode = "rw"
    BY <1>3, <1>5, <2>2 DEF Preparing, Recording!Files, Recording!Sizes, FileSound
  <2>. HIDE DEF f
  <2>. QED  BY <1>1, <1>2, <2>1, <2>3, RecordPrepares DEF Preparing
<1>6. CASE Recording!WriteTemp(p) /\ pr[p].pc # "write"
  <2>. DEFINE f == [temp EXCEPT !.size = "full"]
  <2>1. temp' = f /\ Recording!Goto(p, "sync") /\ pr[p].pc = "fill"
    BY <1>6 DEF Recording!WriteTemp, Recording!At
  <2>2. temp.mode = "rw" /\ temp.diskMode = "rw"
    BY <1>1, <2>1 DEF RecordKnows
  <2>3. /\ f \in Recording!Files /\ f.name = pr[p].name
        /\ FileSound(f) /\ f.mode = "rw" /\ f.diskMode = "rw" /\ f.size = "full"
    BY <1>3, <2>1, <2>2 DEF Preparing, Recording!Files, Recording!Sizes, FileSound
  <2>. HIDE DEF f
  <2>. QED  BY <1>1, <1>2, <2>1, <2>3, RecordPrepares DEF Preparing
<1>7. CASE Recording!SyncTemp(p)
  <2>. DEFINE f == [temp EXCEPT !.diskSize = temp.size, !.diskMode = temp.mode]
  <2>1. /\ temp' = f /\ pr[p].pc \in {"sync", "sync_mode"}
        /\ Recording!Goto(p, IF pr[p].pc = "sync" THEN "chmod" ELSE "link")
    BY <1>7 DEF Recording!SyncTemp, Recording!At
  <2>2. /\ temp.size = "full"
        /\ pr[p].pc = "sync" => temp.mode = "rw"
        /\ pr[p].pc = "sync_mode" => temp.mode = "ro"
    BY <1>1, <2>1 DEF RecordKnows
  <2>3. /\ f \in Recording!Files /\ f.name = pr[p].name
        /\ FileSound(f) /\ f.size = "full" /\ f.diskSize = "full"
        /\ f.mode = temp.mode /\ f.diskMode = temp.mode
    BY <1>3, <2>1, <2>2 DEF Preparing, Recording!Files, FileSound
  <2>. HIDE DEF f
  <2>4. CASE pr[p].pc = "sync"
    BY <1>1, <1>2, <2>1, <2>2, <2>3, <2>4, RecordPrepares DEF Preparing
  <2>5. CASE pr[p].pc = "sync_mode"
    BY <1>1, <1>2, <2>1, <2>2, <2>3, <2>5, RecordPrepares DEF Preparing
  <2>. QED  BY <2>1, <2>4, <2>5
<1>8. CASE Recording!ChmodTemp(p)
  <2>. DEFINE f == [temp EXCEPT !.mode = "ro"]
  <2>1. temp' = f /\ Recording!Goto(p, "sync_mode") /\ pr[p].pc = "chmod"
    BY <1>8 DEF Recording!ChmodTemp, Recording!At
  <2>2. temp.size = "full" /\ temp.diskSize = "full"
    BY <1>1, <2>1 DEF RecordKnows
  <2>3. /\ f \in Recording!Files /\ f.name = pr[p].name
        /\ FileSound(f) /\ f.size = "full" /\ f.diskSize = "full" /\ f.mode = "ro"
    BY <1>3, <2>1, <2>2 DEF Preparing, Recording!Files, Recording!Modes, FileSound
  <2>. HIDE DEF f
  <2>. QED  BY <1>1, <1>2, <2>1, <2>3, RecordPrepares DEF Preparing
<1>. QED  BY <1>4, <1>5, <1>6, <1>7, <1>8

(* The record gets its name, the temporary name goes, the directory is     *)
(* synced.                                                                 *)
LEMMA RecordPublishes ==
  ASSUME RecordInv, NEW p \in Publishers,
         \/ Recording!LinkRecord(p) \/ Recording!UnlinkTemp(p) \/ Recording!SyncDirectory(p)
         \/ Recording!CreateTemp(p) /\ records[pr[p].name] # None
  PROVE  RecordInv'
<1>1. /\ pr[p].pc \in {"create", "link", "unlink", "dir_sync"} /\ pr[p].pc # "idle"
      /\ UNCHANGED <<path, broken, failures>>
      /\ RecordTyped /\ RecordsSound /\ TempSound /\ broken = {} /\ RecordKnows(p)
      /\ pr[p] \in RecordLocals /\ None \notin Recording!Files /\ None \notin Recording!Names
  BY RecordUse DEF Recording!CreateTemp, Recording!LinkRecord, Recording!UnlinkTemp,
                   Recording!SyncDirectory, Recording!At, Recording!history,
                   Recording!directory
<1>2. path = Recording!Depth /\ pr[p].name \in Recording!Names
  BY <1>1 DEF RecordKnows, Opening, Preparing
<1>3. CASE Recording!CreateTemp(p) /\ records[pr[p].name] # None
  <2>1. /\ pr[p].pc = "create" /\ UNCHANGED RecordFiles
        /\ Recording!Goto(p, "written") \/ Recording!Return(p)
    BY <1>3 DEF Recording!CreateTemp, Recording!At, Recording!directory, Recording!history,
                RecordFiles
  <2>2. CASE Recording!Return(p)
    BY <1>1, <2>1, <2>2, FilesAlone, RecordLeaves
  <2>3. CASE Recording!Goto(p, "written")
    <3>1. ASSUME pr'[p] = [pr[p] EXCEPT !.pc = "written"] PROVE RecordKnows(p)'
      <4>1. pr'[p].pc = "written" /\ pr'[p].name = pr[p].name /\ temp' = None
            /\ path' = Recording!Depth /\ records'[pr[p].name] # None
        BY <1>1, <1>2, <1>3, <2>1, <3>1 DEF RecordLocals, RecordFiles, RecordKnows, Cleared
      <4>. QED  BY <1>2, <4>1 DEF RecordKnows, Opening, Preparing, Cleared
    <3>2. "written" \in Recording!Pcs \ {"idle"}
      BY DEF Recording!Pcs
    <3>. QED  BY <1>1, <2>1, <2>3, <3>1, <3>2, FilesAlone, RecordMoves
  <2>. QED  BY <2>1, <2>2, <2>3
<1>4. CASE Recording!LinkRecord(p)
  <2>1. /\ pr[p].pc = "link" /\ records' = [records EXCEPT ![temp.name] = temp]
        /\ UNCHANGED <<temp, disk, kept>> /\ Recording!Goto(p, "unlink")
    BY <1>4 DEF Recording!LinkRecord, Recording!At, Recording!history
  <2>2. /\ temp \in Recording!Files /\ temp # None /\ temp.name = pr[p].name
        /\ records[pr[p].name] = None /\ FileWhole(temp) /\ FileSound(temp)
        /\ Recording!Needs[pr[p].name] \subseteq Recording!Present
    BY <1>1, <2>1 DEF RecordKnows, Preparing, RecordTyped, TempSound, FileWhole
  <2>3. /\ records' \in [Recording!Names -> Recording!Files \cup {None}]
        /\ records'[pr[p].name] = temp
        /\ \A n \in Recording!Names : n # pr[p].name => records'[n] = records[n]
        /\ Recording!Present' = Recording!Present \cup {pr[p].name}
    BY <1>1, <1>2, <2>1, <2>2 DEF RecordTyped, Recording!Present
  <2>4. RecordTyped'
    BY <1>1, <2>1, <2>3 DEF RecordTyped
  <2>5. RecordsSound'
    <3>1. pr[p].name \notin kept
      BY <1>1, <2>2 DEF RecordsSound
    <3>2. ASSUME NEW n \in Recording!Names, records'[n] # None
          PROVE  FileWhole(records'[n]) /\ Recording!Needs[n] \subseteq Recording!Present'
      <4>1. CASE n = pr[p].name
        BY <2>2, <2>3, <4>1
      <4>2. CASE n # pr[p].name
        BY <1>1, <2>3, <3>2, <4>2 DEF RecordsSound
      <4>. QED  BY <4>1, <4>2
    <3>3. /\ kept' = {n \in Recording!Names : disk'.records[n] # None}
          /\ disk'.path < Recording!Depth => kept' = {}
      BY <1>1, <2>1 DEF RecordsSound
    <3>4. \A n \in kept' : records'[n] = disk'.records[n] /\ Recording!Needs[n] \subseteq kept'
      BY <1>1, <2>1, <2>3, <3>1 DEF RecordsSound, RecordTyped
    <3>5. ~(path' < Recording!Depth)
      BY <1>1, <1>2, RecordUse
    <3>. QED  BY <3>2, <3>3, <3>4, <3>5 DEF RecordsSound
  <2>6. TempSound'
    BY <2>1, <2>2, <2>3 DEF TempSound
  <2>7. ASSUME pr'[p] = [pr[p] EXCEPT !.pc = "unlink"] PROVE RecordKnows(p)'
    <3>1. pr'[p].pc = "unlink" /\ pr'[p].name = pr[p].name /\ path' = Recording!Depth
      BY <1>1, <1>2, <2>7 DEF RecordLocals
    <3>. QED  BY <1>2, <2>2, <2>3, <3>1 DEF RecordKnows, Opening, Preparing, Cleared
  <2>8. "unlink" \in Recording!Pcs \ {"idle"}
    BY DEF Recording!Pcs
  <2>. QED  BY <1>1, <2>1, <2>4, <2>5, <2>6, <2>7, <2>8, RecordMoves
<1>5. CASE Recording!UnlinkTemp(p)
  <2>1. /\ pr[p].pc = "unlink" /\ temp' = None /\ UNCHANGED <<records, disk, kept>>
        /\ Recording!Goto(p, "dir_sync")
    BY <1>5 DEF Recording!UnlinkTemp, Recording!At, Recording!history
  <2>2. ASSUME pr'[p] = [pr[p] EXCEPT !.pc = "dir_sync"] PROVE RecordKnows(p)'
    <3>1. /\ pr'[p].pc = "dir_sync" /\ pr'[p].name = pr[p].name /\ path' = Recording!Depth
          /\ records'[pr[p].name] # None
      BY <1>1, <1>2, <2>1, <2>2 DEF RecordLocals, RecordKnows
    <3>. QED  BY <1>2, <2>1, <3>1 DEF RecordKnows, Opening, Preparing, Cleared
  <2>3. "dir_sync" \in Recording!Pcs \ {"idle"}
    BY DEF Recording!Pcs
  <2>. QED  BY <1>1, <1>2, <2>1, <2>2, <2>3, TemporaryChanges, RecordMoves
<1>6. CASE Recording!SyncDirectory(p)
  <2>1. /\ pr[p].pc = "dir_sync" /\ Recording!Synced /\ Recording!Goto(p, "written")
        /\ UNCHANGED <<path, records, temp>>
    BY <1>6 DEF Recording!SyncDirectory, Recording!At, Recording!directory
  <2>2. temp = None
    BY <1>1, <2>1 DEF RecordKnows, Cleared
  <2>3. ASSUME pr'[p] = [pr[p] EXCEPT !.pc = "written"] PROVE RecordKnows(p)'
    <3>1. /\ pr'[p].pc = "written" /\ pr'[p].name = pr[p].name /\ path' = Recording!Depth
          /\ records'[pr[p].name] # None /\ temp' = None
      BY <1>1, <1>2, <2>1, <2>2, <2>3 DEF RecordLocals, RecordKnows
    <3>. QED  BY <1>2, <3>1 DEF RecordKnows, Opening, Preparing, Cleared
  <2>4. "written" \in Recording!Pcs \ {"idle"}
    BY DEF Recording!Pcs
  <2>. QED  BY <1>1, <2>1, <2>2, <2>3, <2>4, DirectorySynced, RecordMoves
<1>. QED  BY <1>3, <1>4, <1>5, <1>6

(* A call fails or its process dies.                                       *)
LEMMA RecordFails ==
  ASSUME RecordInv, NEW p \in Publishers, Recording!CallFails(p) \/ Recording!Crash(p)
  PROVE  RecordInv'
<1>1. /\ pr[p].pc # "idle" /\ Recording!Return(p) /\ RecordKnows(p) /\ broken = {}
      /\ UNCHANGED <<broken, failures>>
  BY RecordUse DEF Recording!CallFails, Recording!Crash, Recording!At, Recording!history
<1>2. CASE UNCHANGED RecordFiles
  BY <1>1, <1>2, FilesAlone, RecordLeaves
<1>3. CASE ~UNCHANGED RecordFiles
  <2>1. pr[p].pc \in Preparing /\ temp' = None /\ UNCHANGED <<path, records, disk, kept>>
    BY <1>3 DEF Recording!CallFails, Recording!Crash, Recording!directory, Recording!history,
                RecordFiles, Preparing
  <2>2. path = Recording!Depth
    BY <1>1, <2>1 DEF RecordKnows, Opening, Preparing
  <2>. QED  BY <1>1, <2>1, <2>2, TemporaryChanges, RecordLeaves
<1>. QED  BY <1>2, <1>3

(* What a power failure leaves of a file.                                  *)
LEMMA FileLeft ==
  ASSUME NEW f \in Recording!Files, NEW data \in BOOLEAN, NEW mode \in BOOLEAN,
         None \notin Recording!Files
  PROVE  /\ Recording!Left(f, data, mode) \in Recording!Files
         /\ Recording!Left(f, data, mode) # None
         /\ Recording!Left(f, data, mode).name = f.name
         /\ Recording!Left(f, data, mode).value = f.value
         /\ FileSound(f) => FileSound(Recording!Left(f, data, mode))
         /\ FileWhole(f) => FileWhole(Recording!Left(f, data, mode))
<1>1. f # None
  OBVIOUS
<1>. DEFINE s == IF data THEN f.size ELSE f.diskSize
            m == IF mode THEN f.mode ELSE f.diskMode
            g == [f EXCEPT !.size = s, !.mode = m, !.diskSize = s, !.diskMode = m]
<1>2. Recording!Left(f, data, mode) = g
  BY <1>1 DEF Recording!Left
<1>3. /\ s \in {f.size, f.diskSize} /\ m \in {f.mode, f.diskMode}
  OBVIOUS
<1>4. /\ FileSound(f) => (m = "ro" => s = "full")
      /\ FileWhole(f) => s = "full" /\ m = "ro"
  BY <1>3 DEF FileSound, FileWhole
<1>5. s \in Recording!Sizes /\ m \in Recording!Modes
  BY <1>3 DEF Recording!Files
<1>. HIDE DEF s, m
<1>6. /\ g \in Recording!Files /\ g.name = f.name /\ g.value = f.value
      /\ g.size = s /\ g.diskSize = s /\ g.mode = m /\ g.diskMode = m
  BY <1>5 DEF Recording!Files
<1>. QED  BY <1>2, <1>4, <1>6 DEF FileSound, FileWhole

(* The files after a power failure.                                        *)
PowerLeaves ==
  /\ path' \in 0..Recording!Depth
  /\ records' \in [Recording!Names -> Recording!Files \cup {None}]
  /\ temp' \in Recording!Files \cup {None}
  /\ \A n \in Recording!Names :
       records'[n] # None =>
         FileWhole(records'[n]) /\ Recording!Needs[n] \subseteq Recording!Present'
  /\ path' < Recording!Depth => Recording!Present' = {} /\ temp' = None
  /\ TempSound'

LEMMA RecordPowerFails ==
  ASSUME RecordInv, Recording!PowerFailure
  PROVE  RecordInv'
<1>1. /\ RecordTyped /\ RecordsSound /\ TempSound /\ broken = {}
      /\ None \notin Recording!Files /\ None \notin Recording!Names /\ None \notin Publishers
  BY RecordUse
<1>2. /\ disk' = [path |-> path', records |-> records'] /\ kept' = Recording!Present'
      /\ pr' = [p \in Publishers |-> Recording!Idle] /\ lock' = None /\ UNCHANGED broken
      /\ failures < PowerBound /\ failures' = failures + 1
  BY DEF Recording!PowerFailure, Recording!Present
<1>3. PowerLeaves
  <2>1. CASE path' = disk.path /\ records' = disk.records /\ temp' = None
    <3>1. disk.records \in [Recording!Names -> Recording!Files \cup {None}] /\ disk.path \in 0..Recording!Depth
      BY <1>1 DEF RecordTyped
    <3>2. Recording!Present' = kept
      BY <1>1, <2>1 DEF RecordsSound, Recording!Present
    <3>3. \A n \in kept : n \in Recording!Names /\ disk.records[n] # None
      BY <1>1 DEF RecordsSound
    <3>4. ASSUME NEW n \in Recording!Names, records'[n] # None
          PROVE  FileWhole(records'[n]) /\ Recording!Needs[n] \subseteq Recording!Present'
      <4>1. n \in kept
        BY <1>1, <2>1, <3>4 DEF RecordsSound
      <4>2. records'[n] = records[n] /\ Recording!Needs[n] \subseteq kept
        BY <1>1, <2>1, <4>1 DEF RecordsSound
      <4>3. FileWhole(records[n])
        BY <1>1, <3>4, <4>2 DEF RecordsSound
      <4>. QED  BY <3>2, <4>2, <4>3
    <3>5. path' < Recording!Depth => Recording!Present' = {}
      BY <1>1, <2>1, <3>2 DEF RecordsSound
    <3>6. TempSound'
      BY <2>1 DEF TempSound
    <3>7. /\ path' \in 0..Recording!Depth /\ temp' \in Recording!Files \cup {None}
          /\ records' \in [Recording!Names -> Recording!Files \cup {None}]
      BY <2>1, <3>1
    <3>. QED  BY <2>1, <3>4, <3>5, <3>6, <3>7 DEF PowerLeaves
  <2>2. ASSUME NEW data \in BOOLEAN, NEW mode \in BOOLEAN,
               records' = [n \in Recording!Names |-> Recording!Left(records[n], data, mode)],
               temp' = Recording!Left(temp, data, mode), UNCHANGED path
        PROVE  PowerLeaves
    <3>1. \A n \in Recording!Names :
            /\ records[n] = None => records'[n] = None
            /\ records[n] # None =>
                 /\ records'[n] \in Recording!Files /\ records'[n] # None
                 /\ FileWhole(records'[n])
      <4>. SUFFICES ASSUME NEW n \in Recording!Names
                    PROVE  /\ records[n] = None => records'[n] = None
                           /\ records[n] # None =>
                                /\ records'[n] \in Recording!Files /\ records'[n] # None
                                /\ FileWhole(records'[n])
        OBVIOUS
      <4>1. records'[n] = Recording!Left(records[n], data, mode)
        BY <2>2
      <4>2. CASE records[n] = None
        BY <4>1, <4>2 DEF Recording!Left
      <4>3. CASE records[n] # None
        <5>1. records[n] \in Recording!Files /\ FileWhole(records[n])
          BY <1>1, <4>3 DEF RecordTyped, RecordsSound
        <5>. QED  BY <1>1, <4>1, <4>3, <5>1, FileLeft
      <4>. QED  BY <4>2, <4>3
    <3>2. Recording!Present' = Recording!Present
      BY <3>1 DEF Recording!Present
    <3>3. records' \in [Recording!Names -> Recording!Files \cup {None}]
      <4>1. \A n \in Recording!Names : records'[n] \in Recording!Files \cup {None}
        BY <3>1
      <4>. QED  BY <2>2, <4>1
    <3>4. /\ temp = None => temp' = None
          /\ temp # None => /\ temp' \in Recording!Files /\ FileSound(temp')
                            /\ temp'.name = temp.name /\ temp.name \in Recording!Names
      <4>1. CASE temp = None
        BY <2>2, <4>1 DEF Recording!Left
      <4>2. CASE temp # None
        <5>1. temp \in Recording!Files /\ FileSound(temp)
          BY <1>1, <4>2 DEF RecordTyped, TempSound
        <5>2. temp.name \in Recording!Names
          BY <5>1 DEF Recording!Files
        <5>. QED  BY <1>1, <2>2, <4>2, <5>1, <5>2, FileLeft
      <4>. QED  BY <4>1, <4>2
    <3>5. TempSound'
      <4>. SUFFICES ASSUME temp' # None, records'[temp'.name] # None
                    PROVE  records'[temp'.name] = temp'
        BY <3>4 DEF TempSound
      <4>1. temp # None /\ temp'.name = temp.name /\ temp.name \in Recording!Names
        BY <3>4
      <4>2. records[temp.name] = temp
        BY <1>1, <3>1, <4>1 DEF TempSound
      <4>. QED  BY <2>2, <4>1, <4>2
    <3>. QED  BY <1>1, <2>2, <3>1, <3>2, <3>3, <3>4, <3>5 DEF RecordTyped, RecordsSound, PowerLeaves
  <2>. QED  BY <2>1, <2>2 DEF Recording!PowerFailure
<1>4. RecordTyped'
  BY <1>2, <1>3 DEF PowerLeaves, RecordTyped, Recording!Present
<1>5. RecordsSound'
  <2>1. disk'.path = path' /\ disk'.records = records'
    BY <1>2
  <2>. QED  BY <1>2, <1>3, <2>1 DEF PowerLeaves, RecordsSound, Recording!Present
<1>6. /\ Recording!Idle \in RecordLocals /\ Recording!Idle.pc = "idle"
  BY DEF Recording!Idle, RecordLocals, Recording!Pcs
<1>7. /\ pr' \in [Publishers -> RecordLocals] /\ \A p \in Publishers : pr'[p].pc = "idle"
  BY <1>2, <1>6
<1>8. \A p \in Publishers : RecordKnows(p)'
  BY <1>7 DEF RecordKnows, Opening, Preparing, Cleared
<1>9. /\ failures' \in 0..PowerBound
  BY <1>2, RecordAssumption DEF RecordInv, Recording!TypeOK, Recording!ParametersAssumption
<1>10. /\ lock' \in Publishers \cup {None}
       /\ \A p \in Publishers : /\ pr'[p].pc \in Recording!Pcs /\ pr'[p].create \in BOOLEAN
                                /\ pr'[p].name \in Recording!Names \cup {None}
                                /\ pr'[p].pc = "idle" <=> lock' # p
  BY <1>1, <1>2, <1>7 DEF RecordLocals
<1>11. Recording!TypeOK'
  BY <1>1, <1>2, <1>4, <1>9, <1>10 DEF Recording!TypeOK, RecordTyped, Recording!At
<1>. QED  BY <1>1, <1>2, <1>3, <1>5, <1>7, <1>8, <1>11 DEF PowerLeaves, RecordInv

LEMMA RecordInit ==
  ASSUME Recording!Init
  PROVE  RecordInv
<1>1. /\ path = 0 /\ records = [n \in Recording!Names |-> None] /\ temp = None
      /\ disk = [path |-> path, records |-> records] /\ kept = {} /\ broken = {}
      /\ failures = 0 /\ lock = None /\ pr = [p \in Publishers |-> Recording!Idle]
      /\ Recording!Depth = 7 /\ None \notin Publishers /\ PowerBound \in Nat
  BY RecordAssumption DEF Recording!Init, Recording!Depth, Recording!ParametersAssumption,
                          Recording!ProcessesAssumption
<1>2. /\ Recording!Idle \in RecordLocals /\ Recording!Idle.pc = "idle"
  BY DEF Recording!Idle, RecordLocals, Recording!Pcs
<1>3. /\ pr \in [Publishers -> RecordLocals] /\ \A p \in Publishers : pr[p].pc = "idle"
  BY <1>1, <1>2
<1>4. \A p \in Publishers : RecordKnows(p)
  BY <1>3 DEF RecordKnows, Opening, Preparing, Cleared
<1>5. RecordTyped /\ RecordsSound /\ TempSound
  BY <1>1 DEF RecordTyped, RecordsSound, TempSound, Recording!Present
<1>6. \A p \in Publishers : /\ pr[p].pc \in Recording!Pcs /\ pr[p].create \in BOOLEAN
                            /\ pr[p].name \in Recording!Names \cup {None}
                            /\ pr[p].pc = "idle" <=> lock # p
  BY <1>1, <1>3 DEF RecordLocals
<1>7. Recording!TypeOK
  BY <1>1, <1>5, <1>6 DEF Recording!TypeOK, RecordTyped, Recording!At
<1>. QED  BY <1>1, <1>3, <1>4, <1>5, <1>7 DEF RecordInv

LEMMA RecordStep ==
  ASSUME RecordInv, Recording!Next
  PROVE  RecordInv'
<1>1. ASSUME NEW p \in Publishers, Recording!CreateTemp(p)
      PROVE  RecordInv'
  BY <1>1, RecordFills, RecordPublishes
<1>. QED  BY <1>1, RecordLocks, RecordOpens, RecordRecovers, RecordChooses, RecordFills,
             RecordPublishes, RecordFails, RecordPowerFails DEF Recording!Next

LEMMA RecordGoals ==
  ASSUME RecordInv
  PROVE  Recording!TypeOK /\ Recording!RecordsAreWhole /\ Recording!NothingIsBroken
BY DEF RecordInv, RecordsSound, FileWhole, Recording!RecordsAreWhole,
       Recording!NothingIsBroken, Recording!Present

(* The steps of the records are steps of records that are written once.    *)
ValueAt(n) == IF records[n] = None THEN None ELSE records[n].value

LEMMA ValuesPresent ==
  ASSUME RecordTyped, NEW n \in Recording!Names
  PROVE  records[n] # None => ValueAt(n) \in Recording!Values /\ ValueAt(n) # None
BY RecordAssumption
   DEF RecordTyped, Recording!Files, Recording!Values, ValueAt, Recording!ProcessesAssumption

LEMMA RecordImplements ==
  ASSUME RecordInv, Recording!Next, part = "records", UNCHANGED part
  PROVE  Records!Next \/ UNCHANGED Records!recordVars
<1>. DEFINE r == [n \in Recording!Names |->
                    IF part # "records" THEN None
                    ELSE IF records[n] = None THEN None ELSE records[n].value]
            k == IF part = "records" THEN kept ELSE {}
<1>1. /\ r = [n \in Recording!Names |-> ValueAt(n)]
      /\ r' = [n \in Recording!Names |-> ValueAt(n)']
      /\ k = kept /\ k' = kept'
  BY DEF ValueAt
<1>2. Records!Present = {n \in Recording!Names : r[n] # None}
  BY DEF Records!Present
<1>3. UNCHANGED <<r, k>> => UNCHANGED Records!recordVars
  BY DEF Records!recordVars
<1>4. r' = r /\ k' = Records!Present => Records!Keep
  BY DEF Records!Keep
<1>5. \A n \in Recording!Names, v \in Recording!Values :
        /\ r[n] = None /\ Recording!Needs[n] \subseteq Records!Present
        /\ Recording!Bars[n] \cap Records!Present = {}
        /\ r' = [r EXCEPT ![n] = v] /\ k' = k
        => Records!Write(n)
  BY DEF Records!Write
<1>6. \A gone \in SUBSET (Records!Present \ k) :
        /\ r' = [n \in Recording!Names |-> IF n \in gone THEN None ELSE r[n]]
        /\ k' = Records!Present \ gone
        => Records!Lose
  BY DEF Records!Lose
<1>. HIDE DEF r, k
<1>7. /\ RecordTyped /\ RecordsSound /\ RecordTyped' /\ RecordsSound'
  <2>1. RecordInv'
    BY RecordStep
  <2>. QED  BY <2>1, RecordUse DEF RecordInv, RecordTyped, Recording!TypeOK
<1>8. /\ Records!Present = Recording!Present
      /\ \A n \in Recording!Names : records[n] # None <=> r[n] # None
  BY <1>1, <1>2, <1>7, ValuesPresent DEF Recording!Present, ValueAt
<1>9. ASSUME records' = records PROVE r' = r
  BY <1>1, <1>9 DEF ValueAt
<1>10. ASSUME UNCHANGED <<records, kept>> PROVE UNCHANGED Records!recordVars
  BY <1>1, <1>3, <1>9, <1>10
<1>11. ASSUME records' = records, Recording!Synced PROVE Records!Next
  BY <1>1, <1>4, <1>8, <1>9, <1>11 DEF Recording!Synced, Records!Next
<1>12. ASSUME NEW p \in Publishers, Recording!LinkRecord(p)
       PROVE  Records!Next
  <2>1. /\ pr[p].pc = "link" /\ records' = [records EXCEPT ![temp.name] = temp]
        /\ UNCHANGED kept /\ RecordKnows(p)
    BY <1>12, RecordUse DEF Recording!LinkRecord, Recording!At, Recording!history
  <2>2. /\ temp \in Recording!Files /\ temp # None /\ temp.name \in Recording!Names
        /\ records[temp.name] = None
        /\ Recording!Needs[temp.name] \subseteq Recording!Present
        /\ Recording!Bars[temp.name] \cap Recording!Present = {}
    BY <1>7, <2>1 DEF RecordKnows, Preparing, RecordTyped
  <2>3. temp.value \in Recording!Values
    BY <2>2 DEF Recording!Files
  <2>4. r' = [r EXCEPT ![temp.name] = temp.value]
    <3>1. ASSUME NEW n \in Recording!Names
          PROVE  ValueAt(n)' = IF n = temp.name THEN temp.value ELSE ValueAt(n)
      BY <1>7, <2>1, <2>2 DEF ValueAt, RecordTyped
    <3>. QED  BY <1>1, <2>2, <3>1
  <2>5. r[temp.name] = None
    BY <1>8, <2>2
  <2>6. k' = k
    BY <1>1, <2>1
  <2>7. PICK n \in Recording!Names, v \in Recording!Values :
          n = temp.name /\ v = temp.value
    BY <2>2, <2>3
  <2>8. Records!Write(n)
    <3>1. /\ r[n] = None /\ r' = [r EXCEPT ![n] = v]
          /\ Recording!Needs[n] \subseteq Records!Present
          /\ Recording!Bars[n] \cap Records!Present = {}
      BY <1>8, <2>2, <2>4, <2>5, <2>7
    <3>. QED  BY <1>5, <2>6, <3>1
  <2>. QED  BY <2>8 DEF Records!Next
<1>13. ASSUME Recording!PowerFailure
       PROVE  Records!Next
  <2>1. kept' = Recording!Present'
    BY <1>13 DEF Recording!PowerFailure, Recording!Present
  <2>2. CASE records' = disk.records
    <3>. DEFINE gone == Records!Present \ k
    <3>1. /\ kept \subseteq Recording!Present /\ Recording!Present' = kept
          /\ \A n \in Recording!Names : IF n \in kept THEN records'[n] = records[n]
                                                     ELSE records'[n] = None
      BY <1>7, <2>2 DEF RecordsSound, RecordTyped, Recording!Present
    <3>2. gone = Recording!Present \ kept
      BY <1>1, <1>8
    <3>. HIDE DEF gone
    <3>3. ASSUME NEW n \in Recording!Names
          PROVE  ValueAt(n)' = IF n \in gone THEN None ELSE ValueAt(n)
      BY <3>1, <3>2, <3>3 DEF ValueAt, Recording!Present
    <3>4. r' = [n \in Recording!Names |-> IF n \in gone THEN None ELSE r[n]]
      BY <1>1, <3>3
    <3>5. k' = Records!Present \ gone
      BY <1>1, <1>8, <2>1, <3>1, <3>2
    <3>. QED  BY <1>1, <1>6, <1>8, <3>2, <3>4, <3>5 DEF Records!Next
  <2>3. ASSUME NEW data \in BOOLEAN, NEW mode \in BOOLEAN,
               records' = [n \in Recording!Names |-> Recording!Left(records[n], data, mode)]
        PROVE  Records!Next
    <3>1. ASSUME NEW n \in Recording!Names
          PROVE  ValueAt(n)' = ValueAt(n) /\ (records'[n] = None <=> records[n] = None)
      <4>1. records'[n] = Recording!Left(records[n], data, mode)
        BY <2>3
      <4>2. CASE records[n] = None
        BY <4>1, <4>2 DEF Recording!Left, ValueAt
      <4>3. CASE records[n] # None
        <5>1. records[n] \in Recording!Files
          BY <1>7, <4>3 DEF RecordTyped
        <5>. QED  BY <4>1, <4>3, <5>1, FileLeft, RecordUse DEF ValueAt
      <4>. QED  BY <4>2, <4>3
    <3>2. Recording!Present' = Recording!Present
      BY <3>1 DEF Recording!Present
    <3>3. r' = r
      BY <1>1, <3>1
    <3>. QED  BY <1>1, <1>4, <1>8, <2>1, <3>2, <3>3 DEF Records!Next
  <2>. QED  BY <1>13, <2>2, <2>3 DEF Recording!PowerFailure
<1>14. ASSUME NEW p \in Publishers,
              \/ Recording!Lock(p) \/ Recording!OpenPath(p) \/ Recording!Recover(p)
              \/ Recording!Load(p) \/ Recording!Choose(p) \/ Recording!CreateTemp(p)
              \/ Recording!WriteTemp(p) \/ Recording!SyncTemp(p) \/ Recording!ChmodTemp(p)
              \/ Recording!UnlinkTemp(p) \/ Recording!Written(p) \/ Recording!CallFails(p)
              \/ Recording!Crash(p)
       PROVE  UNCHANGED <<records, kept>>
  BY <1>14 DEF Recording!Lock, Recording!OpenPath, Recording!Recover, Recording!Load,
     Recording!Choose, Recording!CreateTemp, Recording!WriteTemp, Recording!SyncTemp,
     Recording!ChmodTemp, Recording!UnlinkTemp, Recording!Written, Recording!CallFails,
     Recording!Crash, Recording!directory, Recording!history
<1>15. ASSUME NEW p \in Publishers,
              \/ Recording!SyncPath(p) \/ Recording!SyncRecovery(p)
              \/ Recording!SyncDirectory(p)
       PROVE  records' = records /\ Recording!Synced
  BY <1>15 DEF Recording!SyncPath, Recording!SyncRecovery, Recording!SyncDirectory,
               Recording!directory
<1>. QED  BY <1>10, <1>11, <1>12, <1>13, <1>14, <1>15 DEF Recording!Next

-----------------------------------------------------------------------------
(* The three together.  A behaviour is about one of them, and keeps the    *)
(* invariant of that one.                                                  *)

PublicationInv ==
  \/ part = "check" /\ CheckInv
  \/ part = "repair" /\ RepairInv /\ lost = 0
  \/ part = "delayed" /\ RepairInv
  \/ part = "records" /\ RecordInv

LEMMA PublicationInit == Init => PublicationInv
<1>1. Repairing!Init => lost = 0
  BY DEF Repairing!Init
<1>. QED  BY <1>1, CheckInit, RepairInit, RecordInit DEF Init, PublicationInv

LEMMA CheckIdles ==
  ASSUME CheckInv, UNCHANGED <<lock, pr, sharedVars, checkVars>>
  PROVE  CheckInv'
<1>1. UNCHANGED <<lock, pr, approval, result, late, lost, source, permitted, expired, checks,
                  exact>>
  BY DEF sharedVars, checkVars
<1>2. Checking!TypeOK'
  BY <1>1 DEF CheckInv, Checking!TypeOK, Checking!At, Checking!LateWrites
<1>3. CheckRecords' /\ (lost' = 0 => CheckInOrder')
  BY <1>1 DEF CheckInv, CheckRecords, CheckInOrder, Checking!Complete, Meant, Annotated
<1>4. \A p \in Publishers : CheckKnows(p)' /\ (lost' = 0 => CheckKnowsAll(p)')
  BY <1>1 DEF CheckInv, CheckKnows, CheckKnowsAll, Annotated
<1>. QED  BY <1>1, <1>2, <1>3, <1>4 DEF CheckInv

LEMMA RepairIdles ==
  ASSUME RepairInv, UNCHANGED <<lock, pr, sharedVars, repairVars>>
  PROVE  RepairInv'
<1>1. UNCHANGED RepairRest /\ UNCHANGED <<lock, pr>>
  BY DEF sharedVars, repairVars, RepairRest
<1>2. Repairing!TypeOK'
  BY <1>1 DEF RepairRest, RepairInv, Repairing!TypeOK, Repairing!At
<1>3. RepairRecords' /\ (lost' = 0 => RepairInOrder')
  BY <1>1 DEF RepairInv, RepairRest, RepairRecords, RepairInOrder, Repairing!AtMostOnePull, Due,
              LocallyApplied, WholeNow, Exact
<1>4. \A p \in Publishers : RepairKnows(p)' /\ (lost' = 0 => RepairKnowsAll(p)')
  BY <1>1 DEF RepairInv, RepairRest, RepairKnows, RepairKnowsAll, LocallyApplied, Exact
<1>. QED  BY <1>1, <1>2, <1>3, <1>4 DEF RepairInv, RepairRest

LEMMA RecordIdles ==
  ASSUME RecordInv, UNCHANGED <<lock, pr, recordVars>>
  PROVE  RecordInv'
<1>1. UNCHANGED RecordFiles /\ UNCHANGED <<broken, failures, lock, pr>>
  BY DEF recordVars, RecordFiles
<1>2. Recording!TypeOK'
  BY <1>1 DEF RecordInv, RecordFiles, Recording!TypeOK, Recording!At
<1>3. RecordsSound' /\ TempSound'
  BY <1>1, FilesAlone
<1>4. \A p \in Publishers : RecordKnows(p)'
  BY <1>1 DEF RecordInv, RecordFiles, RecordKnows, Recording!Present
<1>. QED  BY <1>1, <1>2, <1>3, <1>4 DEF RecordInv

LEMMA PublicationStep == PublicationInv /\ [Next]_vars => PublicationInv'
<1>. SUFFICES ASSUME PublicationInv, [Next]_vars PROVE PublicationInv'
  OBVIOUS
<1>1. CASE IsCheck /\ Checking!Next
  BY <1>1, CheckStep DEF IsCheck, PublicationInv
<1>2. CASE IsRepair /\ Repairing!Next /\ NoneLate
  BY <1>2, RepairStep DEF IsRepair, NoneLate, PublicationInv
<1>3. CASE IsDelayed /\ Repairing!Next /\ OnlyDelayed
  BY <1>3, RepairStep DEF IsDelayed, PublicationInv
<1>4. CASE IsRecords /\ Recording!Next
  BY <1>4, RecordStep DEF IsRecords, PublicationInv
<1>5. CASE UNCHANGED vars
  <2>1. /\ UNCHANGED part /\ UNCHANGED lost
        /\ UNCHANGED <<lock, pr, sharedVars, checkVars>>
        /\ UNCHANGED <<lock, pr, sharedVars, repairVars>>
        /\ UNCHANGED <<lock, pr, recordVars>>
    BY <1>5 DEF vars, sharedVars
  <2>. QED  BY <2>1, CheckIdles, RepairIdles, RecordIdles DEF PublicationInv
<1>. QED  BY <1>1, <1>2, <1>3, <1>4, <1>5 DEF Next

(* The invariant of the publication.  It says what every publisher knows   *)
(* at its program counter, what the records and the writes on their way    *)
(* mean, and what more holds as long as no write was late.                 *)
THEOREM PublicationInvariant == Spec => []PublicationInv
BY PublicationInit, PublicationStep, PTL DEF Spec

(* What is on GitHub is the proposal, once and in order, however often the *)
(* command was given again; a final record names what was all there;       *)
(* while the source is away a publication goes no further than the write   *)
(* that may have been under way, however often it moved and came back      *)
(* (publish_check, publish_repair and their recoveries).                   *)
THEOREM PublicationIsProposed == Spec => []PublishedIsProposed
<1>1. PublicationInv => PublishedIsProposed
  BY CheckGoals, RepairGoals DEF PublicationInv, PublishedIsProposed
<1>. QED  BY <1>1, PublicationInvariant, PTL

(* A write is sent by the approver, before the final record; one of a      *)
(* repair only when the local session is applied with the same approval.   *)
THEOREM PublicationIsApproved == Spec => []WritesAreApproved
<1>1. PublicationInv => WritesAreApproved
  BY CheckGoals, RepairGoals DEF PublicationInv, WritesAreApproved
<1>. QED  BY <1>1, PublicationInvariant, PTL

(* Whatever a crash, a failed call or a power failure leaves, a record is  *)
(* whole under its name, the proposal can be recorded again, and what has  *)
(* been durable can be loaded (_write_cas_record and the recovery).        *)
THEOREM PublicationRecordsAreWhole == Spec => []RecordsAreWhole
<1>1. PublicationInv => RecordsAreWhole
  BY RecordGoals DEF PublicationInv, RecordsAreWhole
<1>. QED  BY <1>1, PublicationInvariant, PTL

(* Publishing a check and publishing a repair each implement an approved   *)
(* publication: approved before anything is seen, all seen before it is    *)
(* reported, and neither the approval nor the report ever changes.         *)
THEOREM PublicationImplements == Spec => ImplementsPublication
<1>1. Init => Publication!Init
  <2>. SUFFICES ASSUME Init PROVE Publication!Init
    OBVIOUS
  <2>1. CASE part = "check" /\ Checking!Init
    BY <2>1 DEF Checking!Init, Publication!Init
  <2>2. CASE part \in {"repair", "delayed"} /\ Repairing!Init
    BY <2>2 DEF Repairing!Init, Publication!Init
  <2>3. CASE part = "records"
    BY <2>3 DEF Publication!Init
  <2>. QED  BY <2>1, <2>2, <2>3 DEF Init
<1>2. PublicationInv /\ [Next]_vars => [Publication!Next]_Publication!publicationVars
  <2>. SUFFICES ASSUME PublicationInv, [Next]_vars
                PROVE  Publication!Next \/ UNCHANGED Publication!publicationVars
    OBVIOUS
  <2>1. CASE IsCheck /\ Checking!Next
    BY <2>1, CheckImplements DEF IsCheck, PublicationInv
  <2>2. CASE (IsRepair \/ IsDelayed) /\ Repairing!Next
    BY <2>2, RepairImplements DEF IsRepair, IsDelayed, PublicationInv
  <2>3. CASE IsRecords
    BY <2>3 DEF IsRecords, Publication!publicationVars
  <2>4. CASE UNCHANGED vars
    BY <2>4 DEF vars, sharedVars, checkVars, repairVars, Publication!publicationVars
  <2>. QED  BY <2>1, <2>2, <2>3, <2>4 DEF Next
<1>. QED  BY <1>1, <1>2, PublicationInvariant, PTL
          DEF Spec, ImplementsPublication, Publication!Spec

(* The files of a publication implement records that are written once, in  *)
(* order, and never lost after their directory was synced.                 *)
THEOREM PublicationRecordsImplement == Spec => ImplementsRecords
<1>1. Init => Records!Init
  <2>. SUFFICES ASSUME Init PROVE Records!Init
    OBVIOUS
  <2>1. CASE part = "records" /\ Recording!Init
    BY <2>1 DEF Recording!Init, Records!Init
  <2>2. CASE part # "records"
    BY <2>2 DEF Records!Init
  <2>. QED  BY <2>1, <2>2 DEF Init
<1>2. PublicationInv /\ [Next]_vars => [Records!Next]_Records!recordVars
  <2>. SUFFICES ASSUME PublicationInv, [Next]_vars
                PROVE  Records!Next \/ UNCHANGED Records!recordVars
    OBVIOUS
  <2>1. CASE IsRecords /\ Recording!Next
    BY <2>1, RecordImplements DEF IsRecords, PublicationInv
  <2>2. CASE IsCheck \/ IsRepair \/ IsDelayed
    BY <2>2 DEF IsCheck, IsRepair, IsDelayed, Records!recordVars
  <2>3. CASE UNCHANGED vars
    BY <2>3 DEF vars, recordVars, Records!recordVars
  <2>. QED  BY <2>1, <2>2, <2>3 DEF Next
<1>. QED  BY <1>1, <1>2, PublicationInvariant, PTL
          DEF Spec, ImplementsRecords, Records!Spec
=============================================================================
