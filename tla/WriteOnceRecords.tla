------------------------- MODULE WriteOnceRecords -------------------------
(***************************************************************************)
(* What the records of one publication promise: a record is written once,  *)
(* after those it needs, and never changed; a kept record is never lost.   *)
(***************************************************************************)
CONSTANTS
  Names,     \* the records
  Values,    \* what they may hold
  Needs,     \* Needs[n]: the records that have to be there before n
  Bars,      \* Bars[n]: the records that must not be there before n
  None       \* an absent record

VARIABLES
  record,    \* record[n]: the value of n, or None
  kept       \* records that survive a power failure

recordVars == <<record, kept>>

Present == {n \in Names : record[n] # None}

Init ==
  /\ record = [n \in Names |-> None]
  /\ kept = {}

Write(n) ==
  /\ record[n] = None
  /\ Needs[n] \subseteq Present
  /\ Bars[n] \cap Present = {}
  /\ \E v \in Values : record' = [record EXCEPT ![n] = v]
  /\ UNCHANGED kept

Keep ==
  /\ kept' = Present
  /\ UNCHANGED record

Lose ==
  \E lost \in SUBSET (Present \ kept) :
    /\ record' = [n \in Names |-> IF n \in lost THEN None ELSE record[n]]
    /\ kept' = Present \ lost

Next == (\E n \in Names : Write(n)) \/ Keep \/ Lose

Spec == Init /\ [][Next]_recordVars
=============================================================================
