----------------------------- MODULE DurableLog -----------------------------
(***************************************************************************)
(* What a session store promises about its events: a log that grows at its *)
(* end and that loses, at a power failure, only what no caller was told.   *)
(* EventStore is shown to implement it.                                    *)
(***************************************************************************)
EXTENDS Naturals, Sequences

CONSTANT Records

VARIABLES
  log,     \* the published events, oldest first
  acked    \* how many of them an append has reported as written

logVars == <<log, acked>>

Init == log = <<>> /\ acked = 0

Publish ==
  \E r \in Records :
    /\ \A n \in DOMAIN log : log[n] # r
    /\ log' = Append(log, r)
    /\ UNCHANGED acked

Acknowledge ==
  /\ acked' \in acked..Len(log)
  /\ UNCHANGED log

Lose ==
  /\ \E n \in acked..Len(log) : log' = SubSeq(log, 1, n)
  /\ UNCHANGED acked

Next == Publish \/ Acknowledge \/ Lose

Spec == Init /\ [][Next]_logVars
=============================================================================
