---------------------------- MODULE MCMcpApproval ----------------------------
(* The MCP server with one session, whose candidate is k1, and a proposal. *)
EXTENDS McpApproval, TLC

CONSTANTS c1, c2, s1, k1, k2, p1

Request(tool, subject, candidate) ==
  [tool |-> tool, subject |-> subject, candidate |-> candidate, wellFormed |-> TRUE]

MCCandidates == s1 :> k1
Malformed(request) == [request EXCEPT !.wellFormed = FALSE]
MCRequests ==
  {Request(Apply, s1, k1), Request(Apply, s1, k2), Request(Reject, s1, k1),
   Request(Publish, p1, None), Malformed(Request(Publish, p1, None))}

(* Nothing depends on which of two calls is which.                         *)
Swaps == Permutations(Calls)
=============================================================================
