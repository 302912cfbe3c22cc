------------------------ MODULE MCGitHubPublication ------------------------
(* Two publishers of different users; the late writes have one publisher.  *)
EXTENDS GitHubPublication, TLC

CONSTANTS p, q, alice, bob

MCActorOf == p :> alice @@ q :> bob
=============================================================================
