----------------------------- MODULE JwksAuthMC -----------------------------
(* Three requests: two set-ups may overlap while a third request finds the  *)
(* authenticator set up, or sets it up after Close.                         *)
EXTENDS JwksAuth, TLC

CONSTANTS r1, r2, r3

MCRequests == {r1, r2, r3}

\* Requests are interchangeable.
Symmetry == Permutations(MCRequests)
=============================================================================
