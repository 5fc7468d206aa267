---------------------------- MODULE MCTmuxManager ---------------------------
(* Two tabs: two browser connections compete for the first, one has the    *)
(* second to itself.                                                       *)
EXTENDS TmuxManager, TLC

CONSTANTS s1, s2, h1, h2, h3, a1, z1, z2

MCSessionOf == h1 :> s1 @@ h2 :> s1 @@ h3 :> s2
MCSymmetry == Permutations({z1, z2})
=============================================================================
