------------------------- MODULE MCSessionLifecycle -------------------------
(* Two tabs in up to two workspaces, two requests at a time. *)
EXTENDS SessionLifecycle, TLC

CONSTANTS w1, w2, t1, t2, t3, r1, r2

MCSymmetry == Permutations(Tabs) \cup Permutations({r1, r2})
=============================================================================
