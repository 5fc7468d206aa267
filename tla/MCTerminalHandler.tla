-------------------------- MODULE MCTerminalHandler --------------------------
(* Two connections for one tab, and a call that deletes it. *)
EXTENDS TerminalHandler, TLC

CONSTANTS s1, h1, h2, a1, z1

MCSessionOf == [h \in Handles |-> s1]

(* Liveness: the second connection displaces the first and fails to be     *)
(* announced; it does not come again after a restart.                      *)
MCBound ==
    /\ pc[h2] # "serve"
    /\ boots = 0 \/ pc[h2] \in {"idle", "lost"}

MCSymmetry == Permutations({h1, h2})
=============================================================================
