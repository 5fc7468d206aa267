----------------------------- MODULE MCPageStart ------------------------------
(* Instances of PageStart. *)
EXTENDS PageStart

CONSTANTS b1, b2, p1, p2
===============================================================================
