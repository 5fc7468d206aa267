--------------------------- MODULE MCTerminalInput ----------------------------
(* Instances of TerminalInput. *)
EXTENDS TerminalInput, TLC

CONSTANTS t1, t2
TabSymmetry == Permutations({t1, t2})
===============================================================================
