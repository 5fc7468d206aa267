-------------------------- MODULE MCTerminalSocket ---------------------------
(* Instances of TerminalSocket. *)
EXTENDS TerminalSocket, TLC

CONSTANTS s1, s2
==============================================================================
