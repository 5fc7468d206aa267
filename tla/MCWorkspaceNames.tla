-------------------------- MODULE MCWorkspaceNames ----------------------------
(* Instances of WorkspaceNames: two workspaces, and one to be created. *)
EXTENDS WorkspaceNames, TLC

CONSTANTS w1, w2, w3, n0, n1, n2, c1, c2

NameSymmetry == Permutations({n1, n2}) \cup Permutations({c1, c2}) \cup Permutations({w1, w2})
===============================================================================
