----------------------------- MODULE MCAppStore ------------------------------
(* Instances of AppStore: two workspaces, the first with two tabs. *)
EXTENDS AppStore, TLC

CONSTANTS w1, w2, w3, t1, t2, t3, t4

MCTwoSpaces == <<w1, w2>>
MCTwoTabs == [w \in Workspaces |-> CASE w = w1 -> <<t1, t2>> [] w = w2 -> <<t3>> [] OTHER -> <<>>]

(* KeepIn is JavaScript's filter, on every list of up to five of three values. *)
ASSUME KeepInIsSelectSeq ==
    \A n \in 0 .. 5 : \A s \in [1 .. n -> 1 .. 3], S \in SUBSET (1 .. 3) :
        KeepIn(s, S) = SelectSeq(s, LAMBDA x : x \in S)
==============================================================================
