----------------------------- MODULE MCFileUpload -----------------------------
(* a and b are names whose candidates overlap, as "f.txt" and "f (1).txt". *)
EXTENDS FileUpload, TLC

CONSTANTS a, b, p, q, r, d1, d2

MCCandidates == a :> <<p, q>> @@ b :> <<q, r>>
MCMaxFiles == d1 :> 2 @@ d2 :> 1
==============================================================================
