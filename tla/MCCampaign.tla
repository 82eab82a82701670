----------------------------- MODULE MCCampaign -----------------------------
(***************************************************************************)
(* One process with three sessions in a row, or two processes on one       *)
(* database file, of the same build or of an older and a newer one.        *)
(***************************************************************************)
EXTENDS Campaign, TLC

CONSTANTS p1, p2

OneBuild == [p \in Processes |-> 1]
TwoBuilds == (p1 :> 1) @@ (p2 :> 2)

Symmetry == Permutations(Sessions) \union Permutations(Operations)
=============================================================================
