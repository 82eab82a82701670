--------------------------- MODULE MCSessionCore ---------------------------
(***************************************************************************)
(* One host, three guests for two seats, parties of up to three characters,*)
(* and an adventure of two encounters: the first pays a level with an      *)
(* advancement and a reward, the second ends the adventure.                *)
(***************************************************************************)
EXTENDS CampaignSave, TLC

CONSTANTS charm

MCAward == <<2000, 0>>
MCEarned == [n \in 0..2 |-> IF n = 0 THEN 0 ELSE 2000]
MCRewardChoices == <<{charm}, {}>>
MCStarter == [a \in Actors |-> {}]

Symmetry == Permutations(Guests) \union Permutations(Actors)
=============================================================================
