----------------------------- MODULE MCCombat -----------------------------
(* Combats of three actors, in every split into teams. *)
EXTENDS Combat

CONSTANTS strike, trick

\* Two actors have a turn card beside their reaction; one card is dealt, so
\* that draws and reshuffles happen.
MCDeck == <<{strike, trick}, {strike, trick}, {strike}>>

\* The ids sort against the initiative order.
MCIdRank == <<3, 2, 1>>
===========================================================================
