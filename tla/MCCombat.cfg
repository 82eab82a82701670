SPECIFICATION Spec
CONSTANTS
  NumActors = 3
  strike = strike
  trick = trick
  Deck <- MCDeck
  Reactions = {strike}
  HandSize = 1
  IdRank <- MCIdRank
INVARIANTS
  CombatIsPlayable
  CardsConserved
  PumpIsShort
PROPERTY
  EverybodyInTurn
\* A combat ends with its outcome.
CHECK_DEADLOCK FALSE
