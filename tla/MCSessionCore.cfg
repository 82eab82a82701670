CONSTANTS
  charm = charm
  Host = host
  Guests = {g1, g2, g3}
  Nobody = nobody
  NumEncounters = 2
  Award <- MCAward
  Earned <- MCEarned
  RewardChoices <- MCRewardChoices
  AdvancementLevels = {3}
  Actors = {a1, a2, a3}
  StartLevel = 1
  Items = {charm}
  Starter <- MCStarter
  PartyMax = 3
SYMMETRY Symmetry
SPECIFICATION Spec
INVARIANTS
  SessionInvariants
  NobodyIsStuck
  SavesAreAccepted
PROPERTIES
  SeatsAreSafe
  NothingPlaysBeforeResume
  AdventureBehaviour
CHECK_DEADLOCK FALSE
