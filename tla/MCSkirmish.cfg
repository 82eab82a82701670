CONSTANTS
  Fighters <- MCFighters
  Order <- MCOrder
  Teams <- MCTeams
  Worn <- MCWorn
  StartHp <- MCStartHp
  Profiles <- MCProfiles
  Equipment <- MCEquipment
  Conditions <- MCConditions
  ConditionOrder <- MCConditionOrder
  TraitModifiers <- MCTraitModifiers
  Actions <- MCActions
  Hands <- MCHands
  SkillOrder <- MCSkillOrder
  Rolls = {1, 12, 20}
  Nobody = Nobody
  MaxTurns = 4
SPECIFICATION Spec
INVARIANTS StackingIsExact DurationsAreExact FightsCanBeContinued
PROPERTIES DefeatIsFinal
VIEW Relevant
CHECK_DEADLOCK FALSE
