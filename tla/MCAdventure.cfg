CONSTANTS
  Sources <- MCSources
  NumEncounters = 3
  Award <- MCAward
  Earned <- MCEarned
  RewardChoices <- MCRewardChoices
  AdvancementLevels <- MCAdvancementLevels
  Actors = {"aerin", "lyra"}
  StartLevel = 1
  Items = {"spear", "thrust", "rally"}
  Starter <- MCStarter
  PartyMax = 2
  ClassOf <- MCClassOf
  Skills = {"stealth", "society", "arcana"}
  Trained <- MCTrained
  Attributes <- MCAttributes
  Proficiencies = {"weapons", "perception"}
  Intelligence = "int"
  StartBoosts <- MCStartBoosts
  BoostChoices <- MCBoostChoices
  Equipment = {"spear"}
  Cards <- MCCards
  KitSlots = {"weapon"}
  SlotOf <- MCSlotOf
  Grants <- MCGrants
  BaseGrants <- MCBaseGrants
  CardClasses <- MCCardClasses
  CardLevel <- MCCardLevel
  LevelByClass <- MCLevelByClass
  Capacity <- MCCapacity
  MaxPrepared = 2
  StarterKit <- MCStarterKit
  Nothing = nothing
  NoSkill = noskill
SPECIFICATION MCSpec
INVARIANTS
  EncounterOrder
  ExperienceLedger
  AdvancementOrder
  PartyStaysPlayable
  CompiledContentPlays
CHECK_DEADLOCK FALSE
