----------------------------- MODULE Statistics -----------------------------
(***************************************************************************)
(* The numbers of a combat (game/statistics.ts, offense.ts, checks.ts and  *)
(* the checks of action-plan.ts and knowledge.ts): modifiers collected from *)
(* equipment, conditions, traits and context, their stacking, the          *)
(* statistics built on them, Strikes, damage and degrees of success.       *)
(*                                                                         *)
(* Pure operators over the authored content, which are the constants, and  *)
(* an actor's record.  Labels and the list of sources shown to the player  *)
(* are left out; what a source adds is kept.                               *)
(***************************************************************************)
EXTENDS Integers, Sequences, FiniteSets, SequencesExt

CONSTANTS
  Profiles,         \* authored statistics of each actor
  Worn,             \* equipment of each actor, in the order of ids
  Equipment,        \* definition of each piece of equipment; its traits are
                    \* those of equipmentTraits, its own and its weapon's
  Conditions,       \* definition of each condition
  ConditionOrder,   \* the conditions in the order of their ids
  TraitModifiers    \* modifiers a trait brings with it

Types == {"circumstance", "item", "status"}
Ranks == <<"untrained", "trained", "expert", "master", "legendary">>
SaveAttribute == [fortitude |-> "con", reflex |-> "dex", will |-> "wis"]
SkillAttribute ==
  [acrobatics |-> "dex", arcana |-> "int", athletics |-> "str",
   crafting |-> "int", deception |-> "cha", diplomacy |-> "cha",
   intimidation |-> "cha", medicine |-> "wis", nature |-> "wis",
   occultism |-> "int", performance |-> "cha", religion |-> "wis",
   society |-> "int", stealth |-> "dex", survival |-> "wis", thievery |-> "dex"]

\* What the types of game/types.ts say of the authored numbers.
Attributes == {"str", "dex", "con", "int", "wis", "cha"}

WeaponShape(w) ==
  /\ w.mode \in {"melee", "ranged"}
  /\ w.category \in {"unarmed", "simple", "martial", "advanced"}
  /\ w.count \in Nat /\ w.sides \in Nat

CharacterShape(stats) ==
  LET R == {Ranks[i] : i \in DOMAIN Ranks} IN
  /\ stats.level \in Nat \ {0}
  /\ stats.attributes \in [Attributes -> Int]
  /\ stats.perception \in R
  /\ stats.saves \in [DOMAIN SaveAttribute -> R]
  /\ stats.skills \in [DOMAIN SkillAttribute -> R]
  /\ stats.ancestryHp \in Nat /\ stats.classHpPerLevel \in Nat
  /\ stats.armorProficiencies \in [{"unarmored", "light", "medium", "heavy"} -> R]
  /\ stats.weaponProficiencies \in [{"unarmed", "simple", "martial", "advanced"} -> R]
  /\ stats.keyAttribute \in Attributes /\ stats.classDcProficiency \in R
  /\ WeaponShape(stats.unarmedStrike)

CreatureShape(stats) ==
  /\ {stats.level, stats.ac, stats.maxHp, stats.perception} \subseteq Int
  /\ stats.saves \in [DOMAIN SaveAttribute -> Int]
  /\ DOMAIN stats.skills \subseteq DOMAIN SkillAttribute
  /\ \A k \in DOMAIN stats.skills : stats.skills[k] \in Int
  /\ {stats.strike.attackModifier, stats.strike.damageModifier} \subseteq Int
  /\ stats.strike.count \in Nat /\ stats.strike.sides \in Nat

ASSUME ProfilesAssumption ==
  \A a \in DOMAIN Profiles :
    LET p == Profiles[a] IN
    \/ p.kind = "character" /\ CharacterShape(p.stats)
    \/ p.kind = "creature" /\ CreatureShape(p.stats)

\* A selector or the target of one; "any" is an id that was not given.
Selectors ==
  [kind : {"all", "ac", "attack", "damage", "perception", "save", "skill", "class-dc"},
   id : {"any"} \union DOMAIN SaveAttribute \union DOMAIN SkillAttribute]
Modifiers == [selector : Selectors, type : Types \union {"untyped"}, value : Int]

Sel(kind, id) == [kind |-> kind, id |-> id]
Modifier(selector, type, value) == [selector |-> selector, type |-> type, value |-> value]

TraitList(traits) == traits \in Seq(DOMAIN TraitModifiers)

ASSUME TraitsAssumption == \A t \in DOMAIN TraitModifiers : TraitModifiers[t] \in Seq(Modifiers)

ASSUME EquipmentAssumption ==
  /\ \A e \in DOMAIN Equipment :
       LET item == Equipment[e] IN
       /\ item.modifiers \in Seq(Modifiers) /\ TraitList(item.traits)
       /\ item.armor.acItemBonus \in Int /\ item.shieldBonus \in Int
       /\ item.weapon.mode # "none" => WeaponShape(item.weapon)
  /\ \A a \in DOMAIN Profiles :
       TraitList(Profiles[a].traits) /\ Worn[a] \in Seq(DOMAIN Equipment)

\* A condition without a value has the maximum 0.
ASSUME ConditionsAssumption ==
  /\ \A c \in DOMAIN Conditions :
       /\ Conditions[c].modifiers \in Seq(Modifiers) /\ TraitList(Conditions[c].traits)
       /\ Conditions[c].max \in Nat /\ Conditions[c].endTurnDelta \in {-1, 0}
       /\ Conditions[c].expires \in BOOLEAN
  /\ ConditionOrder \in Seq(DOMAIN Conditions)

Least(m, n) == IF m <= n THEN m ELSE n
Most(m, n) == IF m >= n THEN m ELSE n
Sum(values) ==
  LET total[i \in 0 .. Len(values)] == IF i = 0 THEN 0 ELSE total[i - 1] + values[i]
  IN total[Len(values)]

IsCharacter(actor) == Profiles[actor.id].kind = "character"

-----------------------------------------------------------------------------
(* Modifiers *)

RankIndex(rank) == CHOOSE i \in DOMAIN Ranks : Ranks[i] = rank
ProficiencyRankAtLeast(rank, minimum) == RankIndex(rank) >= RankIndex(minimum)
ProficiencyBonus(level, rank) ==
  IF rank = "untrained" THEN 0 ELSE level + 2 * (RankIndex(rank) - 1)

\* "all" reaches checks and DCs, never damage; saves and skills may name one.
SelectorMatches(selector, target) ==
  \/ selector.kind = "all" /\ target.kind # "damage"
  \/ /\ selector.kind = target.kind
     /\ selector.kind \in {"save", "skill"} => selector.id \in {"any", target.id}

IsUntypedPenalty(modifier) == modifier.type # "untyped" \/ modifier.value < 0

\* What the content validator says of every authored modifier, so that
\* assertUntypedIsPenalty has nothing to throw at.
ASSUME UntypedAssumption ==
  LET Penalties(modifiers) == \A i \in DOMAIN modifiers : IsUntypedPenalty(modifiers[i]) IN
  /\ \A t \in DOMAIN TraitModifiers : Penalties(TraitModifiers[t])
  /\ \A e \in DOMAIN Equipment : Penalties(Equipment[e].modifiers)
  /\ \A c \in DOMAIN Conditions : Penalties(Conditions[c].modifiers)

\* Armour counts for characters only, a shield only raised and in its slot.
DerivedEquipmentModifiers(item, isCharacter, raised) ==
  (IF isCharacter /\ item.armor.acItemBonus # 0
     THEN <<Modifier(Sel("ac", "any"), "item", item.armor.acItemBonus)>> ELSE <<>>)
  \o
  (IF item.slot = "shield" /\ item.shieldBonus # 0 /\ raised
     THEN <<Modifier(Sel("ac", "any"), "circumstance", item.shieldBonus)>> ELSE <<>>)

\* Grabbed and prone make off-guard as long as they last.
ConditionEffects(c) ==
  IF c \in {"grabbed", "prone"} THEN <<Modifier(Sel("ac", "any"), "circumstance", -2)>>
                                ELSE <<>>

\* A valued condition multiplies what it was authored with by its value; the
\* value of one that is not valued is 1 while the actor has it.
ScaleConditionModifiers(c, value) ==
  LET authored == Conditions[c].modifiers IN
  IF Conditions[c].max = 0 THEN authored
  ELSE [i \in DOMAIN authored |-> [authored[i] EXCEPT !.value = @ * value]]

FromTraits(traits) == FlattenSeq([i \in DOMAIN traits |-> TraitModifiers[traits[i]]])

FromItem(item, isCharacter, raised) ==
  item.modifiers \o DerivedEquipmentModifiers(item, isCharacter, raised) \o FromTraits(item.traits)

\* What traits and equipment of an actor bring; nobody changes them in a combat.
FromEquipment ==
  [a \in DOMAIN Profiles |-> [raised \in BOOLEAN |->
     FromTraits(Profiles[a].traits)
     \o FlattenSeq([i \in DOMAIN Worn[a] |->
          FromItem(Equipment[Worn[a][i]], Profiles[a].kind = "character", raised)])]]

FromCondition ==
  [c \in DOMAIN Conditions |-> [value \in 1 .. Most(1, Conditions[c].max) |->
     ConditionEffects(c) \o ScaleConditionModifiers(c, value) \o FromTraits(Conditions[c].traits)]]

\* collectModifiers: what traits, equipment, conditions and the check at hand
\* contribute.  The order decides only which of several equal modifiers is
\* named as the one that counts.
Collected(actor, context) ==
  FromEquipment[actor.id][actor.shieldRaised]
  \o FlattenSeq([i \in DOMAIN ConditionOrder |->
       LET value == actor.conditions[ConditionOrder[i]] IN
       IF value > 0 THEN FromCondition[ConditionOrder[i]][value] ELSE <<>>])
  \o context

Matching(modifiers, target) ==
  {i \in DOMAIN modifiers : SelectorMatches(modifiers[i].selector, target)}

\* One pass over the matching modifiers for the first of the type no other one Beats.
BestOf(modifiers, matching, type, Counts(_), Beats(_, _)) ==
  LET best[i \in 0 .. Len(modifiers)] ==
        IF i = 0 THEN 0
        ELSE IF /\ i \in matching
                /\ modifiers[i].type = type /\ Counts(modifiers[i].value)
                /\ best[i - 1] = 0 \/ Beats(modifiers[i].value, modifiers[best[i - 1]].value)
          THEN i ELSE best[i - 1]
  IN best[Len(modifiers)]

Untyped(modifiers, matching) == {i \in matching : modifiers[i].type = "untyped"}

\* Fault: bonuses and penalties of a type compete for one place.
SelectedOneOfType(modifiers, matching) ==
  Untyped(modifiers, matching) \union
  {BestOf(modifiers, matching, type, LAMBDA v : v # 0, LAMBDA v, w : v > w) : type \in Types}

\* selectedTypedIndices: of each type the greatest bonus and the worst penalty;
\* everything untyped is taken.
Selected(modifiers, matching) ==
  Untyped(modifiers, matching) \union
  {BestOf(modifiers, matching, type, LAMBDA v : v > 0, LAMBDA v, w : v > w) : type \in Types} \union
  {BestOf(modifiers, matching, type, LAMBDA v : v < 0, LAMBDA v, w : v < w) : type \in Types}

\* resolveModifierStack, summed as combineStatisticSources does.
Stack(actor, target, context) ==
  LET modifiers == Collected(actor, context)
      selected == Selected(modifiers, Matching(modifiers, target))
  IN Sum([i \in DOMAIN modifiers |-> IF i \in selected THEN modifiers[i].value ELSE 0])

-----------------------------------------------------------------------------
(* Statistics *)

\* What a creature does not list counts as +0.
CreatureBase(stats, target) ==
  IF target.kind = "perception" THEN stats.perception
  ELSE IF target.kind = "save" THEN stats.saves[target.id]
  ELSE IF target.id \in DOMAIN stats.skills THEN stats.skills[target.id] ELSE 0

\* "none" where a skill keeps its own attribute.
CharacterBase(stats, target, override) ==
  LET attribute == IF target.kind = "perception" THEN "wis"
                   ELSE IF target.kind = "save" THEN SaveAttribute[target.id]
                   ELSE IF override # "none" THEN override ELSE SkillAttribute[target.id]
      rank == IF target.kind = "perception" THEN stats.perception
              ELSE IF target.kind = "save" THEN stats.saves[target.id]
              ELSE stats.skills[target.id]
  IN stats.attributes[attribute] + ProficiencyBonus(stats.level, rank)

BaseSources(actor, target, override) ==
  IF IsCharacter(actor) THEN CharacterBase(Profiles[actor.id].stats, target, override)
                        ELSE CreatureBase(Profiles[actor.id].stats, target)

StatisticModifier(actor, target, override, context) ==
  BaseSources(actor, target, override) + Stack(actor, target, context)

StatisticDC(actor, target, override) == 10 + StatisticModifier(actor, target, override, <<>>)

\* The first of some worn pieces, in the order of ids.
FirstWorn(actor, pieces) ==
  Equipment[Worn[actor.id][CHOOSE i \in pieces : \A j \in pieces : i <= j]]

ArmorClassBase(actor) ==
  LET stats == Profiles[actor.id].stats
      worn == {i \in DOMAIN Worn[actor.id] : Equipment[Worn[actor.id][i]].armor.category # "none"}
      armor == FirstWorn(actor, worn).armor
      category == IF worn = {} THEN "unarmored" ELSE armor.category
      dexterity == IF worn = {} THEN stats.attributes.dex
                                ELSE Least(stats.attributes.dex, armor.dexCap)
  IN IF ~IsCharacter(actor) THEN stats.ac
     ELSE 10 + dexterity + ProficiencyBonus(stats.level, stats.armorProficiencies[category])

ArmorClass(actor, context) == ArmorClassBase(actor) + Stack(actor, Sel("ac", "any"), context)

MaxHp(profile) ==
  IF profile.kind = "creature" THEN profile.stats.maxHp
  ELSE profile.stats.ancestryHp
         + profile.stats.level * (profile.stats.classHpPerLevel + profile.stats.attributes.con)

ClassDC(actor) ==
  LET stats == Profiles[actor.id].stats IN
  10 + stats.attributes[stats.keyAttribute]
     + ProficiencyBonus(stats.level, stats.classDcProficiency)
     + Stack(actor, Sel("class-dc", "any"), <<>>)

-----------------------------------------------------------------------------
(* Strikes and damage *)

\* A creature's own Strike, the wielded weapon, or the character's bare hands.
StrikeSource(actor) ==
  LET stats == Profiles[actor.id].stats
      wielded == {i \in DOMAIN Worn[actor.id] : Equipment[Worn[actor.id][i]].weapon.mode # "none"}
      item == FirstWorn(actor, wielded)
  IN IF ~IsCharacter(actor) THEN stats.strike
     ELSE IF wielded = {} THEN stats.unarmedStrike
     ELSE [item.weapon EXCEPT !.traits = @ \union ToSet(item.traits)]

\* The multiple attack penalty belongs to attacks within the actor's own turn.
AttacksForMap(onTurn, attacksThisTurn, hasAttackTrait) ==
  IF onTurn /\ hasAttackTrait THEN attacksThisTurn ELSE 0

MapPenalty(attacksThisTurn, traits) ==
  Least(2, attacksThisTurn) * (IF "agile" \in traits THEN -4 ELSE -5)

\* The better attribute of a finesse weapon; strength where they are equal.
AttackAttribute(weapon, attributes) ==
  IF weapon.mode = "ranged" THEN "dex"
  ELSE IF "finesse" \in weapon.traits /\ attributes.dex > attributes.str THEN "dex"
  ELSE "str"

DamageAttribute(weapon, attributes) ==
  IF weapon.mode = "melee" \/ "thrown" \in weapon.traits THEN attributes.str
  ELSE IF "propulsive" \in weapon.traits
    THEN IF attributes.str > 0 THEN attributes.str \div 2 ELSE attributes.str
  ELSE 0

\* resolveStrike: the attack modifier, the dice and the flat damage.
Strike(actor, attacksThisTurn, extraDice) ==
  LET stats == Profiles[actor.id].stats
      weapon == StrikeSource(actor)
      penalty == MapPenalty(attacksThisTurn, weapon.traits)
      attack == IF IsCharacter(actor)
                  THEN stats.attributes[AttackAttribute(weapon, stats.attributes)]
                         + ProficiencyBonus(stats.level, stats.weaponProficiencies[weapon.category])
                  ELSE weapon.attackModifier
      damage == IF IsCharacter(actor) THEN DamageAttribute(weapon, stats.attributes)
                                      ELSE weapon.damageModifier
  IN [attackMode |-> weapon.mode,
      attackModifier |-> attack + Stack(actor, Sel("attack", "any"), <<>>) + penalty,
      count |-> weapon.count + extraDice,
      sides |-> weapon.sides,
      flatModifier |-> damage + Stack(actor, Sel("damage", "any"), <<>>)]

\* A Strike deals at least 1 before a multiplier is applied; a positive
\* multiplier keeps at least 1.  Multipliers are counted in halves.
WeaponDamageRoll(rolled, flat) == Most(1, rolled + flat)
DamageTotal(rolled, flat, halves) ==
  IF halves <= 0 THEN 0 ELSE Most(1, (WeaponDamageRoll(rolled, flat) * halves) \div 2)

-----------------------------------------------------------------------------
(* Checks *)

\* Degrees of success from critical failure, 1, to critical success, 4.
BaseDegree(total, dc) ==
  IF total >= dc + 10 THEN 4
  ELSE IF total >= dc THEN 3
  ELSE IF total <= dc - 10 THEN 1 ELSE 2

ShiftDegree(degree, shift) == Most(1, Least(4, degree + shift))

Degree(roll, modifier, dc) ==
  ShiftDegree(BaseDegree(roll + modifier, dc),
              IF roll = 20 THEN 1 ELSE IF roll = 1 THEN -1 ELSE 0)

IsSuccess(degree) == degree >= 3

\* degreeProbabilities, in twentieths.
DegreeCount(modifier, dc, degree) ==
  Cardinality({roll \in 1 .. 20 : Degree(roll, modifier, dc) = degree})

\* recallKnowledgeSkill: the first of the target's best skills.
KnowledgeSkill(target, skillOrder) ==
  LET stats == Profiles[target.id].stats
      listed == SelectSeq(skillOrder, LAMBDA s : IsCharacter(target) \/ s \in DOMAIN stats.skills)
      Value(s) == StatisticModifier(target, Sel("skill", s), "none", <<>>)
  IN IF listed = <<>> THEN "nature"
     ELSE FoldLeft(LAMBDA best, s : IF Value(s) > Value(best) THEN s ELSE best, listed[1], listed)

\* PF2e difficulty classes of levels -1 to 25.
LevelDC(level) ==
  <<13, 14, 15, 16, 18, 19, 20, 22, 23, 24, 26, 27, 28, 30, 31, 32, 34, 35, 36, 38,
    39, 40, 42, 44, 46, 48, 50>>[level + 2]
=============================================================================
