------------------------------ MODULE Content ------------------------------
(***************************************************************************)
(* A content pack and what compiling it promises (src/src/content).        *)
(*                                                                         *)
(* A pack is authored as lists of definitions that name each other.        *)
(* compileContentPack judges them once, when the program is built or       *)
(* loaded, and refuses the pack as a whole; nothing afterwards checks the  *)
(* references again, and the runtime throws on one that leads nowhere.     *)
(*                                                                         *)
(* A definition is a record of the fields another definition, or the       *)
(* runtime, follows.  Traits and grants are sets, a position is a point, a *)
(* starter loadout is a kit of module Outfits.  Names, wording and dice are *)
(* left out.  The five parts of a proficiency profile are one function, as *)
(* are the ranks a class milestone raises.  An item of equipment lists its *)
(* armor, shield and weapon profiles as a set, and its traits with those   *)
(* of its profile.                                                         *)
(***************************************************************************)
EXTENDS Characters, Outfits

CONSTANT Sources   \* the packs an author may write

VARIABLES
  source,   \* the pack as authored
  status    \* "authored", "compiled" or "refused"

contentVars == <<source, status>>

Categories ==
  {"traits", "ancestries", "classes", "conditions", "actions", "cards", "equipment",
   "actors", "scenarios", "adventures"}

PartySizes == 1..3

Degrees == {"critical-success", "success", "failure", "critical-failure"}

\* ACTOR_TARGETING, RESOLUTION_TARGETING, EFFECT_TARGETING.
ActorTargeting == {"enemy", "ally", "creature"}

ResolutionTargeting ==
  [k \in {"recall-knowledge", "move", "strike", "check", "direct"} |->
     CASE k \in {"recall-knowledge", "strike"} -> {"enemy"}
       [] k = "move" -> {"tile"}
       [] k = "check" -> ActorTargeting \union {"self"}
       [] k = "direct" -> ActorTargeting \union {"none", "self", "object", "effect"}]

EffectTargeting ==
  [k \in {"interact", "sustain-effect", "record-knowledge"} |->
     CASE k = "interact" -> "object"
       [] k = "sustain-effect" -> "effect"
       [] k = "record-knowledge" -> "enemy"]

\* CONTEXTUAL_BASIC_ACTIONS.
ContextualActions ==
  [g \in {"escape", "interact", "shield", "sustain"} |->
     CASE g = "escape" -> {"stand", "escape-grab"}
       [] g = "interact" -> {"interact-lever"}
       [] g = "shield" -> {"raise-shield"}
       [] g = "sustain" -> {"sustain-spell"}]

-----------------------------------------------------------------------------
(* Shapes: what the types of content-types.ts and game/types.ts say of an  *)
(* authored definition and no validator repeats.  Identifiers are free:    *)
(* whether they lead anywhere is what the validators are for.              *)

ModifiersShape(modifiers) ==
  \A m \in modifiers :
    m.type \in {"circumstance", "item", "status", "untyped"} /\ m.value \in Int

TraitShape(t) ==
  /\ t.category \in {"system", "ancestry", "class", "personality", "creature", "action", "weapon",
                     "equipment", "condition", "terrain", "damage", "general"}
  /\ ModifiersShape(t.modifiers)
  /\ \A g \in t.actions : g.group \in {"escape", "interact", "shield", "sustain"}

\* Ranks of a class by proficiency: a milestone names those it raises.
ClassShape(c) ==
  /\ c.hpPerLevel \in Int
  /\ \A k \in DOMAIN c.milestones : c.milestones[k].level \in Int

AncestryShape(a) ==
  /\ {a.hitPoints, a.speedFeet} \subseteq Int
  /\ Len(a.fixedBoosts) = 2

\* A policy keeps the larger value, multiplies modifiers by it and may decay.
ConditionShape(c) ==
  /\ c.policy # Nothing => {c.policy.min, c.policy.max} \subseteq Int
  /\ ModifiersShape(c.modifiers)

EffectShape(e) ==
  /\ e.kind \in {"record-knowledge", "apply-condition", "remove-condition", "lock-action", "damage",
                 "restore-hp", "create-sustained-effect", "sustain-effect", "raise-shield", "interact"}
  /\ e.kind \in {"apply-condition", "remove-condition", "damage", "restore-hp"} =>
       e.owner \in {"actor", "target"}
  /\ e.kind = "apply-condition" /\ e.value # Nothing => e.value \in Int

\* The validator asks for the four degrees again, so an outcome may be missing.
ActionShape(a) ==
  /\ a.kind \in DOMAIN ResolutionTargeting
  /\ a.targeting \in {"none", "self", "ally", "creature", "enemy", "tile", "object", "effect"}
  /\ a.timing \in {"action", "reaction"}
  /\ {a.weaponMode, a.countsAttacks, a.check.readsTarget} \subseteq BOOLEAN
  /\ \A e \in a.effects : EffectShape(e)
  /\ DOMAIN a.outcomes \subseteq Degrees
  /\ \A d \in DOMAIN a.outcomes : \A e \in a.outcomes[d] : EffectShape(e)

CardShape(c) == c.level \in Int /\ \A k \in DOMAIN c.byClass : c.byClass[k] \in Int

EquipmentShape(e) ==
  /\ e.slot \in {"weapon", "armor", "shield", "feet"}
  /\ e.profiles \subseteq {"weapon", "armor", "shield"}
  /\ ModifiersShape(e.modifiers)

ActorShape(a) ==
  /\ a.kind \in {"character", "creature"}
  /\ a.level \in Int /\ a.capacity \in Int
  /\ a.starter.prepared \in Seq(Prepared(a.starter))
  /\ \A c \in a.conditions : c.value # Nothing => c.value \in Int

\* Where the party enters, who waits for it, and the map with its levers.
ScenarioShape(s) ==
  /\ \A k \in DOMAIN s.placements :
       LET p == s.placements[k] IN
       p.team \in {"heroes", "enemies"} /\ p.min \in PartySizes /\ p.max \in PartySizes
  /\ \A k \in DOMAIN s.spawns : s.spawns[k].seat \in PartySizes
  /\ \A list \in {s.placements, s.spawns, s.tiles, s.objects} :
       \A k \in DOMAIN list : list[k].at \in Nat \X Nat

AdventureShape(a) ==
  /\ a.min \in PartySizes /\ a.max \in PartySizes
  /\ \A k \in DOMAIN a.awards : a.awards[k].amount \in Int

PackShape(pack) ==
  /\ DOMAIN pack = Categories
  /\ \A k \in DOMAIN pack.traits : TraitShape(pack.traits[k])
  /\ \A k \in DOMAIN pack.classes : ClassShape(pack.classes[k])
  /\ \A k \in DOMAIN pack.ancestries : AncestryShape(pack.ancestries[k])
  /\ \A k \in DOMAIN pack.conditions : ConditionShape(pack.conditions[k])
  /\ \A k \in DOMAIN pack.actions : ActionShape(pack.actions[k])
  /\ \A k \in DOMAIN pack.cards : CardShape(pack.cards[k])
  /\ \A k \in DOMAIN pack.equipment : EquipmentShape(pack.equipment[k])
  /\ \A k \in DOMAIN pack.actors : ActorShape(pack.actors[k])
  /\ \A k \in DOMAIN pack.scenarios : ScenarioShape(pack.scenarios[k])
  /\ \A k \in DOMAIN pack.adventures : AdventureShape(pack.adventures[k])

ASSUME SourcesAssumption == \A pack \in Sources : PackShape(pack)

-----------------------------------------------------------------------------
(* Definitions by identifier *)

Entries(defs) == {defs[k] : k \in DOMAIN defs}
Ids(defs) == {defs[k].id : k \in DOMAIN defs}

\* validateUniqueIds.
Unique(defs) == \A j, k \in DOMAIN defs : defs[j].id = defs[k].id => j = k

\* recordById.
Of(defs, id) == CHOOSE d \in Entries(defs) : d.id = id

\* Card grants of the traits of a piece of equipment.
GrantedBy(e) ==
  UNION {t.cards : t \in {u \in Entries(source.traits) : u.id \in e.traits}}

Identity(a, category) ==
  {t \in a.traits : \E d \in Entries(source.traits) : d.id = t /\ d.category = category}

\* Who may use which card, by the tables of this pack.
L == INSTANCE Loadout WITH
  ClassOf <- [a \in Ids(source.actors) |->
                CHOOSE t \in Identity(Of(source.actors, a), "class") : TRUE],
  BaseGrants <- [a \in Ids(source.actors) |-> Of(source.actors, a).grants],
  Capacity <- [a \in Ids(source.actors) |-> Of(source.actors, a).capacity],
  SlotOf <- [e \in Ids(source.equipment) |-> Of(source.equipment, e).slot],
  Grants <- [e \in Ids(source.equipment) |-> GrantedBy(Of(source.equipment, e))],
  CardClasses <- [c \in Ids(source.cards) |->
                    Of(source.cards, c).traits \intersect Ids(source.classes)],
  CardLevel <- [c \in Ids(source.cards) |-> Of(source.cards, c).level],
  LevelByClass <- [c \in Ids(source.cards) |-> Of(source.cards, c).byClass]

-----------------------------------------------------------------------------
(* validateContentPackSemantics, by category.  Each predicate holds of a   *)
(* definition when the code finds no issue with it.                        *)

TraitsKnown(d) == d.traits \subseteq Ids(source.traits)

\* isUntypedPenalty: an untyped modifier only takes away.
ModifiersFit(d) == \A m \in d.modifiers : m.type = "untyped" => m.value < 0

TraitFits(t) ==
  /\ ModifiersFit(t)
  /\ t.cards \subseteq Ids(source.cards)
  /\ \A g \in t.actions :
       /\ g.group \in DOMAIN ContextualActions /\ g.action \in ContextualActions[g.group]
       /\ g.action \in Ids(source.actions)

\* assertClassDefinition and assertAncestryDefinition: the trait of their name.
RegistryFits(defs, category) ==
  \A id \in Ids(defs) : \E t \in Entries(source.traits) : t.id = id /\ t.category = category

\* assertClassDefinition: a milestone has a level to itself and only raises ranks.
ClassFits(c) ==
  /\ c.hpPerLevel > 0 /\ c.keyAttribute \in Attributes
  /\ c.starting \in [Proficiencies -> Ranks]
  /\ \A j, k \in DOMAIN c.milestones : c.milestones[j].level = c.milestones[k].level => j = k
  /\ \A m \in Entries(c.milestones) :
       /\ m.level \in 2..20
       /\ DOMAIN m.ranks # {} /\ DOMAIN m.ranks \subseteq Proficiencies
       /\ \A p \in DOMAIN m.ranks : m.ranks[p] \in Ranks /\ m.ranks[p] > ClassRank(c, m.level - 1, p)

\* assertAncestryDefinition: a speed of whole squares.
AncestryFits(a) ==
  /\ a.hitPoints > 0 /\ a.speedFeet > 0 /\ a.speedFeet % 5 = 0
  /\ {a.fixedBoosts[1], a.fixedBoosts[2]} \subseteq Attributes /\ a.fixedBoosts[1] # a.fixedBoosts[2]

ConditionFits(c) ==
  /\ TraitsKnown(c) /\ ModifiersFit(c)
  /\ c.policy # Nothing => c.policy.min < c.policy.max /\ c.modifiers # {}

\* validateConditionValue: the lowest value of a policy is a condition that is gone.
ValueFits(condition, value) ==
  value # Nothing =>
    \E c \in Entries(source.conditions) :
      /\ c.id = condition /\ c.policy # Nothing
      /\ value \in (c.policy.min + 1)..c.policy.max

\* validateOutcomeEffect.
EffectFits(a, e) ==
  /\ e.kind \in {"apply-condition", "remove-condition"} => e.condition \in Ids(source.conditions)
  /\ e.kind = "apply-condition" => ValueFits(e.condition, e.value)
  /\ e.kind \in {"apply-condition", "remove-condition", "restore-hp", "damage"} =>
       (e.owner = "target" => a.targeting \in ActorTargeting)
  /\ e.kind = "lock-action" => e.action \in Ids(source.actions)
  /\ e.kind \in DOMAIN EffectTargeting => a.targeting = EffectTargeting[e.kind]

\* The effects an action declares, by degree for a check or a strike.
EffectsOf(a) ==
  CASE a.kind \in {"check", "strike"} -> UNION {a.outcomes[d] : d \in DOMAIN a.outcomes}
    [] a.kind = "direct" -> a.effects
    [] OTHER -> {}

ActionFits(a) ==
  LET attacks == "attack" \in a.traits
  IN  /\ TraitsKnown(a)
      /\ a.targeting \in ResolutionTargeting[a.kind]
      /\ a.range = "weapon-reach" \/ a.weaponMode => a.kind = "strike" \/ attacks
      /\ a.countsAttacks => attacks
      /\ a.kind = "check" =>
           /\ a.check.skills \subseteq Skills
           /\ a.check.readsTarget => a.targeting \in ActorTargeting
      /\ a.kind \in {"check", "strike"} => Degrees \subseteq DOMAIN a.outcomes
      /\ \A e \in EffectsOf(a) : EffectFits(a, e)

CardFits(c) ==
  /\ c.level >= 1 /\ \A k \in DOMAIN c.byClass : c.byClass[k] >= 1
  /\ DOMAIN c.byClass \subseteq Ids(source.classes) \intersect c.traits
  /\ c.action \in Ids(source.actions)
  /\ TraitsKnown(c)
  /\ \A a \in Entries(source.actions) :
       a.id = c.action =>
         /\ a.kind = "move" => "move" \in c.traits
         /\ a.timing = "reaction" => "reaction" \in c.traits
  /\ Identity(c, "class") \subseteq Ids(source.classes)

\* Each profile is declared in its slot, and the armor and weapon slots need theirs.
EquipmentFits(e) ==
  /\ TraitsKnown(e) /\ ModifiersFit(e)
  /\ e.profiles \subseteq {e.slot}
  /\ e.slot \in {"armor", "weapon"} => e.slot \in e.profiles

-----------------------------------------------------------------------------
(* Actors *)

\* resolveCharacterIdentity and resolveCharacterRules, without a pending choice.
BuildFits(a) ==
  /\ \E k \in Ids(source.classes) : Identity(a, "class") = {k}
  /\ \E k \in Ids(source.ancestries) : Identity(a, "ancestry") = {k}
  /\ a.level > 0 /\ DOMAIN a.chosen = {l \in Schedule : l <= a.level}
  /\ \A l \in DOMAIN a.chosen :
       a.chosen[l].skill \in Choices(l).skill /\ a.chosen[l].boosts \in Choices(l).boosts
  /\ BuildResolves(a.trained, a.intelligence, a.chosen)

ActorFits(a) ==
  /\ TraitsKnown(a)
  /\ Worn(a.starter) \subseteq Ids(source.equipment)
  /\ \A s \in KitSlots :
       a.starter.worn[s] # Nothing => Of(source.equipment, a.starter.worn[s]).slot = s
  /\ Len(a.starter.prepared) <= a.capacity
  /\ Prepared(a.starter) \union a.grants \subseteq Ids(source.cards)
  /\ a.innate \subseteq Ids(source.actions)
  /\ "playable" \in a.traits => a.kind = "character"
  /\ a.kind = "character" =>
       /\ a.innate = {}
       /\ BuildFits(a)
       /\ \A c \in L!Deck(a.id, a.starter) \intersect Ids(source.cards) : L!Eligible(a.id, a.level, c)
  /\ \A c \in a.conditions : c.id \in Ids(source.conditions) /\ ValueFits(c.id, c.value)

-----------------------------------------------------------------------------
(* Scenarios *)

FreeTile(s, at) ==
  \E t \in Entries(s.tiles) : t.at = at /\ t.traits \intersect {"blocked", "impassable"} = {}

MapFits(s) ==
  /\ Unique(s.tiles) /\ Unique(s.objects)
  /\ \A j, k \in DOMAIN s.tiles : s.tiles[j].at = s.tiles[k].at => j = k
  /\ \A d \in Entries(s.tiles) \union Entries(s.objects) : d.at \in s.area /\ TraitsKnown(d)
  /\ \A o \in Entries(s.objects) : o.opens \in Ids(s.tiles)

\* placementAppliesToPartySize.
AppliesTo(p, n) == n \in p.min..p.max

\* Collisions bind only actors that meet: those a party of n walks into.
ApartFor(s, n) ==
  /\ \A j, k \in DOMAIN s.placements :
       /\ AppliesTo(s.placements[j], n) /\ AppliesTo(s.placements[k], n)
       /\ s.placements[j].at = s.placements[k].at
       => j = k
  /\ \A j \in DOMAIN s.placements, k \in DOMAIN s.spawns :
       AppliesTo(s.placements[j], n) /\ s.spawns[k].seat <= n
       => s.placements[j].at # s.spawns[k].at

EnemyFor(s, n) ==
  (\E k \in DOMAIN s.spawns : s.spawns[k].seat <= n) =>
    \E p \in Entries(s.placements) : AppliesTo(p, n) /\ p.team = "enemies"

\* Fault: the composition is judged once, not for each size of party.
ScenarioFitsOnce(s) ==
  /\ MapFits(s)
  /\ Unique(s.placements)
  /\ \A p \in Entries(s.placements) :
       p.actor \in Ids(source.actors) /\ p.team # "heroes" /\ p.min <= p.max /\ FreeTile(s, p.at)
  /\ \A j, k \in DOMAIN s.spawns :
       s.spawns[j].seat = s.spawns[k].seat \/ s.spawns[j].at = s.spawns[k].at => j = k
  /\ \A p \in Entries(s.spawns) : FreeTile(s, p.at)
  /\ ApartFor(s, 3) /\ EnemyFor(s, 3)

ScenarioFits(s) ==
  /\ MapFits(s)
  /\ Unique(s.placements)
  /\ \A p \in Entries(s.placements) :
       p.actor \in Ids(source.actors) /\ p.team # "heroes" /\ p.min <= p.max /\ FreeTile(s, p.at)
  /\ \A j, k \in DOMAIN s.spawns :
       s.spawns[j].seat = s.spawns[k].seat \/ s.spawns[j].at = s.spawns[k].at => j = k
  /\ \A p \in Entries(s.spawns) : FreeTile(s, p.at)
  /\ \A n \in PartySizes : ApartFor(s, n) /\ EnemyFor(s, n)

-----------------------------------------------------------------------------
(* Adventures *)

AdventureFits(a) ==
  /\ a.min <= a.max
  /\ \A j, k \in DOMAIN a.encounters : a.encounters[j] = a.encounters[k] => j = k
  /\ \A e \in Entries(a.encounters) :
       /\ e \in Ids(source.scenarios)
       /\ \A s \in Entries(source.scenarios) :
            s.id = e => /\ Len(s.spawns) >= a.max
                        /\ \A n \in 1..a.max : \E p \in Entries(s.spawns) : p.seat = n
       /\ \E w \in Entries(a.awards) : w.after = e
  /\ Unique(a.rewards)
  /\ \A r \in Entries(a.rewards) :
       /\ r.after \in Entries(a.encounters)
       /\ r.equipment \subseteq Ids(source.equipment) /\ r.cards \subseteq Ids(source.cards)
  /\ \A w \in Entries(a.awards) : w.after \in Entries(a.encounters) /\ w.amount >= 0
  /\ \A list \in {a.rewards, a.awards} :
       \A j, k \in DOMAIN list : list[j].after = list[k].after => j = k

\* No issue in any category.
Accepted ==
  /\ \A category \in DOMAIN source : Unique(source[category])
  /\ \A t \in Entries(source.traits) : TraitFits(t)
  /\ RegistryFits(source.classes, "class") /\ \A c \in Entries(source.classes) : ClassFits(c)
  /\ RegistryFits(source.ancestries, "ancestry") /\ \A a \in Entries(source.ancestries) : AncestryFits(a)
  /\ \A c \in Entries(source.conditions) : ConditionFits(c)
  /\ \A a \in Entries(source.actions) : ActionFits(a)
  /\ \A c \in Entries(source.cards) : CardFits(c)
  /\ \A e \in Entries(source.equipment) : EquipmentFits(e)
  /\ \A a \in Entries(source.actors) : ActorFits(a)
  /\ \A s \in Entries(source.scenarios) : ScenarioFits(s)
  /\ \A a \in Entries(source.adventures) : AdventureFits(a)

-----------------------------------------------------------------------------
ContentInit ==
  /\ source \in Sources
  /\ status = "authored"

\* compileContentPack, or its ContentCompilationError.
Compile ==
  /\ status = "authored"
  /\ status' = IF Accepted THEN "compiled" ELSE "refused"
  /\ UNCHANGED source

ContentNext == Compile

ContentSpec == ContentInit /\ [][ContentNext]_contentVars

-----------------------------------------------------------------------------
(* What the runtime relies on *)

\* Parties the lobby can form: distinct playable characters in the first seats.
Rosters(adventure) ==
  {p \in UNION {[1..n -> Ids(source.actors)] : n \in adventure.min..adventure.max} :
     /\ \A j, k \in DOMAIN p : p[j] = p[k] => j = k
     /\ \A k \in DOMAIN p : "playable" \in Of(source.actors, p[k]).traits}

CharacterClass(a) == Of(source.classes, CHOOSE t \in Identity(a, "class") : TRUE)
Ancestry(a) == Of(source.ancestries, CHOOSE t \in Identity(a, "ancestry") : TRUE)

\* Hit points before constitution, which only adds.
LeastHitPoints(a) == Ancestry(a).hitPoints + a.level * CharacterClass(a).hpPerLevel

\* createAdventureSession does not throw: each member resolves and may use what it
\* starts with, of which createStartingCollection counts the copies; it is alive and
\* can cross a square.
MemberBegins(a) ==
  /\ a.kind = "character"
  /\ LeastHitPoints(a) > 0 /\ Ancestry(a).speedFeet >= 5
  /\ BuildResolves(a.trained, a.intelligence, a.chosen)
  /\ L!KitIsLegal(a.id, a.level, a.starter)

PartyBegins(p) == \A k \in DOMAIN p : MemberBegins(Of(source.actors, p[k]))

\* The board buildAdventureEncounter sets up for a party of n: who stands where.
SpawnOf(s, seat) == CHOOSE p \in Entries(s.spawns) : p.seat = seat

Board(s, n) ==
  {[who |-> "hero", number |-> k, at |-> SpawnOf(s, k).at] : k \in 1..n}
  \union {[who |-> "static", number |-> k, at |-> s.placements[k].at] :
            k \in {j \in DOMAIN s.placements : AppliesTo(s.placements[j], n)}}

\* The encounter can be built and fought: each seat has a place, nobody shares a
\* tile or stands in a wall, everybody is defined, and there is somebody to fight.
EncounterStarts(s, n) ==
  /\ \A k \in 1..n : \E p \in Entries(s.spawns) : p.seat = k
  /\ \A f, g \in Board(s, n) : f.at = g.at => f = g
  /\ \A f \in Board(s, n) : FreeTile(s, f.at)
  /\ \A p \in Entries(s.placements) : AppliesTo(p, n) => p.actor \in Ids(source.actors)
  /\ \E p \in Entries(s.placements) : AppliesTo(p, n) /\ p.team = "enemies"

\* experienceFor and rewardAfter have one answer.
AwardsAreSettled(adventure) ==
  \A e \in Entries(adventure.encounters) :
    /\ \E w \in Entries(adventure.awards) :
         \A v \in Entries(adventure.awards) : v.after = e <=> v = w
    /\ \A r, q \in Entries(adventure.rewards) : r.after = e /\ q.after = e => r = q

\* Cards a hand can ever hold: prepared, granted by an actor, won, or granted by
\* equipment worn or won.
CardsInPlay ==
  LET rewards == UNION {Entries(v.rewards) : v \in Entries(source.adventures)}
  IN  (UNION {L!Deck(a.id, a.starter) : a \in Entries(source.actors)})
      \union (UNION {r.cards : r \in rewards})
      \union (UNION {GrantedBy(Of(source.equipment, e)) : e \in UNION {r.equipment : r \in rewards}})

\* The card leads to an action that resolves: an outcome for each degree, and no
\* effect on a condition, an action or a target that is not there.
CardPlays(c) ==
  /\ c \in Ids(source.cards)
  /\ LET a == Of(source.actions, Of(source.cards, c).action)
     IN  /\ a \in Entries(source.actions)
         /\ a.kind \in {"check", "strike"} => Degrees \subseteq DOMAIN a.outcomes
         /\ \A e \in EffectsOf(a) :
              /\ e.kind = "apply-condition" => e.condition \in Ids(source.conditions)
              /\ e.kind = "damage" /\ e.owner = "target" => a.targeting \in ActorTargeting
              /\ e.kind = "lock-action" => e.action \in Ids(source.actions)

\* A character of the class gets no worse at anything by gaining a level.
ClassGrows(c) ==
  \A l \in 1..19, p \in Proficiencies : ClassRank(c, l, p) <= ClassRank(c, l + 1, p)

\* A pack that compiles can be played: every party that can be formed begins, all
\* its encounters start for its size and are paid once, every card it can come to
\* hold plays, a lever opens a tile of its map, and no level makes a class worse.
CompiledContentPlays ==
  status = "compiled" =>
    /\ \A v \in Entries(source.adventures) :
         /\ \A p \in Rosters(v) : PartyBegins(p)
         /\ \A e \in Entries(v.encounters), n \in v.min..v.max :
              EncounterStarts(Of(source.scenarios, e), n)
         /\ AwardsAreSettled(v)
    /\ \A c \in CardsInPlay : CardPlays(c)
    /\ \A s \in Entries(source.scenarios) : \A o \in Entries(s.objects) : o.opens \in Ids(s.tiles)
    /\ \A c \in Entries(source.classes) : ClassGrows(c)
=============================================================================
