------------------------------- MODULE Skirmish -------------------------------
(***************************************************************************)
(* What actions do to the fighters of a combat: hit points, valued and     *)
(* expiring conditions, the raised shield, sustained effects, the multiple *)
(* attack penalty, locks and flourish (game/engine.ts: the executor, the   *)
(* outcome effects and advanceTurn; game/action-plan.ts; the action rules  *)
(* of queries.ts and capabilities.ts).                                     *)
(*                                                                         *)
(* The actions are authored content, a constant: the executor interprets   *)
(* whatever it is given.  Dice are rolled by choosing.  Where the fighters *)
(* stand is left open: everybody reaches everybody, and whether a target   *)
(* is attacked from behind or flanked is chosen anew for each Strike.      *)
(* Combat has the turn order, cards and suspended moves with all reactors; *)
(* here one reactor at most is asked.                                      *)
(***************************************************************************)
EXTENDS Statistics

CONSTANTS
  Fighters,     \* the actors of the combat
  Order,        \* their initiative order
  Teams,        \* the team of each
  StartHp,      \* hit points each enters with
  Actions,      \* definition of each action
  Hands,        \* the actions each may have at hand: basic, innate, on cards
  SkillOrder,   \* the skills in their fixed order
  Rolls,        \* results of a die of twenty sides
  Nobody,
  MaxTurns      \* bound on the turns of a combat

ASSUME RollsAssumption == Rolls \subseteq 1 .. 20
ASSUME OrderAssumption ==                        \* everybody once
  /\ Order \in Seq(Fighters) /\ Len(Order) > 0
  /\ Fighters = {Order[i] : i \in DOMAIN Order}
  /\ \A i, j \in DOMAIN Order : Order[i] = Order[j] => i = j
ASSUME FightersAssumption ==
  /\ Fighters \subseteq DOMAIN Profiles /\ Nobody \notin Fighters
  /\ \A a \in Fighters : StartHp[a] \in 1 .. MaxHp(Profiles[a])
  /\ {"heroes", "enemies"} = {Teams[a] : a \in Fighters}
ASSUME TurnsAssumption == MaxTurns \in Nat

\* What the types of game/types.ts say of an authored action; that the ids lead
\* somewhere and that the targeting suits the resolution is what compiling the
\* content establishes.  A degree of success indexes the outcomes, and halves count
\* a damage multiplier.  An effect that names no participant is its actor's; what
\* is learnt is about the target.  Nothing rounds what a multiplier makes of a
\* restored amount, so only a whole one, times, keeps hit points whole; no
\* content has another.
Participants == {"actor", "target"}

EffectShape(e) ==
  /\ e.kind \in {"apply-condition", "remove-condition", "damage", "restore-hp", "lock-action",
                 "create-sustained-effect", "sustain-effect", "raise-shield", "record-knowledge"}
  /\ e.owner \in Participants
  /\ e.kind \in {"apply-condition", "remove-condition"} => e.condition \in DOMAIN Conditions
  /\ e.kind = "apply-condition" => e.value \in Int
  /\ e.kind \in {"damage", "restore-hp"} => e.count \in Nat /\ e.sides \in Nat /\ e.flat \in Int
  /\ e.kind = "damage" => e.halves \in Nat
  /\ e.kind = "restore-hp" => e.times \in Nat
  /\ e.kind \in {"lock-action", "create-sustained-effect", "sustain-effect", "raise-shield"} =>
       e.owner = "actor"
  /\ e.kind = "record-knowledge" => e.owner = "target" /\ e.success \in BOOLEAN
  /\ e.kind = "lock-action" => e.action \in DOMAIN Actions

CheckShape(check) ==
  LET Statistic(ref) ==
        \/ ref.kind = "save" /\ ref.id \in DOMAIN SaveAttribute
        \/ ref.kind = "skill" /\ ref.id \in DOMAIN SkillAttribute
        \/ ref.kind = "perception"
  IN /\ check.roller \in Participants /\ Statistic(check.statistic)
     /\ check.override \in Attributes \union {"none"}
     /\ check.dc.owner \in Participants
     /\ check.dc.kind \in {"fixed", "armor-class", "statistic-dc", "class-dc"}
     /\ check.dc.kind = "fixed" => check.dc.value \in Int
     /\ check.dc.kind = "statistic-dc" => Statistic(check.dc.statistic)

ResolutionShape(a) ==
  LET Effects(es) == es \in Seq(Range(es)) /\ \A i \in DOMAIN es : EffectShape(es[i])
      ByDegree == DOMAIN a.outcomes = 1 .. 4 /\ \A d \in 1 .. 4 : Effects(a.outcomes[d])
  IN CASE a.kind = "recall-knowledge" -> TRUE
       [] a.kind = "move" -> {a.step, a.triggersReactions} \subseteq BOOLEAN
       [] a.kind = "strike" -> a.multiplier \in Nat /\ a.extraDice \in Nat /\ ByDegree
       [] a.kind = "check" -> CheckShape(a.check) /\ ByDegree
       [] a.kind = "direct" -> Effects(a.effects)

ActionShape(a) ==
  /\ a.kind \in {"recall-knowledge", "move", "strike", "check", "direct"}
  /\ a.cost \in 0 .. 3                          \* 0 for a reaction
  /\ a.targeting \in
       CASE a.kind \in {"recall-knowledge", "strike"} -> {"enemy"}
         [] a.kind = "move" -> {"tile"}
         [] a.kind = "check" -> {"enemy", "ally", "creature", "self"}
         [] a.kind = "direct" -> {"none", "self", "ally", "creature", "enemy", "effect"}
  /\ a.mapAttackCount \in 1 .. 3
  /\ \A r \in a.requirements : r.kind \in {"weapon-mode", "equipped-slot", "skill-rank"}
  /\ ResolutionShape(a)

ASSUME ActionsAssumption == \A id \in DOMAIN Actions : ActionShape(Actions[id])

\* What holds of the content of content/m7 although nothing validates it (the rules
\* of validate-semantics.ts admit other content): an effect
\* that does damage does it to an enemy, and before any condition of the same outcome.
EffectLists(a) ==
  CASE a.kind = "direct" -> {a.effects}
    [] a.kind \in {"strike", "check"} -> {a.outcomes[degree] : degree \in 1 .. 4}
    [] a.kind \in {"recall-knowledge", "move"} -> {}

ASSUME HarmAssumption ==
  \A id \in DOMAIN Actions : \A es \in EffectLists(Actions[id]) : \A i \in DOMAIN es :
    es[i].kind = "damage" =>
      /\ Actions[id].targeting = "enemy" /\ es[i].owner = "target"
      /\ \A j \in 1 .. i : es[j].kind # "apply-condition"

\* Whoever may react has the game's reaction, which is a Strike.
ASSUME ReactionAssumption ==
  \A hands \in Hands : \A a \in Fighters :
    "reactive-strike" \in hands[a] =>
      "reactive-strike" \in DOMAIN Actions /\ Actions["reactive-strike"].kind = "strike"

\* Fear has a value and wears off by one at the end of a turn.
ASSUME FrightenedAssumption ==
  /\ "frightened" \in DOMAIN Conditions
  /\ Conditions["frightened"].max \in Nat \ {0}
  /\ Conditions["frightened"].endTurnDelta = -1
  /\ ~Conditions["frightened"].expires

VARIABLES
  owned,      \* the actions each fighter has at hand
  actors,     \* hit points, conditions, reaction and shield of each fighter
  turn,       \* active fighter, actions, attacks, turn number, locks, flourish
  effects,    \* sustained effects
  knowledge,  \* attempts to recall knowledge
  outcome,    \* "none" while the combat runs
  pending,    \* the move that waits for a reaction: who moves and who may react
  scares,     \* history: value and turn of each fright since fear was last lifted
  finished    \* history: the turns each fighter has ended

fight == <<owned, actors, turn, effects, knowledge, outcome, pending>>
history == <<scares, finished>>
vars == <<fight, history>>

ConditionIds == DOMAIN Conditions
ActionIds == DOMAIN Actions
Valued(c) == Conditions[c].max > 0

-----------------------------------------------------------------------------
(* Conditions and hit points; s is the draft of a command *)

draft == [actors |-> actors, turn |-> turn, effects |-> effects, knowledge |-> knowledge,
          outcome |-> outcome, scares |-> scares]

Clamp(c, value) == Most(0, Least(Conditions[c].max, value))

\* A valued condition keeps the stronger of what there is and what comes; the
\* value 0 is its absence.  One without a value is there or not.
Merged(c, existing, value) ==
  IF Valued(c) THEN Most(existing, Clamp(c, value)) ELSE 1

AddCondition(s, a, c, value) ==
  [s EXCEPT !.actors[a].conditions[c] = Merged(c, @, value),
            !.scares[a] = IF c = "frightened"
                            THEN @ \union {[value |-> Clamp(c, value), since |-> s.turn.number]}
                            ELSE @]

RemoveCondition(s, a, c) ==
  [s EXCEPT !.actors[a].conditions[c] = 0,
            !.scares[a] = IF c = "frightened" THEN {} ELSE @]

\* decayValuedConditions: at the end of a fighter's own turn.
Decayed(s, a) ==
  [s EXCEPT !.actors[a].conditions =
      [c \in ConditionIds |-> IF Valued(c) THEN Clamp(c, @[c] + Conditions[c].endTurnDelta)
                                           ELSE @[c]]]

\* expireTurnStartConditions.
Expired(s, a) ==
  [s EXCEPT !.actors[a].conditions =
      [c \in ConditionIds |-> IF Conditions[c].expires THEN 0 ELSE @[c]]]

Standing(s, team) == \E a \in Fighters : Teams[a] = team /\ ~s.actors[a].defeated

OutcomeChecked(s) ==
  IF s.outcome # "none" \/ (Standing(s, "heroes") /\ Standing(s, "enemies")) THEN s
  ELSE [s EXCEPT !.outcome = IF Standing(s, "heroes") THEN "victory" ELSE "defeat"]

\* Fault: hit points go below zero.
DamagedBelowZero(s, a, amount) ==
  IF s.actors[a].defeated THEN s
  ELSE LET hp == s.actors[a].hp - amount IN
       OutcomeChecked([s EXCEPT !.actors[a].hp = hp, !.actors[a].defeated = (hp <= 0)])

Damaged(s, a, amount) ==
  IF s.actors[a].defeated THEN s
  ELSE LET hp == Most(0, s.actors[a].hp - amount) IN
       OutcomeChecked([s EXCEPT !.actors[a].hp = hp, !.actors[a].defeated = (hp = 0)])

Restored(s, a, amount) ==
  IF s.actors[a].defeated THEN s
  ELSE [s EXCEPT !.actors[a].hp = Least(MaxHp(Profiles[a]), @ + amount)]

-----------------------------------------------------------------------------
(* Effects of an action *)

\* Bound: of the totals a roll of dice can have the least and the greatest.
DiceTotals(count, sides) == {count, count * sides}

\* A plan of an action: who acts, on whom, with which effect sustained.
Owner(plan, owner) == IF owner = "actor" THEN plan.actor ELSE plan.target

\* Fault: conditions reach whoever the damage of the same action has felled.
SkipsDefeatedNot(s, a) == FALSE

SkipsDefeated(s, a) == s.actors[a].defeated

CreateEffect(s, plan) ==
  [s EXCEPT !.effects = @ \union
     {[owner |-> plan.actor, created |-> s.turn.number, sustained |-> 0,
       nth |-> Cardinality({f \in @ : f.owner = plan.actor})]}]

SustainEffect(s, plan) ==
  [s EXCEPT !.effects = {IF f = plan.effect THEN [f EXCEPT !.sustained = s.turn.number] ELSE f : f \in @}]

KnowledgeRecorded(s, plan, success) ==
  [s EXCEPT !.knowledge = @ \union
     {[actor |-> plan.actor, target |-> plan.target, success |-> success]}]

HasShield(a) ==
  \E i \in DOMAIN Worn[a] :
    Equipment[Worn[a][i]].slot = "shield" /\ Equipment[Worn[a][i]].shieldBonus > 0

\* applyOutcomeEffect: e names its owner, total is what its dice show.
EffectApplied(s, plan, e, total) ==
  LET a == Owner(plan, e.owner) IN
  IF a = Nobody THEN s ELSE
  CASE e.kind = "apply-condition" ->
         IF SkipsDefeated(s, a) THEN s ELSE AddCondition(s, a, e.condition, e.value)
    [] e.kind = "remove-condition" -> RemoveCondition(s, a, e.condition)
    [] e.kind = "damage" -> Damaged(s, a, DamageTotal(total, e.flat, e.halves))
    [] e.kind = "restore-hp" -> Restored(s, a, Most(0, total + e.flat) * e.times)
    [] e.kind = "lock-action" -> [s EXCEPT !.turn.locked = @ \union {e.action}]
    [] e.kind = "create-sustained-effect" -> CreateEffect(s, plan)
    [] e.kind = "sustain-effect" -> SustainEffect(s, plan)
    [] e.kind = "record-knowledge" -> KnowledgeRecorded(s, plan, e.success)
    [] e.kind = "raise-shield" ->
         IF HasShield(a) THEN [s EXCEPT !.actors[a].shieldRaised = TRUE] ELSE s

\* In authored order; totals[i] is what the dice of the i-th effect show.
EffectsApplied(s, plan, es, totals) ==
  LET after[i \in 0 .. Len(es)] ==
        IF i = 0 THEN s ELSE EffectApplied(after[i - 1], plan, es[i], totals[i])
  IN after[Len(es)]

TotalsOf(es) ==
  {totals \in [DOMAIN es -> UNION {DiceTotals(es[i].count, es[i].sides) : i \in DOMAIN es}] :
     \A i \in DOMAIN es : totals[i] \in DiceTotals(es[i].count, es[i].sides)}

-----------------------------------------------------------------------------
(* Checks of an action *)

\* Being attacked from behind and being flanked are penalties of their own to
\* the target's AC; OffGuards are the contexts they make.
OffGuard(causes) ==
  [i \in 1 .. Cardinality(causes) |-> Modifier(Sel("ac", "any"), "circumstance", -2)]
OffGuards == {OffGuard(causes) : causes \in SUBSET {"rear", "flanking"}}

ActorRecord(s, a) ==
  [id |-> a, shieldRaised |-> s.actors[a].shieldRaised, conditions |-> s.actors[a].conditions]

HasAttackTrait(definition) == "attack" \in definition.traits

\* The side that acts carries the multiple attack penalty, as an untyped one.
CheckModifier(s, plan, definition, attacks) ==
  LET check == definition.check
      roller == ActorRecord(s, Owner(plan, check.roller))
      penalty == MapPenalty(attacks, {})
  IN StatisticModifier(roller, check.statistic, check.override,
       IF check.roller = "actor" /\ penalty # 0
         THEN <<Modifier(Sel("all", "any"), "untyped", penalty)>> ELSE <<>>)

CheckDC(s, plan, definition) ==
  LET dc == definition.check.dc
      owner == ActorRecord(s, Owner(plan, dc.owner))
  IN CASE dc.kind = "fixed" -> dc.value
       [] dc.kind = "statistic-dc" -> StatisticDC(owner, dc.statistic, dc.override)
       [] dc.kind = "armor-class" -> ArmorClass(owner, <<>>)
       [] dc.kind = "class-dc" -> ClassDC(owner)

\* buildResolvedActionPlan for a Strike: against the AC the target has towards
\* this attacker.  The degrees a roll can come to, however the two stand.
StrikeDegrees(s, plan, strike) ==
  LET target == ActorRecord(s, plan.target)
      classes == {ArmorClass(target, context) : context \in OffGuards}
  IN {Degree(roll, strike.attackModifier, dc) : roll \in Rolls, dc \in classes}

CheckDegrees(s, plan, definition, attacks) ==
  LET modifier == CheckModifier(s, plan, definition, attacks)
      dc == CheckDC(s, plan, definition)
  IN {Degree(roll, modifier, dc) : roll \in Rolls}

\* previewAction: the degrees a player is shown to have a chance, and the ends of
\* the range a Strike's damage is shown in.
PreviewedDegrees(modifier, dc) == {degree \in 1 .. 4 : DegreeCount(modifier, dc, degree) > 0}

DamageRange(count, sides, flat, halves) ==
  DamageTotal(count, flat, halves) .. DamageTotal(count * sides, flat, halves)

\* Recall Knowledge: against the level of the target with the best of its skills.
RecallDegrees(s, plan) ==
  LET skill == KnowledgeSkill(ActorRecord(s, plan.target), SkillOrder)
      modifier == StatisticModifier(ActorRecord(s, plan.actor), Sel("skill", skill), "none", <<>>)
      dc == LevelDC(Profiles[plan.target].stats.level)
  IN {Degree(roll, modifier, dc) : roll \in Rolls}

RequirementMet(s, a, r) ==
  CASE r.kind = "weapon-mode" -> StrikeSource(ActorRecord(s, a)).mode = r.value
    [] r.kind = "equipped-slot" -> \E i \in DOMAIN Worn[a] : Equipment[Worn[a][i]].slot = r.value
    [] r.kind = "skill-rank" ->
         /\ Profiles[a].kind = "character"
         /\ ProficiencyRankAtLeast(Profiles[a].stats.skills[r.value], r.minimum)

\* The outcome of a degree of success: one state for every roll of its dice.
Outcomes(s, plan, es) == {EffectsApplied(s, plan, es, totals) : totals \in TotalsOf(es)}

\* A Strike that hits deals its damage before the outcome of its degree.
StrikeExecuted(s, plan, definition, attacks) ==
  LET strike == Strike(ActorRecord(s, plan.actor), attacks, definition.extraDice)
      Hit(degree, total) ==
        Damaged(s, plan.target, DamageTotal(total, strike.flatModifier,
                  2 * definition.multiplier * (IF degree = 4 THEN 2 ELSE 1)))
  IN UNION {UNION {Outcomes(hit, plan, definition.outcomes[degree]) :
                     hit \in IF IsSuccess(degree)
                               THEN {Hit(degree, total) : total \in DiceTotals(strike.count, strike.sides)}
                               ELSE {s}} :
              degree \in StrikeDegrees(s, plan, strike)}

\* executeResolvedAction: the states an action may lead to.
Executed(s, plan, definition, attacks) ==
  CASE definition.kind = "direct" -> Outcomes(s, plan, definition.effects)
    [] definition.kind = "strike" -> StrikeExecuted(s, plan, definition, attacks)
    [] definition.kind = "check" ->
         UNION {Outcomes(s, plan, definition.outcomes[degree]) :
                  degree \in CheckDegrees(s, plan, definition, attacks)}
    [] definition.kind = "recall-knowledge" ->
         {KnowledgeRecorded(s, plan, IsSuccess(degree)) : degree \in RecallDegrees(s, plan)}

-----------------------------------------------------------------------------
(* Legality *)

\* getContextActionOptions: what conditions, equipment and own effects grant.
ContextActions(a) ==
  UNION {Conditions[c].grants : c \in {c \in ConditionIds : actors[a].conditions[c] > 0}}
  \union UNION {Equipment[Worn[a][i]].grants : i \in DOMAIN Worn[a]}
  \union (IF \E f \in effects : f.owner = a THEN {"sustain-spell"} ELSE {})

BlocksMovement(a) == actors[a].conditions["prone"] > 0 \/ actors[a].conditions["grabbed"] > 0

Knows(a, target) ==
  \/ Teams[a] = Teams[target]
  \/ \E k \in knowledge :
       k.target = target /\ (k.actor = a \/ (k.success /\ Teams[k.actor] = Teams[a]))

\* canUseRuleTraits: one flourish a turn.
MayFlourish(a, definition) == ~("flourish" \in definition.traits /\ a \in turn.flourish)

\* lookupActionSource: an action of one's own, of a card or of the context.
Sources(a) == (owned[a] \union ContextActions(a)) \intersect ActionIds

\* validateActionBase, beyond whose turn it is.
MayUse(a, id) ==
  /\ id \in Sources(a)
  /\ Actions[id].cost \in 1 .. turn.actions     \* reactions cost 0 and need a trigger
  /\ id \notin turn.locked
  /\ MayFlourish(a, Actions[id])
  /\ ~(id = "raise-shield" /\ id \notin owned[a] /\ actors[a].shieldRaised)

Plan(a, target, effect) == [actor |-> a, target |-> target, effect |-> effect]

\* listCandidateTargets, everybody being within reach and sight.
Plans(a, id) ==
  LET targeting == Actions[id].targeting
      Alive == {b \in Fighters : ~actors[b].defeated}
  IN IF Actions[id].kind = "move"
       THEN IF BlocksMovement(a) THEN {} ELSE {Plan(a, Nobody, Nobody)}
     ELSE CASE targeting = "enemy" ->
            {Plan(a, b, Nobody) : b \in {b \in Alive :
               /\ Teams[b] # Teams[a]
               /\ Actions[id].kind = "recall-knowledge" => ~Knows(a, b)}}
       [] targeting = "ally" -> {Plan(a, b, Nobody) : b \in {b \in Alive \ {a} : Teams[b] = Teams[a]}}
       [] targeting = "creature" -> {Plan(a, b, Nobody) : b \in Alive}
       [] targeting = "effect" -> {Plan(a, Nobody, f) : f \in {f \in effects : f.owner = a}}
       [] targeting \in {"self", "none", "tile"} -> {Plan(a, Nobody, Nobody)}

\* A check needs the participants it names, and a creature has no class DC.
Resolvable(plan, definition) ==
  definition.kind = "check" =>
    LET dc == definition.check.dc IN
    /\ Owner(plan, definition.check.roller) # Nobody
    /\ dc.kind # "fixed" => Owner(plan, dc.owner) # Nobody
    /\ dc.kind = "class-dc" => Profiles[Owner(plan, dc.owner)].kind = "character"

\* validateActionIntent and listLegalTargets: a candidate is legal when its plan can
\* be built.
LegalPlans(a, id) ==
  {plan \in Plans(a, id) :
     /\ MayUse(a, id) /\ Resolvable(plan, Actions[id])
     /\ \A r \in Actions[id].requirements : RequirementMet(draft, a, r)}

\* listLegalActions, those it enables.
LegalActions(a) == {id \in Sources(a) : LegalPlans(a, id) # {}}

-----------------------------------------------------------------------------
(* Commands *)

NoMove == [mover |-> Nobody, reactor |-> Nobody]

\* The state of a finished draft; when its turn is another one, whoever was active
\* has ended the turn before.
Set(s) ==
  /\ actors' = s.actors
  /\ turn' = s.turn
  /\ effects' = s.effects
  /\ knowledge' = s.knowledge
  /\ outcome' = s.outcome
  /\ scares' = s.scares
  /\ finished' = IF s.turn.number = turn.number THEN finished
                 ELSE [finished EXCEPT ![turn.active] = @ \union {turn.number}]

\* recordRuleTraits.
Flourished(s, a, definition) ==
  IF "flourish" \in definition.traits THEN [s EXCEPT !.turn.flourish = @ \union {a}] ELSE s

\* useAction's part before the executor: actions, attacks and flourish.
Paid(s, a, definition) ==
  [Flourished(s, a, definition) EXCEPT
     !.turn.actions = @ - definition.cost,
     !.turn.attacks = @ + (IF HasAttackTrait(definition) THEN definition.mapAttackCount ELSE 0)]

MayReact(s, r, a) ==
  /\ Teams[r] # Teams[a] /\ ~s.actors[r].defeated /\ s.actors[r].reaction
  /\ "reactive-strike" \in owned[r] /\ MayFlourish(r, Actions["reactive-strike"])

\* completeMove: whoever lands in a web may be caught by it.
Landed(s, a) ==
  LET modifier == StatisticModifier(ActorRecord(s, a), Sel("save", "reflex"), "none", <<>>) IN
  {s} \union {AddCondition(s, a, "grabbed", 1) :
                roll \in {roll \in Rolls : ~IsSuccess(Degree(roll, modifier, 15))}}

\* expireUnsustainedEffects: an effect has its first turn for nothing.
Lapsed(f, s) ==
  f.owner = s.turn.active /\ f.created < s.turn.number /\ f.sustained # s.turn.number

\* The next of the initiative order who stands.
NextIndex(s) ==
  LET After(k) == ((s.turn.index - 1 + k) % Len(Order)) + 1
      standing == {k \in 1 .. Len(Order) : ~s.actors[Order[After(k)]].defeated}
  IN After(IF standing = {} THEN Len(Order) ELSE CHOOSE k \in standing : \A l \in standing : k <= l)

\* Fault: fear wears off at the start of one's turn.
AdvancedDecayingNext(s) ==
  LET kept == [s EXCEPT !.effects = {f \in @ : ~Lapsed(f, s)}]
      next == Order[NextIndex(kept)]
      d == Decayed(kept, next)
      r == [d EXCEPT !.actors[next].reaction = TRUE, !.actors[next].shieldRaised = FALSE]
  IN [Expired(r, next) EXCEPT !.turn =
        [active |-> next, index |-> NextIndex(d), actions |-> 3, attacks |-> 0,
         number |-> s.turn.number + 1, locked |-> {}, flourish |-> {}]]

\* advanceTurn.
Advanced(s) ==
  LET ended == s.turn.active
      d == Decayed([s EXCEPT !.effects = {f \in @ : ~Lapsed(f, s)}], ended)
      next == Order[NextIndex(d)]
      r == [d EXCEPT !.actors[next].reaction = TRUE, !.actors[next].shieldRaised = FALSE]
  IN [Expired(r, next) EXCEPT !.turn =
        [active |-> next, index |-> NextIndex(d), actions |-> 3, attacks |-> 0,
         number |-> s.turn.number + 1, locked |-> {}, flourish |-> {}]]

UseAction(a) ==
  /\ outcome = "none" /\ pending = NoMove
  /\ turn.active = a /\ ~actors[a].defeated
  /\ \E id \in LegalActions(a) :
       /\ Actions[id].kind # "move"
       /\ \E plan \in LegalPlans(a, id) :
            \E s \in Executed(Paid(draft, a, Actions[id]), plan, Actions[id],
                              AttacksForMap(TRUE, turn.attacks, HasAttackTrait(Actions[id]))) :
              Set(OutcomeChecked(s))
  /\ UNCHANGED <<owned, pending>>

\* executeMove: with somebody about to react the move waits.  A Step in place only
\* turns the actor; with a final facing and the last action it ends the turn.
Move(a) ==
  /\ outcome = "none" /\ pending = NoMove
  /\ turn.active = a /\ ~actors[a].defeated
  /\ \E id \in LegalActions(a) :
       /\ Actions[id].kind = "move"
       /\ LET s == Paid(draft, a, Actions[id]) IN
          \/ /\ \E landed \in Landed(s, a) : Set(landed)
             /\ UNCHANGED pending
          \/ /\ Actions[id].triggersReactions
             /\ \E r \in Fighters : MayReact(s, r, a) /\ pending' = [mover |-> a, reactor |-> r]
             /\ Set(s)
          \/ /\ Actions[id].step
             /\ \/ Set(s)
                \/ /\ s.turn.actions = 0
                   /\ turn.number < MaxTurns
                   /\ Set(Advanced(s))
             /\ UNCHANGED pending
  /\ UNCHANGED owned

EndTurn(a) ==
  /\ outcome = "none" /\ pending = NoMove
  /\ turn.active = a
  /\ turn.number < MaxTurns
  /\ Set(Advanced(draft))
  /\ UNCHANGED <<owned, pending>>

\* resumeAfterReaction: a mover who fell ends its turn, one held meanwhile stays.
Resumed(s, a) ==
  IF s.actors[a].defeated THEN {IF s.outcome = "none" THEN Advanced(s) ELSE s}
  ELSE IF s.actors[a].conditions["prone"] > 0 \/ s.actors[a].conditions["grabbed"] > 0 THEN {s}
  ELSE Landed(s, a)

\* A reaction is resolved off the reactor's turn and draws no attack penalty; one
\* whose requirements are not met is spent for nothing.
Reacted(s, r, a, reaction) ==
  IF \A q \in reaction.requirements : RequirementMet(s, r, q)
    THEN Executed(s, Plan(r, a, Nobody), reaction,
                  AttacksForMap(FALSE, turn.attacks, HasAttackTrait(reaction)))
  ELSE {s}

UseReaction(r) ==
  /\ pending # NoMove /\ pending.reactor = r
  /\ LET a == pending.mover
         reaction == Actions["reactive-strike"]
         s == [Flourished(draft, r, reaction) EXCEPT !.actors[r].reaction = FALSE]
     IN \E struck \in Reacted(s, r, a, reaction) :
          \E resumed \in Resumed(struck, a) : Set(resumed)
  /\ pending' = NoMove
  /\ UNCHANGED owned

PassReaction(r) ==
  /\ pending # NoMove /\ pending.reactor = r
  /\ \E landed \in Resumed(draft, pending.mover) : Set(landed)
  /\ pending' = NoMove
  /\ UNCHANGED owned

-----------------------------------------------------------------------------

Init ==
  /\ owned \in Hands
  /\ actors = [a \in Fighters |->
       [hp |-> StartHp[a], defeated |-> FALSE, reaction |-> (a = Order[1]),
        shieldRaised |-> FALSE, conditions |-> [c \in ConditionIds |-> 0]]]
  /\ turn = [active |-> Order[1], index |-> 1, actions |-> 3, attacks |-> 0, number |-> 1,
             locked |-> {}, flourish |-> {}]
  /\ effects = {} /\ knowledge = {} /\ outcome = "none" /\ pending = NoMove
  /\ scares = [a \in Fighters |-> {}]
  /\ finished = [a \in Fighters |-> {}]

Next ==
  \E a \in Fighters :
    \/ UseAction(a) \/ Move(a) \/ EndTurn(a) \/ UseReaction(a) \/ PassReaction(a)

Spec == Init /\ [][Next]_vars

-----------------------------------------------------------------------------
(* A fight in the save of a campaign *)

\* The hit points, flags and conditions of every saved actor.
ActorsAreValid ==
  /\ DOMAIN actors = Fighters
  /\ \A a \in Fighters :
       /\ actors[a].hp \in 0 .. MaxHp(Profiles[a])
       /\ actors[a].defeated <=> actors[a].hp <= 0
       /\ {actors[a].reaction, actors[a].shieldRaised} \subseteq BOOLEAN
       /\ \A c \in ConditionIds : actors[a].conditions[c] \in Int

\* The initiative order has everybody once, and says who is active.
TurnIsValid ==
  /\ Len(Order) = Cardinality(Fighters)
  /\ turn.index \in DOMAIN Order /\ Order[turn.index] = turn.active
  /\ {turn.actions, turn.attacks, turn.number} \subseteq Nat
  /\ turn.flourish \subseteq Fighters

\* Effects, attempts and a waiting move concern actors of the combat.
ReferencesAreValid ==
  /\ \A f \in effects : f.owner \in Fighters /\ f.created \in Nat /\ f.sustained \in Int
  /\ \A k \in knowledge : {k.actor, k.target} \subseteq Fighters /\ k.success \in BOOLEAN
  /\ pending # NoMove => {pending.mover, pending.reactor} \subseteq Fighters
  /\ outcome \in {"none", "victory", "defeat"}

SaveAccepts == ActorsAreValid /\ TurnIsValid /\ ReferencesAreValid

-----------------------------------------------------------------------------
(* Properties *)

\* The numbers of a fighter with no condition and a lowered shield.
CalmNumbers ==
  [a \in Fighters |->
     LET calm == [id |-> a, shieldRaised |-> FALSE, conditions |-> [c \in ConditionIds |-> 0]]
     IN [ac |-> ArmorClass(calm, <<>>), strike |-> Strike(calm, 0, 0)]]

\* The best single protection a fighter has taken.
Guard(a) ==
  LET held == {c \in ConditionIds : actors[a].conditions[c] > 0}
      bonuses == {0}
        \union {Conditions[c].modifiers[1].value : c \in
                  {c \in held : Conditions[c].modifiers # <<>> /\
                                Conditions[c].modifiers[1].selector.kind = "ac"}}
        \union {Equipment[Worn[a][i]].shieldBonus : i \in
                  {i \in DOMAIN Worn[a] : actors[a].shieldRaised}}
  IN CHOOSE n \in bonuses : \A m \in bonuses : m <= n

\* However a fighter got into its state, its numbers are those of the rules:
\* of shield, parry and cover only the best protects, being prone, grabbed,
\* flanked and struck from behind cost 2 together, fear lowers attacks and AC
\* by its value and damage by nothing.
StackingIsExact ==
  \A a \in Fighters :
    LET now == ActorRecord(draft, a)
        strike == Strike(now, 0, 0)
        fear == actors[a].conditions["frightened"]
    IN /\ \A context \in OffGuards :
            ArmorClass(now, context) = CalmNumbers[a].ac + Guard(a) - fear
              - (IF context # <<>> \/ BlocksMovement(a) THEN 2 ELSE 0)
       /\ strike.attackModifier = CalmNumbers[a].strike.attackModifier - fear
       /\ strike.flatModifier = CalmNumbers[a].strike.flatModifier

\* What is left of a fright after the turns its fighter has ended since.
Left(fright, turns) ==
  Most(0, fright.value - Cardinality({n \in turns : n >= fright.since}))

\* A fighter is as frightened as the strongest of its frights that is left, each
\* of which loses one with every turn the fighter itself has ended since: frights
\* neither add up, nor refresh each other, nor fade on somebody else's turn.
FearLedger ==
  \A a \in Fighters :
    LET left == {Left(fright, finished[a]) : fright \in scares[a]} IN
    /\ actors[a].conditions["frightened"] \in left \union {0}
    /\ \A n \in left : n <= actors[a].conditions["frightened"]

\* After each turn of its owner a sustained effect has either been created or
\* paid for in that turn; nobody keeps one for free.
SustainedIsPaid ==
  \A f \in effects : \A n \in finished[f.owner] : n <= Most(f.created, f.sustained)

\* What lasts lasts as long as it should, fear and sustained effects alike,
\* although both are counted in turns that also end in the middle of a reaction.
DurationsAreExact == FearLedger /\ SustainedIsPaid

\* Continue accepts the save of a fight after any of its commands: what
\* validateCombat and its schema ask, written apart from the engine, holds of
\* every state the engine comes to, a move that waits for a reaction included.
FightsCanBeContinued == SaveAccepts

\* Defeat is final and stops everything, under HarmAssumption: whoever is at 0 hit
\* points stays there, gains no condition - not from the action that felled it
\* either - and gets no turn while the combat lasts.  An action that harmed its own
\* actor, or conditioned before it harmed, would break this.
DefeatIsFinal ==
  [][\A a \in Fighters :
       /\ actors[a].defeated => actors'[a].defeated
       /\ actors'[a].defeated =>
            /\ actors'[a].hp = 0
            /\ \A c \in ConditionIds : actors'[a].conditions[c] <= actors[a].conditions[c]
            /\ (outcome' = "none" => turn'.active # a)]_vars
=============================================================================
