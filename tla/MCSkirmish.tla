----------------------------- MODULE MCSkirmish -----------------------------
(* A fighter with halberd and shield against a goblin chief, with the actions *)
(* and the numbers of content/m7.                                            *)
EXTENDS Skirmish

MCFighters == {"aerin", "chief"}
MCOrder == <<"aerin", "chief">>
MCTeams == [aerin |-> "heroes", chief |-> "enemies"]
MCWorn == [aerin |-> <<"halberd", "scale-mail", "shield">>, chief |-> <<>>]
MCStartHp == [aerin |-> 10, chief |-> 9]
MCSkillOrder == <<"athletics", "intimidation", "occultism">>

MCProfiles ==
  [aerin |->
     [kind |-> "character", traits |-> <<>>, stats |->
       [level |-> 1, ancestryHp |-> 8, classHpPerLevel |-> 10,
        attributes |-> [str |-> 4, dex |-> 1, con |-> 2, int |-> 0, wis |-> 1, cha |-> 1],
        perception |-> "expert",
        saves |-> [fortitude |-> "expert", reflex |-> "expert", will |-> "trained"],
        skills |-> [k \in DOMAIN SkillAttribute |->
                      IF k \in {"athletics", "intimidation"} THEN "trained" ELSE "untrained"],
        armorProficiencies |-> [k \in {"unarmored", "light", "medium", "heavy"} |-> "trained"],
        weaponProficiencies |-> [k \in {"unarmed", "simple", "martial", "advanced"} |->
                                   IF k = "advanced" THEN "trained" ELSE "expert"],
        keyAttribute |-> "str", classDcProficiency |-> "trained",
        unarmedStrike |-> [mode |-> "melee", category |-> "unarmed", traits |-> {"agile", "finesse"},
                           count |-> 1, sides |-> 4]]],
   chief |->
     [kind |-> "creature", traits |-> <<>>, stats |->
       [level |-> 1, ac |-> 18, maxHp |-> 28, perception |-> 6,
        strike |-> [mode |-> "none", traits |-> {}, attackModifier |-> 8, damageModifier |-> 3,
                    count |-> 1, sides |-> 10],
        saves |-> [fortitude |-> 8, reflex |-> 5, will |-> 6],
        skills |-> [athletics |-> 8, intimidation |-> 8]]]]

NoArmor == [category |-> "none", acItemBonus |-> 0, dexCap |-> 0]
NoWeapon == [mode |-> "none", category |-> "none", traits |-> {}, count |-> 0, sides |-> 0]
Item(slot, armor, weapon, bonus, grants) ==
  [slot |-> slot, armor |-> armor, weapon |-> weapon, shieldBonus |-> bonus,
   modifiers |-> <<>>, traits |-> <<>>, grants |-> grants]

MCEquipment ==
  ("halberd" :> Item("weapon", NoArmor, [mode |-> "melee", category |-> "martial", traits |-> {},
                                         count |-> 1, sides |-> 10], 0, {}))
  @@ ("scale-mail" :> Item("armor", [category |-> "medium", acItemBonus |-> 3, dexCap |-> 2],
                           NoWeapon, 0, {}))
  @@ ("shield" :> Item("shield", NoArmor, NoWeapon, 2, {"raise-shield"}))

Condition(modifiers, max, delta, expires, grants) ==
  [modifiers |-> modifiers, max |-> max, endTurnDelta |-> delta, expires |-> expires,
   traits |-> <<>>, grants |-> grants]

MCConditions ==
  [prone |-> Condition(<<>>, 0, 0, FALSE, {"stand"}),
   grabbed |-> Condition(<<>>, 0, 0, FALSE, {"escape-grab"}),
   frightened |-> Condition(<<Modifier(Sel("all", "any"), "status", -1)>>, 4, -1, FALSE, {}),
   covered |-> Condition(<<Modifier(Sel("ac", "any"), "circumstance", 2)>>, 0, 0, TRUE, {}),
   warded |-> Condition(<<Modifier(Sel("ac", "any"), "circumstance", 1)>>, 0, 0, TRUE, {})]
MCConditionOrder == <<"covered", "frightened", "grabbed", "prone", "warded">>
MCTraitModifiers == <<>>

Apply(owner, c, value) ==
  [kind |-> "apply-condition", owner |-> owner, condition |-> c, value |-> value,
   count |-> 0, sides |-> 0]
Lift(c) ==
  [kind |-> "remove-condition", owner |-> "actor", condition |-> c, count |-> 0, sides |-> 0]
Do(kind) == [kind |-> kind, owner |-> "actor", count |-> 0, sides |-> 0]

Burn(halves) ==
  [kind |-> "damage", owner |-> "target", count |-> 1, sides |-> 6, flat |-> 0, halves |-> halves]

Base(cost, kind, targeting, traits) ==
  [cost |-> cost, kind |-> kind, targeting |-> targeting, traits |-> traits, requirements |-> {},
   mapAttackCount |-> 1, extraDice |-> 0, multiplier |-> 1, triggersReactions |-> FALSE,
   step |-> FALSE]
Direct(cost, targeting, es) == Base(cost, "direct", targeting, {}) @@ [effects |-> es]
StrikeWith(cost, outcomes) == Base(cost, "strike", "enemy", {"attack"}) @@ [outcomes |-> outcomes]
Against(statistic, override, dc) ==
  [roller |-> "actor", statistic |-> statistic, override |-> override, dc |-> dc]
TargetDC(save) ==
  [kind |-> "statistic-dc", owner |-> "target", statistic |-> Sel("save", save), override |-> "none"]
FixedDC(value) == [kind |-> "fixed", owner |-> "actor", value |-> value]

MCActions ==
  ("strike" :> StrikeWith(1, <<<<>>, <<>>, <<>>, <<>>>>))
  @@ ("reactive-strike" :> StrikeWith(0, <<<<>>, <<>>, <<>>, <<>>>>))
  @@ ("vicious-swing" :> [StrikeWith(2, <<<<>>, <<>>, <<>>, <<>>>>) EXCEPT
        !.traits = {"attack", "flourish"}, !.mapAttackCount = 2, !.extraDice = 1,
        !.requirements = {[kind |-> "weapon-mode", value |-> "melee"]}])
  @@ ("knockdown" :> StrikeWith(2, <<<<>>, <<>>, <<Apply("target", "prone", 1)>>,
                                     <<Apply("target", "prone", 1)>>>>))
  @@ ("demoralize" :> (Base(1, "check", "enemy", {"fear"}) @@
        [check |-> Against(Sel("skill", "intimidation"), "none", TargetDC("will")),
         outcomes |-> <<<<>>, <<>>, <<Apply("target", "frightened", 1)>>,
                        <<Apply("target", "frightened", 2)>>>>]))
  @@ ("grapple" :> (Base(1, "check", "enemy", {"attack"}) @@
        [check |-> Against(Sel("skill", "athletics"), "none", TargetDC("fortitude")),
         outcomes |-> <<<<>>, <<>>, <<Apply("target", "grabbed", 1)>>,
                        <<Apply("target", "grabbed", 1)>>>>]))
  @@ ("escape-grab" :> (Base(1, "check", "self", {"attack"}) @@
        [check |-> Against(Sel("skill", "athletics"), "none", FixedDC(15)),
         outcomes |-> <<<<Do("lock-action") @@ [action |-> "escape-grab"]>>, <<>>,
                        <<Lift("grabbed")>>, <<Lift("grabbed")>>>>]))
  @@ ("stand" :> Direct(1, "self", <<Lift("prone")>>))
  @@ ("raise-shield" :> Direct(1, "self", <<Do("raise-shield")>>))
  @@ ("brace-behind-cover" :> Direct(1, "self", <<Apply("actor", "covered", 1)>>))
  @@ ("arcane-ward" :> Direct(1, "self", <<Apply("actor", "warded", 1)>>))
  @@ ("spirit-beacon" :> Direct(1, "self", <<Do("create-sustained-effect")>>))
  @@ ("sustain-spell" :> Direct(1, "effect", <<Do("sustain-effect")>>))
  @@ ("heal" :> Direct(1, "creature",
        <<[kind |-> "restore-hp", owner |-> "target", count |-> 1, sides |-> 8, flat |-> 0,
           times |-> 1]>>))
  @@ ("hex-bolt" :> (Base(2, "check", "enemy", {"fire"}) @@
        [check |-> [roller |-> "target", statistic |-> Sel("save", "reflex"), override |-> "none",
                    dc |-> [kind |-> "statistic-dc", owner |-> "actor",
                            statistic |-> Sel("skill", "occultism"), override |-> "none"]],
         outcomes |-> <<<<Burn(4)>>, <<Burn(2)>>, <<Burn(1)>>, <<>>>>]))
  @@ ("recall-knowledge" :> Base(1, "recall-knowledge", "enemy", {}))
  @@ ("stride" :> [Base(1, "move", "tile", {"move"}) EXCEPT !.triggersReactions = TRUE])
  @@ ("step" :> [Base(1, "move", "tile", {"move"}) EXCEPT !.step = TRUE])

\* Four moments of a fight; the shield, standing up, escaping and sustaining
\* come from equipment, conditions and effects.
MCHands ==
  {[aerin |-> {"strike", "demoralize", "brace-behind-cover"},
    chief |-> {"knockdown", "hex-bolt", "step"}],
   [aerin |-> {"spirit-beacon", "reactive-strike"},
    chief |-> {"demoralize", "stride"}],
   [aerin |-> {"recall-knowledge", "heal"},
    chief |-> {"grapple"}],
   [aerin |-> {"arcane-ward", "vicious-swing"},
    chief |-> {"grapple", "knockdown"}]}

\* Two states are told apart by what can still matter: of the frights of a
\* fighter, how much of the strongest is left.  The others decide neither what
\* may happen next nor, as they only fade, whether FearLedger holds then.
Remaining(a) ==
  LET left == {0} \union {Left(fright, finished[a]) : fright \in scares[a]}
  IN CHOOSE n \in left : \A m \in left : m <= n

Relevant == <<fight, finished, [a \in Fighters |-> Remaining(a)]>>
=============================================================================
