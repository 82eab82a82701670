---------------------------- MODULE MCAdventure ----------------------------
(***************************************************************************)
(* A small content pack, with the mistakes an author could make in it and  *)
(* some changes that are none, is compiled; the pack as it stands is then  *)
(* played.                                                                 *)
(*                                                                         *)
(* Its adventure has three encounters for one or two of two characters:    *)
(* the first award stays below a level, the second crosses five thresholds *)
(* at once and opens two advancements, the third has no reward.  A fighter *)
(* may wield the spear and the thrust its point grants; the rally asks a   *)
(* higher level of a rogue than of a fighter.                              *)
(***************************************************************************)
EXTENDS Party, Content

-----------------------------------------------------------------------------
(* Definitions of the pack *)

Trait(id, category) ==
  [id |-> id, category |-> category, cards |-> {}, actions |-> {}, modifiers |-> {}]
Pointed == [Trait("pointed", "weapon") EXCEPT !.cards = {"thrust"}]
Grip == [Trait("grip", "weapon") EXCEPT !.actions = {[action |-> "interact-lever", group |-> "interact"]}]
Milestone(level, p, rank) == [level |-> level, ranks |-> [q \in {p} |-> rank]]
Class(id) ==
  [id |-> id, hpPerLevel |-> 8, keyAttribute |-> "dex", starting |-> [p \in Proficiencies |-> 1],
   milestones |-> <<Milestone(7, "weapons", 3), Milestone(3, "weapons", 2)>>]
Human == [id |-> "human", hitPoints |-> 8, speedFeet |-> 25, fixedBoosts |-> <<"str", "con">>]

Fear ==
  [id |-> "frightened", traits |-> {}, policy |-> [min |-> 0, max |-> 4],
   modifiers |-> {[type |-> "status", value |-> -1]}]
Prone == [id |-> "prone", traits |-> {}, policy |-> Nothing, modifiers |-> {}]

Hurt == [kind |-> "damage", owner |-> "target"]
Scare(n) == [kind |-> "apply-condition", owner |-> "target", condition |-> "frightened", value |-> n]
Trip == [kind |-> "apply-condition", owner |-> "target", condition |-> "prone", value |-> Nothing]
Lock(id) == [kind |-> "lock-action", action |-> id]

Action(id, kind, targeting, traits) ==
  [id |-> id, kind |-> kind, targeting |-> targeting, traits |-> traits, timing |-> "action",
   range |-> "none", weaponMode |-> FALSE, countsAttacks |-> FALSE, effects |-> {},
   outcomes |-> [d \in Degrees |-> {}], check |-> [skills |-> {}, readsTarget |-> FALSE]]
Lunge ==
  [Action("lunge", "strike", "enemy", {"attack"}) EXCEPT
     !.range = "weapon-reach", !.countsAttacks = TRUE,
     !.outcomes = [d \in Degrees |->
       CASE d = "critical-success" -> {Hurt, Scare(2)} [] d = "success" -> {Hurt, Trip} [] OTHER -> {}]]
Cry ==
  [Action("cry", "check", "ally", {}) EXCEPT
     !.check = [skills |-> {"society"}, readsTarget |-> TRUE],
     !.outcomes = [d \in Degrees |-> {Lock("cry")}]]
Stride == Action("stride", "move", "tile", {"move"})
Pull == [Action("interact-lever", "direct", "object", {}) EXCEPT !.effects = {[kind |-> "interact"]}]

Card(id, action, traits) ==
  [id |-> id, action |-> action, traits |-> traits, level |-> 1, byClass |-> <<>>]
Thrust == Card("thrust", "lunge", {"fighter"})
Rally == [Card("rally", "cry", {"fighter", "rogue"}) EXCEPT !.byClass = [k \in {"rogue"} |-> 6]]
Spear ==
  [id |-> "spear", slot |-> "weapon", profiles |-> {"weapon"}, traits |-> {"pointed", "grip"},
   modifiers |-> {}]

Wearing(e, cards) == [worn |-> [s \in {"weapon"} |-> e], prepared |-> cards]
Hero(id, class, kit) ==
  [id |-> id, kind |-> "character", traits |-> {"playable", "human", class}, level |-> 1,
   trained |-> {"stealth", "society"}, intelligence |-> 0, chosen |-> <<>>, starter |-> kit,
   capacity |-> 2, grants |-> {}, innate |-> {}, conditions |-> {}]
Aerin == Hero("aerin", "fighter", Wearing("spear", <<>>))
Lyra == [Hero("lyra", "rogue", Wearing(Nothing, <<>>)) EXCEPT !.capacity = 1]
Goblin ==
  [Hero("goblin", "rogue", Wearing("spear", <<"rally">>)) EXCEPT
     !.kind = "creature", !.traits = {}, !.innate = {"lunge"},
     !.conditions = {[id |-> "frightened", value |-> 1]}]

Tile(id, at) == [id |-> id, at |-> at, traits |-> {}]
Enemy(id, at, min, max) ==
  [id |-> id, actor |-> "goblin", team |-> "enemies", at |-> at, min |-> min, max |-> max]
Lever(tile) == [id |-> "lever", at |-> <<0, 0>>, traits |-> {}, opens |-> tile]
Spawn(seat, at) == [seat |-> seat, at |-> at]
\* Two enemies share a tile, for parties that never meet both.
Scenario(id) ==
  [id |-> id, area |-> (0..3) \X {0}, objects |-> <<Lever("c")>>,
   tiles |-> <<Tile("a", <<0, 0>>), Tile("b", <<1, 0>>), Tile("c", <<2, 0>>),
               [Tile("d", <<3, 0>>) EXCEPT !.traits = {"blocked"}]>>,
   placements |-> <<Enemy("scout", <<2, 0>>, 1, 1), Enemy("chief", <<2, 0>>, 2, 3)>>,
   spawns |-> <<Spawn(1, <<0, 0>>), Spawn(2, <<1, 0>>)>>]
Reward(id, after, equipment, cards) ==
  [id |-> id, after |-> after, equipment |-> equipment, cards |-> cards]
Paid(after, amount) == [after |-> after, amount |-> amount]
Trouble ==
  [id |-> "trouble", min |-> 1, max |-> 2, encounters |-> <<"road", "gate", "hall">>,
   rewards |-> <<Reward("first", "road", {"spear"}, {"rally"}), Reward("second", "gate", {}, {"rally"})>>,
   awards |-> <<Paid("road", 700), Paid("gate", 4300), Paid("hall", 300)>>]

Base ==
  [traits |-> <<Trait("playable", "system"), Trait("fighter", "class"), Trait("rogue", "class"),
                Trait("human", "ancestry"), Trait("attack", "action"), Trait("move", "action"),
                Trait("reaction", "action"), Trait("blocked", "terrain"), Pointed, Grip>>,
   ancestries |-> <<Human>>, classes |-> <<Class("fighter"), Class("rogue")>>,
   conditions |-> <<Fear, Prone>>, actions |-> <<Lunge, Cry, Stride, Pull>>,
   cards |-> <<Thrust, Rally, Card("dash", "stride", {"move"})>>, equipment |-> <<Spear>>,
   actors |-> <<Aerin, Lyra, Goblin>>,
   scenarios |-> <<Scenario("road"), Scenario("gate"), Scenario("hall")>>,
   adventures |-> <<Trouble>>]

-----------------------------------------------------------------------------
(* What an author may have written instead *)

\* One definition of a list replaced, or another at its end.
Replaced(category, k, d) == [Base[category] EXCEPT ![k] = d]
Added(category, d) == Base[category] \o <<d>>

Edits == [c \in Categories |->
  CASE c = "traits" ->
         {Replaced(c, 9, [Pointed EXCEPT !.cards = x]) : x \in {{}, {"gone"}, {"dash"}, {"thrust", "rally"}}}
         \union {Replaced(c, 10, [Grip EXCEPT !.actions = {x}]) :
                   x \in [action : {"interact-lever", "lunge"}, group : {"interact", "escape"}]}
         \union {Replaced(c, 2, Trait("fighter", "system")), Added(c, Pointed)}
    [] c = "ancestries" ->
         {<<>>, <<[Human EXCEPT !.hitPoints = 0]>>, <<[Human EXCEPT !.speedFeet = 3]>>,
          <<[Human EXCEPT !.fixedBoosts = <<"str", "str">>]>>}
    [] c = "classes" ->
         {<<Class("fighter")>>, Added(c, Class("goblin")), Replaced(c, 2, [Class("rogue") EXCEPT !.hpPerLevel = -8])}
         \union {Replaced(c, 1, [Class("fighter") EXCEPT !.milestones = x]) :
            x \in {<<Milestone(3, "weapons", 2), Milestone(3, "perception", 2)>>,
                   <<Milestone(3, "weapons", 2), Milestone(7, "weapons", 1)>>,
                   <<Milestone(3, "weapons", 2), Milestone(7, "weapons", 2)>>,
                   <<Milestone(1, "weapons", 2)>>, <<[level |-> 3, ranks |-> <<>>]>>,
                   <<Milestone(3, "weapons", 2), Milestone(4, "perception", 4)>>}}
    [] c = "conditions" ->
         {Replaced(c, 1, [Fear EXCEPT !.policy = x]) :
            x \in {Nothing, [min |-> 0, max |-> 1], [min |-> 1, max |-> 1]}}
         \union {<<Fear>>, Replaced(c, 2, [Prone EXCEPT !.policy = Fear.policy])}
    [] c = "actions" ->
         {Replaced(c, 1, [Lunge EXCEPT !.outcomes = x]) :
            x \in {[d \in Degrees \ {"failure"} |-> {}], [d \in Degrees |-> {Scare(5)}],
                   [d \in Degrees |-> {Lock("rest")}], [d \in Degrees |-> {[kind |-> "interact"]}]}}
         \union {Replaced(c, 1, [Lunge EXCEPT !.traits = {}]),
                 Replaced(c, 2, [Cry EXCEPT !.targeting = "self"]),
                 Replaced(c, 2, [Cry EXCEPT !.timing = "reaction"]), <<Lunge, Cry, Pull>>}
    [] c = "cards" ->
         {Replaced(c, 1, x) : x \in {Card("thrust", "stab", {}), Card("thrust", "stride", {}),
                                     [Thrust EXCEPT !.level = 2], [Thrust EXCEPT !.traits = {"rogue"}]}}
         \union {Replaced(c, 2, [Rally EXCEPT !.traits = {"fighter"}]),
                 Replaced(c, 2, [Rally EXCEPT !.traits = @ \union {"reaction"}])}
    [] c = "equipment" ->
         {<<>>} \union {Replaced(c, 1, x) :
            x \in {[Spear EXCEPT !.slot = "armor"], [Spear EXCEPT !.profiles = {}],
                   [Spear EXCEPT !.traits = {}],
                   [Spear EXCEPT !.modifiers = {[type |-> "untyped", value |-> 1]}]}}
    [] c = "actors" ->
         {Replaced(c, 1, x) :
            x \in {[Aerin EXCEPT !.trained = {"stealth"}], [Aerin EXCEPT !.level = 3],
                   [Aerin EXCEPT !.traits = {"playable", "human"}], [Aerin EXCEPT !.innate = {"lunge"}],
                   [Aerin EXCEPT !.starter.prepared = <<"rally", "dash">>],
                   [Aerin EXCEPT !.kind = "creature"]}}
         \union {Replaced(c, 2, x) :
            x \in {[Lyra EXCEPT !.starter.worn["weapon"] = "spear"], [Lyra EXCEPT !.grants = {"rally"}],
                   [Lyra EXCEPT !.grants = {"dash"}],
                   [Lyra EXCEPT !.starter.prepared = <<"dash", "dash">>]}}
         \union {<<Aerin, Lyra>>, Replaced(c, 3, [Goblin EXCEPT !.conditions = {[id |-> "prone", value |-> 1]}])}
    [] c = "scenarios" ->
         {Replaced(c, 1, [Scenario("road") EXCEPT !.placements = x]) :
            x \in {<<Enemy("chief", <<2, 0>>, 2, 3)>>, <<Enemy("scout", <<2, 0>>, 1, 2)>>,
                   <<Enemy("scout", <<2, 0>>, 1, 2), Enemy("chief", <<2, 0>>, 2, 3)>>,
                   <<Enemy("scout", <<1, 0>>, 1, 1), Enemy("chief", <<2, 0>>, 2, 3)>>,
                   <<Enemy("scout", <<1, 0>>, 1, 3)>>, <<Enemy("scout", <<3, 0>>, 1, 3)>>,
                   <<[Enemy("scout", <<2, 0>>, 1, 3) EXCEPT !.team = "heroes"]>>}}
         \union {Replaced(c, 2, [Scenario("gate") EXCEPT !.spawns = x]) :
                   x \in {<<>>, <<Spawn(1, <<0, 0>>)>>, <<Spawn(2, <<0, 0>>), Spawn(3, <<1, 0>>)>>,
                          <<Spawn(1, <<0, 0>>), Spawn(2, <<0, 0>>)>>}}
         \union {Replaced(c, 3, [Scenario("hall") EXCEPT !.objects = <<Lever("e")>>])}
    [] c = "adventures" ->
         {<<x>> : x \in {[Trouble EXCEPT !.encounters = <<"road", "gate", "lair">>],
                         [Trouble EXCEPT !.encounters = <<"road", "gate">>],
                         [Trouble EXCEPT !.encounters = <<"road", "gate", "hall", "gate">>],
                         [Trouble EXCEPT !.awards = <<Paid("road", 700), Paid("gate", 4300)>>],
                         [Trouble EXCEPT !.awards = @ \o <<Paid("hall", 1)>>],
                         [Trouble EXCEPT !.rewards = @ \o <<Reward("third", "gate", {}, {"thrust"})>>],
                         [Trouble EXCEPT !.rewards = @ \o <<Reward("third", "hall", {"bow"}, {})>>],
                         [Trouble EXCEPT !.min = 2, !.max = 1], [Trouble EXCEPT !.max = 3]}}]

\* One category differs from the pack as it stands, or two that decide together
\* what a character may carry.
MCSources ==
  UNION {{[Base EXCEPT ![c] = v] : v \in Edits[c] \union {Base[c]}} : c \in Categories}
  \union UNION {{[Base EXCEPT ![c] = v, !.actors = w] : v \in Edits[c], w \in Edits["actors"]} :
                c \in {"traits", "cards", "equipment"}}

-----------------------------------------------------------------------------
(* The tables module Party works with, of the pack as it stands *)

Heroes == {"aerin", "lyra"}
MCActor(a) == Of(Base.actors, a)
MCTable(defs) == [id \in Ids(defs) |-> Of(defs, id)]

MCAward == [k \in 1..3 |-> (CHOOSE w \in Entries(Trouble.awards) : w.after = Trouble.encounters[k]).amount]
MCEarned == [n \in 0..3 |-> <<0, 700, 5000, 5300>>[n + 1]]
MCRewardChoices ==
  [k \in 1..3 |-> UNION {r.equipment \union r.cards :
                           r \in {q \in Entries(Trouble.rewards) : q.after = Trouble.encounters[k]}}]
MCAdvancementLevels == {3, 5, 7, 9, 10, 11, 13, 15, 17, 19, 20}
MCStarterKit == [a \in Heroes |-> MCActor(a).starter]
MCStarter == [a \in Heroes |-> Carried(MCActor(a).starter)]
MCClassOf == [a \in Heroes |-> CHOOSE k \in {"fighter", "rogue"} : k \in MCActor(a).traits]
MCTrained == [a \in Heroes |-> MCActor(a).trained]
MCAttributes == {"int", "str", "dex", "con", "wis"}
MCStartBoosts ==
  [a \in Heroes |-> [i \in MCAttributes |-> IF i = "int" THEN MCActor(a).intelligence ELSE 2]]
MCBoostChoices == {MCAttributes \ {"int"}, MCAttributes \ {"wis"}}
MCSlotOf == [e \in {"spear"} |-> Spear.slot]
MCGrants == [e \in {"spear"} |-> Pointed.cards]
MCBaseGrants == [a \in Heroes |-> MCActor(a).grants]
MCCards == {"thrust", "rally"}
MCCardClasses == [c \in MCCards |-> MCTable(Base.cards)[c].traits]
MCCardLevel == [c \in MCCards |-> MCTable(Base.cards)[c].level]
MCLevelByClass == [c \in MCCards |-> MCTable(Base.cards)[c].byClass]
MCCapacity == [a \in Heroes |-> MCActor(a).capacity]

-----------------------------------------------------------------------------
MCInit == ContentInit /\ PartyInit

MCNext ==
  \/ ContentNext /\ UNCHANGED partyVars
  \/ PartyNext /\ status = "compiled" /\ source = Base /\ UNCHANGED contentVars

MCSpec == MCInit /\ [][MCNext]_<<contentVars, partyVars>>
=============================================================================
