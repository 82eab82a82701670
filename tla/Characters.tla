---------------------------- MODULE Characters ----------------------------
(***************************************************************************)
(* The build and growth of a character: character/rules.ts, as far as it   *)
(* can refuse one.  What is chosen for a level is a record of the skill it *)
(* raises and the attributes it boosts; a history maps levels to choices.  *)
(***************************************************************************)
EXTENDS Integers, FiniteSets

CONSTANTS
  Skills,        \* SKILL_IDS
  Attributes,    \* ATTRIBUTE_IDS
  Proficiencies, \* perception, each save, armor and weapon category, the class DC
  BoostChoices,  \* the sets of four attributes a level may boost
  NoSkill        \* a level without a skill increase

SkillIncreaseLevels == {l \in 3..19 : l % 2 = 1}
AttributeBoostLevels == {5, 10, 15, 20}
Schedule == SkillIncreaseLevels \union AttributeBoostLevels

\* Proficiency ranks, untrained to legendary.
Ranks == 0..4

\* nextSkillRank, NoSkill where it is null.
NextSkillRank(rank, level) ==
  IF rank = 4 \/ (rank = 2 /\ level < 7) \/ (rank = 3 /\ level < 15) THEN NoSkill
  ELSE rank + 1

\* The rank of a skill by the increases chosen below a level.
SkillRank(trained, chosen, skill, level) ==
  (IF skill \in trained THEN 1 ELSE 0) +
  Cardinality({l \in DOMAIN chosen : l < level /\ chosen[l].skill = skill})

\* resolveClassProficiencies: the rank of the latest milestone that names p, of
\* milestones at levels of their own.
ClassRank(class, level, p) ==
  LET reached == {m \in {class.milestones[k] : k \in DOMAIN class.milestones} :
                    m.level <= level /\ p \in DOMAIN m.ranks}
  IN  IF reached = {} THEN class.starting[p]
      ELSE (CHOOSE m \in reached : \A n \in reached : n.level <= m.level).ranks[p]

\* An attribute after n boosts: above 4 a boost counts half.
AttributeOf(n) == IF n <= 4 THEN n ELSE 4 + (n - 4) \div 2

\* resolveCharacterRules does not throw: the build trains as many skills as its
\* intelligence allows, and each increase was possible at its level.
BuildResolves(trained, intelligence, chosen) ==
  /\ trained \subseteq Skills
  /\ Cardinality(trained) = 2 + AttributeOf(intelligence)
  /\ \A l \in DOMAIN chosen \intersect SkillIncreaseLevels :
       NextSkillRank(SkillRank(trained, chosen, chosen[l].skill, l), l) # NoSkill

\* assertAdvancementChoice: what a level of the schedule asks for, no more.
Choices(l) ==
  [skill : IF l \in SkillIncreaseLevels THEN Skills ELSE {NoSkill},
   boosts : IF l \in AttributeBoostLevels THEN BoostChoices ELSE {{}}]
=============================================================================
