------------------------- MODULE PlayabilityProofs -------------------------
(***************************************************************************)
(* Proofs that what was accepted can be played: every command of a party   *)
(* and every content pack that compiles.                                   *)
(*                                                                         *)
(* No sequence of commands wedges a campaign, for any party, any content   *)
(* and any growth, when there are more skills than levels that raise one.  *)
(* A party refines an adventure, so the invariants of AdventureProofs hold *)
(* of it.  What is kept as accepted is inductive: levels and collections   *)
(* only grow, and what a member may use only asks a level that was already *)
(* reached.  That growth stays open follows from it: the history lies      *)
(* below the level that is due, so a skill never raised before is free.    *)
(*                                                                         *)
(* Of a compiled pack the invariant is that it was accepted; the rest      *)
(* follows the references the runtime follows, one part of                 *)
(* CompiledContentPlays at a time.                                         *)
(***************************************************************************)
EXTENDS Party, Content, AdventureProofs, TLAPS, FiniteSetTheorems, WellFoundedInduction

-----------------------------------------------------------------------------
(* The party *)

\* More skills than increases: sixteen of them in game/statistics.ts, nine
\* increases in character/rules.ts.
EnoughSkills == Cardinality(Skills) > Cardinality(SkillIncreaseLevels)

-----------------------------------------------------------------------------
(* The adventure underneath *)

\* What a kit holds is equipment and cards.
LEMMA KitsHoldItems ==
  ASSUME NEW kit \in Kits
  PROVE  Carried(kit) \subseteq Items
<1>1. Items = Equipment \union Cards
  BY PartyAssumption
<1>2. Worn(kit) \subseteq Equipment
  BY DEF Worn, Kits
<1>3. Prepared(kit) \subseteq Cards
  <2>1. PICK n \in 0..MaxPrepared : kit.prepared \in [1..n -> Cards]
    BY DEF Kits
  <2> QED BY <2>1 DEF Prepared
<1> QED BY <1>1, <1>2, <1>3 DEF Carried

\* Each command of a party is the command of the adventure it refines.
LEMMA PartyPlaysTheAdventure == PartySpec => AdventureSpec
<1>1. PartyInit => AdventureInit
  BY DEF PartyInit
<1>2. ASSUME [PartyNext]_partyVars
      PROVE  [AdventureNext]_adventureVars
  <2>1. ASSUME NEW party \in Parties, BeginParty(party) PROVE AdventureNext
    BY <2>1 DEF BeginParty, AdventureNext
  <2>2. ASSUME NEW m \in Slots, NEW kit \in Kits, ChangeKit(m, kit)
        PROVE  AdventureNext
    <3>1. Carried(kit) \in SUBSET Items
      BY KitsHoldItems
    <3>2. SetLoadout(m, Carried(kit))
      BY <2>2 DEF ChangeKit
    <3> QED BY <3>1, <3>2 DEF AdventureNext
  <2>3. ASSUME NEW m \in Slots, NEW l \in AdvancementLevels, NEW choice \in Choices(l),
               Advance(m, l, choice)
        PROVE  AdventureNext
    BY <2>3 DEF Advance, AdventureNext
  <2>4. ASSUME NEW i \in Items, TakeReward(i) PROVE AdventureNext
    BY <2>4 DEF TakeReward, AdventureNext
  <2>5. ASSUME Muster \/ Win \/ Lose PROVE AdventureNext
    BY <2>5 DEF Muster, Win, Lose, AdventureNext
  <2>6. ASSUME UNCHANGED partyVars PROVE UNCHANGED adventureVars
    BY <2>6 DEF partyVars
  <2> QED BY <1>2, <2>1, <2>2, <2>3, <2>4, <2>5, <2>6 DEF PartyNext
<1> QED BY <1>1, <1>2, PTL DEF PartySpec, AdventureSpec

-----------------------------------------------------------------------------
(* Choices *)

\* A skill nobody raised yet can be raised at any level.
LEMMA FreshSkillRises ==
  ASSUME NEW trained, NEW chosen, NEW skill \in Skills, NEW level \in Nat,
         \A l \in DOMAIN chosen : l < level => chosen[l].skill # skill
  PROVE  NextSkillRank(SkillRank(trained, chosen, skill, level), level) # NoSkill
<1>1. {l \in DOMAIN chosen : l < level /\ chosen[l].skill = skill} = {}
  OBVIOUS
<1>2. Cardinality({}) = 0
  BY FS_EmptySet
<1>3. SkillRank(trained, chosen, skill, level) \in {0, 1}
  BY <1>1, <1>2 DEF SkillRank
<1>4. 1 # NoSkill /\ 2 # NoSkill
  BY PartyAssumption DEF Ranks
<1> QED BY <1>3, <1>4 DEF NextSkillRank

\* There is a skill that no increase of a history raised.
LEMMA SomeSkillIsFresh ==
  ASSUME EnoughSkills, NEW chosen, NEW D, D \subseteq SkillIncreaseLevels
  PROVE  \E skill \in Skills : \A l \in D : chosen[l].skill # skill
<1> DEFINE Raised == {chosen[l].skill : l \in D}
<1>1. IsFiniteSet(SkillIncreaseLevels)
  <2>1. IsFiniteSet(3..19)
    <3>1. \A from, to \in Int : IsFiniteSet(from..to)
      BY FS_Interval
    <3>2. 3 \in Int /\ 19 \in Int
      OBVIOUS
    <3> QED BY <3>1, <3>2, Zenon
  <2>2. SkillIncreaseLevels \subseteq 3..19
    BY DEF SkillIncreaseLevels
  <2> QED BY <2>1, <2>2, FS_Subset
<1>2. IsFiniteSet(D) /\ Cardinality(D) <= Cardinality(SkillIncreaseLevels)
  BY <1>1, FS_Subset
<1>3. IsFiniteSet(Raised) /\ Cardinality(Raised) <= Cardinality(D)
  <2> DEFINE raise == [l \in D |-> chosen[l].skill]
  <2>1. raise \in Surjection(D, Raised)
    BY DEF Surjection
  <2> QED BY <2>1, <1>2, FS_Surjection
<1>4. Cardinality(Skills) \in Nat /\ Cardinality(Raised) \in Nat
      /\ Cardinality(D) \in Nat /\ Cardinality(SkillIncreaseLevels) \in Nat
  BY <1>1, <1>2, <1>3, FS_CardinalityType, PartyAssumption
<1>5. ~ (Skills \subseteq Raised)
  <2>1. SUFFICES ASSUME Skills \subseteq Raised PROVE FALSE
    OBVIOUS
  <2>2. Cardinality(Skills) <= Cardinality(Raised)
    BY <2>1, <1>3, FS_Subset
  <2> QED BY <2>2, <1>2, <1>3, <1>4 DEF EnoughSkills
<1> QED BY <1>5

\* A choice is recorded, and the choices of other levels are kept.
LEMMA WithValue ==
  ASSUME NEW chosen, NEW l, NEW choice
  PROVE  /\ DOMAIN With(chosen, l, choice) = DOMAIN chosen \union {l}
         /\ With(chosen, l, choice)[l] = choice
         /\ \A k \in DOMAIN chosen : k # l => With(chosen, l, choice)[k] = chosen[k]
BY DEF With

\* A later choice does not disturb what made an earlier one legal.
LEMMA LaterChoiceKeepsRank ==
  ASSUME NEW trained, NEW chosen, NEW l \in Nat, NEW choice, NEW skill, NEW k \in Nat, k <= l,
         DOMAIN chosen \subseteq Nat, l \notin DOMAIN chosen
  PROVE  SkillRank(trained, With(chosen, l, choice), skill, k)
           = SkillRank(trained, chosen, skill, k)
<1>1. {j \in DOMAIN With(chosen, l, choice) :
         j < k /\ With(chosen, l, choice)[j].skill = skill}
      = {j \in DOMAIN chosen : j < k /\ chosen[j].skill = skill}
  <2>1. ASSUME NEW j
        PROVE  (/\ j \in DOMAIN With(chosen, l, choice)
                /\ j < k /\ With(chosen, l, choice)[j].skill = skill)
               <=> (j \in DOMAIN chosen /\ j < k /\ chosen[j].skill = skill)
    <3>1. DOMAIN With(chosen, l, choice) = DOMAIN chosen \union {l}
      BY WithValue
    <3>2. j = l => ~ (j < k)
      OBVIOUS
    <3>3. j \in DOMAIN chosen => With(chosen, l, choice)[j] = chosen[j]
      <4>1. SUFFICES ASSUME j \in DOMAIN chosen PROVE With(chosen, l, choice)[j] = chosen[j]
        OBVIOUS
      <4>2. j # l
        BY <4>1
      <4> QED BY <4>1, <4>2 DEF With
    <3> QED BY <3>1, <3>2, <3>3
  <2> QED BY <2>1
<1> QED BY <1>1 DEF SkillRank

-----------------------------------------------------------------------------
(* What is kept *)

\* A card a member may use stays usable when its level grows.
LEMMA EligibleGrows ==
  ASSUME NEW a \in Actors, NEW c \in Cards, NEW low \in Nat, NEW high \in Nat, low <= high,
         Eligible(a, low, c)
  PROVE  Eligible(a, high, c)
<1>1. RequiredLevel(ClassOf[a], c) \in Nat
  <2>1. CardLevel[c] \in Nat
    BY PartyAssumption
  <2>2. ASSUME NEW k \in DOMAIN LevelByClass[c] PROVE LevelByClass[c][k] \in Nat
    BY PartyAssumption
  <2> QED BY <2>1, <2>2 DEF RequiredLevel
<1> QED BY <1>1 DEF Eligible

\* Every card of a deck is a card of the content.
LEMMA DecksHoldCards ==
  ASSUME NEW a \in Actors, NEW kit \in Kits
  PROVE  Deck(a, kit) \subseteq Cards
<1>1. BaseGrants[a] \subseteq Cards
  BY PartyAssumption
<1>2. Prepared(kit) \subseteq Cards
  <2>1. PICK n \in 0..MaxPrepared : kit.prepared \in [1..n -> Cards]
    BY DEF Kits
  <2> QED BY <2>1 DEF Prepared
<1>3. ASSUME NEW e \in Worn(kit) PROVE Grants[e] \subseteq Cards
  <2>1. e \in Equipment
    BY DEF Worn, Kits
  <2> QED BY <2>1, PartyAssumption
<1> QED BY <1>1, <1>2, <1>3 DEF Deck

\* A legal kit stays legal when its member grows.
LEMMA KitsStayLegal ==
  ASSUME NEW a \in Actors, NEW kit \in Kits, NEW low \in Nat, NEW high \in Nat, low <= high,
         KitIsLegal(a, low, kit)
  PROVE  KitIsLegal(a, high, kit)
<1>1. ASSUME NEW c \in Deck(a, kit) PROVE Eligible(a, high, c)
  <2>1. c \in Cards /\ Eligible(a, low, c)
    BY <1>1, DecksHoldCards DEF KitIsLegal
  <2> QED BY <2>1, EligibleGrows
<1> QED BY <1>1 DEF KitIsLegal

\* The copies a party takes are finitely many.
LEMMA CopiesAreCounted ==
  ASSUME NEW n \in Nat, NEW party, DOMAIN party = 1..n, NEW i
  PROVE  Copies(party, i) \in Nat
<1>1. IsFiniteSet(1..n) /\ IsFiniteSet(1..MaxPrepared) /\ IsFiniteSet(KitSlots)
  BY FS_Interval, KitAssumption
<1>2. IsFiniteSet((1..n) \X KitSlots) /\ IsFiniteSet((1..n) \X (1..MaxPrepared))
  BY <1>1, FS_Product
<1>3. WornCopies(party, i) \subseteq (1..n) \X KitSlots
  BY DEF WornCopies
<1>4. PreparedCopies(party, i) \subseteq (1..n) \X (1..MaxPrepared)
  BY DEF PreparedCopies
<1>5. Cardinality(WornCopies(party, i)) \in Nat /\ Cardinality(PreparedCopies(party, i)) \in Nat
  BY <1>2, <1>3, <1>4, FS_Subset, FS_CardinalityType
<1> QED BY <1>5 DEF Copies

\* What a party is made of: kits and choices that belong to its members, legal
\* as long as the adventure lasts, and a combat of the levels it was built with.
HistoryFits ==
  \A m \in DOMAIN roster : \A k \in DOMAIN history[m] : history[m][k] \in Choices(k)

PartyInv ==
  /\ HistoryFits
  /\ kits \in [DOMAIN roster -> Kits]
  /\ DOMAIN history = DOMAIN roster
  /\ KeptAsAccepted
  /\ MusterIsCurrent

LEMMA PartyInvInit == PartyInit => PartyInv
<1> SUFFICES ASSUME PartyInit PROVE PartyInv
  OBVIOUS
<1>1. /\ roster = <<>> /\ kits = <<>> /\ history = <<>> /\ mustered = <<>>
      /\ phase = "none"
  BY DEF PartyInit, AdventureInit
<1>2. DOMAIN roster = {} /\ DOMAIN kits = {}
  BY <1>1
<1> QED BY <1>1, <1>2 DEF PartyInv, HistoryFits, KeptAsAccepted, MusterIsCurrent, Members

\* What a party needs of the adventure it plays.
AdventureUnderneath == AdventureTypeOK /\ EncounterOrder /\ AdvancementPrefix

\* Everything a legal party does while nobody changes kits: levels and
\* collections grow, so it stays legal.
LEMMA GrowthKeepsParties ==
  ASSUME AdventureTypeOK, AdventureTypeOK', PartyInv, UNCHANGED <<roster, kits>>,
         \A m \in Members : progress'[m].level >= progress[m].level,
         \A i \in Items : collection'[i] >= collection[i],
         PartyIsLegal(roster, progress, kits, collection)
  PROVE  PartyIsLegal(roster, progress, kits, collection)'
<1>1. DOMAIN kits = DOMAIN roster /\ DOMAIN roster = 1..Len(roster) /\ Len(roster) \in Nat
  BY DEF PartyInv, AdventureTypeOK
<1>2. ASSUME NEW m \in DOMAIN kits
      PROVE  KitIsLegal(roster'[m], progress'[m].level, kits'[m])
  <2>1. roster[m] \in Actors /\ kits[m] \in Kits
    BY <1>1 DEF PartyInv, AdventureTypeOK
  <2>2. progress[m].level \in Nat /\ progress'[m].level \in Nat
    BY <1>1 DEF AdventureTypeOK, Progression
  <2>3. KitIsLegal(roster[m], progress[m].level, kits[m])
    BY DEF PartyIsLegal
  <2>4. progress[m].level <= progress'[m].level
    BY <1>1, <2>2 DEF Members
  <2> QED BY <2>1, <2>2, <2>3, <2>4, KitsStayLegal
<1>3. ASSUME NEW i \in DOMAIN collection'
      PROVE  Copies(kits', i) <= collection'[i]
  <2>1. i \in Items /\ i \in DOMAIN collection
    BY DEF AdventureTypeOK
  <2>2. Copies(kits, i) \in Nat
    BY <1>1, CopiesAreCounted
  <2>3. Copies(kits, i) <= collection[i]
    BY <2>1 DEF PartyIsLegal
  <2>4. collection[i] \in Nat /\ collection'[i] \in Nat /\ collection'[i] >= collection[i]
    BY <2>1 DEF AdventureTypeOK
  <2> QED BY <2>2, <2>3, <2>4
<1> QED BY <1>2, <1>3 DEF PartyIsLegal

\* A step that keeps the members' choices and kits keeps the party accepted.
LEMMA GrowthKeepsAcceptance ==
  ASSUME AdventureTypeOK, AdventureTypeOK', PartyInv,
         UNCHANGED <<roster, kits, history>>, phase # "none",
         \A m \in Members : progress'[m].level >= progress[m].level
                            /\ progress'[m].advanced = progress[m].advanced,
         \A i \in Items : collection'[i] >= collection[i]
  PROVE  /\ KeptAsAccepted' /\ kits' \in [DOMAIN roster' -> Kits]
         /\ DOMAIN history' = DOMAIN roster' /\ HistoryFits'
<1>1. PartyIsLegal(roster, progress, kits, collection)
  BY DEF PartyInv, KeptAsAccepted, PartyIsAccepted
<1>2. PartyIsLegal(roster', progress', kits', collection')
  BY <1>1, GrowthKeepsParties
<1>3. \A m \in DOMAIN roster' : Resolves(roster'[m], history'[m])
  BY DEF PartyInv, KeptAsAccepted, PartyIsAccepted
<1>4. \A m \in DOMAIN roster' : DOMAIN history'[m] = progress'[m].advanced
  BY DEF PartyInv, KeptAsAccepted, Members
<1> QED BY <1>2, <1>3, <1>4 DEF PartyInv, HistoryFits, KeptAsAccepted, PartyIsAccepted, Members

LEMMA PartyInvStep ==
  ASSUME AdventureUnderneath, AdventureUnderneath', PartyInv, [PartyNext]_partyVars
  PROVE  PartyInv'
<1>0. AdventureTypeOK /\ AdventureTypeOK' /\ EncounterOrder
  BY DEF AdventureUnderneath
<1>1. ASSUME NEW party \in Parties, BeginParty(party)
      PROVE  PartyInv'
  <2>1. party \in Seq(Actors)
    BY PartyIsSequence
  <2>2. /\ roster' = party
        /\ kits' = [m \in DOMAIN party |-> StarterKit[party[m]]]
        /\ history' = [m \in DOMAIN party |-> <<>>]
        /\ PartyIsAccepted(roster', history', progress', kits', collection')
        /\ phase' = "between-encounters" /\ phase = "none" /\ mustered' = mustered
    BY <1>1 DEF BeginParty, BeginAdventure, CreateProgression
  <2>3. progress' = [m \in DOMAIN party |->
                       [level |-> StartLevel, experience |-> 0, advanced |-> {}]]
    BY <1>1 DEF BeginParty, BeginAdventure, CreateProgression
  <2>4. kits' \in [DOMAIN roster' -> Kits]
    <3>1. \A m \in DOMAIN party : StarterKit[party[m]] \in Kits
      BY <2>1, PartyAssumption
    <3> QED BY <2>2, <3>1
  <2>5. \A m \in DOMAIN roster' : DOMAIN history'[m] = progress'[m].advanced
    BY <2>2, <2>3
  <2>6. mustered' = <<>>
    BY <2>2 DEF PartyInv, MusterIsCurrent
  <2> QED BY <2>2, <2>4, <2>5, <2>6 DEF PartyInv, HistoryFits, KeptAsAccepted, MusterIsCurrent, Members
<1>2. CASE Muster
  <2>1. /\ UNCHANGED <<roster, progress, collection, kits, history>>
        /\ phase' = "combat" /\ phase # "none"
        /\ mustered' = [m \in Members |-> progress[m].level]
    BY <1>2 DEF Muster, StartEncounter
  <2>2. PartyIsAccepted(roster, history, progress, kits, collection)
    BY <1>2 DEF Muster
  <2> QED BY <2>1, <2>2 DEF PartyInv, HistoryFits, KeptAsAccepted, MusterIsCurrent, Members
<1>3. CASE Win
  <2>1. /\ UNCHANGED <<roster, collection, kits, history>>
        /\ phase = "combat" /\ phase' # "combat"
        /\ mustered' = <<>>
        /\ progress' = [m \in Members |-> ApplyExperience(progress[m], Award[current])]
    BY <1>3 DEF Win, AcceptVictory, AwardExperience, RewardAfter, MoveOn
  <2>2. Award[current] \in Nat
    <3>1. current = Len(completed) + 1 /\ current \in 0..NumEncounters /\ Len(completed) \in Nat
      BY <1>0, <2>1 DEF EncounterOrder, AdventureTypeOK
    <3>2. current \in Encounters
      BY <3>1, CampaignAssumption DEF Encounters
    <3> QED BY <3>2, CampaignAssumption
  <2>3. ASSUME NEW m \in Members
        PROVE  progress'[m].level >= progress[m].level
               /\ progress'[m].advanced = progress[m].advanced
    <3>1. progress[m] \in Progression
      BY <1>0 DEF AdventureTypeOK, Members
    <3>2. progress'[m] = ApplyExperience(progress[m], Award[current])
      BY <2>1
    <3> QED BY <2>2, <3>1, <3>2, ApplyExperienceValue
  <2>4. \A i \in Items : collection'[i] >= collection[i]
    BY <1>0, <2>1 DEF AdventureTypeOK
  <2>5. /\ KeptAsAccepted' /\ kits' \in [DOMAIN roster' -> Kits]
        /\ DOMAIN history' = DOMAIN roster' /\ HistoryFits'
    BY <1>0, <2>1, <2>3, <2>4, GrowthKeepsAcceptance
  <2> QED BY <2>1, <2>5 DEF PartyInv, MusterIsCurrent
<1>4. CASE Lose
  <2>1. /\ UNCHANGED <<roster, progress, collection, kits, history>>
        /\ phase = "combat" /\ phase' = "failed"
        /\ mustered' = <<>>
    BY <1>4 DEF Lose, AcceptDefeat
  <2> QED BY <2>1 DEF PartyInv, HistoryFits, KeptAsAccepted, MusterIsCurrent, Members
<1>5. ASSUME NEW i \in Items, TakeReward(i)
      PROVE  PartyInv'
  <2>1. /\ UNCHANGED <<roster, progress, kits, history, mustered>>
        /\ phase = "reward" /\ phase' # "combat"
        /\ collection' = [collection EXCEPT ![i] = @ + 1]
    BY <1>5 DEF TakeReward, ChooseReward, GrantReward, MoveOn
  <2>2. \A k \in Items : collection'[k] >= collection[k]
    BY <1>0, <2>1 DEF AdventureTypeOK
  <2>3. ASSUME NEW m \in Members
        PROVE  progress'[m].level >= progress[m].level
               /\ progress'[m].advanced = progress[m].advanced
    BY <1>0, <2>1 DEF AdventureTypeOK, Members, Progression
  <2>4. /\ KeptAsAccepted' /\ kits' \in [DOMAIN roster' -> Kits]
        /\ DOMAIN history' = DOMAIN roster' /\ HistoryFits'
    BY <1>0, <2>1, <2>2, <2>3, GrowthKeepsAcceptance
  <2> QED BY <2>1, <2>4 DEF PartyInv, MusterIsCurrent
<1>6. ASSUME NEW m \in Slots, NEW kit \in Kits, ChangeKit(m, kit)
      PROVE  PartyInv'
  <2>1. /\ UNCHANGED <<roster, progress, collection, history, mustered, phase>>
        /\ phase = "between-encounters"
        /\ kits' = [kits EXCEPT ![m] = kit]
        /\ PartyIsAccepted(roster, history, progress, kits', collection)
    BY <1>6 DEF ChangeKit, SetLoadout
  <2>2. kits' \in [DOMAIN roster' -> Kits]
    BY <2>1 DEF PartyInv
  <2> QED BY <2>1, <2>2 DEF PartyInv, HistoryFits, KeptAsAccepted, MusterIsCurrent, Members
<1>7. ASSUME NEW m \in Slots, NEW l \in AdvancementLevels, NEW choice \in Choices(l),
             Advance(m, l, choice)
      PROVE  PartyInv'
  <2>1. /\ UNCHANGED <<roster, collection, kits, mustered, phase>>
        /\ phase = "between-encounters"
        /\ m \in Members
        /\ progress' = [progress EXCEPT ![m].advanced = @ \union {l}]
        /\ history' = [history EXCEPT ![m] = With(history[m], l, choice)]
        /\ Resolves(roster[m], With(history[m], l, choice))
    BY <1>7 DEF Advance, AdvanceCharacter
  <2>2. ASSUME NEW k \in Members
        PROVE  /\ Resolves(roster'[k], history'[k])
               /\ DOMAIN history'[k] = progress'[k].advanced
               /\ progress'[k].level = progress[k].level
               /\ \A j \in DOMAIN history'[k] : history'[k][j] \in Choices(j)
    <3>1. progress[k] \in Progression /\ k \in DOMAIN progress /\ k \in DOMAIN history
      BY <1>0 DEF AdventureTypeOK, Members, PartyInv
    <3>2. CASE k = m
      <4>1. progress'[k].advanced = progress[k].advanced \union {l}
            /\ progress'[k].level = progress[k].level
        BY <2>1, <3>1, <3>2 DEF Progression
      <4>2. history'[k] = With(history[k], l, choice)
        BY <2>1, <3>1, <3>2
      <4>3. DOMAIN history[k] = progress[k].advanced
        BY <2>1 DEF PartyInv, KeptAsAccepted
      <4>4. DOMAIN With(history[k], l, choice) = DOMAIN history[k] \union {l}
        BY WithValue
      <4>5. Resolves(roster'[k], history'[k])
        BY <2>1, <3>2, <4>2
      <4>6. ASSUME NEW j \in DOMAIN history'[k] PROVE history'[k][j] \in Choices(j)
        <5>1. \A i \in DOMAIN history[k] : history[k][i] \in Choices(i)
          BY DEF PartyInv, HistoryFits, Members
        <5>2. CASE j = l
          BY <4>2, <5>2 DEF With
        <5>3. CASE j # l
          BY <4>2, <4>4, <4>6, <5>1, <5>3 DEF With
        <5> QED BY <5>2, <5>3
      <4> QED BY <4>1, <4>2, <4>3, <4>4, <4>5, <4>6
    <3>3. CASE k # m
      <4>1. progress'[k] = progress[k] /\ history'[k] = history[k]
        BY <2>1, <3>1, <3>3
      <4> QED BY <2>1, <4>1 DEF PartyInv, HistoryFits, KeptAsAccepted, PartyIsAccepted, Members
    <3> QED BY <3>2, <3>3
  <2>3. PartyIsLegal(roster, progress, kits, collection)
    BY <2>1 DEF PartyInv, KeptAsAccepted, PartyIsAccepted
  <2>4. PartyIsLegal(roster', progress', kits', collection')
    BY <2>1, <2>2, <2>3 DEF PartyIsLegal, PartyInv, Members
  <2>5. DOMAIN history' = DOMAIN roster'
    BY <2>1 DEF PartyInv
  <2> QED BY <2>1, <2>2, <2>4, <2>5
          DEF PartyInv, HistoryFits, KeptAsAccepted, PartyIsAccepted, MusterIsCurrent, Members
<1>8. CASE UNCHANGED partyVars
  BY <1>8 DEF partyVars, adventureVars, PartyInv, HistoryFits, KeptAsAccepted, MusterIsCurrent, Members
<1> QED BY <1>1, <1>2, <1>3, <1>4, <1>5, <1>6, <1>7, <1>8 DEF PartyNext

-----------------------------------------------------------------------------
(* Growth *)

\* The earliest advancement that is due can be chosen: the history of its
\* member lies below it, so it stays legal and some skill is still fresh.
LEMMA GrowthStaysOpen ==
  ASSUME EnoughSkills, AdventureUnderneath, PartyInv
  PROVE  GrowthIsOpen
<1> SUFFICES ASSUME NEW m \in Members, NEW l \in PendingAdvancements(progress[m]),
                    \A other \in PendingAdvancements(progress[m]) : l <= other
             PROVE  \E choice \in Choices(l) : Resolves(roster[m], With(history[m], l, choice))
  BY DEF GrowthIsOpen
<1> DEFINE a == roster[m]
           trained == Trained[a]
           chosen == history[m]
<1>1. /\ a \in Actors
      /\ progress[m] \in Progression
      /\ l \in AdvancementLevels /\ l <= progress[m].level /\ l \notin progress[m].advanced
  BY DEF AdventureUnderneath, AdventureTypeOK, Members, PendingAdvancements
<1>2. AdvancementLevels \subseteq Nat
  BY CharacterAssumption
<1>3. roster # <<>> /\ phase # "none"
  BY DEF AdventureUnderneath, AdventureTypeOK, EncounterOrder, Members
<1>4. DOMAIN chosen = progress[m].advanced /\ Resolves(a, chosen)
  BY <1>3 DEF PartyInv, KeptAsAccepted, PartyIsAccepted, Members
<1>5. \A k \in DOMAIN chosen : k \in AdvancementLevels /\ k <= l
  <2>1. SUFFICES ASSUME NEW k \in progress[m].advanced
                 PROVE  k \in AdvancementLevels /\ k <= l
    BY <1>4
  <2>2. k \in AdvancementLevels
    BY <1>1 DEF Progression
  <2>3. ~ (l < k)
    BY <1>1 DEF AdventureUnderneath, AdvancementPrefix, Members
  <2> QED BY <1>1, <1>2, <2>2, <2>3
<1>6. DOMAIN chosen \subseteq Nat /\ l \in Nat /\ l \notin DOMAIN chosen
  BY <1>1, <1>2, <1>4, <1>5
<1>7. PICK skill \in Skills : \A k \in DOMAIN chosen \cap SkillIncreaseLevels : chosen[k].skill # skill
  BY SomeSkillIsFresh
<1>fresh. \A k \in DOMAIN chosen : chosen[k].skill # skill
  <2>1. SUFFICES ASSUME NEW k \in DOMAIN chosen, k \notin SkillIncreaseLevels
                 PROVE  chosen[k].skill # skill
    BY <1>7
  <2>2. chosen[k] \in Choices(k)
    BY DEF PartyInv, HistoryFits, Members
  <2>3. chosen[k].skill = NoSkill
    BY <2>1, <2>2 DEF Choices
  <2> QED BY <2>3, PartyAssumption
<1>8. PICK choice \in Choices(l) : l \in SkillIncreaseLevels => choice.skill = skill
  <2>1. PICK boosts \in (IF l \in AttributeBoostLevels THEN BoostChoices ELSE {{}}) : TRUE
    BY PartyAssumption
  <2>2. [skill |-> IF l \in SkillIncreaseLevels THEN skill ELSE NoSkill, boosts |-> boosts]
          \in Choices(l)
    BY <2>1 DEF Choices
  <2> QED BY <2>2
<1> DEFINE grown == With(chosen, l, choice)
<1> HIDE DEF a, trained, chosen
<1>9. ASSUME NEW k \in DOMAIN grown \cap SkillIncreaseLevels
      PROVE  NextSkillRank(SkillRank(trained, grown, grown[k].skill, k), k) # NoSkill
  <2>1. DOMAIN grown = DOMAIN chosen \union {l} /\ grown[l] = choice
    BY DEF With
  <2>2. k \in Nat /\ k <= l
    BY <1>5, <1>6, <2>1
  <2>3. SkillRank(trained, grown, grown[k].skill, k) = SkillRank(trained, chosen, grown[k].skill, k)
    BY <1>6, <2>2, LaterChoiceKeepsRank
  <2>4. CASE k # l
    <3>1. k \in DOMAIN chosen \cap SkillIncreaseLevels /\ grown[k] = chosen[k]
      BY <1>9, <2>4 DEF With
    <3>2. NextSkillRank(SkillRank(trained, chosen, chosen[k].skill, k), k) # NoSkill
      BY <1>4, <3>1 DEF Resolves, BuildResolves, trained
    <3> QED BY <2>3, <3>1, <3>2
  <2>5. CASE k = l
    <3>1. grown[k].skill = skill
      BY <1>8, <1>9, <2>1, <2>5
    <3>2. NextSkillRank(SkillRank(trained, chosen, skill, k), k) # NoSkill
      BY <1>1, <1>fresh, <2>2, FreshSkillRises
    <3> QED BY <2>3, <3>1, <3>2
  <2> QED BY <2>4, <2>5
<1>10. Resolves(a, grown)
  BY <1>4, <1>9 DEF Resolves, BuildResolves, trained
<1> QED BY <1>10 DEF a, trained, chosen

-----------------------------------------------------------------------------
(* The theorem *)

\* No legal sequence of commands wedges a campaign, for every content: what was
\* accepted of a party stays acceptable when it grows and collects, every
\* advancement due can be made, and a combat is fought at the levels it was
\* built with (character/rules.ts, loadout/loadout.ts, session/card-invariants.ts).
THEOREM PartiesStayPlayable == EnoughSkills => (PartySpec => []PartyStaysPlayable)
<1> SUFFICES ASSUME EnoughSkills PROVE PartySpec => []PartyStaysPlayable
  OBVIOUS
<1>1. PartySpec => []AdventureUnderneath
  <2>1. AdventureTypeOK /\ EncounterOrder /\ AdvancementPrefix => AdventureUnderneath
    BY DEF AdventureUnderneath
  <2> QED BY <2>1, PartyPlaysTheAdventure, AdventureTypes, EncountersInOrder,
             AdvancementsInOrder, PTL
<1>2. PartyInit => PartyInv
  BY PartyInvInit
<1>3. AdventureUnderneath /\ AdventureUnderneath' /\ PartyInv /\ [PartyNext]_partyVars => PartyInv'
  BY PartyInvStep
<1>4. AdventureUnderneath /\ PartyInv => PartyStaysPlayable
  BY GrowthStaysOpen DEF PartyStaysPlayable, PartyInv
<1> QED BY <1>1, <1>2, <1>3, <1>4, PTL DEF PartySpec

-----------------------------------------------------------------------------
(* Content packs *)

\* An accepted pack of the right form.
Valid == source \in Sources /\ Accepted

-----------------------------------------------------------------------------
(* Definitions by identifier *)

LEMMA OfIsOne ==
  ASSUME NEW defs, NEW id \in Ids(defs)
  PROVE  Of(defs, id) \in Entries(defs) /\ Of(defs, id).id = id
BY DEF Of, Ids, Entries

LEMMA OfIsTheOne ==
  ASSUME NEW defs, Unique(defs), NEW d \in Entries(defs)
  PROVE  d.id \in Ids(defs) /\ Of(defs, d.id) = d
BY OfIsOne DEF Unique, Ids, Entries

LEMMA UniqueByCategory ==
  ASSUME Valid
  PROVE  /\ Unique(source.traits) /\ Unique(source.actions) /\ Unique(source.cards)
         /\ Unique(source.equipment) /\ Unique(source.actors) /\ Unique(source.scenarios)
         /\ Unique(source.classes) /\ Unique(source.ancestries)
<1>1. DOMAIN source = Categories
  BY SourcesAssumption DEF Valid, PackShape
<1> QED BY <1>1 DEF Valid, Accepted, Categories

LEMMA AdventureSizes ==
  ASSUME Valid, NEW v \in Entries(source.adventures)
  PROVE  /\ AdventureFits(v)
         /\ v.min \in PartySizes /\ v.max \in PartySizes
         /\ v.min..v.max \subseteq PartySizes
<1>1. v.min \in PartySizes /\ v.max \in PartySizes
  BY SourcesAssumption DEF Valid, Entries, PackShape, AdventureShape
<1> QED BY <1>1 DEF Valid, Accepted, PartySizes

-----------------------------------------------------------------------------
(* Parties *)

\* Every card in the deck of a valid actor is defined.
LEMMA DeckIsKnown ==
  ASSUME Valid, NEW a \in Entries(source.actors), NEW c \in L!Deck(a.id, a.starter)
  PROVE  c \in Ids(source.cards)
<1>1. ActorFits(a) /\ a.id \in Ids(source.actors) /\ Of(source.actors, a.id) = a
  BY UniqueByCategory, OfIsTheOne DEF Valid, Accepted
<1>2. CASE c \in a.grants \union Prepared(a.starter)
  BY <1>1, <1>2 DEF ActorFits
<1>3. ASSUME NEW e \in Worn(a.starter), c \in GrantedBy(Of(source.equipment, e))
      PROVE  c \in Ids(source.cards)
  <2>1. PICK t \in Entries(source.traits) : c \in t.cards
    BY <1>3 DEF GrantedBy
  <2>2. TraitFits(t)
    BY DEF Valid, Accepted
  <2> QED BY <2>1, <2>2 DEF TraitFits
<1>4. Worn(a.starter) \subseteq Ids(source.equipment)
  BY <1>1 DEF ActorFits
<1> QED BY <1>1, <1>2, <1>3, <1>4 DEF L!Deck, L!Prepared, L!Worn, Prepared, Worn

\* A character has hit points and a square of speed.
LEMMA CharactersLive ==
  ASSUME Valid, NEW a \in Entries(source.actors), BuildFits(a)
  PROVE  LeastHitPoints(a) > 0 /\ Ancestry(a).speedFeet >= 5
<1> DEFINE class == CharacterClass(a)
           ancestry == Ancestry(a)
<1>1. class \in Entries(source.classes) /\ ancestry \in Entries(source.ancestries)
  <2>1. PICK k \in Ids(source.classes) : Identity(a, "class") = {k}
    BY DEF BuildFits
  <2>2. PICK h \in Ids(source.ancestries) : Identity(a, "ancestry") = {h}
    BY DEF BuildFits
  <2>3. (CHOOSE t \in Identity(a, "class") : TRUE) = k
    BY <2>1
  <2>4. (CHOOSE t \in Identity(a, "ancestry") : TRUE) = h
    BY <2>2
  <2> QED BY <2>3, <2>4, OfIsOne DEF CharacterClass, Ancestry
<1>2. ClassFits(class) /\ AncestryFits(ancestry)
  BY <1>1 DEF Valid, Accepted
<1>3. class.hpPerLevel \in Int /\ ancestry.hitPoints \in Int /\ ancestry.speedFeet \in Int
  BY <1>1, SourcesAssumption DEF Valid, PackShape, ClassShape, AncestryShape, Entries
<1>4. a.level \in Int
  BY SourcesAssumption DEF Valid, PackShape, ActorShape, Entries
<1>5. a.level > 0
  BY DEF BuildFits
<1> HIDE DEF class, ancestry
<1>6. ancestry.speedFeet > 0 /\ ancestry.speedFeet % 5 = 0 => ancestry.speedFeet >= 5
  BY <1>3
<1>7. \A m, n \in Int : m > 0 /\ n > 0 => m * n > 0
  OBVIOUS
<1>8. a.level * class.hpPerLevel \in Int /\ a.level * class.hpPerLevel > 0
  BY <1>2, <1>3, <1>4, <1>5, <1>7 DEF ClassFits
<1> QED BY <1>2, <1>3, <1>6, <1>8 DEF LeastHitPoints, class, ancestry, ClassFits, AncestryFits

\* A party of playable characters begins.
LEMMA PartiesBegin ==
  ASSUME Valid, NEW v \in Entries(source.adventures), NEW p \in Rosters(v)
  PROVE  PartyBegins(p)
<1> SUFFICES ASSUME NEW k \in DOMAIN p PROVE MemberBegins(Of(source.actors, p[k]))
  BY DEF PartyBegins
<1> DEFINE a == Of(source.actors, p[k])
<1>1. p[k] \in Ids(source.actors) /\ "playable" \in a.traits
  BY DEF Rosters
<1>2. a \in Entries(source.actors) /\ a.id = p[k] /\ Of(source.actors, a.id) = a
  BY <1>1, OfIsOne
<1> HIDE DEF a
<1>3. ActorFits(a)
  BY <1>2 DEF Valid, Accepted
<1>4. /\ a.kind = "character" /\ BuildResolves(a.trained, a.intelligence, a.chosen)
      /\ LeastHitPoints(a) > 0 /\ Ancestry(a).speedFeet >= 5
  BY <1>1, <1>2, <1>3, CharactersLive DEF ActorFits, BuildFits
<1>5. L!KitIsLegal(a.id, a.level, a.starter)
  <2>1. a.id \in Ids(source.actors)
    BY <1>1, <1>2
  <2>2. \A s \in KitSlots : a.starter.worn[s] # Nothing =>
          a.starter.worn[s] \in Ids(source.equipment)
          /\ Of(source.equipment, a.starter.worn[s]).slot = s
    BY <1>3 DEF ActorFits, Worn
  <2>3. Len(a.starter.prepared) <= a.capacity
    BY <1>3 DEF ActorFits
  <2>4. \A c \in L!Deck(a.id, a.starter) : L!Eligible(a.id, a.level, c)
    BY <1>2, <1>3, <1>4, DeckIsKnown DEF ActorFits
  <2> QED BY <1>2, <2>1, <2>2, <2>3, <2>4 DEF L!KitIsLegal
<1> QED BY <1>4, <1>5 DEF MemberBegins, a

-----------------------------------------------------------------------------
(* Encounters *)

\* A seat of an encounter has one place.
LEMMA SpawnIsOne ==
  ASSUME NEW s, ScenarioFits(s), NEW k, \E p \in Entries(s.spawns) : p.seat = k
  PROVE  \E j \in DOMAIN s.spawns :
           SpawnOf(s, k) = s.spawns[j] /\ s.spawns[j].seat = k /\ FreeTile(s, s.spawns[j].at)
<1>1. SpawnOf(s, k) \in Entries(s.spawns) /\ SpawnOf(s, k).seat = k
  BY DEF SpawnOf
<1> QED BY <1>1 DEF Entries, ScenarioFits

LEMMA EncountersStart ==
  ASSUME Valid, NEW v \in Entries(source.adventures), NEW e \in Entries(v.encounters),
         NEW n \in v.min..v.max
  PROVE  EncounterStarts(Of(source.scenarios, e), n)
<1> DEFINE s == Of(source.scenarios, e)
           Heroes == {[who |-> "hero", number |-> k, at |-> SpawnOf(s, k).at] : k \in 1..n}
           Statics == {[who |-> "static", number |-> k, at |-> s.placements[k].at] :
                         k \in {j \in DOMAIN s.placements : AppliesTo(s.placements[j], n)}}
<1>1. s \in Entries(source.scenarios) /\ s.id = e /\ ScenarioFits(s)
  <2>1. e \in Ids(source.scenarios)
    BY AdventureSizes DEF AdventureFits
  <2> QED BY <2>1, OfIsOne DEF Valid, Accepted
<1>2. n \in PartySizes /\ v.max \in PartySizes /\ n <= v.max
  BY AdventureSizes DEF PartySizes
<1>3. \A k \in 1..n : \E p \in Entries(s.spawns) : p.seat = k
  <2>1. \A k \in 1..v.max : \E p \in Entries(s.spawns) : p.seat = k
    BY <1>1, AdventureSizes DEF AdventureFits
  <2>2. \A k \in 1..n : k \in 1..v.max
    BY <1>2 DEF PartySizes
  <2> QED BY <2>1, <2>2
<1> HIDE DEF s
<1>4. ASSUME NEW k \in 1..n
      PROVE  \E j \in DOMAIN s.spawns :
               /\ SpawnOf(s, k) = s.spawns[j]
               /\ s.spawns[j].seat = k /\ s.spawns[j].seat <= n
               /\ FreeTile(s, s.spawns[j].at)
  <2>1. k <= n
    BY <1>2 DEF PartySizes
  <2> QED BY <1>1, <1>3, <2>1, SpawnIsOne
<1>5. ApartFor(s, n) /\ EnemyFor(s, n)
  BY <1>1, <1>2 DEF ScenarioFits
<1>6. Board(s, n) = Heroes \union Statics
  BY DEF Board
<1>7. ASSUME NEW f \in Heroes, NEW g \in Heroes, f.at = g.at PROVE f = g
  <2>1. PICK j \in 1..n : f = [who |-> "hero", number |-> j, at |-> SpawnOf(s, j).at]
    OBVIOUS
  <2>2. PICK k \in 1..n : g = [who |-> "hero", number |-> k, at |-> SpawnOf(s, k).at]
    OBVIOUS
  <2>3. SpawnOf(s, j).at = SpawnOf(s, k).at
    BY <1>7, <2>1, <2>2
  <2>4. PICK i \in DOMAIN s.spawns : SpawnOf(s, j) = s.spawns[i] /\ s.spawns[i].seat = j
    BY <1>4
  <2>5. PICK h \in DOMAIN s.spawns : SpawnOf(s, k) = s.spawns[h] /\ s.spawns[h].seat = k
    BY <1>4
  <2>6. i = h
    BY <1>1, <2>3, <2>4, <2>5 DEF ScenarioFits
  <2> QED BY <2>1, <2>2, <2>4, <2>5, <2>6
<1>8. ASSUME NEW f \in Statics, NEW g \in Statics, f.at = g.at PROVE f = g
  BY <1>5, <1>8 DEF ApartFor
<1>9. ASSUME NEW f \in Heroes, NEW g \in Statics PROVE f.at # g.at
  <2>1. PICK k \in 1..n : f.at = SpawnOf(s, k).at
    OBVIOUS
  <2>2. PICK j \in DOMAIN s.spawns : SpawnOf(s, k) = s.spawns[j] /\ s.spawns[j].seat <= n
    BY <1>4
  <2>3. PICK i \in DOMAIN s.placements :
          g.at = s.placements[i].at /\ AppliesTo(s.placements[i], n)
    OBVIOUS
  <2> QED BY <1>5, <2>1, <2>2, <2>3 DEF ApartFor
<1>10. \A f, g \in Board(s, n) : f.at = g.at => f = g
  <2> HIDE DEF Heroes, Statics
  <2> QED BY <1>6, <1>7, <1>8, <1>9
<1>11. ASSUME NEW f \in Board(s, n) PROVE FreeTile(s, f.at)
  <2>1. CASE f \in Heroes
    <3>1. PICK k \in 1..n : f.at = SpawnOf(s, k).at
      BY <2>1
    <3> QED BY <3>1, <1>4
  <2>2. CASE f \in Statics
    <3>1. PICK k \in DOMAIN s.placements : f.at = s.placements[k].at
      BY <2>2
    <3>2. s.placements[k] \in Entries(s.placements)
      BY DEF Entries
    <3> QED BY <1>1, <3>1, <3>2 DEF ScenarioFits
  <2> QED BY <1>6, <2>1, <2>2
<1>12. \A p \in Entries(s.placements) : p.actor \in Ids(source.actors)
  BY <1>1 DEF ScenarioFits
<1>13. \E p \in Entries(s.placements) : AppliesTo(p, n) /\ p.team = "enemies"
  <2>1. 1 \in 1..n
    BY <1>2 DEF PartySizes
  <2> QED BY <1>4, <1>5, <2>1 DEF EnemyFor
<1>14. EncounterStarts(s, n)
  BY <1>3, <1>10, <1>11, <1>12, <1>13 DEF EncounterStarts
<1> QED BY <1>14 DEF s

\* An encounter is paid once, and rewarded at most once.
LEMMA AwardsSettle ==
  ASSUME Valid, NEW v \in Entries(source.adventures)
  PROVE  AwardsAreSettled(v)
<1>1. ASSUME NEW list \in {v.awards, v.rewards}, NEW x \in Entries(list), NEW y \in Entries(list),
             x.after = y.after
      PROVE  x = y
  BY <1>1, AdventureSizes DEF AdventureFits, Entries
<1>2. \A e \in Entries(v.encounters) : \E w \in Entries(v.awards) : w.after = e
  BY AdventureSizes DEF AdventureFits
<1> QED BY <1>1, <1>2 DEF AwardsAreSettled

-----------------------------------------------------------------------------
(* Cards *)

LEMMA CardsInPlayAreKnown ==
  ASSUME Valid, NEW c \in CardsInPlay
  PROVE  c \in Ids(source.cards)
<1>1. ASSUME NEW v \in Entries(source.adventures), NEW r \in Entries(v.rewards)
      PROVE  r.cards \subseteq Ids(source.cards)
  BY AdventureSizes DEF AdventureFits
<1>2. ASSUME NEW e, c \in GrantedBy(e) PROVE c \in Ids(source.cards)
  <2>1. PICK t \in Entries(source.traits) : c \in t.cards
    BY <1>2 DEF GrantedBy
  <2>2. TraitFits(t)
    BY DEF Valid, Accepted
  <2> QED BY <2>1, <2>2 DEF TraitFits
<1>3. ASSUME NEW a \in Entries(source.actors), c \in L!Deck(a.id, a.starter)
      PROVE  c \in Ids(source.cards)
  BY <1>3, DeckIsKnown
<1> QED BY <1>1, <1>2, <1>3 DEF CardsInPlay

LEMMA CardsPlay ==
  ASSUME Valid, NEW c \in CardsInPlay
  PROVE  CardPlays(c)
<1> DEFINE card == Of(source.cards, c)
           a == Of(source.actions, card.action)
<1>1. c \in Ids(source.cards)
  BY CardsInPlayAreKnown
<1>2. card \in Entries(source.cards)
  BY <1>1, OfIsOne
<1>3. card.action \in Ids(source.actions)
  BY <1>2 DEF Valid, Accepted, CardFits
<1>4. a \in Entries(source.actions)
  BY <1>3, OfIsOne
<1>5. ActionFits(a)
  BY <1>4 DEF Valid, Accepted
<1> HIDE DEF a
<1>6. a.kind \in {"check", "strike"} => Degrees \subseteq DOMAIN a.outcomes
  BY <1>5 DEF ActionFits
<1>7. \A x \in EffectsOf(a) : EffectFits(a, x)
  BY <1>5 DEF ActionFits
<1>8. \A x \in EffectsOf(a) :
        /\ x.kind = "apply-condition" => x.condition \in Ids(source.conditions)
        /\ x.kind = "damage" /\ x.owner = "target" => a.targeting \in ActorTargeting
        /\ x.kind = "lock-action" => x.action \in Ids(source.actions)
  BY <1>7 DEF EffectFits
<1> QED BY <1>1, <1>4, <1>6, <1>8 DEF CardPlays, a

-----------------------------------------------------------------------------
(* Classes *)

\* A set of levels has a highest one.
LEMMA HighestLevel ==
  ASSUME NEW S, S \subseteq 0..20, S # {}
  PROVE  \E x \in S : \A y \in S : y <= x
<1> DEFINE R == OpToRel(<, Nat)
           T == {20 - x : x \in S}
<1>1. IsWellFoundedOn(R, Nat)
  BY NatLessThanWellFounded
<1>2. T \subseteq Nat /\ T # {}
  <2>1. ASSUME NEW x \in S PROVE 20 - x \in Nat
    <3>1. x \in 0..20
      OBVIOUS
    <3> QED BY <3>1
  <2>2. PICK x : x \in S
    OBVIOUS
  <2>3. 20 - x \in T
    BY <2>2
  <2> QED BY <2>1, <2>3
<1>3. PICK t \in T : \A u \in T : ~(<<u, t>> \in R)
  <2> HIDE DEF R, T
  <2> QED BY <1>1, <1>2, WFMin
<1>4. PICK x \in S : t = 20 - x
  OBVIOUS
<1>5. ASSUME NEW y \in S PROVE y <= x
  <2>1. ~(20 - y < t)
    BY <1>2, <1>3 DEF OpToRel
  <2> QED BY <1>4, <2>1
<1> QED BY <1>5

\* The next level either brings a milestone, above the rank before it, or changes nothing.
LEMMA ClassesGrow ==
  ASSUME Valid, NEW c \in Entries(source.classes)
  PROVE  ClassGrows(c)
<1> SUFFICES ASSUME NEW l \in 1..19, NEW p \in Proficiencies
             PROVE  ClassRank(c, l, p) <= ClassRank(c, l + 1, p)
  BY DEF ClassGrows
<1> DEFINE Milestones == {c.milestones[k] : k \in DOMAIN c.milestones}
           Reached(n) == {m \in Milestones : m.level <= n /\ p \in DOMAIN m.ranks}
           Latest(n) == CHOOSE m \in Reached(n) : \A o \in Reached(n) : o.level <= m.level
<1>1. ClassFits(c)
  BY DEF Valid, Accepted
<1>2. /\ \A m \in Milestones :
            /\ m.level \in 2..20 /\ DOMAIN m.ranks \subseteq Proficiencies
            /\ \A q \in DOMAIN m.ranks :
                 m.ranks[q] \in Ranks /\ m.ranks[q] > ClassRank(c, m.level - 1, q)
      /\ \A m, o \in Milestones : m.level = o.level => m = o
      /\ c.starting[p] \in Ranks
  BY <1>1 DEF ClassFits, Entries
<1>3. \A n : ClassRank(c, n, p) =
              IF Reached(n) = {} THEN c.starting[p] ELSE Latest(n).ranks[p]
  BY DEF ClassRank
<1> HIDE DEF Milestones
<1>4. ASSUME NEW n \in Int PROVE ClassRank(c, n, p) \in Int
  <2>1. CASE Reached(n) = {}
    BY <1>2, <1>3, <2>1 DEF Ranks
  <2>2. CASE Reached(n) # {}
    <3>1. PICK x \in {m.level : m \in Reached(n)} : \A y \in {m.level : m \in Reached(n)} : y <= x
      <4>1. {m.level : m \in Reached(n)} \subseteq 0..20 /\ {m.level : m \in Reached(n)} # {}
        BY <1>2, <2>2
      <4> QED BY <4>1, HighestLevel
    <3>2. Latest(n) \in Reached(n)
      BY <3>1
    <3> QED BY <1>2, <1>3, <2>2, <3>2 DEF Ranks
  <2> QED BY <2>1, <2>2
<1>5. CASE \E m \in Milestones : m.level = l + 1 /\ p \in DOMAIN m.ranks
  <2>1. PICK m \in Milestones : m.level = l + 1 /\ p \in DOMAIN m.ranks
    BY <1>5
  <2>2. m \in Reached(l + 1) /\ \A o \in Reached(l + 1) : o.level <= m.level
    BY <2>1
  <2>3. Latest(l + 1) \in Reached(l + 1) /\ m.level <= Latest(l + 1).level
    BY <2>2
  <2>4. Latest(l + 1).level = m.level
    BY <1>2, <2>1, <2>3
  <2>5. Latest(l + 1) = m
    BY <1>2, <2>1, <2>3, <2>4
  <2>6. ClassRank(c, l + 1, p) = m.ranks[p]
    BY <1>3, <2>2, <2>5
  <2>7. m.ranks[p] > ClassRank(c, l, p)
    BY <1>2, <2>1
  <2> QED BY <1>4, <2>6, <2>7
<1>6. CASE ~ \E m \in Milestones : m.level = l + 1 /\ p \in DOMAIN m.ranks
  <2>1. Reached(l) = Reached(l + 1)
    BY <1>2, <1>6
  <2>2. ClassRank(c, l, p) = ClassRank(c, l + 1, p)
    BY <1>3, <2>1
  <2> QED BY <1>4, <2>2
<1> QED BY <1>5, <1>6

-----------------------------------------------------------------------------
(* A pack that compiles can be played (validateContentPackSemantics guards     *)
(* compileContentPack, whose result the runtime never checks again).       *)
THEOREM CompiledPacksPlay == ContentSpec => []CompiledContentPlays
<1> DEFINE Inv == source \in Sources /\ (status = "compiled" => Accepted)
<1>1. ContentInit => Inv
  BY DEF ContentInit
<1>2. Inv /\ [ContentNext]_contentVars => Inv'
  <2>1. ASSUME source' = source PROVE Accepted' = Accepted
    BY <2>1 DEF Accepted, TraitFits, RegistryFits, ClassFits, AncestryFits, ConditionFits, ActionFits, CardFits,
       EquipmentFits, ActorFits, ScenarioFits, AdventureFits, ModifiersFit, TraitsKnown, Identity,
       EffectFits, ValueFits, BuildFits, MapFits, GrantedBy, L!Deck, L!Eligible, L!RequiredLevel,
       L!Prepared, L!Worn
  <2> QED BY <2>1 DEF ContentNext, Compile, contentVars
<1>3. Inv => CompiledContentPlays
  <2>1. SUFFICES ASSUME Valid PROVE CompiledContentPlays
    BY DEF Valid, CompiledContentPlays
  <2>2. \A s \in Entries(source.scenarios) :
          \A o \in Entries(s.objects) : o.opens \in Ids(s.tiles)
    BY <2>1 DEF Valid, Accepted, ScenarioFits, MapFits
  <2> QED BY <2>1, <2>2, PartiesBegin, EncountersStart, AwardsSettle, CardsPlay, ClassesGrow
          DEF CompiledContentPlays
<1> QED BY <1>1, <1>2, <1>3, PTL DEF ContentSpec
=============================================================================
