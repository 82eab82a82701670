--------------------------- MODULE AdventureProofs ---------------------------
(***************************************************************************)
(* Proofs about the adventure, for every list of encounters, every award,  *)
(* every reward and every party.                                           *)
(*                                                                         *)
(* The type invariant and the order of the encounters are proved together: *)
(* that the next encounter is one of the list is only so because the       *)
(* completed ones are a prefix of it.                                      *)
(***************************************************************************)
EXTENDS Adventure, TLAPS, FiniteSetTheorems

ProgressInv == AdventureTypeOK /\ EncounterOrder

-----------------------------------------------------------------------------
(* Lemmas about the helpers *)

\* With a prefix of the list completed, the next encounter is the one behind
\* that prefix (nextEncounterId).
LEMMA NextEncounterValue ==
  ASSUME NEW done \in Seq(Encounters), \A k \in DOMAIN done : done[k] = k
  PROVE  /\ Len(done) <= NumEncounters
         /\ NextEncounter(done) =
              IF Len(done) = NumEncounters THEN 0 ELSE Len(done) + 1
<1> USE DEF Encounters
<1>0. NumEncounters \in Nat /\ Len(done) \in Nat
  BY CampaignAssumption
<1> DEFINE open == {e \in Encounters : \A k \in DOMAIN done : done[k] # e}
<1>1. Len(done) <= NumEncounters
  <2>1. CASE Len(done) = 0
    BY <2>1, <1>0
  <2>2. CASE Len(done) # 0
    <3>1. Len(done) \in DOMAIN done
      BY <2>2, <1>0
    <3>2. done[Len(done)] = Len(done)
      BY <3>1
    <3>3. done[Len(done)] \in Encounters
      <4> HIDE DEF Encounters
      <4> QED BY <2>2, <1>0
    <3> QED BY <3>2, <3>3, <1>0
  <2> QED BY <2>1, <2>2
<1>2. ASSUME NEW e \in Encounters
      PROVE  e \in open <=> e \in Nat /\ Len(done) + 1 <= e
  <2>1. e \in Nat /\ e >= 1
    BY <1>0
  <2>2. CASE e <= Len(done)
    <3>1. e \in DOMAIN done /\ done[e] = e
      BY <2>1, <2>2, <1>0
    <3>2. e \notin open
      BY <3>1
    <3> QED BY <3>2, <2>1, <2>2, <1>0
  <2>3. CASE ~(e <= Len(done))
    <3>1. \A k \in DOMAIN done : done[k] # e
      BY <2>1, <2>3, <1>0
    <3>2. e \in open
      BY <3>1
    <3> QED BY <3>2, <2>1, <2>3, <1>0
  <2> QED BY <2>2, <2>3
<1>3. CASE Len(done) = NumEncounters
  <2>1. ASSUME NEW e \in Encounters PROVE e \notin open
    <3> HIDE DEF open
    <3> QED BY <1>0, <1>2, <1>3
  <2>2. open = {}
    BY <2>1
  <2> QED BY <2>2, <1>1, <1>3 DEF NextEncounter
<1>4. CASE Len(done) # NumEncounters
  <2> DEFINE first == CHOOSE e \in open : \A f \in open : e <= f
  <2>1. open \subseteq Encounters
    OBVIOUS
  <2> HIDE DEF open
  <2>2. Len(done) + 1 \in Encounters
    BY <1>0, <1>1, <1>4
  <2>3. Len(done) + 1 \in open
    BY <2>2, <1>0, <1>2
  <2>4. \A e \in open : e \in Nat /\ Len(done) + 1 <= e
    BY <1>2, <2>1
  <2>5. first \in open /\ \A f \in open : first <= f
    BY <2>3, <2>4
  <2>6. first = Len(done) + 1
    <3> HIDE DEF first
    <3> QED BY <1>0, <2>3, <2>4, <2>5
  <2>7. open # {}
    BY <2>3
  <2>8. NextEncounter(done) = first
    BY <2>7 DEF NextEncounter, open
  <2> HIDE DEF first
  <2> QED BY <2>6, <2>8, <1>1, <1>4
<1> QED BY <1>3, <1>4

\* Division with remainder by the experience of a level, the arithmetic of
\* applyExperience.
LEMMA DivisionByLevel ==
  ASSUME NEW n \in Nat
  PROVE  /\ n \div ExperiencePerLevel \in Nat
         /\ n % ExperiencePerLevel \in 0..(ExperiencePerLevel - 1)
         /\ n = ExperiencePerLevel * (n \div ExperiencePerLevel) + (n % ExperiencePerLevel)
<1>1. /\ n \div 1000 \in Nat
      /\ n % 1000 \in 0..999
      /\ n = 1000 * (n \div 1000) + (n % 1000)
  OBVIOUS
<1>2. ExperiencePerLevel = 1000 /\ ExperiencePerLevel - 1 = 999
  BY DEF ExperiencePerLevel
<1> QED BY <1>1, <1>2

\* Experience stays below a level and no point of it is lost (applyExperience).
LEMMA ApplyExperienceValue ==
  ASSUME NEW p \in Progression, NEW amount \in Nat
  PROVE  LET q == ApplyExperience(p, amount) IN
         /\ q \in Progression
         /\ q.advanced = p.advanced
         /\ q.level >= p.level
         /\ ExperiencePerLevel * q.level + q.experience
              = ExperiencePerLevel * p.level + p.experience + amount
<1> DEFINE total == p.experience + amount
           up == total \div ExperiencePerLevel
           rest == total % ExperiencePerLevel
           q == ApplyExperience(p, amount)
<1>1. p.level \in Nat /\ p.experience \in Nat /\ total \in Nat
  BY DEF Progression, ExperiencePerLevel
<1>2. up \in Nat /\ rest \in 0..(ExperiencePerLevel - 1)
  BY <1>1, DivisionByLevel
<1>3. total = ExperiencePerLevel * up + rest
  BY <1>1, DivisionByLevel
<1>4. q = [p EXCEPT !.level = p.level + up, !.experience = rest]
  BY DEF ApplyExperience
<1> HIDE DEF up, rest, q
<1>5. /\ q.level = p.level + up
      /\ q.experience = rest
      /\ q.advanced = p.advanced
  BY <1>4 DEF Progression
<1>6. q \in Progression
  <2>1. p.level + up \in Nat
    BY <1>1, <1>2
  <2> QED BY <2>1, <1>2, <1>4 DEF Progression
<1>7. q.level >= p.level
  BY <1>1, <1>2, <1>5
<1>8. ExperiencePerLevel * q.level + q.experience
        = ExperiencePerLevel * p.level + p.experience + amount
  <2>1. rest \in Nat
    BY <1>2 DEF ExperiencePerLevel
  <2> QED BY <1>1, <1>2, <1>3, <1>5, <2>1 DEF ExperiencePerLevel
<1> QED BY <1>5, <1>6, <1>7, <1>8 DEF q

\* The copies a starting party owns are finitely many.
LEMMA StartingCollectionType ==
  ASSUME NEW party \in Parties
  PROVE  StartingCollection(party) \in [Items -> Nat]
<1> SUFFICES ASSUME NEW i \in Items
             PROVE  Cardinality({m \in DOMAIN party : i \in Starter[party[m]]}) \in Nat
  BY DEF StartingCollection
<1>1. PICK n \in 1..PartyMax : party \in [1..n -> Actors]
  BY DEF Parties
<1>2. IsFiniteSet(1..n)
  BY <1>1, FS_Interval, CampaignAssumption
<1>3. IsFiniteSet({m \in DOMAIN party : i \in Starter[party[m]]})
  BY <1>1, <1>2, FS_Subset
<1> QED BY <1>3, FS_CardinalityType

\* A legal party is a sequence of actors no longer than the maximum
\* (setPartyComposition).
LEMMA PartyIsSequence ==
  ASSUME NEW party \in Parties
  PROVE  party \in Seq(Actors) /\ Len(party) \in 1..PartyMax
<1>1. PICK n \in 1..PartyMax : party \in [1..n -> Actors]
  BY DEF Parties
<1> QED BY <1>1, CampaignAssumption

-----------------------------------------------------------------------------
(* Types and order *)

\* A session that has not begun an adventure satisfies the invariant.
LEMMA ProgressInit == AdventureInit => ProgressInv
<1> SUFFICES ASSUME AdventureInit PROVE ProgressInv
  OBVIOUS
<1>1. AdventureTypeOK
  BY CampaignAssumption DEF AdventureInit, AdventureTypeOK, Phases
<1>2. EncounterOrder
  BY DEF AdventureInit, EncounterOrder
<1> QED BY <1>1, <1>2 DEF ProgressInv

\* Moving on from a settled encounter leaves the adventure at the next one of
\* the list or at its end.
LEMMA MoveOnOrder ==
  ASSUME NEW done \in Seq(Encounters), \A k \in DOMAIN done : done[k] = k,
         MoveOn(done)
  PROVE  /\ phase' \in {"between-encounters", "complete"}
         /\ current' \in 0..NumEncounters
         /\ phase' = "between-encounters" => current' = Len(done) + 1
         /\ phase' = "complete" => current' = 0 /\ Len(done) = NumEncounters
         /\ offer' = {}
<1>1. /\ Len(done) <= NumEncounters
      /\ NextEncounter(done) =
           IF Len(done) = NumEncounters THEN 0 ELSE Len(done) + 1
  BY NextEncounterValue
<1>2. NumEncounters \in Nat /\ Len(done) \in Nat
  BY CampaignAssumption
<1>3. CASE Len(done) = NumEncounters
  <2>1. NextEncounter(done) = 0
    BY <1>1, <1>3
  <2> QED BY <2>1, <1>2, <1>3 DEF MoveOn
<1>4. CASE Len(done) # NumEncounters
  <2>1. NextEncounter(done) = Len(done) + 1 /\ Len(done) + 1 \in 1..NumEncounters
    BY <1>1, <1>2, <1>4
  <2>2. NextEncounter(done) # 0
    BY <2>1
  <2> QED BY <2>1, <2>2, <1>2 DEF MoveOn
<1> QED BY <1>3, <1>4

\* Every adventure command preserves the types together with the order of
\* encounters: one step per command of dispatchAdventureCommand.
LEMMA ProgressStep == ProgressInv /\ [AdventureNext]_adventureVars => ProgressInv'
<1> SUFFICES ASSUME ProgressInv, [AdventureNext]_adventureVars
             PROVE  ProgressInv'
  OBVIOUS
<1>0. AdventureTypeOK /\ EncounterOrder
  BY DEF ProgressInv
<1>1. ASSUME NEW chosen \in Parties, BeginAdventure(chosen)
      PROVE  ProgressInv'
  <2>1. chosen \in Seq(Actors) /\ Len(chosen) \in 1..PartyMax
    BY PartyIsSequence
  <2>2. StartingCollection(chosen) \in [Items -> Nat]
    BY StartingCollectionType
  <2>3. [level |-> StartLevel, experience |-> 0, advanced |-> {}] \in Progression
    BY CharacterAssumption DEF Progression, ExperiencePerLevel
  <2>4. progress' \in [DOMAIN roster' -> Progression]
    BY <1>1, <2>3 DEF BeginAdventure, CreateProgression
  <2>5. loadout' \in [DOMAIN roster' -> SUBSET Items]
    <3>1. \A m \in DOMAIN chosen : Starter[chosen[m]] \in SUBSET Items
      BY <2>1, CharacterAssumption
    <3> QED BY <1>1, <3>1 DEF BeginAdventure, CreateProgression
  <2>6. AdventureTypeOK'
    <3>1. Len(chosen) <= PartyMax
      BY <2>1, CampaignAssumption
    <3>2. 1 \in 0..NumEncounters
      BY CampaignAssumption
    <3>3. /\ phase' = "between-encounters" /\ current' = 1 /\ completed' = <<>>
          /\ roster' = chosen /\ collection' = StartingCollection(chosen)
          /\ offer' = {}
      BY <1>1 DEF BeginAdventure, CreateProgression
    <3> QED BY <2>1, <2>2, <2>4, <2>5, <3>1, <3>2, <3>3 DEF AdventureTypeOK, Phases
  <2>7. EncounterOrder'
    BY <1>1 DEF BeginAdventure, CreateProgression, EncounterOrder
  <2> QED BY <2>6, <2>7 DEF ProgressInv
<1>2. CASE StartEncounter
  BY <1>0, <1>2 DEF StartEncounter, ProgressInv, AdventureTypeOK, EncounterOrder, Phases
<1>3. CASE AcceptVictory
  <2>1. /\ current \in Encounters
        /\ current = Len(completed) + 1
        /\ Len(completed) \in Nat
    <3>1. phase = "combat"
      BY <1>3 DEF AcceptVictory, AwardExperience, RewardAfter
    <3>2. current = Len(completed) + 1
      BY <1>0, <3>1 DEF EncounterOrder
    <3>3. current \in 0..NumEncounters /\ completed \in Seq(Encounters)
      BY <1>0 DEF AdventureTypeOK
    <3>4. Len(completed) \in Nat /\ NumEncounters \in Nat
      BY <3>3, CampaignAssumption
    <3> QED BY <3>2, <3>3, <3>4 DEF Encounters
  <2>2. /\ completed' \in Seq(Encounters)
        /\ Len(completed') = Len(completed) + 1
        /\ \A k \in DOMAIN completed' : completed'[k] = k
    BY <1>0, <1>3, <2>1 DEF AcceptVictory, AwardExperience, RewardAfter, AdventureTypeOK, EncounterOrder
  <2>3. progress' \in [DOMAIN roster -> Progression]
    <3>1. Award[current] \in Nat
      BY <2>1, CampaignAssumption
    <3>2. \A m \in DOMAIN roster : ApplyExperience(progress[m], Award[current]) \in Progression
      BY <1>0, <3>1, ApplyExperienceValue DEF AdventureTypeOK
    <3> QED BY <1>3, <3>2 DEF AcceptVictory, AwardExperience, RewardAfter, Members
  <2>4. CASE RewardChoices[current] # {}
    <3>1. RewardChoices[current] \subseteq Items
      BY <2>1, CampaignAssumption
    <3>2. /\ phase' = "reward"
          /\ offer' = RewardChoices[current]
          /\ current' = current
          /\ roster' = roster /\ loadout' = loadout /\ collection' = collection
      BY <1>3, <2>4 DEF AcceptVictory, AwardExperience, RewardAfter
    <3>3. AdventureTypeOK'
      BY <1>0, <2>2, <2>3, <3>1, <3>2 DEF AdventureTypeOK, Phases
    <3>4. EncounterOrder'
      BY <2>1, <2>2, <3>2 DEF EncounterOrder
    <3> QED BY <3>3, <3>4 DEF ProgressInv
  <2>5. CASE RewardChoices[current] = {}
    <3>1. /\ MoveOn(completed')
          /\ roster' = roster /\ loadout' = loadout /\ collection' = collection
      BY <1>3, <2>5 DEF AcceptVictory, AwardExperience, RewardAfter
    <3>2. /\ phase' \in {"between-encounters", "complete"}
          /\ current' \in 0..NumEncounters
          /\ phase' = "between-encounters" => current' = Len(completed') + 1
          /\ phase' = "complete" => current' = 0 /\ Len(completed') = NumEncounters
          /\ offer' = {}
      BY <2>2, <3>1, MoveOnOrder
    <3>3. AdventureTypeOK'
      BY <1>0, <2>2, <2>3, <3>1, <3>2 DEF AdventureTypeOK, Phases
    <3>4. EncounterOrder'
      BY <2>2, <3>2 DEF EncounterOrder
    <3> QED BY <3>3, <3>4 DEF ProgressInv
  <2> QED BY <2>4, <2>5
<1>4. CASE AcceptDefeat
  BY <1>0, <1>4 DEF AcceptDefeat, ProgressInv, AdventureTypeOK, EncounterOrder, Phases
<1>5. ASSUME NEW i \in Items, ChooseReward(i)
      PROVE  ProgressInv'
  <2>1. /\ MoveOn(completed)
        /\ completed' = completed /\ roster' = roster
        /\ progress' = progress /\ loadout' = loadout
    BY <1>5 DEF ChooseReward, GrantReward
  <2>2. /\ completed \in Seq(Encounters)
        /\ \A k \in DOMAIN completed : completed[k] = k
    BY <1>0 DEF AdventureTypeOK, EncounterOrder
  <2>3. /\ phase' \in {"between-encounters", "complete"}
        /\ current' \in 0..NumEncounters
        /\ phase' = "between-encounters" => current' = Len(completed) + 1
        /\ phase' = "complete" => current' = 0 /\ Len(completed) = NumEncounters
        /\ offer' = {}
    BY <2>1, <2>2, MoveOnOrder
  <2>4. collection' \in [Items -> Nat]
    BY <1>0, <1>5 DEF ChooseReward, GrantReward, AdventureTypeOK
  <2>5. AdventureTypeOK'
    BY <1>0, <2>1, <2>3, <2>4 DEF AdventureTypeOK, Phases
  <2>6. EncounterOrder'
    BY <2>1, <2>2, <2>3 DEF EncounterOrder
  <2> QED BY <2>5, <2>6 DEF ProgressInv
<1>6. ASSUME NEW m \in Slots, NEW carried \in SUBSET Items, SetLoadout(m, carried)
      PROVE  ProgressInv'
  <2>1. loadout' \in [DOMAIN roster -> SUBSET Items]
    BY <1>0, <1>6 DEF SetLoadout, AdventureTypeOK
  <2> QED BY <1>0, <1>6, <2>1 DEF SetLoadout, ProgressInv, AdventureTypeOK, EncounterOrder
<1>7. ASSUME NEW m \in Slots, NEW l \in AdvancementLevels, AdvanceCharacter(m, l)
      PROVE  ProgressInv'
  <2>1. progress' \in [DOMAIN roster -> Progression]
    BY <1>0, <1>7 DEF AdvanceCharacter, AdventureTypeOK, Progression, Members
  <2> QED BY <1>0, <1>7, <2>1 DEF AdvanceCharacter, ProgressInv, AdventureTypeOK, EncounterOrder
<1>8. CASE UNCHANGED adventureVars
  BY <1>0, <1>8 DEF adventureVars, ProgressInv, AdventureTypeOK, EncounterOrder
<1> QED BY <1>1, <1>2, <1>3, <1>4, <1>5, <1>6, <1>7, <1>8 DEF AdventureNext

\* Types and order hold together in every state of every adventure; neither is
\* inductive without the other, for the encounter fought indexes the awards.
THEOREM ProgressInvariant == AdventureSpec => []ProgressInv
<1> QED BY ProgressInit, ProgressStep, PTL DEF AdventureSpec

\* The adventure's variables keep their types whatever the list of
\* encounters, the awards, the rewards and the party.
THEOREM AdventureTypes == AdventureSpec => []AdventureTypeOK
<1>1. ProgressInv => AdventureTypeOK
  BY DEF ProgressInv
<1> QED BY <1>1, ProgressInvariant, PTL

\* Encounters are completed once each, in authored order, and the phase,
\* current encounter and offer never disagree about the point reached.
THEOREM EncountersInOrder == AdventureSpec => []EncounterOrder
<1>1. ProgressInv => EncounterOrder
  BY DEF ProgressInv
<1> QED BY <1>1, ProgressInvariant, PTL

\* A reward that is pending offers something to choose.
OfferMade == phase = "reward" => offer # {}

\* An adventure never waits for a choice among nothing: a reward is pending only
\* with the items of its encounter on offer.
THEOREM RewardsAreOffered == AdventureSpec => []OfferMade
<1>1. AdventureInit => OfferMade
  BY DEF AdventureInit, OfferMade
<1>2. ASSUME OfferMade, [AdventureNext]_adventureVars
      PROVE  OfferMade'
  BY <1>2 DEF OfferMade, AdventureNext, adventureVars, BeginAdventure, CreateProgression, StartEncounter,
              AcceptVictory, AwardExperience, RewardAfter, AcceptDefeat, ChooseReward,
              GrantReward, MoveOn, SetLoadout, AdvanceCharacter
<1> QED BY <1>1, <1>2, PTL DEF AdventureSpec

-----------------------------------------------------------------------------
(* Experience and advancement *)

\* What a step does to the progressions: it pays the current encounter to
\* every member, it commits the earliest pending advancement of one member,
\* it begins the adventure, or it leaves them alone.
LEMMA ProgressOfStep ==
  ASSUME ProgressInv, [AdventureNext]_adventureVars
  PROVE  \/ \E chosen \in Parties : BeginAdventure(chosen)
         \/ AcceptVictory
         \/ \E m \in Slots, l \in AdvancementLevels : AdvanceCharacter(m, l)
         \/ UNCHANGED <<roster, progress, completed>>
BY DEF AdventureNext, adventureVars, StartEncounter, AcceptDefeat, ChooseReward, GrantReward, SetLoadout

\* Every member holds exactly the experience of the completed encounters, for
\* any list of awards: nothing is lost at a level threshold, paid twice or
\* paid to a part of the party.
THEOREM ExperienceIsEarned == AdventureSpec => []ExperienceLedger
<1>1. AdventureInit => ExperienceLedger
  BY DEF AdventureInit, ExperienceLedger, Members
<1>2. ASSUME ProgressInv, ExperienceLedger, [AdventureNext]_adventureVars
      PROVE  ExperienceLedger'
  <2>0. AdventureTypeOK /\ EncounterOrder
    BY <1>2 DEF ProgressInv
  <2>1. ASSUME NEW chosen \in Parties, BeginAdventure(chosen)
        PROVE  ExperienceLedger'
    <3>1. /\ completed' = <<>>
          /\ \A m \in DOMAIN roster' :
               progress'[m].level = StartLevel /\ progress'[m].experience = 0
      BY <2>1 DEF BeginAdventure, CreateProgression
    <3>2. Len(completed') = 0 /\ Earned[0] = 0 /\ StartLevel \in Nat
      BY <3>1, CampaignAssumption, CharacterAssumption
    <3>3. ExperiencePerLevel * (StartLevel - StartLevel) + 0 = 0
      BY <3>2 DEF ExperiencePerLevel
    <3> QED BY <3>1, <3>2, <3>3 DEF ExperienceLedger, Members
  <2>2. CASE AcceptVictory
    <3>1. /\ current = Len(completed) + 1
          /\ current \in Encounters
          /\ completed' = Append(completed, current)
          /\ roster' = roster
          /\ progress' = [m \in Members |-> ApplyExperience(progress[m], Award[current])]
      BY <2>0, <2>2, CampaignAssumption
         DEF AcceptVictory, AwardExperience, RewardAfter, EncounterOrder, AdventureTypeOK, Encounters
    <3>2. Len(completed') = Len(completed) + 1 /\ Len(completed) \in Nat
      BY <2>0, <3>1 DEF AdventureTypeOK
    <3>3. /\ Earned[Len(completed')] = Earned[Len(completed)] + Award[current]
          /\ Earned[Len(completed)] \in Nat /\ Award[current] \in Nat
      <4>1. /\ Earned[current] = Earned[current - 1] + Award[current]
            /\ Award[current] \in Nat
        BY <3>1, CampaignAssumption
      <4>2. current - 1 = Len(completed) /\ current - 1 \in 0..NumEncounters
        BY <3>1, <3>2, CampaignAssumption DEF Encounters
      <4>3. Earned[current - 1] \in Nat
        BY <4>2, CampaignAssumption
      <4> QED BY <3>1, <3>2, <4>1, <4>2, <4>3
    <3>4. ASSUME NEW m \in Members
          PROVE  ExperiencePerLevel * (progress'[m].level - StartLevel)
                   + progress'[m].experience = Earned[Len(completed')]
      <4> DEFINE p == progress[m]
                 q == ApplyExperience(p, Award[current])
      <4>1. p \in Progression
        BY <2>0 DEF AdventureTypeOK, Members
      <4>2. /\ q \in Progression
            /\ ExperiencePerLevel * q.level + q.experience
                 = ExperiencePerLevel * p.level + p.experience + Award[current]
        BY <3>3, <4>1, ApplyExperienceValue
      <4>3. ExperiencePerLevel * (p.level - StartLevel) + p.experience
              = Earned[Len(completed)]
        BY <1>2 DEF ExperienceLedger
      <4>4. progress'[m] = q
        BY <3>1
      <4>5. /\ p.level \in Nat /\ p.experience \in Nat
            /\ q.level \in Nat /\ q.experience \in Nat
        <5> HIDE DEF p, q
        <5>1. \A r \in Progression : r.level \in Nat /\ r.experience \in Nat
          BY DEF Progression, ExperiencePerLevel
        <5> QED BY <4>1, <4>2, <5>1
      <4> HIDE DEF p, q
      <4>6. ExperiencePerLevel * (q.level - StartLevel) + q.experience
              = Earned[Len(completed)] + Award[current]
        <5>1. StartLevel \in Nat
          BY CharacterAssumption
        <5> DEFINE paid == Earned[Len(completed)]
                   due == Award[current]
                   old == p.level
                   oldRest == p.experience
                   new == q.level
                   newRest == q.experience
        <5>2. /\ old \in Nat /\ oldRest \in Nat /\ new \in Nat /\ newRest \in Nat
              /\ paid \in Nat /\ due \in Nat
          BY <3>3, <4>5
        <5>3. /\ 1000 * (old - StartLevel) + oldRest = paid
              /\ 1000 * new + newRest = 1000 * old + oldRest + due
          BY <4>2, <4>3 DEF ExperiencePerLevel
        <5> HIDE DEF paid, due, old, oldRest, new, newRest
        <5>4. 1000 * (new - StartLevel) + newRest = paid + due
          BY <5>1, <5>2, <5>3
        <5> QED BY <5>4 DEF paid, due, new, newRest, ExperiencePerLevel
      <4> QED BY <3>3, <4>4, <4>6
    <3> QED BY <3>1, <3>4 DEF ExperienceLedger, Members
  <2>3. ASSUME NEW m \in Slots, NEW l \in AdvancementLevels, AdvanceCharacter(m, l)
        PROVE  ExperienceLedger'
    <3>1. \A n \in Members : /\ progress'[n].level = progress[n].level
                              /\ progress'[n].experience = progress[n].experience
      BY <2>0, <2>3 DEF AdvanceCharacter, AdventureTypeOK, Progression, Members
    <3>2. roster' = roster /\ completed' = completed
      BY <2>3 DEF AdvanceCharacter
    <3> QED BY <1>2, <3>1, <3>2 DEF ExperienceLedger, Members
  <2>4. CASE UNCHANGED <<roster, progress, completed>>
    BY <1>2, <2>4 DEF ExperienceLedger, Members
  <2> QED BY <1>2, <2>1, <2>2, <2>3, <2>4, ProgressOfStep
<1> QED BY <1>1, <1>2, ProgressInvariant, PTL DEF AdventureSpec

\* Nobody fights with an advancement still to choose, whatever the schedule:
\* a victory that raises a level leaves the combat in the same step.
THEOREM NoPendingWhileFighting == AdventureSpec => []NoPendingAdvancementInCombat
<1>1. AdventureInit => NoPendingAdvancementInCombat
  BY DEF AdventureInit, NoPendingAdvancementInCombat
<1>2. ASSUME NoPendingAdvancementInCombat, [AdventureNext]_adventureVars
      PROVE  NoPendingAdvancementInCombat'
  <2> USE DEF NoPendingAdvancementInCombat, Members
  <2>1. CASE StartEncounter
    BY <2>1 DEF StartEncounter
  <2>2. CASE AcceptVictory
    BY <2>2 DEF AcceptVictory, AwardExperience, RewardAfter, MoveOn
  <2>3. CASE AcceptDefeat
    BY <2>3 DEF AcceptDefeat
  <2>4. ASSUME NEW chosen \in Parties, BeginAdventure(chosen)
        PROVE  NoPendingAdvancementInCombat'
    BY <2>4 DEF BeginAdventure, CreateProgression
  <2>5. ASSUME NEW i \in Items, ChooseReward(i)
        PROVE  NoPendingAdvancementInCombat'
    BY <2>5 DEF ChooseReward, GrantReward, MoveOn
  <2>6. ASSUME NEW m \in Slots, NEW carried \in SUBSET Items, SetLoadout(m, carried)
        PROVE  NoPendingAdvancementInCombat'
    BY <2>6 DEF SetLoadout
  <2>7. ASSUME NEW m \in Slots, NEW l \in AdvancementLevels, AdvanceCharacter(m, l)
        PROVE  NoPendingAdvancementInCombat'
    BY <2>7 DEF AdvanceCharacter
  <2>8. CASE UNCHANGED adventureVars
    BY <1>2, <2>8 DEF adventureVars
  <2> QED BY <1>2, <2>1, <2>2, <2>3, <2>4, <2>5, <2>6, <2>7, <2>8 DEF AdventureNext
<1> QED BY <1>1, <1>2, PTL DEF AdventureSpec

\* The advancements a character has committed are always the earliest ones of
\* its schedule and never run ahead of its level.
THEOREM AdvancementsInOrder == AdventureSpec => []AdvancementPrefix
<1>1. AdventureInit => AdvancementPrefix
  BY DEF AdventureInit, AdvancementPrefix, Members
<1>2. ASSUME ProgressInv, AdvancementPrefix, [AdventureNext]_adventureVars
      PROVE  AdvancementPrefix'
  <2>0. AdventureTypeOK /\ EncounterOrder
    BY <1>2 DEF ProgressInv
  <2>1. ASSUME NEW chosen \in Parties, BeginAdventure(chosen)
        PROVE  AdvancementPrefix'
    BY <2>1 DEF BeginAdventure, CreateProgression, AdvancementPrefix, Members
  <2>2. CASE AcceptVictory
    <3>1. /\ current \in Encounters
          /\ roster' = roster
          /\ progress' = [m \in Members |-> ApplyExperience(progress[m], Award[current])]
      BY <2>0, <2>2, CampaignAssumption
         DEF AcceptVictory, AwardExperience, RewardAfter, EncounterOrder, AdventureTypeOK, Encounters
    <3>2. \A m \in Members : /\ progress[m] \in Progression
                              /\ progress'[m].advanced = progress[m].advanced
                              /\ progress'[m].level \in Nat
                              /\ progress'[m].level >= progress[m].level
      <4> SUFFICES ASSUME NEW m \in Members
                   PROVE  /\ progress[m] \in Progression
                          /\ progress'[m].advanced = progress[m].advanced
                          /\ progress'[m].level \in Nat
                          /\ progress'[m].level >= progress[m].level
        OBVIOUS
      <4> DEFINE q == ApplyExperience(progress[m], Award[current])
      <4>1. progress[m] \in Progression /\ Award[current] \in Nat
        BY <2>0, <3>1, CampaignAssumption DEF AdventureTypeOK, Members
      <4>2. /\ q \in Progression
            /\ q.advanced = progress[m].advanced
            /\ q.level >= progress[m].level
        BY <4>1, ApplyExperienceValue
      <4>3. progress'[m] = q
        BY <3>1
      <4> HIDE DEF q
      <4>4. q.level \in Nat
        BY <4>2 DEF Progression
      <4> QED BY <4>1, <4>2, <4>3, <4>4
    <3>3. ASSUME NEW m \in Members, NEW l \in progress[m].advanced
          PROVE  l <= progress'[m].level
      <4>1. l \in Nat /\ progress[m].level \in Nat
        BY <3>2, CharacterAssumption DEF Progression
      <4>2. l <= progress[m].level
        BY <1>2 DEF AdvancementPrefix
      <4> QED BY <3>2, <4>1, <4>2
    <3> QED BY <1>2, <3>1, <3>2, <3>3 DEF AdvancementPrefix, Members
  <2>3. ASSUME NEW m \in Slots, NEW l \in AdvancementLevels, AdvanceCharacter(m, l)
        PROVE  AdvancementPrefix'
    <3>1. /\ m \in Members
          /\ roster' = roster
          /\ l \in PendingAdvancements(progress[m])
          /\ \A other \in PendingAdvancements(progress[m]) : l <= other
      BY <2>3 DEF AdvanceCharacter
    <3>2. \A n \in Members :
            /\ progress'[n].level = progress[n].level
            /\ progress'[n].advanced =
                 IF n = m THEN progress[n].advanced \union {l} ELSE progress[n].advanced
      BY <2>0, <2>3, <3>1 DEF AdvanceCharacter, AdventureTypeOK, Progression, Members
    <3>3. ASSUME NEW k \in AdvancementLevels, k < l
          PROVE  k \in progress[m].advanced
      <4>1. l <= progress[m].level
        BY <3>1 DEF PendingAdvancements
      <4>2. k \in Nat /\ l \in Nat /\ progress[m].level \in Nat
        BY <2>0, <3>1, CharacterAssumption DEF AdventureTypeOK, Progression, Members
      <4>3. k <= progress[m].level /\ ~(l <= k)
        BY <3>3, <4>1, <4>2
      <4> QED BY <3>1, <4>3 DEF PendingAdvancements
    <3>4. l <= progress[m].level
      BY <3>1 DEF PendingAdvancements
    <3> QED BY <1>2, <3>1, <3>2, <3>3, <3>4 DEF AdvancementPrefix, Members
  <2>4. CASE UNCHANGED <<roster, progress, completed>>
    BY <1>2, <2>4 DEF AdvancementPrefix, Members
  <2> QED BY <1>2, <2>1, <2>2, <2>3, <2>4, ProgressOfStep
<1> QED BY <1>1, <1>2, ProgressInvariant, PTL DEF AdventureSpec

\* Together: advancements come in order and before the next fight.
THEOREM AdvancementsAreTimely == AdventureSpec => []AdvancementOrder
<1>1. NoPendingAdvancementInCombat /\ AdvancementPrefix => AdvancementOrder
  BY DEF AdvancementOrder
<1> QED BY <1>1, NoPendingWhileFighting, AdvancementsInOrder, PTL

-----------------------------------------------------------------------------
(* Equipment and cards *)

\* The copies of one item a party carries are finitely many.
LEMMA CarriersAreCounted ==
  ASSUME NEW n \in Nat, NEW load \in [1..n -> SUBSET Items], NEW i
  PROVE  Cardinality(Carriers(load, i)) \in Nat
<1>1. IsFiniteSet(1..n)
  BY FS_Interval
<1>2. Carriers(load, i) \subseteq 1..n
  BY DEF Carriers
<1> QED BY <1>1, <1>2, FS_Subset, FS_CardinalityType

\* Across every loadout change, reward and new party, the members together
\* never carry more copies of an item than the party owns.
THEOREM NothingCarriedUnowned == AdventureSpec => []PartyCarriesOnlyWhatItOwns
<1>1. AdventureInit => PartyCarriesOnlyWhatItOwns
  <2> SUFFICES ASSUME AdventureInit, NEW i \in Items
               PROVE  Cardinality(Carriers(loadout, i)) <= collection[i]
    BY DEF PartyCarriesOnlyWhatItOwns, LegalLoadout
  <2>1. Carriers(loadout, i) = {}
    BY DEF AdventureInit, Carriers
  <2>2. Cardinality({}) = 0
    BY FS_EmptySet
  <2>3. collection[i] = 0
    BY DEF AdventureInit
  <2>4. 0 <= 0
    OBVIOUS
  <2> QED BY <2>1, <2>2, <2>3, <2>4
<1>2. ASSUME ProgressInv, PartyCarriesOnlyWhatItOwns, [AdventureNext]_adventureVars
      PROVE  PartyCarriesOnlyWhatItOwns'
  <2>0. AdventureTypeOK
    BY <1>2 DEF ProgressInv
  <2>1. ASSUME NEW chosen \in Parties, BeginAdventure(chosen)
        PROVE  PartyCarriesOnlyWhatItOwns'
    <3> SUFFICES ASSUME NEW i \in Items
                 PROVE  Cardinality(Carriers(loadout', i)) <= collection'[i]
      BY DEF PartyCarriesOnlyWhatItOwns, LegalLoadout
    <3>1. collection'[i] = Cardinality({m \in DOMAIN chosen : i \in Starter[chosen[m]]})
      BY <2>1 DEF BeginAdventure, CreateProgression, StartingCollection
    <3>2. Carriers(loadout', i) = {m \in DOMAIN chosen : i \in Starter[chosen[m]]}
      BY <2>1 DEF BeginAdventure, CreateProgression, Carriers
    <3>3. collection'[i] \in Nat
      BY <2>1, StartingCollectionType DEF BeginAdventure, CreateProgression
    <3> QED BY <3>1, <3>2, <3>3
  <2>2. ASSUME NEW i \in Items, ChooseReward(i)
        PROVE  PartyCarriesOnlyWhatItOwns'
    <3> SUFFICES ASSUME NEW j \in Items
                 PROVE  Cardinality(Carriers(loadout', j)) <= collection'[j]
      BY DEF PartyCarriesOnlyWhatItOwns, LegalLoadout
    <3>1. Cardinality(Carriers(loadout, j)) <= collection[j]
      BY <1>2 DEF PartyCarriesOnlyWhatItOwns, LegalLoadout
    <3>2. collection[j] \in Nat /\ collection'[j] \in Nat /\ collection[j] <= collection'[j]
      BY <2>0, <2>2 DEF ChooseReward, GrantReward, AdventureTypeOK
    <3>3. Cardinality(Carriers(loadout, j)) \in Nat
      <4>1. loadout \in [1..Len(roster) -> SUBSET Items] /\ Len(roster) \in Nat
        BY <2>0 DEF AdventureTypeOK
      <4> QED BY <4>1, CarriersAreCounted
    <3>4. loadout' = loadout
      BY <2>2 DEF ChooseReward, GrantReward
    <3> QED BY <3>1, <3>2, <3>3, <3>4
  <2>3. ASSUME NEW m \in Slots, NEW carried \in SUBSET Items, SetLoadout(m, carried)
        PROVE  PartyCarriesOnlyWhatItOwns'
    BY <2>3 DEF SetLoadout, PartyCarriesOnlyWhatItOwns
  <2>4. CASE UNCHANGED <<loadout, collection>>
    BY <1>2, <2>4 DEF PartyCarriesOnlyWhatItOwns, LegalLoadout, Carriers
  <2> QED BY <1>2, <2>1, <2>2, <2>3, <2>4
          DEF AdventureNext, adventureVars, StartEncounter, AcceptVictory, AwardExperience,
              RewardAfter, AcceptDefeat,
              AdvanceCharacter
<1> QED BY <1>1, <1>2, ProgressInvariant, PTL DEF AdventureSpec

=============================================================================
