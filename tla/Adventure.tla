----------------------------- MODULE Adventure -----------------------------
(***************************************************************************)
(* The adventure state machine of src/src/adventure/runtime.ts: a fixed    *)
(* list of encounters, each fought once, paying experience to the whole    *)
(* party and sometimes a reward to a shared collection.                    *)
(*                                                                         *)
(* An encounter is its position in definition.encounterIds; a party member *)
(* is its party slot; an item is a piece of equipment or a card.  Phase    *)
(* "none" stands for `adventure: null`, the state of a session that has    *)
(* not begun.  Damage, statistics and the eligibility of a single card are *)
(* left out: what a member may carry is bounded here by the copies owned.  *)
(***************************************************************************)
EXTENDS Integers, Sequences, FiniteSets

CONSTANTS
  NumEncounters,      \* length of definition.encounterIds
  Award,              \* Award[e]: authored experience of encounter e
  Earned,             \* Earned[n]: sum of Award over the first n encounters
  RewardChoices,      \* RewardChoices[e]: items offered after e, {} if none
  AdvancementLevels,  \* levels at which a character must pick an advancement
  Actors,             \* playable actor definitions
  StartLevel,         \* authored level of a fresh character
  Items,              \* equipment and card definitions
  Starter,            \* Starter[a]: starter loadout of actor a
  PartyMax            \* definition.partySize.max

ExperiencePerLevel == 1000

Encounters == 1..NumEncounters
Slots == 1..PartyMax

ASSUME CampaignAssumption ==
  /\ NumEncounters \in Nat \ {0}
  /\ PartyMax \in 1..3
  /\ Award \in [Encounters -> Nat]
  /\ Earned \in [0..NumEncounters -> Nat]
  /\ Earned[0] = 0
  /\ \A e \in Encounters : Earned[e] = Earned[e - 1] + Award[e]
  /\ RewardChoices \in [Encounters -> SUBSET Items]

ASSUME CharacterAssumption ==
  /\ StartLevel \in Nat \ {0}
  /\ AdvancementLevels \subseteq Nat
  /\ \A l \in AdvancementLevels : l > StartLevel
  /\ Starter \in [Actors -> SUBSET Items]
  /\ IsFiniteSet(Items)

VARIABLES
  phase,        \* AdventureState.phase, "none" for a null adventure
  current,      \* currentEncounterId, 0 for null
  completed,    \* completedEncounterIds
  roster,       \* actorDefinitionId of each member, by seat
  progress,     \* progression of each member
  loadout,      \* items each member carries
  collection,   \* copies of each item the party owns
  offer         \* items of pendingReward, {} when there is none

adventureVars ==
  <<phase, current, completed, roster, progress, loadout, collection, offer>>

Phases ==
  {"none", "between-encounters", "combat", "reward", "complete", "failed"}

Progression ==
  [level : Nat, experience : 0..(ExperiencePerLevel - 1),
   advanced : SUBSET AdvancementLevels]

Members == DOMAIN roster

Parties == {p \in UNION {[1..n -> Actors] : n \in 1..PartyMax} :
              \A i, j \in DOMAIN p : p[i] = p[j] => i = j}

-----------------------------------------------------------------------------
(* Helpers *)

\* Advancements a character has earned but not chosen yet.
PendingAdvancements(p) ==
  {l \in AdvancementLevels : l <= p.level} \ p.advanced

\* Fault: one award raises a character by one level at most.
ApplyExperienceOneLevel(p, amount) ==
  LET total == p.experience + amount
  IN  [p EXCEPT !.level = @ + (IF total >= ExperiencePerLevel THEN 1 ELSE 0),
                !.experience = total % ExperiencePerLevel]

\* The one place experience becomes level; one award may cross several
\* thresholds.
ApplyExperience(p, amount) ==
  LET total == p.experience + amount
  IN  [p EXCEPT !.level = @ + (total \div ExperiencePerLevel),
                !.experience = total % ExperiencePerLevel]

\* Copies of item i carried by the members of a party.
Carriers(load, i) == {m \in DOMAIN load : i \in load[m]}

LegalLoadout(load, owned) ==
  \A i \in Items : Cardinality(Carriers(load, i)) <= owned[i]

StartingCollection(party) ==
  [i \in Items |-> Cardinality({m \in DOMAIN party : i \in Starter[party[m]]})]

\* The first encounter of the list that is not completed, 0 when all are.
NextEncounter(done) ==
  LET open == {e \in Encounters : \A k \in DOMAIN done : done[k] # e}
  IN  IF open = {} THEN 0 ELSE CHOOSE e \in open : \A f \in open : e <= f

\* Fault: the settled reward stays on offer.
MoveOnKeepingOffer(done) ==
  /\ current' = NextEncounter(done)
  /\ phase' = IF NextEncounter(done) = 0 THEN "complete" ELSE "between-encounters"
  /\ UNCHANGED offer

\* What follows a completed encounter whose reward is settled.
MoveOn(done) ==
  /\ current' = NextEncounter(done)
  /\ phase' = IF NextEncounter(done) = 0 THEN "complete" ELSE "between-encounters"
  /\ offer' = {}

-----------------------------------------------------------------------------
(* What an encounter brings *)

\* createCharacterProgression.
CreateProgression == [level |-> StartLevel, experience |-> 0, advanced |-> {}]

\* awardExperience: everybody in the party is paid the same, the fallen included.
AwardExperience(amount) == [m \in Members |-> ApplyExperience(progress[m], amount)]

\* rewardAfter: what a completed encounter offers, nothing for most.
RewardAfter(e) == RewardChoices[e]

\* grantReward: one more copy of what was chosen.
GrantReward(i) == [collection EXCEPT ![i] = @ + 1]

-----------------------------------------------------------------------------
(* Commands *)

AdventureInit ==
  /\ phase = "none"
  /\ current = 0
  /\ completed = <<>>
  /\ roster = <<>>
  /\ progress = <<>>
  /\ loadout = <<>>
  /\ collection = [i \in Items |-> 0]
  /\ offer = {}

\* createAdventureSession followed at once by start-adventure, the only way
\* the session layer uses either.
BeginAdventure(party) ==
  /\ phase = "none"
  /\ roster' = party
  /\ progress' = [m \in DOMAIN party |-> CreateProgression]
  /\ loadout' = [m \in DOMAIN party |-> Starter[party[m]]]
  /\ collection' = StartingCollection(party)
  /\ completed' = <<>>
  /\ current' = 1
  /\ phase' = "between-encounters"
  /\ offer' = {}

StartEncounter ==
  /\ phase = "between-encounters"
  /\ current # 0
  /\ \A m \in Members : PendingAdvancements(progress[m]) = {}
  /\ phase' = "combat"
  /\ UNCHANGED <<current, completed, roster, progress, loadout, collection, offer>>

AcceptVictory ==
  /\ phase = "combat"
  /\ \A k \in DOMAIN completed : completed[k] # current
  /\ completed' = Append(completed, current)
  /\ progress' = AwardExperience(Award[current])
  /\ IF RewardAfter(current) # {}
       THEN /\ phase' = "reward"
            /\ offer' = RewardAfter(current)
            /\ UNCHANGED current
       ELSE MoveOn(completed')
  /\ UNCHANGED <<roster, loadout, collection>>

AcceptDefeat ==
  /\ phase = "combat"
  /\ phase' = "failed"
  /\ offer' = {}
  /\ UNCHANGED <<current, completed, roster, progress, loadout, collection>>

ChooseReward(i) ==
  /\ phase = "reward"
  /\ i \in offer
  /\ collection' = GrantReward(i)
  /\ MoveOn(completed)
  /\ UNCHANGED <<completed, roster, progress, loadout>>

SetLoadout(m, carried) ==
  /\ phase = "between-encounters"
  /\ m \in Members
  /\ LegalLoadout([loadout EXCEPT ![m] = carried], collection)
  /\ loadout' = [loadout EXCEPT ![m] = carried]
  /\ UNCHANGED <<phase, current, completed, roster, progress, collection, offer>>

\* Fault: advancements are chosen in any order.
AdvanceCharacterAnyOrder(m, l) ==
  /\ phase = "between-encounters"
  /\ m \in Members
  /\ l \in PendingAdvancements(progress[m])
  /\ progress' = [progress EXCEPT ![m].advanced = @ \union {l}]
  /\ UNCHANGED <<phase, current, completed, roster, loadout, collection, offer>>

AdvanceCharacter(m, l) ==
  /\ phase = "between-encounters"
  /\ m \in Members
  /\ l \in PendingAdvancements(progress[m])
  /\ \A other \in PendingAdvancements(progress[m]) : l <= other
  /\ progress' = [progress EXCEPT ![m].advanced = @ \union {l}]
  /\ UNCHANGED <<phase, current, completed, roster, loadout, collection, offer>>

AdventureNext ==
  \/ \E party \in Parties : BeginAdventure(party)
  \/ StartEncounter
  \/ AcceptVictory
  \/ AcceptDefeat
  \/ \E i \in Items : ChooseReward(i)
  \/ \E m \in Slots, carried \in SUBSET Items : SetLoadout(m, carried)
  \/ \E m \in Slots, l \in AdvancementLevels : AdvanceCharacter(m, l)

AdventureSpec == AdventureInit /\ [][AdventureNext]_adventureVars

-----------------------------------------------------------------------------
(* Properties *)

\* Type invariant of the adventure variables.
AdventureTypeOK ==
  /\ phase \in Phases
  /\ current \in 0..NumEncounters
  /\ completed \in Seq(Encounters)
  /\ roster \in Seq(Actors)
  /\ Len(roster) <= PartyMax
  /\ progress \in [DOMAIN roster -> Progression]
  /\ loadout \in [DOMAIN roster -> SUBSET Items]
  /\ collection \in [Items -> Nat]
  /\ offer \in SUBSET Items

\* Encounters are completed once each and in authored order, and the phase,
\* the current encounter, the pending offer and the completed list always
\* describe the same point of that order (accept-combat-result and
\* choose-reward move them together).
EncounterOrder ==
  /\ \A k \in DOMAIN completed : completed[k] = k
  /\ phase = "none" => completed = <<>> /\ roster = <<>>
  /\ phase \in {"between-encounters", "combat", "failed"} =>
       current = Len(completed) + 1
  /\ phase = "reward" =>
       current = Len(completed) /\ current # 0 /\ offer = RewardChoices[current]
  /\ phase = "complete" => current = 0 /\ Len(completed) = NumEncounters
  /\ phase # "reward" => offer = {}

\* No experience is lost, duplicated or paid to part of the party: every
\* member holds exactly the experience of the completed encounters on top of
\* the authored level (awardExperience, applyExperience).
ExperienceLedger ==
  \A m \in Members :
    ExperiencePerLevel * (progress[m].level - StartLevel) + progress[m].experience
      = Earned[Len(completed)]

\* Nobody fights with an unchosen advancement: the condition a restored save
\* is refused for (assertAdventureCharacterInvariants) is one the live
\* session never produces.
NoPendingAdvancementInCombat ==
  phase = "combat" => \A m \in Members : PendingAdvancements(progress[m]) = {}

\* Advancements are committed earliest first, so the history is a prefix of
\* the schedule (assertCharacterProgression refuses any other).
AdvancementPrefix ==
  \A m \in Members : \A l \in progress[m].advanced :
    /\ l <= progress[m].level
    /\ \A k \in AdvancementLevels : k < l => k \in progress[m].advanced

\* Advancements come in order and before the next fight, whatever one award
\* made due.
AdvancementOrder == NoPendingAdvancementInCombat /\ AdvancementPrefix

\* The party never carries more copies of an item than it owns, whoever
\* carries them (validatePartyLoadout looks at the whole party).
PartyCarriesOnlyWhatItOwns == LegalLoadout(loadout, collection)
=============================================================================
