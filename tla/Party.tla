------------------------------- MODULE Party -------------------------------
(***************************************************************************)
(* What the members of a party become and carry: level-up choices (module  *)
(* Characters), kits of worn equipment and prepared cards (module Loadout) *)
(* and the levels a combat is built with.                                  *)
(*                                                                         *)
(* It refines Adventure: each action is the command of that name, with the *)
(* detail Adventure leaves open.  A choice is validated once, when it is   *)
(* made; its results are derived again, from the whole history, each time  *)
(* the session publishes, builds an encounter or is restored, and throw    *)
(* there if they are not legal.  Numbers that no rule here depends on (hit *)
(* points, saves, attack bonuses) are part of module Statistics.           *)
(***************************************************************************)
EXTENDS Adventure, Loadout, Characters

CONSTANTS
  Trained,        \* Trained[a]: build.trainedSkills of actor a
  Intelligence,   \* the one that decides how many skills a build trains
  StartBoosts,    \* StartBoosts[a]: boosts of ancestry, class and build
  Equipment, Cards,
  StarterKit      \* StarterKit[a]: starterLoadout

VARIABLES
  history,   \* progression.advancements of each member, by level
  kits,      \* loadout of each member
  mustered   \* level of each hero of the combat, <<>> without one

partyVars == <<adventureVars, history, kits, mustered>>

-----------------------------------------------------------------------------
(* Characters *)

\* resolveCharacterRules accepts the build of an actor with these choices.
Resolves(a, chosen) == BuildResolves(Trained[a], StartBoosts[a][Intelligence], chosen)

With(chosen, l, choice) ==
  [k \in DOMAIN chosen \union {l} |-> IF k = l THEN choice ELSE chosen[k]]

-----------------------------------------------------------------------------
(* Kits *)

Kits ==
  [worn : [KitSlots -> Equipment \union {Nothing}],
   prepared : UNION {[1..n -> Cards] : n \in 0..MaxPrepared}]

ASSUME PartyAssumption ==
  /\ AdvancementLevels = Schedule
  /\ Trained \in [Actors -> SUBSET Skills]
  /\ StartBoosts \in [Actors -> [Attributes -> Nat]] /\ Intelligence \in Attributes
  /\ BoostChoices # {} /\ \A b \in BoostChoices : b \subseteq Attributes /\ Cardinality(b) = 4
  /\ Nothing \notin Equipment /\ NoSkill \notin Skills /\ NoSkill \notin Ranks
  /\ Items = Equipment \union Cards /\ Equipment \cap Cards = {}
  /\ IsFiniteSet(Skills)
  /\ Grants \in [Equipment -> SUBSET Cards] /\ BaseGrants \in [Actors -> SUBSET Cards]
  /\ CardLevel \in [Cards -> Nat \ {0}]
  /\ DOMAIN LevelByClass = Cards
  /\ \A c \in Cards : LevelByClass[c] \in [DOMAIN LevelByClass[c] -> Nat \ {0}]
  /\ StarterKit \in [Actors -> Kits]
  /\ \A a \in Actors :
       LET cards == StarterKit[a].prepared
       IN  /\ \A j, k \in DOMAIN cards : cards[j] = cards[k] => j = k
           /\ Starter[a] = Carried(StarterKit[a])

\* validatePartyLoadout as the adventure calls it: it resolves each character to
\* the level its cards are judged by.
PartyIsAccepted(members, chosen, grown, party, owned) ==
  /\ \A m \in DOMAIN members : Resolves(members[m], chosen[m])
  /\ PartyIsLegal(members, grown, party, owned)

-----------------------------------------------------------------------------
(* Commands *)

PartyInit ==
  /\ AdventureInit
  /\ history = <<>>
  /\ kits = <<>>
  /\ mustered = <<>>

\* createAdventureSession, which throws on an illegal starting loadout.
BeginParty(party) ==
  /\ BeginAdventure(party)
  /\ history' = [m \in DOMAIN party |-> <<>>]
  /\ kits' = [m \in DOMAIN party |-> StarterKit[party[m]]]
  /\ PartyIsAccepted(party, history', progress', kits', collection')
  /\ UNCHANGED mustered

\* start-encounter with buildAdventureEncounter: the heroes enter with the level
\* their history resolves to.
Muster ==
  /\ StartEncounter
  /\ PartyIsAccepted(roster, history, progress, kits, collection)
  /\ mustered' = [m \in Members |-> progress[m].level]
  /\ UNCHANGED <<history, kits>>

\* A combat that ends takes its heroes with it.
Win ==
  /\ AcceptVictory
  /\ mustered' = <<>>
  /\ UNCHANGED <<history, kits>>

Lose ==
  /\ AcceptDefeat
  /\ mustered' = <<>>
  /\ UNCHANGED <<history, kits>>

TakeReward(i) ==
  /\ ChooseReward(i)
  /\ UNCHANGED <<history, kits, mustered>>

\* Fault: only the copies are checked, not who may use them.
ChangeKitByCopies(m, kit) ==
  /\ SetLoadout(m, Carried(kit))
  /\ \A i \in Items : Copies([kits EXCEPT ![m] = kit], i) <= collection[i]
  /\ kits' = [kits EXCEPT ![m] = kit]
  /\ UNCHANGED <<history, mustered>>

\* set-member-loadout: the whole party is judged.
ChangeKit(m, kit) ==
  /\ SetLoadout(m, Carried(kit))
  /\ PartyIsAccepted(roster, history, progress, [kits EXCEPT ![m] = kit], collection)
  /\ kits' = [kits EXCEPT ![m] = kit]
  /\ UNCHANGED <<history, mustered>>

\* advance-character: applyCharacterAdvancement resolves the grown character.
Advance(m, l, choice) ==
  /\ AdvanceCharacter(m, l)
  /\ choice \in Choices(l)
  /\ Resolves(roster[m], With(history[m], l, choice))
  /\ history' = [history EXCEPT ![m] = With(history[m], l, choice)]
  /\ UNCHANGED <<kits, mustered>>

PartyNext ==
  \/ \E party \in Parties : BeginParty(party)
  \/ Muster
  \/ Win
  \/ Lose
  \/ \E i \in Items : TakeReward(i)
  \/ \E m \in Slots, kit \in Kits : ChangeKit(m, kit)
  \/ \E m \in Slots, l \in AdvancementLevels : \E choice \in Choices(l) : Advance(m, l, choice)

PartySpec == PartyInit /\ [][PartyNext]_partyVars

-----------------------------------------------------------------------------
(* Properties *)

\* An advancement that is due can be made: whatever was chosen before, some
\* choice is accepted.  Otherwise no encounter could ever start again.
GrowthIsOpen ==
  \A m \in Members : \A l \in PendingAdvancements(progress[m]) :
    (\A other \in PendingAdvancements(progress[m]) : l <= other) =>
      \E choice \in Choices(l) : Resolves(roster[m], With(history[m], l, choice))

\* What was accepted once is accepted for ever: the history of a member still
\* resolves, and its kit is legal at the level it has now.
KeptAsAccepted ==
  phase # "none" =>
    /\ \A m \in Members : DOMAIN history[m] = progress[m].advanced
    /\ PartyIsAccepted(roster, history, progress, kits, collection)

\* The levels a combat was built with are those of the party it is fought by,
\* which assertSessionCardInvariants compares on each publication.
MusterIsCurrent ==
  mustered = IF phase = "combat" THEN [m \in Members |-> progress[m].level] ELSE <<>>

\* No legal sequence of commands wedges a campaign: a party stays legal through
\* growth and rewards, the derivations that would throw when the session
\* publishes never do, and a level reached can be completed.
PartyStaysPlayable == GrowthIsOpen /\ KeptAsAccepted /\ MusterIsCurrent
=============================================================================
