---------------------------- MODULE CampaignSave ----------------------------
(***************************************************************************)
(* The durable form of a session: src/src/server/campaign-save.ts, with    *)
(* the shape it demands (campaign-save-schema.ts) and the assertions of    *)
(* the layers it asks (character/rules.ts, adventure/progression.ts,       *)
(* session/card-invariants.ts, session/authority.ts).                      *)
(*                                                                         *)
(* A save is written from any state the session passes through and judged  *)
(* only when somebody continues the campaign, perhaps weeks later and by   *)
(* rules written apart from those that produced it.  What is judged here   *)
(* is a save of this build: the build registers no content migration.  The *)
(* actors, cards and map of a combat are judged in module Combat; a hash   *)
(* is the gameplay it stands for.                                          *)
(***************************************************************************)
EXTENDS SessionCore

CurrentSaveSchemaVersion == 3

\* createCampaignSave: what outlives the session.
CreateCampaignSave ==
  [schema |-> CurrentSaveSchemaVersion, slots |-> party, combat |-> combat,
   phase |-> phase, current |-> current, completed |-> completed, members |-> roster,
   progress |-> progress, loadout |-> loadout, collection |-> collection, offer |-> offer]

\* The row a session writes (campaign-durability.ts): the save with what the
\* database keeps beside it.
Stored(save) == [schema |-> save.schema, hash |-> save, save |-> save]

-----------------------------------------------------------------------------
(* The judgement, in the order of restoreCampaignSave *)

\* campaign-save-schema.ts: one to three slots and as many members, a phase
\* the adventure has, experience below a level, no negative copies.
ShapeIsValid(save) ==
  /\ save.slots # <<>> /\ Len(save.slots) <= 3
  /\ save.members # <<>> /\ Len(save.members) <= 3
  /\ save.phase \in {"combat", "reward", "between-encounters", "complete", "failed"}
  /\ \A m \in DOMAIN save.progress :
       /\ save.progress[m].level \in Nat \ {0}
       /\ save.progress[m].experience \in 0..999
  /\ \A i \in Items : save.collection[i] \in Nat

\* validatePartySlots
PartySlotsAreValid(save) ==
  /\ \A s, t \in DOMAIN save.slots : save.slots[s] = save.slots[t] => s = t
  /\ \A s \in DOMAIN save.slots : save.slots[s] \in Actors

\* assertCharacterProgression: choices of reached levels, a prefix of the
\* schedule.
ProgressionIsValid(progression) ==
  /\ progression.advanced \subseteq AdvancementLevels
  /\ \A l \in progression.advanced :
       /\ l <= progression.level
       /\ \A k \in AdvancementLevels : k < l => k \in progression.advanced

\* assertAdventureCharacterInvariants
CharactersAreValid(save) ==
  \A m \in DOMAIN save.progress :
    /\ ProgressionIsValid(save.progress[m])
    /\ save.phase = "combat" => Adv!PendingAdvancements(save.progress[m]) = {}

\* The offer of a saved pending reward is the authored one of its encounter.
OfferIsValid(save) ==
  /\ save.phase = "reward" <=> save.offer # {}
  /\ save.offer # {} =>
       /\ save.current \in Adv!Encounters
       /\ Cardinality(save.offer) = Cardinality(RewardChoices[save.current])

\* validateAdventure
AdventureIsValid(save) ==
  /\ save.current # 0 => save.current \in Adv!Encounters
  /\ \A k \in DOMAIN save.completed : save.completed[k] \in Adv!Encounters
  /\ \A j, k \in DOMAIN save.completed : save.completed[j] = save.completed[k] => j = k
  /\ OfferIsValid(save)
  /\ save.slots = save.members
  /\ CharactersAreValid(save)
  /\ Adv!LegalLoadout(save.loadout, save.collection)

\* validateCombat, as far as the session sees the combat.
CombatIsValid(save) ==
  /\ save.phase = "combat" <=> save.combat # NoCombat
  /\ save.combat # NoCombat =>
       /\ save.combat.scenario \in Adv!Encounters
       /\ save.combat.scenario = save.current
       /\ save.combat.actor \in 0 .. Len(save.members)

\* assertRestorable: the session createResumedSessionCoreState would open, the
\* host alone in the resume lobby, satisfies assertSessionInvariants.
IsRestorable(save) ==
  /\ save.slots # <<>> /\ Len(save.slots) <= 3
  /\ \A s, t \in DOMAIN save.slots : save.slots[s] = save.slots[t] => s = t
  /\ save.phase # "none"
  /\ save.phase = "combat" <=> save.combat # NoCombat
  /\ save.slots = save.members
  /\ save.combat # NoCombat => save.combat.scenario = save.current

\* restoreCampaignSave: the code it refuses a row with, or "restored".
RestoreCampaignSave(row) ==
  IF row.save.schema # row.schema THEN "SAVE_CORRUPT"
  ELSE IF row.schema # CurrentSaveSchemaVersion THEN "SAVE_SCHEMA_UNSUPPORTED"
  ELSE IF /\ ShapeIsValid(row.save)
          /\ PartySlotsAreValid(row.save)
          /\ AdventureIsValid(row.save)
          /\ CombatIsValid(row.save)
          /\ IsRestorable(row.save)
          /\ row.hash = row.save
    THEN "restored"
  ELSE "SAVE_CORRUPT"

-----------------------------------------------------------------------------
(* Properties *)

\* No campaign is ever lost to its own save: whatever state of an adventure a
\* session is in when it writes, Continue accepts the row later.  The rules
\* that judge it are not the rules that produced it.
SavesAreAccepted ==
  phase # "none" => RestoreCampaignSave(Stored(CreateCampaignSave)) = "restored"
=============================================================================
