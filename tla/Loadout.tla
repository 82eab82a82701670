------------------------------ MODULE Loadout ------------------------------
(***************************************************************************)
(* Who may use a card and what a party may carry: game/capabilities.ts and *)
(* loadout/loadout.ts as operators over the tables of a content pack.  An  *)
(* actor, a piece of equipment or a card is its identifier.                *)
(***************************************************************************)
EXTENDS Outfits

CONSTANTS
  ClassOf,       \* ClassOf[a]: the one class trait of actor a
  BaseGrants,    \* BaseGrants[a]: cards of actor a itself
  Capacity,      \* Capacity[a]: preparedCardCapacity
  SlotOf,        \* SlotOf[e]: the slot of equipment e
  Grants,        \* Grants[e]: cards its traits grant
  CardClasses,   \* CardClasses[c]: class traits of card c
  CardLevel,     \* CardLevel[c]
  LevelByClass   \* LevelByClass[c]: its exceptions by class

\* deriveTacticalDeck, each card once.
Deck(a, kit) ==
  BaseGrants[a] \union Prepared(kit) \union UNION {Grants[e] : e \in Worn(kit)}

\* The level a card asks of a class.
RequiredLevel(class, c) ==
  IF class \in CardClasses[c] \cap DOMAIN LevelByClass[c]
    THEN LevelByClass[c][class] ELSE CardLevel[c]

\* resolveCardEligibility, of a character.
Eligible(a, level, c) ==
  /\ CardClasses[c] # {} => ClassOf[a] \in CardClasses[c]
  /\ level >= RequiredLevel(ClassOf[a], c)

\* One member's kit: everything in its slot, no more prepared than it can, no
\* card in its deck it may not use.
KitIsLegal(a, level, kit) ==
  /\ \A s \in KitSlots : kit.worn[s] # Nothing => SlotOf[kit.worn[s]] = s
  /\ Len(kit.prepared) <= Capacity[a]
  /\ \A c \in Deck(a, kit) : Eligible(a, level, c)

\* validatePartyLoadout without an issue.
PartyIsLegal(members, grown, party, owned) ==
  /\ \A m \in DOMAIN party : KitIsLegal(members[m], grown[m].level, party[m])
  /\ \A i \in DOMAIN owned : Copies(party, i) <= owned[i]
=============================================================================
