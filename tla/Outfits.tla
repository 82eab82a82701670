------------------------------ MODULE Outfits ------------------------------
(***************************************************************************)
(* What a member of a party has put on: a kit is the equipment worn in     *)
(* each slot and the cards prepared, in order (loadout/loadout.ts).        *)
(***************************************************************************)
EXTENDS Integers, Sequences, FiniteSets

CONSTANTS
  KitSlots,      \* EQUIPMENT_SLOT_ORDER
  MaxPrepared,   \* bound of the cards a command lists
  Nothing        \* an empty slot

ASSUME KitAssumption == IsFiniteSet(KitSlots) /\ MaxPrepared \in Nat

\* equipmentIds, and what else a kit holds.
Worn(kit) == {kit.worn[s] : s \in KitSlots} \ {Nothing}
Prepared(kit) == {kit.prepared[k] : k \in DOMAIN kit.prepared}
Carried(kit) == Worn(kit) \union Prepared(kit)

\* Copies of an item the kits of a party take: worn and prepared.
WornCopies(party, i) == {p \in (DOMAIN party) \X KitSlots : party[p[1]].worn[p[2]] = i}
PreparedCopies(party, i) ==
  {p \in (DOMAIN party) \X (1..MaxPrepared) :
     p[2] \in DOMAIN party[p[1]].prepared /\ party[p[1]].prepared[p[2]] = i}
Copies(party, i) == Cardinality(WornCopies(party, i)) + Cardinality(PreparedCopies(party, i))
=============================================================================
