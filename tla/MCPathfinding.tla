---------------------------- MODULE MCPathfinding ----------------------------
(* Pathfinding on a small map that is open but for a few tiles. *)
EXTENDS Pathfinding

CONSTANTS
  Special,   \* bound: how many tiles are not open
  Corner     \* where the actor may stand

FewSpecial ==
  UNION {{[t \in Tiles |-> IF t \in s THEN kind[t] ELSE "open"] :
            kind \in [s -> Terrains \ {"open"}]} :
         s \in {s \in SUBSET Tiles : Cardinality(s) <= Special}}

MCInit ==
  /\ terrain \in FewSpecial
  /\ from \in Corner
  /\ terrain[from] = "open"
  /\ foes \in {{}, {<<1, 1>>}}
  /\ allies \in {{}, {<<1, 0>>}}
  /\ speed \in {20}
  /\ band \in Bands
  /\ SearchInit
  /\ walker = [at |-> from, spent |-> 0]

MCSpec == MCInit /\ [][PathfindingNext]_pathfindingVars
CornerDef == {<<0, 0>>}
=============================================================================
