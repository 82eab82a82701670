----------------------------- MODULE Pathfinding -----------------------------
(***************************************************************************)
(* Movement and lines on the battle map (game/grid.ts, the movement        *)
(* targets of game/queries.ts and the bands of app/move-bands.ts): the     *)
(* search findReachableTiles runs for the acting actor, one expansion of   *)
(* its frontier per step, and the supercover line that decides sight and   *)
(* effect.  Beside the search a walker takes any legal steps it likes: what *)
(* the search found is compared with what can be walked.                   *)
(*                                                                         *)
(* A tile is a pair <<x, y>>.  What its traits allow is its terrain; a     *)
(* position of the map without a tile counts as blocked.                   *)
(***************************************************************************)
EXTENDS Integers, Sequences, FiniteSets

CONSTANTS
  Width, Height,
  Unvisited   \* no node for a tile yet

Tiles == (0 .. Width - 1) \X (0 .. Height - 1)
Terrains == {"open", "difficult", "impassable", "blocked"}
\* The three movements a player tells apart: one square, a full move, by air.
Bands == {"step", "stride", "fly"}

ASSUME SizeAssumption == Width \in Nat \ {0} /\ Height \in Nat \ {0}
ASSUME UnvisitedAssumption == Unvisited \notin [cost : Nat, path : Seq(Tiles)]

VARIABLES
  terrain,   \* terrain of each tile
  foes,      \* tiles of living actors of another team
  allies,    \* tiles of living actors of the same team
  from,      \* where the acting actor stands
  speed,     \* its speed in feet
  band,      \* the movement it asks about
  visited,   \* best node found for each tile
  frontier,  \* nodes still to be expanded
  horizon,   \* history: cost of the node expanded last
  walker     \* the walker: where it is and what it has spent

question == <<terrain, foes, allies, from, speed, band>>
search == <<visited, frontier, horizon>>
pathfindingVars == <<question, search, walker>>

-----------------------------------------------------------------------------
(* Terrain and occupancy *)

Abs(n) == IF n < 0 THEN -n ELSE n
Sign(n) == IF n < 0 THEN -1 ELSE IF n = 0 THEN 0 ELSE 1

\* In feet, as gridDistance and movementCost count.
GridDistance(a, b) == 5 * (Abs(a[1] - b[1]) + Abs(a[2] - b[2]))
Adjacent(a, b) == GridDistance(a, b) = 5

\* A Step is one square over land.
OverLand == band # "fly"
MaximumCost == IF band = "step" THEN 5 ELSE speed

\* movementCost is null.
Closed(t) == terrain[t] = "blocked" \/ (OverLand /\ terrain[t] = "impassable")
MovementCost(t) == IF OverLand /\ terrain[t] = "difficult" THEN 10 ELSE 5

\* One may walk through a friend but not through a foe; the defeated are in
\* neither set.
CanTraverse(t) == t \notin foes
CanStop(t) == t \notin foes \union allies
CanEnter(t) == CanTraverse(t) /\ ~Closed(t)

-----------------------------------------------------------------------------
(* The search *)

Node(cost, path) == [cost |-> cost, path |-> path]

\* A frontier entry is a node together with its tile.
Entry(t, node) == [tile |-> t, node |-> node]

\* compareNodes: by cost, then row, then column.
Before(a, b) ==
  \/ a.node.cost < b.node.cost
  \/ /\ a.node.cost = b.node.cost
     /\ \/ a.tile[2] < b.tile[2]
        \/ a.tile[2] = b.tile[2] /\ a.tile[1] < b.tile[1]

IsLeast(current) ==
  current \in frontier /\ \A other \in frontier \ {current} : ~Before(other, current)

Reach(current, t) ==
  Node(current.node.cost + MovementCost(t), Append(current.node.path, t))

\* Fault: a tile that takes the whole allowance is left out.
ImprovesBelow(current, t) ==
  /\ Adjacent(current.tile, t)
  /\ CanEnter(t)
  /\ current.node.cost + MovementCost(t) < MaximumCost
  /\ \/ visited[t] = Unvisited
     \/ current.node.cost + MovementCost(t) < visited[t].cost

\* The neighbour is worth a node: it may be entered, lies within the
\* allowance, and is new or strictly cheaper than before.
Improves(current, t) ==
  /\ Adjacent(current.tile, t)
  /\ CanEnter(t)
  /\ current.node.cost + MovementCost(t) <= MaximumCost
  /\ \/ visited[t] = Unvisited
     \/ current.node.cost + MovementCost(t) < visited[t].cost

Searched == frontier = {}

SearchInit ==
  /\ visited = [t \in Tiles |-> IF t = from THEN Node(0, <<>>) ELSE Unvisited]
  /\ frontier = {Entry(from, Node(0, <<>>))}
  /\ horizon = 0

\* One round of the while loop.  The four neighbours are different tiles, so
\* the order in which they are looked at makes no difference.
Expand ==
  \E current \in frontier :
    LET improved == {t \in Tiles : Improves(current, t)} IN
    /\ IsLeast(current)
    /\ visited' = [t \in Tiles |-> IF t \in improved THEN Reach(current, t)
                                                    ELSE visited[t]]
    /\ frontier' = (frontier \ {current})
                     \union {Entry(t, Reach(current, t)) : t \in improved}
    /\ horizon' = current.node.cost
    /\ UNCHANGED <<question, walker>>

\* What findReachableTiles returns once the frontier is empty: squares of
\* friends were kept for paths through them and are left out here.
Reachable == {t \in Tiles \ {from} : visited[t] # Unvisited /\ CanStop(t)}

CanStepOnto(t) == ~Closed(t) /\ MovementCost(t) = 5 /\ terrain[t] # "difficult"

\* movementTargets: a Step goes to a neighbour of plain ground or stays where it
\* is, the other movements go to whatever is reachable.
MovementTargets ==
  IF band = "step"
    THEN {from} \union {t \in Reachable : Len(visited[t].path) = 1 /\ CanStepOnto(t)}
    ELSE Reachable

-----------------------------------------------------------------------------
(* The walker *)

\* Any single legal step, taken by somebody who does not know the search.
Walk ==
  /\ Searched
  /\ \E t \in Tiles :
       /\ Adjacent(walker.at, t) /\ CanEnter(t)
       /\ walker.spent + MovementCost(t) <= MaximumCost
       /\ walker' = [at |-> t, spent |-> walker.spent + MovementCost(t)]
  /\ UNCHANGED <<question, search>>

-----------------------------------------------------------------------------
(* Sight and effect *)

\* Fault: where the line runs through a corner, only one side cell counts.
CornerCellsOneSided(side, up) == {side}

\* Where the line runs through a corner both cells beside the corner count.
CornerCells(side, up) == {side, up}

\* How many columns and rows apart, and the cell c columns and rows from a to b.
Offset(a, b) == <<Abs(b[1] - a[1]), Abs(b[2] - a[2])>>
Cell(a, b, c) ==
  <<a[1] + Sign(b[1] - a[1]) * c[1], a[2] + Sign(b[2] - a[2]) * c[2]>>

\* Whether the line leaves a cell through its side, its corner or its top.
Decision(n, c) == (1 + 2 * c[1]) * n[2] - (1 + 2 * c[2]) * n[1]

\* ix and iy after a round of the while loop, and the points it pushes.
Further(n, c) ==
  IF c = n THEN n
  ELSE IF Decision(n, c) = 0 THEN <<c[1] + 1, c[2] + 1>>
  ELSE IF Decision(n, c) < 0 THEN <<c[1] + 1, c[2]>> ELSE <<c[1], c[2] + 1>>

Pushed(a, b, c) ==
  LET n == Offset(a, b) IN
  IF c = n THEN {}
  ELSE {Cell(a, b, Further(n, c))}
         \union (IF Decision(n, c) # 0 THEN {}
                 ELSE CornerCells(Cell(a, b, <<c[1] + 1, c[2]>>), Cell(a, b, <<c[1], c[2] + 1>>)))

\* supercoverLine: the cells the segment between the centres touches, without
\* the first.
SupercoverLine(a, b) ==
  LET n == Offset(a, b)
      at[k \in 0 .. n[1] + n[2]] == IF k = 0 THEN <<0, 0>> ELSE Further(n, at[k - 1])
  IN (UNION {Pushed(a, b, at[k]) : k \in 0 .. n[1] + n[2]}) \ {a}

\* lineIsOpen, which answers for sight and for effect alike.
LineIsOpen(a, b) ==
  \A t \in SupercoverLine(a, b) : t \in Tiles /\ terrain[t] # "blocked"

-----------------------------------------------------------------------------

\* The questions a battle may ask: an actor on a tile it can stand on, nobody
\* else there, friends and foes on tiles of their own.
Question ==
  /\ terrain \in [Tiles -> Terrains]
  /\ from \in Tiles
  /\ foes \in SUBSET (Tiles \ {from})
  /\ allies \in SUBSET (Tiles \ {from})
  /\ foes \intersect allies = {}
  /\ speed \in Nat
  /\ band \in Bands

PathfindingInit ==
  /\ Question
  /\ SearchInit
  /\ walker = [at |-> from, spent |-> 0]

PathfindingNext == Expand \/ Walk

PathfindingSpec == PathfindingInit /\ [][PathfindingNext]_pathfindingVars

-----------------------------------------------------------------------------
(* Properties *)

\* Wherever one can walk within the allowance, the search has found at no
\* greater cost, and where one may stop there it is among the targets: no square
\* is missing and none is overpriced.
NoCheaperWay ==
  Searched =>
    /\ visited[walker.at] # Unvisited
    /\ visited[walker.at].cost <= walker.spent
    /\ (walker.at # from /\ walker.at \notin foes \union allies)
         => (band = "step" /\ terrain[walker.at] = "difficult") \/ walker.at \in MovementTargets

\* A node is final when it is first found: expanding in the order of cost never
\* has to repair an earlier node, so each tile is expanded once and the search
\* is over after as many rounds as there are tiles.
FirstFoundIsFinal ==
  [][\A t \in Tiles : visited[t] # Unvisited => visited'[t] = visited[t]]_pathfindingVars

\* Whoever sees somebody is seen: between tiles that are not blocked themselves
\* lines are open in both directions or in none.
SightIsMutual ==
  \A a, b \in Tiles :
    (terrain[a] # "blocked" /\ terrain[b] # "blocked")
      => (LineIsOpen(a, b) <=> LineIsOpen(b, a))
=============================================================================
