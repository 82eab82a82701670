----------------------------- MODULE RulesProofs -----------------------------
(***************************************************************************)
(* Proofs about what the rules compute: the routes the search finds and    *)
(* the numbers of a fight.                                                 *)
(*                                                                         *)
(* For every map, every placing of friends and foes, every speed and every *)
(* kind of movement: the search neither misses nor overprices a square,    *)
(* and a node is final when it is first found.  The argument is            *)
(* Dijkstra's.  Entries leave the frontier in the order of their cost, so  *)
(* a tile is first reached from the cheapest of its neighbours and no      *)
(* later expansion improves it (Ordered).  A node that left the frontier   *)
(* has offered each neighbour its price (Settled); when the frontier is    *)
(* empty that holds for all nodes, and a walk can never get ahead of the   *)
(* prices, step by step (WalkerFound).                                     *)
(*                                                                         *)
(* For every roll, modifier, difficulty class, dice and condition: a       *)
(* better modifier or roll is never punished, damage stays within what the *)
(* preview shows, and fear wears off the same whether frights are merged   *)
(* before or after a turn ends.  Of every list of modifiers one bonus and  *)
(* one penalty of each type count, and no other is greater or worse: the   *)
(* pass for each keeps the first of the best (ScanFindsGreatest).          *)
(*                                                                         *)
(* For any two tiles: the loop of supercoverLine collects exactly the cells *)
(* whose centre is near enough to the segment (Touches), and that says the *)
(* same of a line and of its reverse.  Round by round what is touched up   *)
(* to the cell the loop has come to is what has been pushed (RoundsTouch). *)
(*                                                                         *)
(* For every authored content, any fighters and any rolls: what lasts lasts *)
(* as long as it should.  Exact is kept by each effect an action may have, *)
(* hence by any number of them, within a turn; the end of a turn keeps it  *)
(* with the turn's number in the history (NextTurn).                       *)
(*                                                                         *)
(* And: a save accepts every state of a fight, and defeat is final.  Hit   *)
(* points stay within their bounds because every sum of modifiers is an    *)
(* integer (StackType) and all damage a natural number; while the combat   *)
(* lasts both sides have somebody standing, so the next turn is somebody's *)
(* who stands (NextStands).  What fells comes before what conditions, so   *)
(* nobody falls with a condition of the same action (EffectsFit), and only *)
(* the target of an action, never whoever acts, can fall (ActionFits).     *)
(***************************************************************************)
EXTENDS Pathfinding, Skirmish, FiniteSetTheorems, SequenceTheorems, WellFoundedInduction, TLAPS

\* A set of natural numbers has a least one.
LEMMA LeastNatural ==
  ASSUME NEW S, S \subseteq Nat, S # {}
  PROVE  \E x \in S : \A y \in S : x <= y
<1> DEFINE R == OpToRel(<, Nat)
<1>1. IsWellFoundedOn(R, Nat)
  BY NatLessThanWellFounded
<1>2. PICK x \in S : \A y \in S : ~(<<y, x>> \in R)
  <2> HIDE DEF R
  <2> QED BY <1>1, WFMin
<1>3. ASSUME NEW y \in S PROVE x <= y
  <2>1. ~(y < x)
    BY <1>2, <1>3 DEF OpToRel
  <2>2. x \in Nat /\ y \in Nat
    BY <1>3
  <2> QED BY <2>1, <2>2
<1> QED BY <1>2, <1>3

-----------------------------------------------------------------------------
(* The search *)

Nodes == [cost : Nat, path : Seq(Tiles)]
Entries == [tile : Tiles, node : Nodes]

PathfindingTypeOK ==
  /\ Question
  /\ visited \in [Tiles -> Nodes \union {Unvisited}]
  /\ frontier \subseteq Entries
  /\ horizon \in Nat
  /\ walker \in [at : Tiles, spent : Nat]

Found(t) == visited[t] # Unvisited

\* The start is free, anything else was entered within the allowance, and every
\* square of its path took at least five feet.
Entered ==
  /\ Found(from) /\ visited[from].cost = 0
  /\ \A t \in Tiles \ {from} : Found(t) =>
       /\ CanEnter(t)
       /\ visited[t].cost <= MaximumCost
       /\ Len(visited[t].path) >= 1
  /\ \A t \in Tiles : Found(t) => visited[t].cost >= 5 * Len(visited[t].path)

\* An entry of the frontier is the node of its tile, is not cheaper than what has
\* been expanded, and no node is dearer than one step beyond that.
Ordered ==
  /\ \A e \in frontier : visited[e.tile] = e.node /\ e.node.cost >= horizon
  /\ \A t \in Tiles : Found(t) => visited[t].cost <= horizon + MovementCost(t)

Settled ==
  \A t, u \in Tiles :
    (/\ Found(t) /\ Entry(t, visited[t]) \notin frontier
     /\ Adjacent(t, u) /\ CanEnter(u)
     /\ visited[t].cost + MovementCost(u) <= MaximumCost)
    => Found(u) /\ visited[u].cost <= visited[t].cost + MovementCost(u)

WalkerFound ==
  /\ ~Searched => walker = [at |-> from, spent |-> 0]
  /\ Searched => Found(walker.at) /\ visited[walker.at].cost <= walker.spent

SearchInv == PathfindingTypeOK /\ Entered /\ Ordered /\ Settled /\ WalkerFound

-----------------------------------------------------------------------------
(* Prices *)

LEMMA PriceType == \A t \in Tiles : MovementCost(t) \in {5, 10}
  BY DEF MovementCost

\* A path one tile longer costs five feet more at least.
LEMMA OneStepDearer ==
  \A cost, length, step \in Nat :
    cost >= 5 * length /\ step >= 5 => cost + step >= 5 * (length + 1)
  OBVIOUS

LEMMA MaximumType == Question => MaximumCost \in Nat
  BY DEF Question, MaximumCost

LEMMA NodeIsFound == \A node \in Nodes : node # Unvisited
  BY UnvisitedAssumption DEF Nodes

\* The node a step leads to.
LEMMA ReachType ==
  ASSUME NEW current \in Entries, NEW t \in Tiles
  PROVE  /\ Reach(current, t) \in Nodes
         /\ Reach(current, t).cost = current.node.cost + MovementCost(t)
         /\ Len(Reach(current, t).path) = Len(current.node.path) + 1
         /\ Len(Reach(current, t).path) >= 1
         /\ Entry(t, Reach(current, t)) \in Entries
<1>1. current.node \in Nodes
  BY DEF Entries
<1>2. current.node.cost \in Nat /\ current.node.path \in Seq(Tiles)
  BY <1>1 DEF Nodes
<1>3. Append(current.node.path, t) \in Seq(Tiles)
      /\ Len(Append(current.node.path, t)) = Len(current.node.path) + 1
      /\ Len(current.node.path) \in Nat
  BY <1>2
<1>4. current.node.cost + MovementCost(t) \in Nat
  BY <1>2, PriceType
<1> QED
  BY <1>2, <1>3, <1>4 DEF Reach, Node, Nodes, Entry, Entries

\* Taken in order of cost, nothing that stays in the frontier is cheaper.
LEMMA LeastIsCheapest ==
  ASSUME frontier \subseteq Entries, NEW current \in frontier, IsLeast(current)
  PROVE  \A other \in frontier : other.node.cost >= current.node.cost
<1> SUFFICES ASSUME NEW other \in frontier, other # current
             PROVE  other.node.cost >= current.node.cost
  BY DEF Entries, Nodes
<1>1. ~(other.node.cost < current.node.cost)
  BY DEF IsLeast, Before
<1> QED
  BY <1>1 DEF Entries, Nodes

\* No node is ever improved: what an expansion changes was not found before.
LEMMA OnlyNewTiles ==
  ASSUME SearchInv, NEW current \in frontier, NEW t \in Tiles, Improves(current, t)
  PROVE  ~Found(t)
<1> SUFFICES ASSUME Found(t) PROVE FALSE
  OBVIOUS
<1>1. current.node.cost >= horizon /\ visited[t].cost <= horizon + MovementCost(t)
  BY DEF SearchInv, Ordered
<1>2. current.node.cost + MovementCost(t) < visited[t].cost
  BY DEF Improves, Found
<1>3. current.node.cost \in Nat /\ horizon \in Nat /\ visited[t].cost \in Nat
  BY DEF SearchInv, PathfindingTypeOK, Entries, Nodes, Found
<1> QED
  BY <1>1, <1>2, <1>3, PriceType

-----------------------------------------------------------------------------
(* The first state *)

LEMMA InitEstablishes == PathfindingInit => SearchInv
<1> SUFFICES ASSUME PathfindingInit PROVE SearchInv
  OBVIOUS
<1> USE DEF PathfindingInit, SearchInit
<1>1. Node(0, <<>>) \in Nodes /\ Node(0, <<>>).cost = 0 /\ Len(Node(0, <<>>).path) = 0
  BY DEF Node, Nodes
<1>2. from \in Tiles
  BY DEF Question
<1>3. PathfindingTypeOK
  BY <1>1, <1>2 DEF PathfindingTypeOK, Entries, Entry
<1>4. visited[from] = Node(0, <<>>) /\ \A t \in Tiles : Found(t) => t = from
  BY <1>2 DEF Found
<1>5. Found(from)
  BY <1>1, <1>4, NodeIsFound DEF Found
<1>6. Entered
  BY <1>1, <1>4, <1>5 DEF Entered
<1>7. Ordered
  BY <1>1, <1>2, <1>4, PriceType DEF Ordered, Entry
<1>8. Settled
  BY <1>4 DEF Settled
<1>9. WalkerFound
  BY DEF WalkerFound, Searched
<1> QED
  BY <1>3, <1>6, <1>7, <1>8, <1>9 DEF SearchInv

-----------------------------------------------------------------------------
(* The steps *)

LEMMA ExpandPreserves == SearchInv /\ Expand => SearchInv'
<1> SUFFICES ASSUME SearchInv, Expand PROVE SearchInv'
  OBVIOUS
<1> PICK current \in frontier :
       /\ IsLeast(current)
       /\ visited' = [t \in Tiles |-> IF t \in {u \in Tiles : Improves(current, u)}
                                        THEN Reach(current, t) ELSE visited[t]]
       /\ frontier' = (frontier \ {current})
            \union {Entry(t, Reach(current, t)) : t \in {u \in Tiles : Improves(current, u)}}
       /\ horizon' = current.node.cost
       /\ UNCHANGED <<question, walker>>
  BY DEF Expand
<1> DEFINE new == {u \in Tiles : Improves(current, u)}
<1>1. PathfindingTypeOK /\ Entered /\ Ordered /\ Settled /\ WalkerFound
  BY DEF SearchInv
<1>2. /\ terrain' = terrain /\ foes' = foes /\ allies' = allies /\ from' = from
      /\ speed' = speed /\ band' = band /\ walker' = walker
  BY DEF question
<1>3. current \in Entries /\ current.tile \in Tiles /\ current.node \in Nodes
      /\ current.node.cost \in Nat /\ Len(current.node.path) \in Nat
  BY <1>1 DEF PathfindingTypeOK, Entries, Nodes
<1>4. Found(current.tile) /\ visited[current.tile] = current.node
  BY <1>1, <1>3, NodeIsFound DEF Ordered, Found
<1>5. \A t \in new : ~Found(t) /\ t # current.tile /\ t # from
  BY <1>1, <1>4, OnlyNewTiles DEF Entered
<1>6. \A t \in Tiles : visited'[t] = IF t \in new THEN Reach(current, t) ELSE visited[t]
  OBVIOUS
<1>7. \A t \in new : Found(t)'
  BY <1>3, <1>6, ReachType, NodeIsFound DEF Found
<1>8. \A t \in Tiles : Found(t) => Found(t)' /\ visited'[t] = visited[t]
  BY <1>5, <1>6 DEF Found
<1>9. \A t \in Tiles : Found(t)' => Found(t) \/ t \in new
  BY <1>6 DEF Found
<1>10. \A t \in Tiles : MovementCost(t)' = MovementCost(t) /\ (CanEnter(t)' <=> CanEnter(t))
  BY <1>2 DEF MovementCost, OverLand, CanEnter, CanTraverse, Closed
<1>11. MaximumCost' = MaximumCost /\ MaximumCost \in Nat
  BY <1>1, <1>2, MaximumType DEF MaximumCost, PathfindingTypeOK
<1>12. \A t \in Tiles : Found(t) => visited[t] \in Nodes /\ visited[t].cost \in Nat
                                    /\ Len(visited[t].path) \in Nat
  BY <1>1 DEF PathfindingTypeOK, Found, Nodes
<1>12a. \A t \in new : /\ visited'[t] = Reach(current, t)
                      /\ visited'[t].cost = current.node.cost + MovementCost(t)
                      /\ MovementCost(t) \in Nat /\ horizon' = current.node.cost
  BY <1>3, <1>6, ReachType, PriceType
<1>13. PathfindingTypeOK'
  <2>1. Question'
    BY <1>1, <1>2 DEF PathfindingTypeOK, Question
  <2>2. visited' \in [Tiles -> Nodes \union {Unvisited}]
    BY <1>1, <1>3, ReachType DEF PathfindingTypeOK
  <2>3. frontier' \subseteq Entries
    BY <1>1, <1>3, ReachType DEF PathfindingTypeOK
  <2> QED
    BY <1>1, <1>2, <1>3, <2>1, <2>2, <2>3 DEF PathfindingTypeOK
<1>14. Entered'
  <2>1. Found(from)' /\ (visited[from].cost = 0)'
    BY <1>1, <1>2, <1>8 DEF Entered, PathfindingTypeOK, Question
  <2>2. ASSUME NEW t \in Tiles, t # from, Found(t)'
        PROVE  CanEnter(t) /\ visited'[t].cost <= MaximumCost /\ Len(visited'[t].path) >= 1
    <3>1. CASE Found(t)
      BY <1>1, <1>8, <2>2, <3>1 DEF Entered
    <3>2. CASE t \in new
      BY <1>3, <1>6, <3>2, ReachType DEF Improves
    <3> QED
      BY <1>9, <2>2, <3>1, <3>2
  <2>3. ASSUME NEW t \in Tiles, Found(t)'
        PROVE  visited'[t].cost >= 5 * Len(visited'[t].path)
    <3>1. CASE Found(t)
      BY <1>1, <1>8, <3>1 DEF Entered
    <3>2. CASE t \in new
      <4>1. current.node.cost >= 5 * Len(current.node.path)
        BY <1>1, <1>3, <1>4 DEF Entered
      <4>2. /\ visited'[t].cost = current.node.cost + MovementCost(t)
            /\ Len(visited'[t].path) = Len(current.node.path) + 1
        BY <1>3, <1>6, <3>2, ReachType
      <4>3. current.node.cost \in Nat /\ Len(current.node.path) \in Nat
        <5>1. current.node \in Nodes
          BY <1>3 DEF Entries
        <5> QED
          BY <5>1 DEF Nodes
      <4>4. MovementCost(t) \in Nat /\ MovementCost(t) >= 5
        BY PriceType
      <4>5. current.node.cost + MovementCost(t) >= 5 * (Len(current.node.path) + 1)
        BY <4>1, <4>3, <4>4, OneStepDearer
      <4> QED
        BY <4>2, <4>5
    <3> QED
      BY <1>9, <2>3, <3>1, <3>2
  <2> QED
    BY <1>2, <1>10, <1>11, <2>1, <2>2, <2>3 DEF Entered
<1>15. Ordered'
  <2>1. ASSUME NEW e \in frontier' PROVE visited'[e.tile] = e.node /\ e.node.cost >= horizon'
    <3>1. CASE e \in frontier
      <4>1. e.tile \in Tiles /\ e.node \in Nodes /\ visited[e.tile] = e.node
        BY <1>1, <3>1 DEF PathfindingTypeOK, Entries, Ordered
      <4>2. Found(e.tile)
        BY <4>1, NodeIsFound DEF Found
      <4>3. e.node.cost >= current.node.cost
        BY <1>1, <3>1, LeastIsCheapest DEF PathfindingTypeOK
      <4> QED
        BY <1>8, <4>1, <4>2, <4>3
    <3>2. CASE \E t \in new : e = Entry(t, Reach(current, t))
      <4> PICK t \in new : e = Entry(t, Reach(current, t))
        BY <3>2
      <4>1. e.tile = t /\ e.node = Reach(current, t)
        BY DEF Entry
      <4>2. visited'[t] = Reach(current, t) /\ horizon' = current.node.cost
            /\ visited'[t].cost >= current.node.cost
        BY <1>3, <1>12a
      <4> QED
        BY <4>1, <4>2
    <3> QED
      BY <2>1, <3>1, <3>2
  <2>2. ASSUME NEW t \in Tiles, Found(t)'
        PROVE  visited'[t].cost <= horizon' + MovementCost(t)
    <3>1. CASE Found(t)
      <4>1. visited[t].cost <= horizon + MovementCost(t) /\ horizon <= current.node.cost
        BY <1>1, <3>1 DEF Ordered, PathfindingTypeOK
      <4> QED
        BY <1>1, <1>3, <1>8, <1>12, <3>1, <4>1, PriceType DEF PathfindingTypeOK
    <3>2. CASE t \in new
      BY <1>3, <1>12a, <3>2
    <3> QED
      BY <1>9, <2>2, <3>1, <3>2
  <2> QED
    BY <1>10, <2>1, <2>2 DEF Ordered
<1>16. Settled'
  <2> SUFFICES ASSUME NEW t \in Tiles, NEW u \in Tiles,
                      Found(t)', Entry(t, visited'[t]) \notin frontier',
                      Adjacent(t, u), CanEnter(u),
                      visited'[t].cost + MovementCost(u) <= MaximumCost
               PROVE  Found(u)' /\ visited'[u].cost <= visited'[t].cost + MovementCost(u)
    BY <1>10, <1>11 DEF Settled
  <2>1. t \notin new
    BY <1>6
  <2>2. Found(t) /\ visited'[t] = visited[t]
    BY <1>8, <1>9, <2>1
  <2>3. CASE t = current.tile
    <3>1. visited[t].cost = current.node.cost
      BY <1>4, <2>3
    <3>2. CASE u \in new
      BY <1>3, <1>7, <1>12a, <2>2, <3>1, <3>2
    <3>3. CASE u \notin new
      <4>1. ~Improves(current, u)
        BY <3>3
      <4>2. Found(u) /\ ~(current.node.cost + MovementCost(u) < visited[u].cost)
        BY <2>2, <2>3, <3>1, <4>1 DEF Improves, Found
      <4> QED
        BY <1>3, <1>8, <1>12, <2>2, <3>1, <4>2, PriceType
    <3> QED
      BY <3>2, <3>3
  <2>4. CASE t # current.tile
    <3>1. Entry(t, visited[t]) # current
      BY <2>4 DEF Entry
    <3>2. Entry(t, visited[t]) \notin frontier
      BY <2>2, <3>1
    <3>3. Found(u) /\ visited[u].cost <= visited[t].cost + MovementCost(u)
      BY <1>1, <2>2, <3>2 DEF Settled
    <3> QED
      BY <1>8, <2>2, <3>3
  <2> QED
    BY <2>3, <2>4
<1>17. WalkerFound'
  <2>1. ~Searched /\ walker = [at |-> from, spent |-> 0]
    BY <1>1 DEF WalkerFound, Searched
  <2>2. walker'.at = from' /\ walker'.spent = 0
    BY <1>2, <2>1
  <2> QED
    BY <1>2, <1>14, <2>1, <2>2 DEF WalkerFound, Entered, Searched
<1> QED
  BY <1>13, <1>14, <1>15, <1>16, <1>17 DEF SearchInv

LEMMA WalkPreserves == SearchInv /\ Walk => SearchInv'
<1> SUFFICES ASSUME SearchInv, Walk PROVE SearchInv'
  OBVIOUS
<1>1. PathfindingTypeOK /\ Entered /\ Ordered /\ Settled /\ WalkerFound /\ Searched
  BY DEF SearchInv, Walk
<1>2. PICK t \in Tiles :
        /\ Adjacent(walker.at, t) /\ CanEnter(t)
        /\ walker.spent + MovementCost(t) <= MaximumCost
        /\ walker' = [at |-> t, spent |-> walker.spent + MovementCost(t)]
  BY DEF Walk
<1>3. /\ terrain' = terrain /\ foes' = foes /\ allies' = allies /\ from' = from
      /\ speed' = speed /\ band' = band
      /\ visited' = visited /\ frontier' = frontier /\ horizon' = horizon
  BY DEF Walk, question, search
<1>4. walker.at \in Tiles /\ walker.spent \in Nat /\ MaximumCost \in Nat
  BY <1>1, MaximumType DEF PathfindingTypeOK
<1>5. Found(walker.at) /\ visited[walker.at].cost <= walker.spent
      /\ visited[walker.at].cost \in Nat
  BY <1>1, <1>4 DEF WalkerFound, PathfindingTypeOK, Found, Nodes
<1>6. Found(t) /\ visited[t].cost <= visited[walker.at].cost + MovementCost(t)
  <2>1. Entry(walker.at, visited[walker.at]) \notin frontier
    BY <1>1 DEF Searched
  <2>2. visited[walker.at].cost + MovementCost(t) <= MaximumCost
    BY <1>2, <1>4, <1>5, PriceType
  <2> QED
    BY <1>1, <1>2, <1>4, <1>5, <2>1, <2>2 DEF Settled
<1>7. visited[t].cost \in Nat
  BY <1>1, <1>6 DEF PathfindingTypeOK, Found, Nodes
<1>8. WalkerFound'
  BY <1>1, <1>2, <1>3, <1>4, <1>5, <1>6, <1>7, PriceType DEF WalkerFound, Searched, Found
<1>9. walker' \in [at : Tiles, spent : Nat]
  BY <1>2, <1>4, PriceType
<1>10. PathfindingTypeOK'
  BY <1>1, <1>3, <1>9 DEF PathfindingTypeOK, Question
<1>11. Entered'
  BY <1>1, <1>3 DEF Entered, Found, CanEnter, CanTraverse, Closed, OverLand, MaximumCost
<1>12. Ordered' /\ Settled'
  BY <1>1, <1>3 DEF Ordered, Settled, Found, CanEnter, CanTraverse, Closed, OverLand,
                    MaximumCost, MovementCost
<1> QED
  BY <1>8, <1>10, <1>11, <1>12 DEF SearchInv

LEMMA StutterPreserves == SearchInv /\ UNCHANGED pathfindingVars => SearchInv'
  BY DEF SearchInv, PathfindingTypeOK, Entered, Ordered, Settled, WalkerFound, Question, Found,
         CanEnter, CanTraverse, Closed, OverLand, MaximumCost, MovementCost, Searched,
         pathfindingVars, question, search

\* The inductive invariant of the search, for every map and every question.
THEOREM SearchInvariant == PathfindingSpec => []SearchInv
<1>1. SearchInv /\ [PathfindingNext]_pathfindingVars => SearchInv'
  BY ExpandPreserves, WalkPreserves, StutterPreserves DEF PathfindingNext
<1> QED
  BY <1>1, InitEstablishes, PTL DEF PathfindingSpec

-----------------------------------------------------------------------------
(* What the search promises *)

\* findReachableTiles and movementTargets miss no square that can be walked to
\* and price none above its cheapest way.
THEOREM SearchIsComplete == PathfindingSpec => []NoCheaperWay
<1>1. SearchInv => NoCheaperWay
  <2> SUFFICES ASSUME SearchInv, Searched
               PROVE  /\ Found(walker.at) /\ visited[walker.at].cost <= walker.spent
                      /\ (walker.at # from /\ walker.at \notin foes \union allies)
                           => (band = "step" /\ terrain[walker.at] = "difficult")
                              \/ walker.at \in MovementTargets
    BY DEF NoCheaperWay, Found
  <2>1. Found(walker.at) /\ visited[walker.at].cost <= walker.spent /\ walker.at \in Tiles
    BY DEF SearchInv, WalkerFound, PathfindingTypeOK
  <2> SUFFICES ASSUME walker.at # from, walker.at \notin foes \union allies,
                      ~(band = "step" /\ terrain[walker.at] = "difficult")
               PROVE  walker.at \in MovementTargets
    BY <2>1
  <2>2. walker.at \in Reachable
    BY <2>1 DEF Reachable, CanStop, Found
  <2>3. CASE band # "step"
    BY <2>2, <2>3 DEF MovementTargets
  <2>4. CASE band = "step"
    <3>1. CanEnter(walker.at) /\ visited[walker.at].cost <= MaximumCost
          /\ Len(visited[walker.at].path) >= 1
          /\ visited[walker.at].cost >= 5 * Len(visited[walker.at].path)
      BY <2>1 DEF SearchInv, Entered
    <3>2. MaximumCost = 5
      BY <2>4 DEF MaximumCost
    <3>3. visited[walker.at].cost \in Nat /\ Len(visited[walker.at].path) \in Nat
      BY <2>1 DEF SearchInv, PathfindingTypeOK, Found, Nodes
    <3>4. Len(visited[walker.at].path) = 1
      <4>1. \A c, n \in Nat : c <= 5 /\ n >= 1 /\ c >= 5 * n => n = 1
        OBVIOUS
      <4> QED
        BY <3>1, <3>2, <3>3, <4>1
    <3>5. CanStepOnto(walker.at)
      BY <2>4, <3>1 DEF CanStepOnto, CanEnter, MovementCost
    <3> QED
      BY <2>2, <2>4, <3>4, <3>5 DEF MovementTargets
  <2> QED
    BY <2>3, <2>4
<1> QED
  BY <1>1, SearchInvariant, PTL

\* No expansion repairs an earlier one.
THEOREM NodesAreFinal == PathfindingSpec => FirstFoundIsFinal
<1>1. SearchInv /\ [PathfindingNext]_pathfindingVars
        => [\A t \in Tiles : visited[t] # Unvisited => visited'[t] = visited[t]]_pathfindingVars
  <2> SUFFICES ASSUME SearchInv, PathfindingNext, NEW t \in Tiles, visited[t] # Unvisited
               PROVE  visited'[t] = visited[t]
    OBVIOUS
  <2>1. CASE Expand
    <3> PICK current \in frontier :
          visited' = [u \in Tiles |-> IF u \in {v \in Tiles : Improves(current, v)}
                                        THEN Reach(current, u) ELSE visited[u]]
      BY <2>1 DEF Expand
    <3>1. ~Improves(current, t)
      BY OnlyNewTiles DEF Found
    <3> QED
      BY <3>1
  <2>2. CASE Walk
    BY <2>2 DEF Walk, search
  <2> QED
    BY <2>1, <2>2 DEF PathfindingNext
<1> QED
  BY <1>1, SearchInvariant, PTL DEF PathfindingSpec, FirstFoundIsFinal

-----------------------------------------------------------------------------
(* Lines of sight *)

\* A line n columns and rows long touches the cells whose centre lies within half
\* a cell of it, measured along both axes together, corners included.
Touches(n, c) ==
  /\ 2 * (c[1] * n[2] - c[2] * n[1]) <= n[1] + n[2]
  /\ 2 * (c[2] * n[1] - c[1] * n[2]) <= n[1] + n[2]

\* Strictly, its corners excluded.
Crosses(n, c) ==
  /\ 2 * (c[1] * n[2] - c[2] * n[1]) < n[1] + n[2]
  /\ 2 * (c[2] * n[1] - c[1] * n[2]) < n[1] + n[2]

Box(n) == (0 .. n[1]) \X (0 .. n[2])

\* The cells the line touches up to the column and row of c.
TouchedUpTo(a, b, c) ==
  {Cell(a, b, e) : e \in {e \in Box(Offset(a, b)) :
                            Touches(Offset(a, b), e) /\ e[1] <= c[1] /\ e[2] <= c[2]}}

Touched(a, b) == TouchedUpTo(a, b, Offset(a, b))

\* A multiple further on is greater by one multiple at least.
LEMMA Multiples ==
  ASSUME NEW m \in Nat, NEW k \in Nat, NEW w \in Nat
  PROVE  /\ m * w \in Nat
         /\ (m + 1) * w = m * w + w
         /\ m < k => m * w + w <= k * w
         /\ m <= k => m * w <= k * w
<1>1. m * w \in Nat /\ k * w \in Nat
  OBVIOUS
<1>2. (m + 1) * w = m * w + w
  OBVIOUS
<1>3. ASSUME NEW d \in Nat PROVE (m + d) * w = m * w + d * w /\ d * w \in Nat
  OBVIOUS
<1>4. CASE m < k
  <2>1. k - m - 1 \in Nat /\ (m + 1) + (k - m - 1) = k
    BY <1>4
  <2>2. ((m + 1) + (k - m - 1)) * w = (m + 1) * w + (k - m - 1) * w /\ (k - m - 1) * w \in Nat
    BY <2>1
  <2> QED BY <1>1, <1>2, <2>1, <2>2
<1>5. CASE m = k
  BY <1>1, <1>2, <1>5
<1>6. CASE m > k
  BY <1>1, <1>2, <1>6
<1> QED BY <1>4, <1>5, <1>6

LEMMA OffsetType ==
  ASSUME NEW a \in Tiles, NEW b \in Tiles
  PROVE  /\ Offset(a, b) \in Nat \X Nat
         /\ Offset(a, b)[1] \in Nat /\ Offset(a, b)[2] \in Nat
BY SizeAssumption DEF Tiles, Offset, Abs

\* Beyond the last column there is only up, beyond the last row only sideways.
LEMMA StaysInBox ==
  ASSUME NEW x \in Nat, NEW y \in Nat, NEW i \in 0 .. x, NEW j \in 0 .. y,
         <<i, j>> # <<x, y>>, Crosses(<<x, y>>, <<i, j>>)
  PROVE  /\ Further(<<x, y>>, <<i, j>>) \in Box(<<x, y>>)
         /\ Crosses(<<x, y>>, Further(<<x, y>>, <<i, j>>))
<1> DEFINE d == (1 + 2 * i) * y - (1 + 2 * j) * x
           p == i * y
           q == j * x
<1>1. p \in Nat /\ q \in Nat /\ d = y + 2 * p - x - 2 * q
  BY Multiples
<1>2. d = Decision(<<x, y>>, <<i, j>>)
  BY DEF Decision
<1>3. /\ (i + 1) * y = p + y /\ (j + 1) * x = q + x
  BY Multiples
<1>4. 2 * (p - q) < x + y /\ 2 * (q - p) < x + y
  BY DEF Crosses
<1>5. i # x \/ j # y
  OBVIOUS
<1>6. i = x => p = y * x
  OBVIOUS
<1>7. j < y => q + x <= y * x
  BY Multiples
<1>8. j = y => q = y * x
  OBVIOUS
<1>9. i < x => p + y <= y * x
  BY Multiples
<1> HIDE DEF p, q
<1>10. i = x => d > 0
  BY <1>1, <1>5, <1>6, <1>7
<1>11. j = y => d < 0
  BY <1>1, <1>5, <1>8, <1>9
<1>15. d \in Int
  BY <1>1
<1> HIDE DEF d
<1>12. CASE d = 0
  <2>1. Further(<<x, y>>, <<i, j>>) = <<i + 1, j + 1>>
    BY <1>2, <1>12 DEF Further
  <2>2. i < x /\ j < y
    BY <1>10, <1>11, <1>12
  <2>3. Crosses(<<x, y>>, <<i + 1, j + 1>>)
    BY <1>1, <1>3, <1>12, <2>2 DEF Crosses
  <2> QED BY <2>1, <2>2, <2>3 DEF Box
<1>13. CASE d < 0
  <2>1. Further(<<x, y>>, <<i, j>>) = <<i + 1, j>>
    BY <1>2, <1>13 DEF Further
  <2>2. i < x
    BY <1>10, <1>13, <1>15
  <2>3. Crosses(<<x, y>>, <<i + 1, j>>)
    BY <1>1, <1>3, <1>4, <1>13 DEF Crosses, p, q
  <2> QED BY <2>1, <2>2, <2>3 DEF Box
<1>14. CASE d > 0
  <2>1. Further(<<x, y>>, <<i, j>>) = <<i, j + 1>>
    BY <1>2, <1>14, <1>15 DEF Further
  <2>2. j < y
    BY <1>11, <1>14, <1>15
  <2>3. Crosses(<<x, y>>, <<i, j + 1>>)
    BY <1>1, <1>3, <1>4, <1>14 DEF Crosses, p, q
  <2> QED BY <2>1, <2>2, <2>3 DEF Box
<1> QED BY <1>12, <1>13, <1>14, <1>15

\* The round from c adds e exactly when it goes to it or, at a corner, beside it.
RoundAdds(n, c, e) ==
  (Touches(n, e) /\ e[1] <= Further(n, c)[1] /\ e[2] <= Further(n, c)[2])
  <=> \/ Touches(n, e) /\ e[1] <= c[1] /\ e[2] <= c[2]
      \/ e = Further(n, c)
      \/ Decision(n, c) = 0 /\ e \in {<<c[1] + 1, c[2]>>, <<c[1], c[2] + 1>>}

\* Nothing else in the column and row it comes to is touched.
LEMMA RoundTouches ==
  ASSUME NEW x \in Nat, NEW y \in Nat, NEW i \in 0 .. x, NEW j \in 0 .. y,
         <<i, j>> # <<x, y>>, Crosses(<<x, y>>, <<i, j>>),
         NEW u \in 0 .. x, NEW v \in 0 .. y
  PROVE  RoundAdds(<<x, y>>, <<i, j>>, <<u, v>>)
<1> DEFINE d == (1 + 2 * i) * y - (1 + 2 * j) * x
           p == i * y
           q == j * x
           P == u * y
           Q == v * x
           touched == 2 * (P - Q) <= x + y /\ 2 * (Q - P) <= x + y
<1>1. p \in Nat /\ q \in Nat /\ P \in Nat /\ Q \in Nat /\ d = y + 2 * p - x - 2 * q
  BY Multiples
<1>2. d = Decision(<<x, y>>, <<i, j>>)
  BY DEF Decision
<1>3. 2 * (p - q) < x + y /\ 2 * (q - p) < x + y
  BY DEF Crosses
<1>4. Touches(<<x, y>>, <<u, v>>) <=> touched
  BY DEF Touches
<1>5. (i + 1) * y = p + y /\ (j + 1) * x = q + x
  BY Multiples
<1>6. /\ u < i => P + y <= p
      /\ u = i => P = p
      /\ u = i + 1 => P = p + y
      /\ u <= i => P <= p
  BY Multiples
<1>7. /\ v < j => Q + x <= q
      /\ v = j => Q = q
      /\ v = j + 1 => Q = q + x
      /\ v <= j => Q <= q
  BY Multiples
<1>8. x >= 1 \/ i = x
  OBVIOUS
<1>9. y >= 1 \/ j = y
  OBVIOUS
<1> HIDE DEF p, q, P, Q
<1>10. d \in Int
  BY <1>1
<1>11. Further(<<x, y>>, <<i, j>>) \in Box(<<x, y>>)
  BY StaysInBox
<1> HIDE DEF d
<1>12. CASE d = 0
  <2>1. Further(<<x, y>>, <<i, j>>) = <<i + 1, j + 1>>
    BY <1>2, <1>12 DEF Further
  <2>2. i + 1 <= x /\ j + 1 <= y
    BY <1>11, <2>1 DEF Box
  <2>3. u = i + 1 /\ v < j => ~touched
    BY <1>1, <1>6, <1>7, <1>12, <2>2
  <2>4. u < i /\ v = j + 1 => ~touched
    BY <1>1, <1>6, <1>7, <1>12, <2>2
  <2>5. (u = i + 1 /\ v = j) \/ (u = i /\ v = j + 1) \/ (u = i + 1 /\ v = j + 1) => touched
    BY <1>1, <1>6, <1>7, <1>12, <2>2
  <2> HIDE DEF touched
  <2> QED BY <1>2, <1>4, <1>12, <2>1, <2>3, <2>4, <2>5 DEF RoundAdds
<1>13. CASE d < 0
  <2>1. Further(<<x, y>>, <<i, j>>) = <<i + 1, j>>
    BY <1>2, <1>13 DEF Further
  <2>2. i + 1 <= x
    BY <1>11, <2>1 DEF Box
  <2>3. u = i + 1 /\ v < j => ~touched
    BY <1>1, <1>3, <1>6, <1>7, <2>2
  <2>4. u = i + 1 /\ v = j => touched
    BY <1>1, <1>3, <1>6, <1>7, <1>13
  <2> HIDE DEF touched
  <2> QED BY <1>2, <1>4, <1>13, <2>1, <2>3, <2>4 DEF RoundAdds
<1>14. CASE d > 0
  <2>1. Further(<<x, y>>, <<i, j>>) = <<i, j + 1>>
    BY <1>2, <1>10, <1>14 DEF Further
  <2>2. j + 1 <= y
    BY <1>11, <2>1 DEF Box
  <2>3. u < i /\ v = j + 1 => ~touched
    BY <1>1, <1>3, <1>6, <1>7, <2>2
  <2>4. u = i /\ v = j + 1 => touched
    BY <1>1, <1>3, <1>6, <1>7, <1>14
  <2> HIDE DEF touched
  <2> QED BY <1>2, <1>4, <1>10, <1>14, <2>1, <2>3, <2>4 DEF RoundAdds
<1> QED BY <1>10, <1>12, <1>13, <1>14

LEMMA RoundPushes ==
  ASSUME NEW a \in Tiles, NEW b \in Tiles, NEW c \in Box(Offset(a, b)),
         Crosses(Offset(a, b), c), c # Offset(a, b)
  PROVE  TouchedUpTo(a, b, Further(Offset(a, b), c)) = TouchedUpTo(a, b, c) \union Pushed(a, b, c)
<1> DEFINE n == Offset(a, b)
           f == Further(n, c)
           UpTo(g) == {e \in Box(n) : Touches(n, e) /\ e[1] <= g[1] /\ e[2] <= g[2]}
           new == {f} \union (IF Decision(n, c) # 0 THEN {}
                             ELSE {<<c[1] + 1, c[2]>>, <<c[1], c[2] + 1>>})
<1>1. n = <<n[1], n[2]>> /\ n[1] \in Nat /\ n[2] \in Nat
  BY OffsetType
<1>2. c = <<c[1], c[2]>> /\ c[1] \in 0 .. n[1] /\ c[2] \in 0 .. n[2]
  BY DEF Box
<1>3. Pushed(a, b, c) = {Cell(a, b, e) : e \in new}
  BY DEF Pushed, CornerCells
<1>4. Crosses(n, c) /\ c # n
  OBVIOUS
<1> HIDE DEF n
<1>5. f \in Box(n)
  BY <1>1, <1>2, <1>4, StaysInBox
<1>6. new \subseteq Box(n)
  <2>1. Decision(n, c) = 0 => f = <<c[1] + 1, c[2] + 1>>
    BY <1>4 DEF Further
  <2> HIDE DEF f
  <2> QED BY <1>1, <1>2, <1>5, <2>1 DEF Box
<1>7. \A e \in Box(n) :
        (Touches(n, e) /\ e[1] <= f[1] /\ e[2] <= f[2])
        <=> ((Touches(n, e) /\ e[1] <= c[1] /\ e[2] <= c[2]) \/ e \in new)
  <2> TAKE e \in Box(n)
  <2>1. e = <<e[1], e[2]>> /\ e[1] \in 0 .. n[1] /\ e[2] \in 0 .. n[2]
    BY DEF Box
  <2> HIDE DEF f
  <2>2. (Touches(n, e) /\ e[1] <= f[1] /\ e[2] <= f[2])
        <=> \/ Touches(n, e) /\ e[1] <= c[1] /\ e[2] <= c[2]
            \/ e = f
            \/ Decision(n, c) = 0 /\ e \in {<<c[1] + 1, c[2]>>, <<c[1], c[2] + 1>>}
    <3>1. PICK x \in Nat, y \in Nat : n = <<x, y>>
      BY <1>1
    <3>2. PICK i \in 0 .. x, j \in 0 .. y : c = <<i, j>>
      BY <1>2, <3>1
    <3>3. PICK u \in 0 .. x, v \in 0 .. y : e = <<u, v>>
      BY <2>1, <3>1
    <3>4. <<i, j>> # <<x, y>> /\ Crosses(<<x, y>>, <<i, j>>)
      BY <1>4, <3>1, <3>2
    <3>5. RoundAdds(<<x, y>>, <<i, j>>, <<u, v>>)
      BY <3>4, RoundTouches
    <3> QED BY <3>1, <3>2, <3>3, <3>5 DEF RoundAdds, f
  <2> QED BY <2>2
<1> HIDE DEF f, new
<1>8. UpTo(f) = UpTo(c) \union new
  BY <1>6, <1>7
<1>9. \A g : TouchedUpTo(a, b, g) = {Cell(a, b, e) : e \in UpTo(g)}
  BY DEF TouchedUpTo, n
<1> HIDE DEF UpTo
<1>10. TouchedUpTo(a, b, f) = TouchedUpTo(a, b, c) \union Pushed(a, b, c)
  BY <1>3, <1>8, <1>9
<1> QED BY <1>10 DEF f, n

\* Where the loop is after so many rounds.
IsTrace(at, n, last) ==
  at = [k \in 0 .. last |-> IF k = 0 THEN <<0, 0>> ELSE Further(n, at[k - 1])]

LEMMA TraceExists ==
  ASSUME NEW n, NEW last \in Nat
  PROVE  \E at : IsTrace(at, n, last)
<1> DEFINE missing == {m \in Nat : ~ \E at : IsTrace(at, n, m)}
<1>1. SUFFICES ASSUME last \in missing PROVE FALSE
  OBVIOUS
<1>2. PICK m \in missing : \A k \in missing : m <= k
  <2>1. missing \subseteq Nat /\ missing # {}
    BY <1>1
  <2> HIDE DEF missing
  <2> QED BY <2>1, LeastNatural
<1>3. m \in Nat
  BY <1>2
<1>4. CASE m = 0
  <2> DEFINE at == [k \in 0 .. 0 |-> <<0, 0>>]
  <2>1. IsTrace(at, n, 0)
    <3>1. \A k \in 0 .. 0 : k = 0
      OBVIOUS
    <3> QED BY <3>1 DEF IsTrace
  <2> HIDE DEF at
  <2> QED BY <1>2, <1>4, <2>1
<1>5. CASE m # 0
  <2>1. m - 1 \in Nat /\ ~(m <= m - 1)
    BY <1>3, <1>5
  <2>2. m - 1 \notin missing
    BY <1>2, <2>1
  <2>3. PICK at : IsTrace(at, n, m - 1)
    BY <2>1, <2>2
  <2> DEFINE longer == [k \in 0 .. m |-> IF k = m THEN Further(n, at[m - 1]) ELSE at[k]]
  <2>4. ASSUME NEW k \in 0 .. m
        PROVE  longer[k] = IF k = 0 THEN <<0, 0>> ELSE Further(n, longer[k - 1])
    <3>1. k \in Int /\ (k # m => k \in 0 .. m - 1) /\ (k # 0 => k - 1 \in 0 .. m - 1 /\ k - 1 # m)
      BY <1>3
    <3>2. k # 0 => longer[k - 1] = at[k - 1]
      BY <1>3, <3>1
    <3>3. CASE k = m
      BY <1>5, <3>1, <3>2, <3>3
    <3>4. CASE k # m
      <4>1. at[k] = IF k = 0 THEN <<0, 0>> ELSE Further(n, at[k - 1])
        BY <2>3, <3>1, <3>4 DEF IsTrace
      <4>2. longer[k] = at[k]
        BY <3>4
      <4> QED BY <3>2, <4>1, <4>2
    <3> QED BY <3>3, <3>4
  <2>5. IsTrace(longer, n, m)
    BY <2>4 DEF IsTrace
  <2> HIDE DEF longer
  <2> QED BY <1>2, <2>5
<1> QED BY <1>4, <1>5

\* After k rounds: as far along as there were rounds, and what the line touches so
\* far is a and what has been pushed.
After(a, b, at, k) ==
  /\ at[k] \in Box(Offset(a, b))
  /\ at[k] = Offset(a, b) \/ (Crosses(Offset(a, b), at[k]) /\ at[k][1] + at[k][2] >= k)
  /\ TouchedUpTo(a, b, at[k]) = {a} \union UNION {Pushed(a, b, at[j]) : j \in 0 .. k - 1}

LEMMA RoundsTouch ==
  ASSUME NEW a \in Tiles, NEW b \in Tiles, NEW last \in Nat, NEW at,
         IsTrace(at, Offset(a, b), last), NEW k \in 0 .. last
  PROVE  After(a, b, at, k)
<1> DEFINE n == Offset(a, b)
<1>1. n = <<n[1], n[2]>> /\ n[1] \in Nat /\ n[2] \in Nat
  BY OffsetType
<1> DEFINE wrong == {i \in 0 .. last : ~After(a, b, at, i)}
<1>2. SUFFICES ASSUME wrong # {} PROVE FALSE
  OBVIOUS
<1>3. PICK m \in wrong : \A i \in wrong : m <= i
  <2>1. wrong \subseteq Nat
    OBVIOUS
  <2> HIDE DEF wrong
  <2> QED BY <1>2, <2>1, LeastNatural
<1>4. m \in 0 .. last /\ m \in Nat /\ ~After(a, b, at, m)
  BY <1>3
<1>5. CASE m = 0
  <2>1. at[0] = <<0, 0>>
    BY DEF IsTrace
  <2>2. <<0, 0>> \in Box(n)
    BY <1>1 DEF Box
  <2>3. <<0, 0>> = n \/ Crosses(n, <<0, 0>>)
    <3>1. PICK x \in Nat, y \in Nat : n = <<x, y>>
      BY <1>1
    <3> HIDE DEF n
    <3>2. 0 * y = 0 /\ 0 * x = 0
      BY <3>1
    <3> QED BY <3>1, <3>2 DEF Crosses
  <2>4. Touches(n, <<0, 0>>)
    <3>1. PICK x \in Nat, y \in Nat : n = <<x, y>>
      BY <1>1
    <3> HIDE DEF n
    <3>2. 0 * y = 0 /\ 0 * x = 0
      BY <3>1
    <3> QED BY <3>1, <3>2 DEF Touches
  <2>5. Cell(a, b, <<0, 0>>) = a
    <3>1. a = <<a[1], a[2]>> /\ a[1] \in Int /\ a[2] \in Int
      BY SizeAssumption DEF Tiles
    <3>2. Sign(b[1] - a[1]) * 0 = 0 /\ Sign(b[2] - a[2]) * 0 = 0
      BY DEF Sign
    <3> QED BY <3>1, <3>2 DEF Cell
  <2>6. \A e \in Box(n) : e[1] <= 0 /\ e[2] <= 0 => e = <<0, 0>>
    BY <1>1 DEF Box
  <2> HIDE DEF n
  <2>7. TouchedUpTo(a, b, <<0, 0>>) = {a}
    BY <2>2, <2>4, <2>5, <2>6 DEF TouchedUpTo, n
  <2>8. UNION {Pushed(a, b, at[j]) : j \in 0 .. 0 - 1} = {}
    OBVIOUS
  <2>9. <<0, 0>>[1] + <<0, 0>>[2] >= 0
    OBVIOUS
  <2>10. After(a, b, at, 0)
    BY <2>1, <2>2, <2>3, <2>7, <2>8, <2>9 DEF After, n
  <2> QED BY <1>4, <1>5, <2>10
<1>6. CASE m # 0
  <2>1. m - 1 \in 0 .. last /\ m - 1 \in Nat /\ ~(m <= m - 1)
    BY <1>4, <1>6
  <2>2. After(a, b, at, m - 1)
    BY <1>3, <2>1
  <2> DEFINE c == at[m - 1]
             f == Further(n, c)
             seen == UNION {Pushed(a, b, at[j]) : j \in 0 .. m - 2}
  <2>3. at[m] = f
    BY <1>4, <1>6 DEF IsTrace
  <2>4. /\ c \in Box(n) /\ (c = n \/ (Crosses(n, c) /\ c[1] + c[2] >= m - 1))
        /\ TouchedUpTo(a, b, c) = {a} \union seen
    <3>1. (m - 1) - 1 = m - 2
      BY <1>4
    <3> QED BY <2>2, <3>1 DEF After
  <2>5. UNION {Pushed(a, b, at[j]) : j \in 0 .. m - 1} = seen \union Pushed(a, b, c)
    <3>1. 0 .. m - 1 = (0 .. m - 2) \union {m - 1}
      BY <1>4, <1>6
    <3> QED BY <3>1
  <2> HIDE DEF seen
  <2>6. CASE c = n
    <3>1. f = c /\ Pushed(a, b, c) = {}
      BY <2>6 DEF Further, Pushed
    <3> QED BY <1>4, <2>3, <2>4, <2>5, <2>6, <3>1 DEF After
  <2>7. CASE c # n
    <3>1. TouchedUpTo(a, b, f) = {a} \union seen \union Pushed(a, b, c)
      BY <2>4, <2>7, RoundPushes
    <3>2. f \in Box(n) /\ Crosses(n, f)
      <4> HIDE DEF n, c
      <4>1. PICK x \in Nat, y \in Nat : n = <<x, y>>
        BY <1>1
      <4>2. PICK i \in 0 .. x, j \in 0 .. y : c = <<i, j>>
        BY <2>4, <4>1 DEF Box
      <4>3. <<i, j>> # <<x, y>> /\ Crosses(<<x, y>>, <<i, j>>)
        BY <2>4, <2>7, <4>1, <4>2
      <4> QED BY <4>1, <4>2, <4>3, StaysInBox
    <3>3. f[1] + f[2] >= m
      <4>1. c[1] \in Nat /\ c[2] \in Nat /\ c[1] + c[2] >= m - 1
        BY <2>4, <2>7 DEF Box
      <4>2. f \in {<<c[1] + 1, c[2] + 1>>, <<c[1] + 1, c[2]>>, <<c[1], c[2] + 1>>}
        BY <2>7 DEF Further
      <4> HIDE DEF c, f
      <4>3. m \in Nat
        BY <1>4
      <4> QED BY <4>1, <4>2, <4>3
    <3> HIDE DEF f, c
    <3> QED BY <1>4, <2>3, <2>5, <3>1, <3>2, <3>3 DEF After
  <2> QED BY <2>6, <2>7
<1> QED BY <1>5, <1>6

LEMMA LineIsTouched ==
  ASSUME NEW a \in Tiles, NEW b \in Tiles
  PROVE  SupercoverLine(a, b) = (Touched(a, b) \ {a}) /\ a \in Touched(a, b)
<1> DEFINE n == Offset(a, b)
           last == n[1] + n[2]
           Line(at) == UNION {Pushed(a, b, at[k]) : k \in 0 .. last}
<1>1. n = <<n[1], n[2]>> /\ n[1] \in Nat /\ n[2] \in Nat /\ last \in Nat
  BY OffsetType
<1>2. PICK at : IsTrace(at, n, last) /\ SupercoverLine(a, b) = Line(at) \ {a}
  <2>1. \E at : IsTrace(at, n, last)
    BY <1>1, TraceExists
  <2>2. SupercoverLine(a, b) = Line(CHOOSE at : IsTrace(at, n, last)) \ {a}
    BY DEF SupercoverLine, IsTrace
  <2> HIDE DEF Line, last
  <2> QED BY <2>1, <2>2
<1>3. After(a, b, at, last)
  <2>1. last \in 0 .. last
    BY <1>1
  <2> QED BY <1>1, <1>2, <2>1, RoundsTouch
<1>4. at[last] = n
  <2>1. at[last] \in Box(n) /\ (at[last] = n \/ at[last][1] + at[last][2] >= last)
    BY <1>3 DEF After
  <2> HIDE DEF n
  <2> QED BY <1>1, <2>1 DEF Box
<1>5. Touched(a, b) = {a} \union UNION {Pushed(a, b, at[k]) : k \in 0 .. last - 1}
  BY <1>3, <1>4 DEF After, Touched
<1>6. Pushed(a, b, at[last]) = {}
  BY <1>4 DEF Pushed
<1>7. Line(at) = UNION {Pushed(a, b, at[k]) : k \in 0 .. last - 1}
  <2>1. 0 .. last = (0 .. last - 1) \union {last}
    BY <1>1
  <2> HIDE DEF last
  <2> QED BY <1>6, <2>1
<1> HIDE DEF Line
<1> QED BY <1>2, <1>5, <1>7

\* From the other end the same cells are touched.
LEMMA TouchedFromBothEnds ==
  ASSUME NEW a \in Tiles, NEW b \in Tiles
  PROVE  Touched(a, b) \subseteq Touched(b, a)
<1> DEFINE n == Offset(a, b)
<1>1. n = <<n[1], n[2]>> /\ n[1] \in Nat /\ n[2] \in Nat
  BY OffsetType
<1>2. Offset(b, a) = n
  BY SizeAssumption DEF Offset, Abs, Tiles
<1>3. a[1] \in Int /\ a[2] \in Int /\ b[1] \in Int /\ b[2] \in Int
  BY SizeAssumption DEF Tiles
<1>4. ASSUME NEW e \in Box(n), Touches(n, e)
      PROVE  \E g \in Box(n) : Touches(n, g) /\ Cell(b, a, g) = Cell(a, b, e)
  <2> DEFINE g == <<n[1] - e[1], n[2] - e[2]>>
  <2>1. e = <<e[1], e[2]>> /\ e[1] \in 0 .. n[1] /\ e[2] \in 0 .. n[2]
    BY <1>1 DEF Box
  <2>2. g \in Box(n)
    BY <1>1, <2>1 DEF Box
  <2>3. Touches(n, g)
    <3>1. PICK x \in Nat, y \in Nat : n = <<x, y>>
      BY <1>1
    <3>2. PICK u \in 0 .. x, v \in 0 .. y : e = <<u, v>>
      BY <2>1, <3>1
    <3>3. g = <<x - u, y - v>>
      BY <3>1, <3>2
    <3> HIDE DEF n, g
    <3>4. /\ (x - u) * y = x * y - u * y /\ (y - v) * x = x * y - v * x
          /\ x * y \in Int /\ u * y \in Int /\ v * x \in Int
      BY <3>1
    <3>5. 2 * (u * y - v * x) <= x + y /\ 2 * (v * x - u * y) <= x + y
      BY <1>4, <3>1, <3>2 DEF Touches
    <3>6. 2 * ((x - u) * y - (y - v) * x) <= x + y /\ 2 * ((y - v) * x - (x - u) * y) <= x + y
      BY <3>4, <3>5
    <3> QED BY <3>1, <3>3, <3>6 DEF Touches
  <2>4. ASSUME NEW p \in Int, NEW q \in Int, NEW k \in 0 .. Abs(q - p)
        PROVE  q + Sign(p - q) * (Abs(q - p) - k) = p + Sign(q - p) * k
    BY DEF Abs, Sign
  <2>5. Cell(b, a, g) = Cell(a, b, e)
    BY <1>3, <2>1, <2>4 DEF Cell, Offset
  <2> QED BY <2>2, <2>3, <2>5
<1>5. Touched(a, b) = {Cell(a, b, e) : e \in {e \in Box(n) : Touches(n, e) /\ e[1] <= n[1] /\ e[2] <= n[2]}}
  BY DEF Touched, TouchedUpTo
<1>6. Touched(b, a) = {Cell(b, a, e) : e \in {e \in Box(n) : Touches(n, e) /\ e[1] <= n[1] /\ e[2] <= n[2]}}
  BY <1>2 DEF Touched, TouchedUpTo
<1>7. \A e \in Box(n) : e[1] <= n[1] /\ e[2] <= n[2]
  BY <1>1 DEF Box
<1> HIDE DEF n
<1> QED BY <1>4, <1>5, <1>6, <1>7

\* The same cells decide in both directions.
LEMMA SightHolds == SightIsMutual
<1> SUFFICES ASSUME NEW a \in Tiles, NEW b \in Tiles, terrain[a] # "blocked", terrain[b] # "blocked"
             PROVE  LineIsOpen(a, b) <=> LineIsOpen(b, a)
  BY DEF SightIsMutual
<1> DEFINE Open(t) == t \in Tiles /\ terrain[t] # "blocked"
<1>1. LineIsOpen(a, b) <=> \A t \in Touched(a, b) : Open(t)
  BY LineIsTouched DEF LineIsOpen
<1>2. LineIsOpen(b, a) <=> \A t \in Touched(b, a) : Open(t)
  BY LineIsTouched DEF LineIsOpen
<1>3. Touched(a, b) = Touched(b, a)
  BY TouchedFromBothEnds
<1> QED BY <1>1, <1>2, <1>3

\* On every map, whoever sees somebody is seen (lineIsOpen).
THEOREM LinesOpenBothWays == PathfindingSpec => []SightIsMutual
  BY SightHolds, PTL

-----------------------------------------------------------------------------
(* The numbers of a fight *)

\* Shifting keeps the order of degrees, and a degree is one of four.
LEMMA ShiftKeepsOrder ==
  ASSUME NEW d \in Int, NEW e \in Int, NEW k \in Int, d <= e
  PROVE  /\ ShiftDegree(d, k) <= ShiftDegree(e, k)
         /\ ShiftDegree(d, k) \in 1 .. 4
  BY SMT DEF ShiftDegree, Most, Least

\* A larger total never has a worse degree, before a natural 20 or 1 counts.
LEMMA BaseKeepsOrder ==
  ASSUME NEW t \in Int, NEW u \in Int, NEW dc \in Int, t <= u
  PROVE  /\ BaseDegree(t, dc) <= BaseDegree(u, dc)
         /\ BaseDegree(t, dc) \in 1 .. 4 /\ BaseDegree(u, dc) \in 1 .. 4
  BY SMT DEF BaseDegree

\* With the same roll a better modifier never gives a worse degree, nor does a
\* lower difficulty class: no bonus the stack keeps can hurt who has it.
THEOREM BonusNeverHurts ==
  ASSUME NEW roll \in Int, NEW m \in Int, NEW n \in Int, m <= n,
         NEW dc \in Int, NEW harder \in Int, dc <= harder
  PROVE  Degree(roll, m, harder) <= Degree(roll, n, dc)
<1>1. BaseDegree(roll + m, harder) <= BaseDegree(roll + n, dc)
  BY SMT DEF BaseDegree
<1>2. BaseDegree(roll + m, harder) \in Int /\ BaseDegree(roll + n, dc) \in Int
  BY SMT DEF BaseDegree
<1> QED
  BY <1>1, <1>2, ShiftKeepsOrder DEF Degree

\* A higher roll never gives a worse degree, the shifts of a natural 20 and a
\* natural 1 included.
THEOREM BetterRollNeverWorse ==
  ASSUME NEW low \in 1 .. 20, NEW high \in 1 .. 20, low <= high,
         NEW m \in Int, NEW dc \in Int
  PROVE  Degree(low, m, dc) <= Degree(high, m, dc)
<1> DEFINE L == BaseDegree(low + m, dc)
           H == BaseDegree(high + m, dc)
           ShiftOf(roll) == IF roll = 20 THEN 1 ELSE IF roll = 1 THEN -1 ELSE 0
<1>1. L <= H /\ L \in 1 .. 4 /\ H \in 1 .. 4
  BY BaseKeepsOrder
<1>2. ShiftOf(low) <= ShiftOf(high) /\ ShiftOf(low) \in -1 .. 1 /\ ShiftOf(high) \in -1 .. 1
  OBVIOUS
<1>3. Degree(low, m, dc) = ShiftDegree(L, ShiftOf(low))
      /\ Degree(high, m, dc) = ShiftDegree(H, ShiftOf(high))
  BY DEF Degree
<1> HIDE DEF L, H, ShiftOf
<1> QED
  BY <1>1, <1>2, <1>3, SMT DEF ShiftDegree, Most, Least

\* Halving keeps the order of what is halved.
LEMMA HalfKeepsOrder ==
  ASSUME NEW x \in Int, NEW y \in Int, x <= y
  PROVE  (x \div 2) <= (y \div 2) /\ (x \div 2) \in Int
  BY SMT

\* More dice, a larger flat modifier or a larger multiplier never deal less.
LEMMA DamageKeepsOrder ==
  ASSUME NEW a \in Int, NEW b \in Int, a <= b, NEW flat \in Int, NEW halves \in {1, 2, 4}
  PROVE  DamageTotal(a, flat, halves) <= DamageTotal(b, flat, halves)
<1> DEFINE x == WeaponDamageRoll(a, flat)
           y == WeaponDamageRoll(b, flat)
<1>1. x \in Int /\ y \in Int /\ x <= y
  BY SMT DEF WeaponDamageRoll, Most
<1>2. x * halves <= y * halves /\ x * halves \in Int /\ y * halves \in Int
  <2> HIDE DEF x, y
  <2>1. CASE halves = 1 BY <1>1, <2>1, SMT
  <2>2. CASE halves = 2 BY <1>1, <2>2, SMT
  <2>3. CASE halves = 4 BY <1>1, <2>3, SMT
  <2> QED BY <2>1, <2>2, <2>3
<1>3. ((x * halves) \div 2) <= ((y * halves) \div 2)
      /\ ((x * halves) \div 2) \in Int /\ ((y * halves) \div 2) \in Int
  <2> HIDE DEF x, y
  <2> QED BY <1>2, HalfKeepsOrder
<1>4. ~(halves <= 0)
  OBVIOUS
<1> HIDE DEF x, y
<1>5. DamageTotal(a, flat, halves) = Most(1, (x * halves) \div 2)
      /\ DamageTotal(b, flat, halves) = Most(1, (y * halves) \div 2)
  BY <1>4 DEF DamageTotal, x, y
<1> QED BY <1>3, <1>5, SMT DEF Most

\* Damage is a whole number, for any total of the dice and any multiplier.
LEMMA DamageIsWhole ==
  ASSUME NEW n \in Int, NEW flat \in Int, NEW halves \in {1, 2, 4}
  PROVE  DamageTotal(n, flat, halves) \in Int
<1>1. WeaponDamageRoll(n, flat) \in Int
  BY SMT DEF WeaponDamageRoll, Most
<1>2. WeaponDamageRoll(n, flat) * halves \in Int /\ halves \in Int
  BY <1>1
<1>3. (WeaponDamageRoll(n, flat) * halves) \div 2 \in Int
  BY <1>2, HalfKeepsOrder
<1> QED BY <1>3 DEF DamageTotal, Most

\* Whatever the dice show, the damage dealt lies between the two ends of the
\* range previewAction computes from the least and the greatest total.
THEOREM DamageWithinPreview ==
  ASSUME NEW count \in Nat, NEW sides \in Nat, NEW flat \in Int, NEW halves \in {1, 2, 4},
         NEW rolled \in count .. count * sides
  PROVE  DamageTotal(rolled, flat, halves) \in DamageRange(count, sides, flat, halves)
<1>1. count * sides \in Int
  BY SMT
<1>2. rolled \in Int /\ count <= rolled /\ rolled <= count * sides
  BY <1>1
<1>3. /\ DamageTotal(count, flat, halves) <= DamageTotal(rolled, flat, halves)
      /\ DamageTotal(rolled, flat, halves) <= DamageTotal(count * sides, flat, halves)
  BY <1>1, <1>2, DamageKeepsOrder
<1>4. \A n \in Int : DamageTotal(n, flat, halves) \in Int
  BY DamageIsWhole
<1> QED BY <1>1, <1>2, <1>3, <1>4 DEF DamageRange

\* Every degree a roll can come to is shown with a chance beforehand: execution
\* never surprises with an outcome the preview counted out.
THEOREM RolledIsPreviewed ==
  ASSUME NEW modifier \in Int, NEW dc \in Int, NEW roll \in 1 .. 20
  PROVE  Degree(roll, modifier, dc) \in PreviewedDegrees(modifier, dc)
<1> DEFINE degree == Degree(roll, modifier, dc)
           rolls == {r \in 1 .. 20 : Degree(r, modifier, dc) = degree}
<1>1. degree \in 1 .. 4
  <2>1. BaseDegree(roll + modifier, dc) \in 1 .. 4
    BY BaseKeepsOrder
  <2> QED BY <2>1, ShiftKeepsOrder DEF Degree
<1>2. IsFiniteSet(1 .. 20)
  <2>1. \A m, n \in Int : IsFiniteSet(m .. n)
    BY FS_Interval
  <2> QED BY <2>1, 1 \in Int, 20 \in Int
<1>3. IsFiniteSet(rolls) /\ roll \in rolls
  BY <1>2, FS_Subset
<1>4. Cardinality(rolls) \in Nat /\ Cardinality(rolls) # 0
  BY <1>3, FS_CardinalityType, FS_EmptySet
<1>5. DegreeCount(modifier, dc, degree) > 0
  BY <1>4 DEF DegreeCount
<1> QED BY <1>1, <1>5 DEF PreviewedDegrees

\* No penalty and no halving erases damage that was dealt.
THEOREM HitsAlwaysHurt ==
  ASSUME NEW rolled \in Int, NEW flat \in Int, NEW halves \in {1, 2, 4}
  PROVE  DamageTotal(rolled, flat, halves) >= 1
<1>1. ~(halves <= 0) /\ halves \in Int
  OBVIOUS
<1>2. \A n \in Int : Most(1, n) >= 1
  BY SMT DEF Most
<1>3. (WeaponDamageRoll(rolled, flat) * halves) \div 2 \in Int
  <2>1. WeaponDamageRoll(rolled, flat) \in Int
    BY SMT DEF WeaponDamageRoll, Most
  <2>2. WeaponDamageRoll(rolled, flat) * halves \in Int
    BY <1>1, <2>1
  <2> QED BY <2>2, HalfKeepsOrder
<1> QED BY <1>1, <1>2, <1>3 DEF DamageTotal

\* Merging two frights and letting a turn end commute: a fright applied before
\* the end of a turn leaves what it would leave if it had worn off alone.
THEOREM FearWearsOffAlone ==
  ASSUME NEW c, Conditions[c].max \in Nat \ {0}, Conditions[c].endTurnDelta \in Int,
         NEW held \in 0 .. Conditions[c].max, NEW value \in Int
  PROVE  Clamp(c, Merged(c, held, value) + Conditions[c].endTurnDelta)
           = Most(Clamp(c, held + Conditions[c].endTurnDelta),
                  Clamp(c, Clamp(c, value) + Conditions[c].endTurnDelta))
<1> DEFINE max == Conditions[c].max
           delta == Conditions[c].endTurnDelta
<1>1. \A h \in 0 .. max, v \in Int :
        Most(0, Least(max, Most(h, Most(0, Least(max, v))) + delta))
          = Most(Most(0, Least(max, h + delta)),
                 Most(0, Least(max, Most(0, Least(max, v)) + delta)))
  <2> HIDE DEF max, delta
  <2>1. max \in Nat \ {0} /\ delta \in Int
    BY DEF max, delta
  <2> QED BY <2>1, SMT DEF Most, Least
<1>2. Valued(c)
  BY DEF Valued
<1> QED BY <1>1, <1>2 DEF Merged, Clamp

-----------------------------------------------------------------------------
(* The numbers of a fighter *)

\* What holds of 0 and of each number with its predecessor holds up to n.
LEMMA UpTo ==
  ASSUME NEW n \in Nat, NEW S, 0 \in S, \A i \in 1 .. n : i - 1 \in S => i \in S
  PROVE  0 .. n \subseteq S
<1> DEFINE missing == {i \in 0 .. n : i \notin S}
<1>1. SUFFICES ASSUME missing # {} PROVE FALSE
  OBVIOUS
<1>2. PICK m \in missing : \A k \in missing : m <= k
  <2>1. missing \subseteq Nat
    OBVIOUS
  <2> HIDE DEF missing
  <2> QED BY <1>1, <2>1, LeastNatural
<1>3. m \in 1 .. n /\ m \notin S
  OBVIOUS
<1>4. m - 1 \in 0 .. n /\ ~(m <= m - 1)
  BY <1>3
<1>5. m - 1 \in S
  BY <1>2, <1>4
<1> QED BY <1>3, <1>5

\* The partial sums of a sequence.
IsRunningTotal(f, values, n) ==
  f = [i \in 0 .. n |-> IF i = 0 THEN 0 ELSE f[i - 1] + values[i]]

LEMMA RunningTotals ==
  ASSUME NEW values, NEW n \in Nat
  PROVE  \E f : IsRunningTotal(f, values, n)
<1> DEFINE S == {m \in 0 .. n : \E f : IsRunningTotal(f, values, m)}
<1>1. 0 \in S
  <2> DEFINE f == [i \in 0 .. 0 |-> 0]
  <2>1. IsRunningTotal(f, values, 0)
    BY \A i \in 0 .. 0 : i = 0 DEF IsRunningTotal
  <2> QED BY <2>1
<1>2. ASSUME NEW m \in 1 .. n, m - 1 \in S
      PROVE  m \in S
  <2>1. PICK f : IsRunningTotal(f, values, m - 1)
    BY <1>2
  <2> DEFINE g == [i \in 0 .. m |-> IF i = m THEN f[m - 1] + values[m] ELSE f[i]]
  <2>2. ASSUME NEW i \in 0 .. m
        PROVE  g[i] = IF i = 0 THEN 0 ELSE g[i - 1] + values[i]
    <3>1. i \in Int /\ (i # m => i \in 0 .. m - 1) /\ (i # 0 => i - 1 \in 0 .. m /\ i - 1 # m)
      OBVIOUS
    <3>2. i # 0 => g[i - 1] = f[i - 1]
      BY <3>1
    <3>3. CASE i = m
      BY <3>2, <3>3
    <3>4. CASE i # m
      BY <2>1, <3>1, <3>2, <3>4 DEF IsRunningTotal
    <3> QED BY <3>3, <3>4
  <2>3. IsRunningTotal(g, values, m)
    BY <2>2 DEF IsRunningTotal
  <2> HIDE DEF g
  <2> QED BY <2>3
<1> HIDE DEF S
<1>3. 0 .. n \subseteq S
  BY <1>1, <1>2, UpTo
<1> QED BY <1>3 DEF S

\* A sum of integers is one.
LEMMA SumType ==
  ASSUME NEW values \in Seq(Int)
  PROVE  Sum(values) \in Int
<1> DEFINE n == Len(values)
<1>1. n \in Nat /\ \A i \in 1 .. n : values[i] \in Int
  BY LenProperties, ElementOfSeq
<1>2. PICK f : IsRunningTotal(f, values, n) /\ Sum(values) = f[n]
  <2>1. \E f : IsRunningTotal(f, values, n)
    <3> HIDE DEF n
    <3> QED BY <1>1, RunningTotals
  <2>2. Sum(values) = (CHOOSE f : IsRunningTotal(f, values, n))[n]
    BY DEF Sum, IsRunningTotal
  <2> QED BY <2>1, <2>2
<1> DEFINE S == {i \in 0 .. n : f[i] \in Int}
<1> HIDE DEF n
<1>3. 0 \in S
  BY <1>1, <1>2 DEF IsRunningTotal
<1>4. \A i \in 1 .. n : i - 1 \in S => i \in S
  BY <1>1, <1>2 DEF IsRunningTotal
<1> HIDE DEF S
<1>5. 0 .. n \subseteq S
  BY <1>1, <1>3, <1>4, UpTo
<1> QED BY <1>1, <1>2, <1>5 DEF S

\* Sequences joined one after the other.
IsJoin(f, seqs, n) ==
  f = [i \in 1 .. n |-> IF i = 1 THEN seqs[i] ELSE f[i - 1] \o seqs[i]]

LEMMA Joins ==
  ASSUME NEW seqs, NEW n \in Nat
  PROVE  \E f : IsJoin(f, seqs, n)
<1> DEFINE S == {m \in 0 .. n : \E f : IsJoin(f, seqs, m)}
<1>1. 0 \in S
  <2> DEFINE f == [i \in 1 .. 0 |-> seqs[i]]
  <2>1. IsJoin(f, seqs, 0)
    BY \A i \in 1 .. 0 : FALSE DEF IsJoin
  <2> QED BY <2>1
<1>2. ASSUME NEW m \in 1 .. n, m - 1 \in S
      PROVE  m \in S
  <2>1. PICK f : IsJoin(f, seqs, m - 1)
    BY <1>2
  <2> DEFINE g == [i \in 1 .. m |-> IF i # m THEN f[i]
                                    ELSE IF i = 1 THEN seqs[i] ELSE f[m - 1] \o seqs[m]]
  <2>2. ASSUME NEW i \in 1 .. m
        PROVE  g[i] = IF i = 1 THEN seqs[i] ELSE g[i - 1] \o seqs[i]
    <3>1. i \in Int /\ (i # m => i \in 1 .. m - 1) /\ (i # 1 => i - 1 \in 1 .. m /\ i - 1 # m)
      OBVIOUS
    <3>2. i # 1 => g[i - 1] = f[i - 1]
      BY <3>1
    <3>3. CASE i = m
      BY <3>2, <3>3
    <3>4. CASE i # m
      BY <2>1, <3>1, <3>2, <3>4 DEF IsJoin
    <3> QED BY <3>3, <3>4
  <2>3. IsJoin(g, seqs, m)
    BY <2>2 DEF IsJoin
  <2> HIDE DEF g
  <2> QED BY <2>3
<1> HIDE DEF S
<1>3. 0 .. n \subseteq S
  BY <1>1, <1>2, UpTo
<1> QED BY <1>3 DEF S

\* Joined lists are a list of the same elements.
LEMMA FlattenType ==
  ASSUME NEW T, NEW seqs \in Seq(Seq(T))
  PROVE  FlattenSeq(seqs) \in Seq(T)
<1> DEFINE n == Len(seqs)
<1>1. n \in Nat /\ Len(seqs) = n /\ \A i \in 1 .. n : seqs[i] \in Seq(T)
  BY LenProperties, ElementOfSeq
<1> HIDE DEF n
<1>2. CASE n = 0
  <2>1. seqs = <<>>
    BY <1>1, <1>2, EmptySeq
  <2> QED BY <1>1, <1>2, <2>1, EmptySeq DEF FlattenSeq
<1>3. CASE n # 0
  <2>1. PICK f : IsJoin(f, seqs, n) /\ FlattenSeq(seqs) = f[n]
    <3>1. \E f : IsJoin(f, seqs, n)
      BY <1>1, Joins
    <3>2. FlattenSeq(seqs) = (CHOOSE f : IsJoin(f, seqs, n))[n]
      BY <1>1, <1>3 DEF FlattenSeq, IsJoin
    <3> QED BY <3>1, <3>2
  <2> DEFINE S == {i \in 0 .. n : i # 0 => f[i] \in Seq(T)}
  <2>2. 0 \in S
    BY <1>1
  <2>3. ASSUME NEW i \in 1 .. n, i - 1 \in S
        PROVE  i \in S
    <3>1. CASE i = 1
      BY <1>1, <2>1, <3>1 DEF IsJoin
    <3>2. CASE i # 1
      <4>1. f[i] = f[i - 1] \o seqs[i]
        BY <2>1, <3>2 DEF IsJoin
      <4>2. f[i - 1] \in Seq(T)
        BY <2>3, <3>2
      <4>3. f[i] \in Seq(T)
        BY <1>1, <4>1, <4>2, ConcatProperties
      <4> QED BY <4>3
    <3> QED BY <3>1, <3>2
  <2> HIDE DEF S
  <2>4. 0 .. n \subseteq S
    BY <1>1, <2>2, <2>3, UpTo
  <2> QED BY <1>1, <1>3, <2>1, <2>4 DEF S
<1> QED BY <1>2, <1>3

\* A list made from another one, place by place.
LEMMA ListOf ==
  ASSUME NEW S, NEW list \in Seq(S), NEW T, NEW f, f = [i \in DOMAIN list |-> f[i]],
         \A i \in DOMAIN list : f[i] \in T
  PROVE  f \in Seq(T)
<1>1. DOMAIN list = 1 .. Len(list) /\ Len(list) \in Nat
  BY LenProperties
<1>2. f \in [1 .. Len(list) -> T]
  BY <1>1
<1> QED BY <1>1, <1>2, SeqDef

\* The modifiers an actor collects are modifiers, and so are the numbers built on them.
LEMMA TraitsType ==
  ASSUME NEW traits, TraitList(traits)
  PROVE  FromTraits(traits) \in Seq(Modifiers)
<1> DEFINE f == [i \in DOMAIN traits |-> TraitModifiers[traits[i]]]
<1>1. traits \in Seq(DOMAIN TraitModifiers)
  BY DEF TraitList
<1>2. \A i \in DOMAIN traits : f[i] \in Seq(Modifiers)
  BY <1>1, TraitsAssumption, LenProperties, ElementOfSeq
<1>3. f = [i \in DOMAIN traits |-> f[i]]
  OBVIOUS
<1> HIDE DEF f
<1>4. f \in Seq(Seq(Modifiers))
  BY <1>1, <1>2, <1>3, ListOf
<1> QED BY <1>4, FlattenType DEF FromTraits, f

LEMMA OneModifier ==
  ASSUME NEW m \in Modifiers
  PROVE  <<m>> \in Seq(Modifiers) /\ <<>> \in Seq(Modifiers)
OBVIOUS

LEMMA ArmourClassModifier ==
  ASSUME NEW type \in Types, NEW value \in Int
  PROVE  Modifier(Sel("ac", "any"), type, value) \in Modifiers
BY DEF Modifier, Sel, Modifiers, Selectors

LEMMA ItemType ==
  ASSUME NEW e \in DOMAIN Equipment, NEW isCharacter, NEW raised
  PROVE  FromItem(Equipment[e], isCharacter, raised) \in Seq(Modifiers)
<1> DEFINE item == Equipment[e]
           worn == IF isCharacter /\ item.armor.acItemBonus # 0
                     THEN <<Modifier(Sel("ac", "any"), "item", item.armor.acItemBonus)>> ELSE <<>>
           up == IF item.slot = "shield" /\ item.shieldBonus # 0 /\ raised
                   THEN <<Modifier(Sel("ac", "any"), "circumstance", item.shieldBonus)>> ELSE <<>>
<1>1. /\ item.modifiers \in Seq(Modifiers) /\ TraitList(item.traits)
      /\ item.armor.acItemBonus \in Int /\ item.shieldBonus \in Int
  BY EquipmentAssumption
<1>2. {"item", "circumstance"} \subseteq Types
  BY DEF Types
<1> HIDE DEF item
<1>3. worn \in Seq(Modifiers) /\ up \in Seq(Modifiers)
  BY <1>1, <1>2, ArmourClassModifier, OneModifier
<1>4. FromTraits(item.traits) \in Seq(Modifiers)
  BY <1>1, TraitsType
<1>5. FromItem(item, isCharacter, raised) = item.modifiers \o (worn \o up) \o FromTraits(item.traits)
  BY DEF FromItem, DerivedEquipmentModifiers
<1> HIDE DEF worn, up
<1> QED BY <1>1, <1>3, <1>4, <1>5, ConcatProperties DEF item

LEMMA EquipmentType ==
  ASSUME NEW a \in DOMAIN Profiles, NEW raised \in BOOLEAN
  PROVE  FromEquipment[a][raised] \in Seq(Modifiers)
<1> DEFINE f == [i \in DOMAIN Worn[a] |->
                   FromItem(Equipment[Worn[a][i]], Profiles[a].kind = "character", raised)]
<1>1. TraitList(Profiles[a].traits) /\ Worn[a] \in Seq(DOMAIN Equipment)
  BY EquipmentAssumption
<1>2. \A i \in DOMAIN Worn[a] : Worn[a][i] \in DOMAIN Equipment
  BY <1>1, LenProperties, ElementOfSeq
<1>3. \A i \in DOMAIN Worn[a] : f[i] \in Seq(Modifiers)
  BY <1>2, ItemType
<1>4. f = [i \in DOMAIN Worn[a] |-> f[i]]
  OBVIOUS
<1>5. FromEquipment[a][raised] = FromTraits(Profiles[a].traits) \o FlattenSeq(f)
  BY DEF FromEquipment
<1> HIDE DEF f
<1>6. FlattenSeq(f) \in Seq(Modifiers)
  <2>1. f \in Seq(Seq(Modifiers))
    BY <1>1, <1>3, <1>4, ListOf
  <2> QED BY <2>1, FlattenType
<1> QED BY <1>1, <1>5, <1>6, TraitsType, ConcatProperties

LEMMA ConditionType ==
  ASSUME NEW c \in DOMAIN Conditions, NEW value \in 1 .. Most(1, Conditions[c].max)
  PROVE  FromCondition[c][value] \in Seq(Modifiers)
<1> DEFINE authored == Conditions[c].modifiers
<1>1. authored \in Seq(Modifiers) /\ TraitList(Conditions[c].traits) /\ value \in Int
  BY ConditionsAssumption
<1>2. ConditionEffects(c) \in Seq(Modifiers)
  BY ArmourClassModifier, OneModifier DEF ConditionEffects, Types
<1>3. ScaleConditionModifiers(c, value) \in Seq(Modifiers)
  <2> DEFINE f == [i \in DOMAIN authored |-> [authored[i] EXCEPT !.value = @ * value]]
  <2>1. ASSUME NEW i \in DOMAIN authored
        PROVE  f[i] \in Modifiers
    <3>1. authored[i] \in Modifiers
      BY <1>1, LenProperties, ElementOfSeq
    <3> HIDE DEF authored
    <3> DEFINE m == authored[i]
    <3>2. m.value \in Int /\ m.value * value \in Int
      BY <1>1, <3>1 DEF Modifiers
    <3>3. f[i] = [m EXCEPT !.value = m.value * value]
      OBVIOUS
    <3> QED BY <3>1, <3>2, <3>3 DEF Modifiers
  <2>2. f = [i \in DOMAIN authored |-> f[i]]
    OBVIOUS
  <2>3. ScaleConditionModifiers(c, value) = IF Conditions[c].max = 0 THEN authored ELSE f
    BY DEF ScaleConditionModifiers
  <2> HIDE DEF f, authored
  <2>4. f \in Seq(Modifiers)
    BY <1>1, <2>1, <2>2, ListOf
  <2> QED BY <1>1, <2>3, <2>4
<1>4. FromCondition[c][value]
        = ConditionEffects(c) \o ScaleConditionModifiers(c, value) \o FromTraits(Conditions[c].traits)
  BY DEF FromCondition
<1> QED BY <1>1, <1>2, <1>3, <1>4, TraitsType, ConcatProperties

\* An actor whose conditions have values within their bounds.
ActorShape(actor) ==
  /\ actor.id \in DOMAIN Profiles /\ actor.shieldRaised \in BOOLEAN
  /\ \A c \in DOMAIN Conditions : actor.conditions[c] \in 0 .. Most(1, Conditions[c].max)

LEMMA CollectedType ==
  ASSUME NEW actor, ActorShape(actor), NEW context \in Seq(Modifiers)
  PROVE  Collected(actor, context) \in Seq(Modifiers)
<1> DEFINE f == [i \in DOMAIN ConditionOrder |->
                   LET value == actor.conditions[ConditionOrder[i]] IN
                   IF value > 0 THEN FromCondition[ConditionOrder[i]][value] ELSE <<>>]
<1>1. ConditionOrder \in Seq(DOMAIN Conditions)
  BY ConditionsAssumption
<1>2. ASSUME NEW i \in DOMAIN ConditionOrder
      PROVE  f[i] \in Seq(Modifiers)
  <2> DEFINE c == ConditionOrder[i]
             value == actor.conditions[c]
  <2>1. c \in DOMAIN Conditions
    BY <1>1, LenProperties, ElementOfSeq
  <2>2. value \in 0 .. Most(1, Conditions[c].max)
    BY <2>1 DEF ActorShape
  <2>3. f[i] = IF value > 0 THEN FromCondition[c][value] ELSE <<>>
    OBVIOUS
  <2> HIDE DEF c, value, f
  <2>4. CASE value > 0
    <3>1. value \in 1 .. Most(1, Conditions[c].max)
      BY <2>2, <2>4
    <3> QED BY <2>1, <2>3, <2>4, <3>1, ConditionType
  <2>5. CASE ~(value > 0)
    BY <2>3, <2>5, EmptySeq
  <2> QED BY <2>4, <2>5
<1>3. f = [i \in DOMAIN ConditionOrder |-> f[i]]
  OBVIOUS
<1>4. Collected(actor, context)
        = FromEquipment[actor.id][actor.shieldRaised] \o FlattenSeq(f) \o context
  BY DEF Collected
<1> HIDE DEF f
<1>5. FlattenSeq(f) \in Seq(Modifiers)
  <2>1. f \in Seq(Seq(Modifiers))
    BY <1>1, <1>2, <1>3, ListOf
  <2> QED BY <2>1, FlattenType
<1>6. FromEquipment[actor.id][actor.shieldRaised] \in Seq(Modifiers)
  BY EquipmentType DEF ActorShape
<1> QED BY <1>4, <1>5, <1>6, ConcatProperties

LEMMA StackType ==
  ASSUME NEW actor, ActorShape(actor), NEW target, NEW context \in Seq(Modifiers)
  PROVE  Stack(actor, target, context) \in Int
<1> DEFINE modifiers == Collected(actor, context)
           selected == Selected(modifiers, Matching(modifiers, target))
           f == [i \in DOMAIN modifiers |-> IF i \in selected THEN modifiers[i].value ELSE 0]
<1>1. modifiers \in Seq(Modifiers)
  BY CollectedType
<1>2. Stack(actor, target, context) = Sum(f)
  BY DEF Stack
<1>3. f = [i \in DOMAIN modifiers |-> f[i]]
  OBVIOUS
<1> HIDE DEF modifiers, selected
<1>4. \A i \in DOMAIN modifiers : f[i] \in Int
  <2>1. \A i \in DOMAIN modifiers : modifiers[i] \in Modifiers
    BY <1>1, LenProperties, ElementOfSeq
  <2> QED BY <2>1 DEF Modifiers
<1> HIDE DEF f
<1>5. f \in Seq(Int)
  BY <1>1, <1>3, <1>4, ListOf
<1> QED BY <1>2, <1>5, SumType

LEMMA HalfIsWhole ==
  ASSUME NEW n \in Int
  PROVE  n \div 2 \in Int
OBVIOUS

\* The first of some worn pieces is one of them.
LEMMA FirstIsWorn ==
  ASSUME NEW list \in Seq(DOMAIN Equipment), NEW pieces, pieces \subseteq DOMAIN list, pieces # {},
         NEW actor, Worn[actor.id] = list
  PROVE  \E i \in pieces : FirstWorn(actor, pieces) = Equipment[list[i]]
<1>1. pieces \subseteq Nat
  BY LenProperties
<1>2. \E i \in pieces : \A j \in pieces : i <= j
  BY <1>1, LeastNatural
<1> QED BY <1>2 DEF FirstWorn

\* A Strike rolls a number of dice and adds an integer.
LEMMA StrikeType ==
  ASSUME NEW actor, ActorShape(actor), NEW attacks, NEW extraDice \in Nat
  PROVE  LET strike == Strike(actor, attacks, extraDice) IN
         strike.count \in Nat /\ strike.sides \in Nat /\ strike.flatModifier \in Int
<1> DEFINE stats == Profiles[actor.id].stats
           weapon == StrikeSource(actor)
           stack == Stack(actor, Sel("damage", "any"), <<>>)
           damage == IF IsCharacter(actor) THEN DamageAttribute(weapon, stats.attributes)
                                           ELSE weapon.damageModifier
<1>1. stack \in Int
  <2>1. <<>> \in Seq(Modifiers)
    BY EmptySeq
  <2> QED BY <2>1, StackType
<1>2. \/ Profiles[actor.id].kind = "character" /\ CharacterShape(stats)
      \/ Profiles[actor.id].kind = "creature" /\ CreatureShape(stats)
  BY ProfilesAssumption DEF ActorShape
<1>3. weapon.count \in Nat /\ weapon.sides \in Nat /\ damage \in Int
  <2>1. CASE ~IsCharacter(actor)
    <3>1. weapon = stats.strike
      BY <2>1 DEF StrikeSource
    <3>2. CreatureShape(stats)
      BY <1>2, <2>1 DEF IsCharacter
    <3> HIDE DEF weapon, stats
    <3> QED BY <2>1, <3>1, <3>2 DEF CreatureShape
  <2>2. CASE IsCharacter(actor)
    <3> DEFINE wielded == {i \in DOMAIN Worn[actor.id] : Equipment[Worn[actor.id][i]].weapon.mode # "none"}
               item == FirstWorn(actor, wielded)
    <3>1. CharacterShape(stats)
      BY <1>2, <2>2 DEF IsCharacter
    <3>2. weapon = IF wielded = {} THEN stats.unarmedStrike
                   ELSE [item.weapon EXCEPT !.traits = @ \union ToSet(item.traits)]
      BY <2>2 DEF StrikeSource
    <3>3. weapon.count \in Nat /\ weapon.sides \in Nat
      <4>1. CASE wielded = {}
        BY <3>1, <3>2, <4>1 DEF CharacterShape, WeaponShape
      <4>2. CASE wielded # {}
        <5>1. Worn[actor.id] \in Seq(DOMAIN Equipment)
          BY EquipmentAssumption DEF ActorShape
        <5>2. PICK i \in wielded : item = Equipment[Worn[actor.id][i]]
          <6>1. wielded \subseteq DOMAIN Worn[actor.id]
            OBVIOUS
          <6> HIDE DEF wielded
          <6> QED BY <4>2, <5>1, <6>1, FirstIsWorn
        <5>3. Worn[actor.id][i] \in DOMAIN Equipment /\ item.weapon.mode # "none"
          BY <5>1, <5>2, LenProperties, ElementOfSeq
        <5>4. WeaponShape(item.weapon)
          BY <5>2, <5>3, EquipmentAssumption
        <5> HIDE DEF item, wielded, weapon
        <5> QED BY <3>2, <4>2, <5>4 DEF WeaponShape
      <4> QED BY <4>1, <4>2
    <3>4. DamageAttribute(weapon, stats.attributes) \in Int
      <4>1. stats.attributes.str \in Int
        BY <3>1 DEF CharacterShape, Attributes
      <4>2. stats.attributes.str \div 2 \in Int
        BY <4>1, HalfIsWhole
      <4> HIDE DEF weapon, stats
      <4> QED BY <4>1, <4>2 DEF DamageAttribute
    <3> QED BY <2>2, <3>3, <3>4
  <2> QED BY <2>1, <2>2
<1>4. /\ Strike(actor, attacks, extraDice).count = weapon.count + extraDice
      /\ Strike(actor, attacks, extraDice).sides = weapon.sides
      /\ Strike(actor, attacks, extraDice).flatModifier = damage + stack
  BY DEF Strike
<1> HIDE DEF weapon, damage, stack
<1> QED BY <1>1, <1>3, <1>4

-----------------------------------------------------------------------------
(* Stacking *)

\* The pass of selectedTypedIndices over one kind of candidates: the place of the
\* first one with the greatest weight so far, 0 before there is one.
IsScan(f, candidates, weight, n) ==
  f = [i \in 0 .. n |->
         IF i = 0 THEN 0
         ELSE IF i \in candidates /\ (f[i - 1] = 0 \/ weight[i] > weight[f[i - 1]]) THEN i ELSE f[i - 1]]

LEMMA ScanExists ==
  ASSUME NEW candidates, NEW weight, NEW n \in Nat
  PROVE  \E f : IsScan(f, candidates, weight, n)
<1> DEFINE missing == {m \in Nat : ~ \E f : IsScan(f, candidates, weight, m)}
           Next1(i, k) == IF i \in candidates /\ (k = 0 \/ weight[i] > weight[k]) THEN i ELSE k
<1>1. SUFFICES ASSUME n \in missing PROVE FALSE
  OBVIOUS
<1>2. PICK m \in missing : \A k \in missing : m <= k
  <2>1. missing \subseteq Nat /\ missing # {}
    BY <1>1
  <2> HIDE DEF missing
  <2> QED BY <2>1, LeastNatural
<1>3. m \in Nat
  BY <1>2
<1>4. CASE m = 0
  <2> DEFINE f == [i \in 0 .. 0 |-> 0]
  <2>1. IsScan(f, candidates, weight, 0)
    <3>1. \A i \in 0 .. 0 : i = 0
      OBVIOUS
    <3> QED BY <3>1 DEF IsScan
  <2> HIDE DEF f
  <2> QED BY <1>2, <1>4, <2>1
<1>5. CASE m # 0
  <2>1. m - 1 \in Nat /\ ~(m <= m - 1)
    BY <1>3, <1>5
  <2>2. m - 1 \notin missing
    BY <1>2, <2>1
  <2>3. PICK f : IsScan(f, candidates, weight, m - 1)
    BY <2>1, <2>2
  <2> DEFINE g == [i \in 0 .. m |-> IF i = m THEN Next1(m, f[m - 1]) ELSE f[i]]
  <2>4. ASSUME NEW i \in 0 .. m
        PROVE  g[i] = IF i = 0 THEN 0 ELSE Next1(i, g[i - 1])
    <3>1. i \in Int /\ (i # m => i \in 0 .. m - 1) /\ (i # 0 => i - 1 \in 0 .. m - 1 /\ i - 1 # m)
      BY <1>3
    <3> HIDE DEF Next1
    <3>2. i # 0 => g[i - 1] = f[i - 1]
      BY <1>3, <3>1
    <3>3. CASE i = m
      BY <1>5, <3>1, <3>2, <3>3
    <3>4. CASE i # m
      <4>1. f[i] = IF i = 0 THEN 0 ELSE Next1(i, f[i - 1])
        BY <2>3, <3>1, <3>4 DEF IsScan, Next1
      <4>2. g[i] = f[i]
        BY <3>4
      <4> QED BY <3>2, <4>1, <4>2
    <3> QED BY <3>3, <3>4
  <2>5. IsScan(g, candidates, weight, m)
    BY <2>4 DEF IsScan
  <2> HIDE DEF g
  <2> QED BY <1>2, <2>5
<1> QED BY <1>4, <1>5

\* A place is 0 or one that was looked at.
LEMMA PlacesType ==
  ASSUME NEW n \in Nat, NEW f, f[0] = 0, \A i \in 1 .. n : f[i] = i \/ f[i] = f[i - 1]
  PROVE  \A i \in 0 .. n : f[i] = 0 \/ f[i] \in 1 .. n
<1> DEFINE S == {i \in 0 .. n : f[i] = 0 \/ f[i] \in 1 .. n}
<1>1. 0 \in S
  OBVIOUS
<1>2. ASSUME NEW i \in 1 .. n, i - 1 \in S PROVE i \in S
  <2>1. f[i] = i \/ f[i] = f[i - 1]
    OBVIOUS
  <2> QED BY <1>2, <2>1
<1> HIDE DEF S
<1>3. 0 .. n \subseteq S
  BY <1>1, <1>2, UpTo
<1> QED BY <1>3 DEF S

LEMMA ScanFindsGreatest ==
  ASSUME NEW n \in Nat, NEW candidates, candidates \subseteq 1 .. n,
         NEW weight, \A i \in 1 .. n : weight[i] \in Int,
         NEW f, IsScan(f, candidates, weight, n)
  PROVE  IF candidates = {} THEN f[n] = 0
         ELSE f[n] \in candidates /\ \A j \in candidates : weight[j] <= weight[f[n]]
<1> DEFINE Greatest(i) ==
             \/ f[i] = 0 /\ \A j \in 1 .. i : j \notin candidates
             \/ /\ f[i] \in candidates
                /\ \A j \in 1 .. i : j \in candidates => weight[j] <= weight[f[i]]
           S == {i \in 0 .. n : Greatest(i)}
<1>1. 0 \in S
  BY DEF IsScan
<1>2. ASSUME NEW i \in 1 .. n, i - 1 \in S
      PROVE  i \in S
  <2>1. Greatest(i - 1) /\ i \in 0 .. n
    BY <1>2
  <2>2. f[i] = IF i \in candidates /\ (f[i - 1] = 0 \/ weight[i] > weight[f[i - 1]])
                 THEN i ELSE f[i - 1]
    BY DEF IsScan
  <2>3. \A j \in 1 .. i : j = i \/ j \in 1 .. i - 1
    OBVIOUS
  <2>4. 0 \notin candidates /\ weight[i] \in Int
    OBVIOUS
  <2>5. \A j \in candidates : weight[j] \in Int
    OBVIOUS
  <2>6. CASE f[i - 1] = 0 /\ \A j \in 1 .. i - 1 : j \notin candidates
    <3>1. Greatest(i)
      BY <2>2, <2>3, <2>4, <2>6
    <3> QED BY <2>1, <3>1
  <2>7. CASE /\ f[i - 1] \in candidates
             /\ \A j \in 1 .. i - 1 : j \in candidates => weight[j] <= weight[f[i - 1]]
    <3>1. CASE i \in candidates /\ weight[i] > weight[f[i - 1]]
      <4>1. f[i] = i
        BY <2>2, <3>1
      <4>2. ASSUME NEW j \in 1 .. i, j \in candidates PROVE weight[j] <= weight[i]
        <5>1. j = i \/ weight[j] <= weight[f[i - 1]]
          BY <2>3, <2>7, <4>2
        <5>2. weight[j] \in Int /\ weight[i] \in Int /\ weight[f[i - 1]] \in Int
          BY <2>4, <2>5, <2>7, <4>2
        <5> QED BY <3>1, <5>1, <5>2
      <4> QED BY <2>1, <3>1, <4>1, <4>2
    <3>2. CASE ~(i \in candidates /\ weight[i] > weight[f[i - 1]])
      <4>1. f[i] = f[i - 1]
        BY <2>2, <2>4, <2>7, <3>2
      <4>2. ASSUME NEW j \in 1 .. i, j \in candidates PROVE weight[j] <= weight[f[i - 1]]
        <5>1. j = i \/ weight[j] <= weight[f[i - 1]]
          BY <2>3, <2>7, <4>2
        <5>2. weight[j] \in Int /\ weight[i] \in Int /\ weight[f[i - 1]] \in Int
          BY <2>4, <2>5, <2>7, <4>2
        <5> QED BY <3>2, <4>2, <5>1, <5>2
      <4> QED BY <2>1, <2>7, <4>1, <4>2
    <3> QED BY <3>1, <3>2
  <2> QED BY <2>1, <2>6, <2>7
<1> HIDE DEF S
<1>3. 0 .. n \subseteq S
  BY <1>1, <1>2, UpTo
<1>4. Greatest(n)
  BY <1>3 DEF S
<1> QED BY <1>4

\* The places of the bonuses and of the penalties of a type.
Bonuses(modifiers, matching, type) ==
  {i \in matching : modifiers[i].type = type /\ modifiers[i].value > 0}
Penalties(modifiers, matching, type) ==
  {i \in matching : modifiers[i].type = type /\ modifiers[i].value < 0}

BestBonusOf(modifiers, matching, type) ==
  BestOf(modifiers, matching, type, LAMBDA v : v > 0, LAMBDA v, w : v > w)
WorstPenaltyOf(modifiers, matching, type) ==
  BestOf(modifiers, matching, type, LAMBDA v : v < 0, LAMBDA v, w : v < w)

LEMMA BonusScanned ==
  ASSUME NEW modifiers \in Seq(Modifiers), NEW matching, matching \subseteq DOMAIN modifiers, NEW type
  PROVE  LET bonuses == Bonuses(modifiers, matching, type)
             best == BestBonusOf(modifiers, matching, type)
         IN IF bonuses = {} THEN best = 0
            ELSE best \in bonuses /\ \A j \in bonuses : modifiers[j].value <= modifiers[best].value
<1> DEFINE n == Len(modifiers)
           bonuses == Bonuses(modifiers, matching, type)
           weight == [i \in 1 .. n |-> modifiers[i].value]
           best == BestBonusOf(modifiers, matching, type)
           Better(f, i) ==
             /\ i \in matching /\ modifiers[i].type = type /\ modifiers[i].value > 0
             /\ f[i - 1] = 0 \/ modifiers[i].value > modifiers[f[i - 1]].value
           Heavier(f, i) == i \in bonuses /\ (f[i - 1] = 0 \/ weight[i] > weight[f[i - 1]])
           Loop(f) == f = [i \in 0 .. n |-> IF i = 0 THEN 0 ELSE IF Better(f, i) THEN i ELSE f[i - 1]]
           Places(f) == \A i \in 0 .. n : f[i] = 0 \/ f[i] \in 1 .. n
<1>1. n \in Nat /\ DOMAIN modifiers = 1 .. n
  BY LenProperties
<1>2. best = (CHOOSE f : Loop(f))[n]
  BY DEF BestBonusOf, BestOf
<1>3. \A i \in 1 .. n : modifiers[i].value \in Int
  <2>1. \A i \in 1 .. n : modifiers[i] \in Modifiers
    BY <1>1, ElementOfSeq
  <2> QED BY <2>1 DEF Modifiers
<1> HIDE DEF n, best
<1>4. /\ bonuses \subseteq 1 .. n
      /\ \A i \in 1 .. n : weight[i] \in Int /\ weight[i] = modifiers[i].value
  BY <1>1, <1>3 DEF Bonuses
<1> HIDE DEF weight
<1>5. ASSUME NEW f, Places(f), NEW i \in 1 .. n PROVE Heavier(f, i) <=> Better(f, i)
  <2>1. f[i - 1] = 0 \/ f[i - 1] \in 1 .. n
    BY <1>1, <1>5
  <2>2. f[i - 1] # 0 =>
          (weight[i] > weight[f[i - 1]] <=> modifiers[i].value > modifiers[f[i - 1]].value)
    BY <1>3, <1>4, <2>1
  <2> QED BY <2>2 DEF Bonuses
<1> HIDE DEF Better, bonuses
<1>6. \E f : Loop(f)
  <2>1. PICK f : IsScan(f, bonuses, weight, n)
    BY <1>1, ScanExists
  <2>2. f = [i \in 0 .. n |-> IF i = 0 THEN 0 ELSE IF Heavier(f, i) THEN i ELSE f[i - 1]]
    BY <2>1 DEF IsScan
  <2> HIDE DEF Heavier
  <2>3. f[0] = 0 /\ \A i \in 1 .. n : f[i] = i \/ f[i] = f[i - 1]
    BY <1>1, <2>2
  <2>4. Places(f)
    BY <1>1, <2>3, PlacesType
  <2>5. \A i \in 0 .. n : i = 0 \/ (Heavier(f, i) <=> Better(f, i))
    BY <1>1, <1>5, <2>4
  <2> QED BY <2>2, <2>5
<1>7. PICK f : Loop(f) /\ best = f[n]
  BY <1>2, <1>6
<1>8. IsScan(f, bonuses, weight, n)
  <2>1. f[0] = 0 /\ \A i \in 1 .. n : f[i] = i \/ f[i] = f[i - 1]
    BY <1>1, <1>7
  <2>2. Places(f)
    BY <1>1, <2>1, PlacesType
  <2>3. \A i \in 0 .. n : i = 0 \/ (Heavier(f, i) <=> Better(f, i))
    BY <1>1, <1>5, <2>2
  <2>4. f = [i \in 0 .. n |-> IF i = 0 THEN 0 ELSE IF Heavier(f, i) THEN i ELSE f[i - 1]]
    <3> HIDE DEF Heavier
    <3> QED BY <1>7, <2>3
  <2> QED BY <2>4 DEF IsScan
<1>9. IF bonuses = {} THEN best = 0
      ELSE best \in bonuses /\ \A j \in bonuses : weight[j] <= weight[best]
  BY <1>1, <1>4, <1>7, <1>8, ScanFindsGreatest
<1>10. \A i, j \in bonuses : weight[j] <= weight[i] => modifiers[j].value <= modifiers[i].value
  BY <1>3, <1>4
<1> QED BY <1>9, <1>10 DEF bonuses, best

LEMMA PenaltyScanned ==
  ASSUME NEW modifiers \in Seq(Modifiers), NEW matching, matching \subseteq DOMAIN modifiers, NEW type
  PROVE  LET penalties == Penalties(modifiers, matching, type)
             best == WorstPenaltyOf(modifiers, matching, type)
         IN IF penalties = {} THEN best = 0
            ELSE best \in penalties /\ \A j \in penalties : modifiers[j].value >= modifiers[best].value
<1> DEFINE n == Len(modifiers)
           penalties == Penalties(modifiers, matching, type)
           weight == [i \in 1 .. n |-> -modifiers[i].value]
           best == WorstPenaltyOf(modifiers, matching, type)
           Better(f, i) ==
             /\ i \in matching /\ modifiers[i].type = type /\ modifiers[i].value < 0
             /\ f[i - 1] = 0 \/ modifiers[i].value < modifiers[f[i - 1]].value
           Heavier(f, i) == i \in penalties /\ (f[i - 1] = 0 \/ weight[i] > weight[f[i - 1]])
           Loop(f) == f = [i \in 0 .. n |-> IF i = 0 THEN 0 ELSE IF Better(f, i) THEN i ELSE f[i - 1]]
           Places(f) == \A i \in 0 .. n : f[i] = 0 \/ f[i] \in 1 .. n
<1>1. n \in Nat /\ DOMAIN modifiers = 1 .. n
  BY LenProperties
<1>2. best = (CHOOSE f : Loop(f))[n]
  BY DEF WorstPenaltyOf, BestOf
<1>3. \A i \in 1 .. n : modifiers[i].value \in Int
  <2>1. \A i \in 1 .. n : modifiers[i] \in Modifiers
    BY <1>1, ElementOfSeq
  <2> QED BY <2>1 DEF Modifiers
<1> HIDE DEF n, best
<1>4. /\ penalties \subseteq 1 .. n
      /\ \A i \in 1 .. n : weight[i] \in Int /\ weight[i] = -modifiers[i].value
  BY <1>1, <1>3 DEF Penalties
<1> HIDE DEF weight
<1>5. ASSUME NEW f, Places(f), NEW i \in 1 .. n PROVE Heavier(f, i) <=> Better(f, i)
  <2>1. f[i - 1] = 0 \/ f[i - 1] \in 1 .. n
    BY <1>1, <1>5
  <2>2. \A j, k \in 1 .. n : weight[j] > weight[k] <=> modifiers[j].value < modifiers[k].value
    <3> TAKE j, k \in 1 .. n
    <3>1. PICK a \in Int : modifiers[j].value = a
      BY <1>3
    <3>2. PICK b \in Int : modifiers[k].value = b
      BY <1>3
    <3>3. weight[j] = -a /\ weight[k] = -b
      BY <1>4, <3>1, <3>2
    <3>4. -a > -b <=> a < b
      OBVIOUS
    <3> QED BY <3>1, <3>2, <3>3, <3>4
  <2>3. f[i - 1] # 0 =>
          (weight[i] > weight[f[i - 1]] <=> modifiers[i].value < modifiers[f[i - 1]].value)
    BY <2>1, <2>2
  <2> QED BY <2>3 DEF Penalties
<1> HIDE DEF Better, penalties
<1>6. \E f : Loop(f)
  <2>1. PICK f : IsScan(f, penalties, weight, n)
    BY <1>1, ScanExists
  <2>2. f = [i \in 0 .. n |-> IF i = 0 THEN 0 ELSE IF Heavier(f, i) THEN i ELSE f[i - 1]]
    BY <2>1 DEF IsScan
  <2> HIDE DEF Heavier
  <2>3. f[0] = 0 /\ \A i \in 1 .. n : f[i] = i \/ f[i] = f[i - 1]
    BY <1>1, <2>2
  <2>4. Places(f)
    BY <1>1, <2>3, PlacesType
  <2>5. \A i \in 0 .. n : i = 0 \/ (Heavier(f, i) <=> Better(f, i))
    BY <1>1, <1>5, <2>4
  <2> QED BY <2>2, <2>5
<1>7. PICK f : Loop(f) /\ best = f[n]
  BY <1>2, <1>6
<1>8. IsScan(f, penalties, weight, n)
  <2>1. f[0] = 0 /\ \A i \in 1 .. n : f[i] = i \/ f[i] = f[i - 1]
    BY <1>1, <1>7
  <2>2. Places(f)
    BY <1>1, <2>1, PlacesType
  <2>3. \A i \in 0 .. n : i = 0 \/ (Heavier(f, i) <=> Better(f, i))
    BY <1>1, <1>5, <2>2
  <2>4. f = [i \in 0 .. n |-> IF i = 0 THEN 0 ELSE IF Heavier(f, i) THEN i ELSE f[i - 1]]
    <3> HIDE DEF Heavier
    <3> QED BY <1>7, <2>3
  <2> QED BY <2>4 DEF IsScan
<1>9. IF penalties = {} THEN best = 0
      ELSE best \in penalties /\ \A j \in penalties : weight[j] <= weight[best]
  BY <1>1, <1>4, <1>7, <1>8, ScanFindsGreatest
<1>10. \A i, j \in penalties : weight[j] <= weight[i] => modifiers[j].value >= modifiers[i].value
  BY <1>3, <1>4
<1> QED BY <1>9, <1>10 DEF penalties, best

\* Of the bonuses of a type only one counts, and none is greater; of its penalties
\* only one, and none is worse; whatever is untyped counts (statistics.ts:
\* selectedTypedIndices).
THEOREM OnlyTheBestCount ==
  ASSUME NEW modifiers \in Seq(Modifiers), NEW matching, matching \subseteq DOMAIN modifiers,
         NEW type \in Types
  PROVE  LET selected == Selected(modifiers, matching)
             bonuses == Bonuses(modifiers, matching, type)
             penalties == Penalties(modifiers, matching, type)
         IN /\ bonuses # {} => \E i \in bonuses :
                 selected \intersect bonuses = {i} /\ \A j \in bonuses : modifiers[j].value <= modifiers[i].value
            /\ penalties # {} => \E i \in penalties :
                 selected \intersect penalties = {i} /\ \A j \in penalties : modifiers[j].value >= modifiers[i].value
            /\ Untyped(modifiers, matching) \subseteq selected
<1> DEFINE selected == Selected(modifiers, matching)
           B(t) == Bonuses(modifiers, matching, t)
           P(t) == Penalties(modifiers, matching, t)
           best(t) == BestBonusOf(modifiers, matching, t)
           worst(t) == WorstPenaltyOf(modifiers, matching, t)
           untyped == Untyped(modifiers, matching)
<1>1. selected = untyped \union {best(t) : t \in Types} \union {worst(t) : t \in Types}
  BY DEF Selected, BestBonusOf, WorstPenaltyOf
<1>2. \A t : IF B(t) = {} THEN best(t) = 0
             ELSE best(t) \in B(t) /\ \A j \in B(t) : modifiers[j].value <= modifiers[best(t)].value
  BY BonusScanned
<1>3. \A t : IF P(t) = {} THEN worst(t) = 0
             ELSE worst(t) \in P(t) /\ \A j \in P(t) : modifiers[j].value >= modifiers[worst(t)].value
  BY PenaltyScanned
<1>4. 0 \notin matching /\ "untyped" \notin Types
  BY LenProperties DEF Types
<1>5. /\ \A t : \A i \in B(t) : i \in matching /\ modifiers[i].type = t /\ modifiers[i].value > 0
      /\ \A t : \A i \in P(t) : i \in matching /\ modifiers[i].type = t /\ modifiers[i].value < 0
      /\ \A i \in untyped : modifiers[i].type = "untyped"
  BY DEF Bonuses, Penalties, Untyped
<1>6. \A i \in matching : modifiers[i].value \in Int
  <2>1. \A i \in matching : modifiers[i] \in Modifiers
    BY ElementOfSeq, LenProperties
  <2> QED BY <2>1 DEF Modifiers
<1> HIDE DEF selected, B, P, best, worst, untyped
<1>7. \A t : B(t) \intersect P(type) = {} /\ B(type) \intersect P(t) = {}
  BY <1>5, <1>6
<1>8. ASSUME B(type) # {} PROVE selected \intersect B(type) = {best(type)}
  <2>1. best(type) \in selected \intersect B(type)
    BY <1>1, <1>2, <1>8
  <2>2. ASSUME NEW i \in selected, i \in B(type) PROVE i = best(type)
    <3>1. i \notin untyped /\ i # 0
      BY <1>4, <1>5, <2>2
    <3>2. \A t : i # worst(t)
      BY <1>3, <1>7, <2>2, <3>1
    <3>3. PICK t \in Types : i = best(t)
      BY <1>1, <3>1, <3>2
    <3>4. i \in B(t)
      BY <1>2, <3>1, <3>3
    <3>5. t = type
      BY <1>5, <2>2, <3>4
    <3> QED BY <3>3, <3>5
  <2> QED BY <2>1, <2>2
<1>9. ASSUME P(type) # {} PROVE selected \intersect P(type) = {worst(type)}
  <2>1. worst(type) \in selected \intersect P(type)
    BY <1>1, <1>3, <1>9
  <2>2. ASSUME NEW i \in selected, i \in P(type) PROVE i = worst(type)
    <3>1. i \notin untyped /\ i # 0
      BY <1>4, <1>5, <2>2
    <3>2. \A t : i # best(t)
      BY <1>2, <1>7, <2>2, <3>1
    <3>3. PICK t \in Types : i = worst(t)
      BY <1>1, <3>1, <3>2
    <3>4. i \in P(t)
      BY <1>3, <3>1, <3>3
    <3>5. t = type
      BY <1>5, <2>2, <3>4
    <3> QED BY <3>3, <3>5
  <2> QED BY <2>1, <2>2
<1>10. untyped \subseteq selected
  BY <1>1
<1> QED BY <1>2, <1>3, <1>8, <1>9, <1>10 DEF selected, B, P, untyped

-----------------------------------------------------------------------------
(* Fear and sustained effects *)

DraftFields == {"actors", "turn", "effects", "knowledge", "outcome", "scares"}
TurnFields == {"active", "index", "actions", "attacks", "number", "locked", "flourish"}
ActorFields == {"hp", "defeated", "reaction", "shieldRaised", "conditions"}
EffectFields == {"owner", "created", "sustained", "nth"}

\* What a draft is made of.
DraftShape(s) ==
  /\ DOMAIN s = DraftFields
  /\ DOMAIN s.turn = TurnFields
  /\ DOMAIN s.actors = Fighters /\ DOMAIN s.scares = Fighters
  /\ \A a \in Fighters :
       DOMAIN s.actors[a] = ActorFields /\ DOMAIN s.actors[a].conditions = ConditionIds

Fear(s, a) == s.actors[a].conditions["frightened"]

\* done are the turns each fighter has ended, all of them before this one.
TurnsBefore(s, done) ==
  /\ s.turn.number \in Nat
  /\ \A a \in Fighters :
       IsFiniteSet(done[a]) /\ \A n \in done[a] : n \in Nat /\ n < s.turn.number

\* A fighter is as frightened as the strongest of its frights that is left.
Frights(scared, turns) == {Left(fright, turns) : fright \in scared}

FearIsExact(s, done) ==
  \A a \in Fighters :
    /\ Fear(s, a) \in 0 .. Conditions["frightened"].max
    /\ \A fright \in s.scares[a] :
         fright.value \in Nat /\ fright.since \in Nat /\ fright.since <= s.turn.number
    /\ Fear(s, a) \in Frights(s.scares[a], done[a]) \union {0}
    /\ \A n \in Frights(s.scares[a], done[a]) : n \in Nat /\ n <= Fear(s, a)

\* No turn a fighter has ended is later than its effects were created or sustained.
EffectsArePaid(s, done) ==
  \A f \in s.effects :
    /\ DOMAIN f = EffectFields
    /\ f.owner \in Fighters /\ f.created \in Nat /\ f.sustained \in Nat
    /\ \A n \in done[f.owner] : n <= Most(f.created, f.sustained)

Exact(s, done) ==
  DraftShape(s) /\ TurnsBefore(s, done) /\ FearIsExact(s, done) /\ EffectsArePaid(s, done)

\* A step within a turn.
SameTurn(s, t) == t.turn.active = s.turn.active /\ t.turn.number = s.turn.number

\* What leaves fear and effects alone.
LEMMA OtherThings ==
  ASSUME NEW s, NEW t, NEW done, Exact(s, done), DraftShape(t), SameTurn(s, t),
         t.effects = s.effects,
         \A a \in Fighters : Fear(t, a) = Fear(s, a) /\ t.scares[a] = s.scares[a]
  PROVE  Exact(t, done)
BY DEF Exact, TurnsBefore, FearIsExact, EffectsArePaid, SameTurn

\* Of a fright of this turn all is left, and each turn ended takes one off.
LEMMA FreshFright ==
  ASSUME NEW turns, NEW now \in Nat, \A n \in turns : n \in Nat /\ n < now, NEW value \in Nat
  PROVE  Left([value |-> value, since |-> now], turns) = value
<1>1. {n \in turns : n >= now} = {}
  OBVIOUS
<1> QED BY <1>1, FS_EmptySet DEF Left, Most

LEMMA FrightWearsOff ==
  ASSUME NEW turns, IsFiniteSet(turns), NEW now \in Nat, \A n \in turns : n \in Nat /\ n < now,
         NEW fright, fright.value \in Nat, fright.since \in Nat, fright.since <= now
  PROVE  /\ Left(fright, turns) \in Nat
         /\ Left(fright, turns \union {now}) = Most(0, Left(fright, turns) - 1)
<1> DEFINE since == {n \in turns : n >= fright.since}
<1>1. IsFiniteSet(since) /\ now \notin since
  BY FS_Subset
<1>2. {n \in turns \union {now} : n >= fright.since} = since \union {now}
  OBVIOUS
<1>3. Cardinality(since) \in Nat /\ Cardinality(since \union {now}) = Cardinality(since) + 1
  BY <1>1, FS_CardinalityType, FS_AddElement
<1> HIDE DEF since
<1>4. /\ Left(fright, turns) = Most(0, fright.value - Cardinality(since))
      /\ Left(fright, turns \union {now}) = Most(0, fright.value - (Cardinality(since) + 1))
  BY <1>2, <1>3 DEF Left, since
<1> QED BY <1>3, <1>4 DEF Most

LEMMA AddedInTurn ==
  ASSUME NEW s, NEW done, Exact(s, done), NEW a, NEW c, NEW value \in Int
  PROVE  Exact(AddCondition(s, a, c, value), done) /\ SameTurn(s, AddCondition(s, a, c, value))
<1> DEFINE t == AddCondition(s, a, c, value)
           max == Conditions["frightened"].max
<1>1. DraftShape(s)
  BY DEF Exact
<1>2. DraftShape(t) /\ SameTurn(s, t) /\ t.effects = s.effects
  BY <1>1 DEF AddCondition, DraftShape, DraftFields, TurnFields, ActorFields, SameTurn
<1>3. CASE c # "frightened"
  <2>1. \A b \in Fighters : Fear(t, b) = Fear(s, b) /\ t.scares[b] = s.scares[b]
    BY <1>1, <1>3 DEF AddCondition, DraftShape, DraftFields, TurnFields, ActorFields, Fear
  <2> QED BY <1>2, <2>1, OtherThings
<1>4. CASE c = "frightened"
  <2> DEFINE v == Clamp(c, value)
  <2>1. max \in Nat \ {0} /\ v \in 0 .. max
    BY <1>4, FrightenedAssumption DEF Clamp, Most, Least
  <2>2. "frightened" \in ConditionIds /\ Valued(c)
    BY <1>4, FrightenedAssumption DEF Valued, ConditionIds
  <2> HIDE DEF v
  <2> DEFINE fright == [value |-> v, since |-> s.turn.number]
  <2>3. \A b \in Fighters :
          /\ Fear(t, b) = IF b = a THEN Most(Fear(s, b), v) ELSE Fear(s, b)
          /\ t.scares[b] = IF b = a THEN s.scares[b] \union {fright} ELSE s.scares[b]
    BY <1>1, <1>4, <2>2
       DEF AddCondition, Merged, DraftShape, DraftFields, TurnFields, ActorFields, Fear, v
  <2> HIDE DEF t
  <2>4. TurnsBefore(s, done) /\ FearIsExact(s, done) /\ EffectsArePaid(s, done)
    BY DEF Exact
  <2>5. FearIsExact(t, done)
    <3> SUFFICES ASSUME NEW b \in Fighters
                 PROVE  /\ Fear(t, b) \in 0 .. max
                        /\ \A f \in t.scares[b] :
                             f.value \in Nat /\ f.since \in Nat /\ f.since <= t.turn.number
                        /\ Fear(t, b) \in Frights(t.scares[b], done[b]) \union {0}
                        /\ \A n \in Frights(t.scares[b], done[b]) : n \in Nat /\ n <= Fear(t, b)
      BY DEF FearIsExact
    <3>1. /\ Fear(s, b) \in 0 .. max
          /\ \A f \in s.scares[b] :
               f.value \in Nat /\ f.since \in Nat /\ f.since <= s.turn.number
          /\ Fear(s, b) \in Frights(s.scares[b], done[b]) \union {0}
          /\ \A n \in Frights(s.scares[b], done[b]) : n \in Nat /\ n <= Fear(s, b)
      BY <2>4 DEF FearIsExact
    <3>2. t.turn.number = s.turn.number /\ s.turn.number \in Nat
      BY <1>2, <2>4 DEF SameTurn, TurnsBefore
    <3>3. CASE b = a
      <4>1. Fear(t, b) = Most(Fear(s, b), v) /\ t.scares[b] = s.scares[b] \union {fright}
        BY <2>3, <3>3
      <4>2. Left(fright, done[b]) = v
        BY <2>1, <2>4, FreshFright DEF TurnsBefore
      <4>3. Frights(t.scares[b], done[b]) = Frights(s.scares[b], done[b]) \union {v}
        BY <4>1, <4>2 DEF Frights
      <4>4. fright.value \in Nat /\ fright.since = s.turn.number
        BY <2>1
      <4>5. \A f \in t.scares[b] :
              f.value \in Nat /\ f.since \in Nat /\ f.since <= t.turn.number
        BY <3>1, <3>2, <4>1, <4>4
      <4> DEFINE fear == Fear(s, b)
                 before == Frights(s.scares[b], done[b])
                 left == Frights(t.scares[b], done[b])
      <4>6. /\ fear \in 0 .. max /\ fear \in before \union {0}
            /\ \A n \in before : n \in Nat /\ n <= fear
            /\ left = before \union {v} /\ Fear(t, b) = Most(fear, v)
        BY <3>1, <4>1, <4>3
      <4> HIDE DEF fright, max, fear, before, left
      <4>7. max \in Nat /\ v \in 0 .. max
        BY <2>1
      <4>8. Fear(t, b) \in 0 .. max /\ Fear(t, b) \in left \union {0}
        BY <4>6, <4>7 DEF Most
      <4>9. \A n \in left : n \in Nat /\ n <= Fear(t, b)
        BY <4>6, <4>7 DEF Most
      <4> QED BY <4>5, <4>8, <4>9 DEF left
    <3>4. CASE b # a
      BY <2>3, <3>1, <3>2, <3>4
    <3> QED BY <3>3, <3>4
  <2>6. TurnsBefore(t, done) /\ EffectsArePaid(t, done)
    BY <1>2, <2>4 DEF TurnsBefore, EffectsArePaid, SameTurn
  <2> QED BY <1>2, <2>5, <2>6 DEF Exact, t
<1> QED BY <1>3, <1>4

LEMMA RemovedInTurn ==
  ASSUME NEW s, NEW done, Exact(s, done), NEW a, NEW c
  PROVE  Exact(RemoveCondition(s, a, c), done) /\ SameTurn(s, RemoveCondition(s, a, c))
<1> DEFINE t == RemoveCondition(s, a, c)
<1>1. DraftShape(s) /\ TurnsBefore(s, done) /\ FearIsExact(s, done) /\ EffectsArePaid(s, done)
  BY DEF Exact
<1>2. DraftShape(t) /\ SameTurn(s, t) /\ t.effects = s.effects
  BY <1>1 DEF RemoveCondition, DraftShape, DraftFields, TurnFields, ActorFields, SameTurn
<1>3. \A b \in Fighters :
        /\ Fear(t, b) = IF b = a /\ c = "frightened" THEN 0 ELSE Fear(s, b)
        /\ t.scares[b] = IF b = a /\ c = "frightened" THEN {} ELSE s.scares[b]
  BY <1>1, FrightenedAssumption
     DEF RemoveCondition, DraftShape, DraftFields, TurnFields, ActorFields, Fear, ConditionIds
<1> HIDE DEF t
<1>4. FearIsExact(t, done)
  BY <1>1, <1>2, <1>3, FrightenedAssumption DEF FearIsExact, Frights, SameTurn
<1>5. TurnsBefore(t, done) /\ EffectsArePaid(t, done)
  BY <1>1, <1>2 DEF TurnsBefore, EffectsArePaid, SameTurn
<1> QED BY <1>2, <1>4, <1>5 DEF Exact, t

LEMMA OutcomeInTurn ==
  ASSUME NEW s, NEW done, Exact(s, done)
  PROVE  Exact(OutcomeChecked(s), done) /\ SameTurn(s, OutcomeChecked(s))
<1> DEFINE t == OutcomeChecked(s)
<1>1. DraftShape(s)
  BY DEF Exact
<1>2. /\ DraftShape(t) /\ SameTurn(s, t) /\ t.effects = s.effects /\ t.scares = s.scares
      /\ t.actors = s.actors
  BY <1>1 DEF OutcomeChecked, DraftShape, DraftFields, SameTurn
<1> HIDE DEF t
<1>3. Exact(t, done)
  BY <1>2, OtherThings DEF Fear
<1> QED BY <1>2, <1>3 DEF t

LEMMA DamagedInTurn ==
  ASSUME NEW s, NEW done, Exact(s, done), NEW a, NEW amount
  PROVE  Exact(Damaged(s, a, amount), done) /\ SameTurn(s, Damaged(s, a, amount))
<1> DEFINE hp == Most(0, s.actors[a].hp - amount)
           t == [s EXCEPT !.actors[a].hp = hp, !.actors[a].defeated = (hp = 0)]
<1>1. DraftShape(s)
  BY DEF Exact
<1> HIDE DEF hp
<1>2. /\ DraftShape(t) /\ SameTurn(s, t) /\ t.effects = s.effects /\ t.scares = s.scares
      /\ \A b \in Fighters : Fear(t, b) = Fear(s, b)
  BY <1>1 DEF DraftShape, DraftFields, ActorFields, SameTurn, Fear
<1>3. Damaged(s, a, amount) = IF s.actors[a].defeated THEN s ELSE OutcomeChecked(t)
  BY DEF Damaged, hp
<1> HIDE DEF t
<1>4. Exact(t, done)
  BY <1>2, OtherThings
<1> QED BY <1>2, <1>3, <1>4, OutcomeInTurn DEF SameTurn

LEMMA RestoredInTurn ==
  ASSUME NEW s, NEW done, Exact(s, done), NEW a, NEW amount
  PROVE  Exact(Restored(s, a, amount), done) /\ SameTurn(s, Restored(s, a, amount))
<1> DEFINE t == Restored(s, a, amount)
<1>1. DraftShape(s)
  BY DEF Exact
<1>2. /\ DraftShape(t) /\ SameTurn(s, t) /\ t.effects = s.effects /\ t.scares = s.scares
      /\ \A b \in Fighters : Fear(t, b) = Fear(s, b)
  BY <1>1 DEF Restored, DraftShape, DraftFields, ActorFields, SameTurn, Fear
<1> HIDE DEF t
<1>3. Exact(t, done)
  BY <1>2, OtherThings
<1> QED BY <1>2, <1>3 DEF t

LEMMA CreatedInTurn ==
  ASSUME NEW s, NEW done, Exact(s, done), NEW plan, plan.actor \in Fighters
  PROVE  Exact(CreateEffect(s, plan), done) /\ SameTurn(s, CreateEffect(s, plan))
<1> DEFINE t == CreateEffect(s, plan)
           new == [owner |-> plan.actor, created |-> s.turn.number, sustained |-> 0,
                   nth |-> Cardinality({f \in s.effects : f.owner = plan.actor})]
<1>1. DraftShape(s) /\ TurnsBefore(s, done) /\ FearIsExact(s, done) /\ EffectsArePaid(s, done)
  BY DEF Exact
<1>2. /\ DraftShape(t) /\ SameTurn(s, t) /\ t.scares = s.scares /\ t.actors = s.actors
      /\ t.effects = s.effects \union {new}
  BY <1>1 DEF CreateEffect, DraftShape, DraftFields, SameTurn
<1>3. /\ DOMAIN new = EffectFields /\ new.owner = plan.actor
      /\ new.created = s.turn.number /\ new.sustained = 0
  BY DEF EffectFields
<1> HIDE DEF t, new
<1>4. EffectsArePaid(t, done)
  BY <1>1, <1>2, <1>3 DEF TurnsBefore, EffectsArePaid, Most
<1>5. TurnsBefore(t, done) /\ FearIsExact(t, done)
  BY <1>1, <1>2 DEF TurnsBefore, FearIsExact, Fear, SameTurn
<1> QED BY <1>2, <1>4, <1>5 DEF Exact, t

LEMMA SustainedInTurn ==
  ASSUME NEW s, NEW done, Exact(s, done), NEW plan
  PROVE  Exact(SustainEffect(s, plan), done) /\ SameTurn(s, SustainEffect(s, plan))
<1> DEFINE t == SustainEffect(s, plan)
           Paying(f) == IF f = plan.effect THEN [f EXCEPT !.sustained = s.turn.number] ELSE f
<1>1. DraftShape(s) /\ TurnsBefore(s, done) /\ FearIsExact(s, done) /\ EffectsArePaid(s, done)
  BY DEF Exact
<1>2. /\ DraftShape(t) /\ SameTurn(s, t) /\ t.scares = s.scares /\ t.actors = s.actors
      /\ t.effects = {Paying(f) : f \in s.effects}
  BY <1>1 DEF SustainEffect, DraftShape, DraftFields, SameTurn
<1>3. ASSUME NEW f \in s.effects
      PROVE  /\ DOMAIN Paying(f) = EffectFields /\ Paying(f).owner = f.owner
             /\ Paying(f).created = f.created
             /\ Paying(f).sustained \in {f.sustained, s.turn.number}
  BY <1>1 DEF EffectsArePaid, EffectFields
<1> HIDE DEF t, Paying
<1>4. EffectsArePaid(t, done)
  <2>1. ASSUME NEW g \in t.effects
        PROVE  /\ DOMAIN g = EffectFields
               /\ g.owner \in Fighters /\ g.created \in Nat /\ g.sustained \in Nat
               /\ \A n \in done[g.owner] : n <= Most(g.created, g.sustained)
    <3>1. PICK f \in s.effects : g = Paying(f)
      BY <1>2
    <3>2. /\ g.owner = f.owner /\ g.created = f.created /\ DOMAIN g = EffectFields
          /\ g.sustained \in {f.sustained, s.turn.number}
      BY <1>3, <3>1
    <3>3. /\ s.turn.number \in Nat /\ f.owner \in Fighters /\ f.created \in Nat
          /\ f.sustained \in Nat
          /\ \A n \in done[f.owner] :
               n \in Nat /\ n < s.turn.number /\ n <= Most(f.created, f.sustained)
      BY <1>1 DEF EffectsArePaid, TurnsBefore
    <3> QED BY <3>2, <3>3 DEF Most
  <2> QED BY <2>1 DEF EffectsArePaid
<1>5. TurnsBefore(t, done) /\ FearIsExact(t, done)
  BY <1>1, <1>2 DEF TurnsBefore, FearIsExact, Fear, SameTurn
<1> QED BY <1>2, <1>4, <1>5 DEF Exact, t

\* The effects of an authored outcome.
AuthoredEffects(es) == es \in Seq(Range(es)) /\ \A i \in DOMAIN es : EffectShape(es[i])

LEMMA EffectInTurn ==
  ASSUME NEW s, NEW done, Exact(s, done), NEW plan, plan.actor \in Fighters,
         NEW e, EffectShape(e), NEW total
  PROVE  Exact(EffectApplied(s, plan, e, total), done)
         /\ SameTurn(s, EffectApplied(s, plan, e, total))
<1> DEFINE a == Owner(plan, e.owner)
           t == EffectApplied(s, plan, e, total)
           D == Damaged(s, a, DamageTotal(total, e.flat, e.halves))
           R == Restored(s, a, Most(0, total + e.flat) * e.times)
           locked == [s EXCEPT !.turn.locked = @ \union {e.action}]
           recorded == KnowledgeRecorded(s, plan, e.success)
           raised == [s EXCEPT !.actors[a].shieldRaised = TRUE]
<1>1. DraftShape(s) /\ SameTurn(s, s)
  BY DEF Exact, SameTurn
<1>2. Exact(locked, done) /\ SameTurn(s, locked)
  <2>1. /\ DraftShape(locked) /\ SameTurn(s, locked) /\ locked.effects = s.effects
        /\ \A b \in Fighters : Fear(locked, b) = Fear(s, b) /\ locked.scares[b] = s.scares[b]
    BY <1>1 DEF DraftShape, DraftFields, TurnFields, SameTurn, Fear
  <2> HIDE DEF locked
  <2> QED BY <2>1, OtherThings
<1>3. Exact(recorded, done) /\ SameTurn(s, recorded)
  <2>1. /\ DraftShape(recorded) /\ SameTurn(s, recorded) /\ recorded.effects = s.effects
        /\ \A b \in Fighters : Fear(recorded, b) = Fear(s, b) /\ recorded.scares[b] = s.scares[b]
    BY <1>1 DEF KnowledgeRecorded, DraftShape, DraftFields, SameTurn, Fear
  <2> HIDE DEF recorded
  <2> QED BY <2>1, OtherThings
<1>4. Exact(raised, done) /\ SameTurn(s, raised)
  <2> HIDE DEF a
  <2>1. /\ DraftShape(raised) /\ SameTurn(s, raised) /\ raised.effects = s.effects
        /\ \A b \in Fighters : Fear(raised, b) = Fear(s, b) /\ raised.scares[b] = s.scares[b]
    BY <1>1 DEF DraftShape, DraftFields, ActorFields, SameTurn, Fear
  <2> HIDE DEF raised
  <2> QED BY <2>1, OtherThings
<1>5. e.kind = "apply-condition" => e.value \in Int
  BY DEF EffectShape
<1>6. e.kind \in {"apply-condition", "remove-condition", "damage", "restore-hp", "lock-action",
                  "create-sustained-effect", "sustain-effect", "raise-shield", "record-knowledge"}
  BY DEF EffectShape
<1> HIDE DEF a, D, R, locked, recorded, raised
<1>7. CASE a = Nobody
  <2>1. t = s
    BY <1>7 DEF EffectApplied, a
  <2> HIDE DEF t
  <2> QED BY <1>1, <2>1 DEF t
<1>8. CASE a # Nobody
  <2>1. CASE e.kind = "apply-condition"
    <3>1. t = IF SkipsDefeated(s, a) THEN s ELSE AddCondition(s, a, e.condition, e.value)
      BY <1>8, <2>1 DEF EffectApplied, a
    <3> HIDE DEF t
    <3> QED BY <1>1, <1>5, <2>1, <3>1, AddedInTurn DEF t
  <2>2. CASE e.kind = "remove-condition"
    <3>1. t = RemoveCondition(s, a, e.condition)
      BY <1>8, <2>2 DEF EffectApplied, a
    <3> HIDE DEF t
    <3> QED BY <3>1, RemovedInTurn DEF t
  <2>3. CASE e.kind = "damage"
    <3>1. t = D
      BY <1>8, <2>3 DEF EffectApplied, a, D
    <3> HIDE DEF t
    <3> QED BY <3>1, DamagedInTurn DEF t, D
  <2>4. CASE e.kind = "restore-hp"
    <3>1. t = R
      BY <1>8, <2>4 DEF EffectApplied, a, R
    <3> HIDE DEF t
    <3> QED BY <3>1, RestoredInTurn DEF t, R
  <2>5. CASE e.kind = "lock-action"
    <3>1. t = locked
      BY <1>8, <2>5 DEF EffectApplied, a, locked
    <3> HIDE DEF t
    <3> QED BY <1>2, <3>1 DEF t
  <2>6. CASE e.kind = "create-sustained-effect"
    <3>1. t = CreateEffect(s, plan)
      BY <1>8, <2>6 DEF EffectApplied, a
    <3> HIDE DEF t
    <3> QED BY <3>1, CreatedInTurn DEF t
  <2>7. CASE e.kind = "sustain-effect"
    <3>1. t = SustainEffect(s, plan)
      BY <1>8, <2>7 DEF EffectApplied, a
    <3> HIDE DEF t
    <3> QED BY <3>1, SustainedInTurn DEF t
  <2>8. CASE e.kind = "record-knowledge"
    <3>1. t = recorded
      BY <1>8, <2>8 DEF EffectApplied, a, recorded
    <3> HIDE DEF t
    <3> QED BY <1>3, <3>1 DEF t
  <2>9. CASE e.kind = "raise-shield"
    <3>1. t = IF HasShield(a) THEN raised ELSE s
      BY <1>8, <2>9 DEF EffectApplied, a, raised
    <3> HIDE DEF t
    <3> QED BY <1>1, <1>4, <3>1 DEF t
  <2> HIDE DEF t
  <2> QED BY <1>6, <2>1, <2>2, <2>3, <2>4, <2>5, <2>6, <2>7, <2>8, <2>9
<1> QED BY <1>7, <1>8

\* The states between the effects of an outcome.
IsCourse(f, s, plan, es, totals, n) ==
  f = [i \in 0 .. n |-> IF i = 0 THEN s ELSE EffectApplied(f[i - 1], plan, es[i], totals[i])]

LEMMA CourseExists ==
  ASSUME NEW s, NEW plan, NEW es, NEW totals, NEW n \in Nat
  PROVE  \E f : IsCourse(f, s, plan, es, totals, n)
<1> DEFINE missing == {m \in Nat : ~ \E f : IsCourse(f, s, plan, es, totals, m)}
<1>1. SUFFICES ASSUME n \in missing PROVE FALSE
  OBVIOUS
<1>2. PICK m \in missing : \A k \in missing : m <= k
  <2>1. missing \subseteq Nat /\ missing # {}
    BY <1>1
  <2> HIDE DEF missing
  <2> QED BY <2>1, LeastNatural
<1>3. m \in Nat
  BY <1>2
<1>4. CASE m = 0
  <2> DEFINE f == [i \in 0 .. 0 |-> s]
  <2>1. IsCourse(f, s, plan, es, totals, 0)
    <3>1. \A i \in 0 .. 0 : i = 0
      OBVIOUS
    <3> QED BY <3>1 DEF IsCourse
  <2> HIDE DEF f
  <2> QED BY <1>2, <1>4, <2>1
<1>5. CASE m # 0
  <2>1. m - 1 \in Nat /\ ~(m <= m - 1)
    BY <1>3, <1>5
  <2>2. m - 1 \notin missing
    BY <1>2, <2>1
  <2>3. PICK f : IsCourse(f, s, plan, es, totals, m - 1)
    BY <2>1, <2>2
  <2> DEFINE g == [i \in 0 .. m |-> IF i = m THEN EffectApplied(f[m - 1], plan, es[m], totals[m])
                                             ELSE f[i]]
  <2>4. ASSUME NEW i \in 0 .. m
        PROVE  g[i] = IF i = 0 THEN s ELSE EffectApplied(g[i - 1], plan, es[i], totals[i])
    <3>1. i \in Int /\ (i # m => i \in 0 .. m - 1) /\ (i # 0 => i - 1 \in 0 .. m - 1 /\ i - 1 # m)
      BY <1>3
    <3>2. i # 0 => g[i - 1] = f[i - 1]
      BY <1>3, <3>1
    <3>3. CASE i = m
      BY <1>5, <3>1, <3>2, <3>3
    <3>4. CASE i # m
      <4>1. f[i] = IF i = 0 THEN s ELSE EffectApplied(f[i - 1], plan, es[i], totals[i])
        BY <2>3, <3>1, <3>4 DEF IsCourse
      <4>2. g[i] = f[i]
        BY <3>4
      <4> QED BY <3>2, <4>1, <4>2
    <3> QED BY <3>3, <3>4
  <2>5. IsCourse(g, s, plan, es, totals, m)
    BY <2>4 DEF IsCourse
  <2> HIDE DEF g
  <2> QED BY <1>2, <2>5
<1> QED BY <1>4, <1>5

LEMMA EffectsInTurn ==
  ASSUME NEW s, NEW done, Exact(s, done), NEW plan, plan.actor \in Fighters,
         NEW es, AuthoredEffects(es), NEW totals
  PROVE  Exact(EffectsApplied(s, plan, es, totals), done)
         /\ SameTurn(s, EffectsApplied(s, plan, es, totals))
<1> DEFINE n == Len(es)
<1>1. n \in Nat /\ \A i \in 1 .. n : EffectShape(es[i])
  BY DEF AuthoredEffects
<1>2. PICK f : IsCourse(f, s, plan, es, totals, n) /\ EffectsApplied(s, plan, es, totals) = f[n]
  <2>1. \E f : IsCourse(f, s, plan, es, totals, n)
    <3> HIDE DEF n
    <3> QED BY <1>1, CourseExists
  <2>2. EffectsApplied(s, plan, es, totals) = (CHOOSE f : IsCourse(f, s, plan, es, totals, n))[n]
    BY DEF EffectsApplied, IsCourse
  <2> QED BY <2>1, <2>2
<1> HIDE DEF n
<1> DEFINE wrong == {i \in 0 .. n : ~(Exact(f[i], done) /\ SameTurn(s, f[i]))}
<1>3. SUFFICES ASSUME wrong # {} PROVE FALSE
  <2>1. n \in 0 .. n
    BY <1>1
  <2> QED BY <1>2, <2>1 DEF n
<1>4. PICK m \in wrong : \A k \in wrong : m <= k
  <2>1. wrong \subseteq Nat
    BY <1>1
  <2> HIDE DEF wrong
  <2> QED BY <1>3, <2>1, LeastNatural
<1>5. m \in 0 .. n /\ m \in Nat /\ ~(Exact(f[m], done) /\ SameTurn(s, f[m]))
  BY <1>1, <1>4
<1>6. CASE m = 0
  <2>1. f[0] = s
    BY <1>1, <1>2 DEF IsCourse
  <2> QED BY <1>5, <1>6, <2>1 DEF SameTurn
<1>7. CASE m # 0
  <2>1. m - 1 \in 0 .. n /\ m - 1 \in Nat /\ ~(m <= m - 1) /\ m \in 1 .. n
    BY <1>1, <1>5, <1>7
  <2>2. Exact(f[m - 1], done) /\ SameTurn(s, f[m - 1])
    BY <1>4, <2>1
  <2>3. f[m] = EffectApplied(f[m - 1], plan, es[m], totals[m])
    BY <1>2, <1>5, <1>7 DEF IsCourse
  <2>4. Exact(f[m], done) /\ SameTurn(f[m - 1], f[m])
    BY <1>1, <2>1, <2>2, <2>3, EffectInTurn
  <2> QED BY <1>5, <2>2, <2>4 DEF SameTurn
<1> QED BY <1>6, <1>7

\* Whatever the roll, the degree is one of the four.
LEMMA DegreeIsOneOfFour ==
  ASSUME NEW roll, NEW modifier, NEW dc
  PROVE  Degree(roll, modifier, dc) \in 1 .. 4
BY DEF Degree, ShiftDegree, BaseDegree, Most, Least

LEMMA OutcomesInTurn ==
  ASSUME NEW s, NEW done, Exact(s, done), NEW plan, plan.actor \in Fighters,
         NEW es, AuthoredEffects(es), NEW t \in Outcomes(s, plan, es)
  PROVE  Exact(t, done) /\ SameTurn(s, t)
BY EffectsInTurn DEF Outcomes

LEMMA StrikeInTurn ==
  ASSUME NEW s, NEW done, Exact(s, done), NEW plan, plan.actor \in Fighters, NEW definition,
         \A d \in 1 .. 4 : AuthoredEffects(definition.outcomes[d]),
         NEW attacks, NEW t \in StrikeExecuted(s, plan, definition, attacks)
  PROVE  Exact(t, done) /\ SameTurn(s, t)
<1> DEFINE strike == Strike(ActorRecord(s, plan.actor), attacks, definition.extraDice)
           Hit(degree, total) ==
             Damaged(s, plan.target, DamageTotal(total, strike.flatModifier,
                       2 * definition.multiplier * (IF degree = 4 THEN 2 ELSE 1)))
           Totals == DiceTotals(strike.count, strike.sides)
           Hits(degree) == IF IsSuccess(degree) THEN {Hit(degree, total) : total \in Totals} ELSE {s}
           Degrees == StrikeDegrees(s, plan, strike)
<1>1. t \in UNION {UNION {Outcomes(hit, plan, definition.outcomes[degree]) : hit \in Hits(degree)} :
                     degree \in Degrees}
  BY DEF StrikeExecuted
<1>2. Degrees \subseteq 1 .. 4
  <2> HIDE DEF strike
  <2> QED BY DegreeIsOneOfFour DEF StrikeDegrees
<1>3. \A degree : \A hit \in Hits(degree) : Exact(hit, done) /\ SameTurn(s, hit)
  <2>1. Exact(s, done) /\ SameTurn(s, s)
    BY DEF SameTurn
  <2>2. \A amount : Exact(Damaged(s, plan.target, amount), done)
                    /\ SameTurn(s, Damaged(s, plan.target, amount))
    BY DamagedInTurn
  <2> HIDE DEF strike, Totals
  <2> QED BY <2>1, <2>2
<1> HIDE DEF Degrees, Hits
<1>4. PICK degree \in Degrees : \E hit \in Hits(degree) :
        t \in Outcomes(hit, plan, definition.outcomes[degree])
  BY <1>1
<1>5. PICK hit \in Hits(degree) : t \in Outcomes(hit, plan, definition.outcomes[degree])
  BY <1>4
<1>6. AuthoredEffects(definition.outcomes[degree])
  BY <1>2
<1>7. Exact(hit, done) /\ SameTurn(s, hit)
  BY <1>3
<1>8. Exact(t, done) /\ SameTurn(hit, t)
  BY <1>5, <1>6, <1>7, OutcomesInTurn
<1> QED BY <1>7, <1>8 DEF SameTurn

LEMMA ActionInTurn ==
  ASSUME NEW s, NEW done, Exact(s, done), NEW plan, plan.actor \in Fighters,
         NEW id \in DOMAIN Actions, Actions[id].kind # "move",
         NEW attacks, NEW t \in Executed(s, plan, Actions[id], attacks)
  PROVE  Exact(t, done) /\ SameTurn(s, t)
<1> DEFINE definition == Actions[id]
<1>1. definition.kind \in {"recall-knowledge", "move", "strike", "check", "direct"}
      /\ ResolutionShape(definition)
  BY ActionsAssumption DEF ActionShape
<1> HIDE DEF definition
<1>2. t \in Executed(s, plan, definition, attacks) /\ definition.kind # "move"
  BY DEF definition
<1>3. CASE definition.kind = "direct"
  <2>1. AuthoredEffects(definition.effects)
    BY <1>1, <1>3 DEF ResolutionShape, AuthoredEffects
  <2>2. t \in Outcomes(s, plan, definition.effects)
    BY <1>2, <1>3 DEF Executed
  <2> QED BY <2>1, <2>2, OutcomesInTurn
<1>4. CASE definition.kind = "strike"
  <2>1. \A d \in 1 .. 4 : AuthoredEffects(definition.outcomes[d])
    BY <1>1, <1>4 DEF ResolutionShape, AuthoredEffects
  <2>2. t \in StrikeExecuted(s, plan, definition, attacks)
    BY <1>2, <1>4 DEF Executed
  <2> QED BY <2>1, <2>2, StrikeInTurn
<1>5. CASE definition.kind = "check"
  <2>1. \A d \in 1 .. 4 : AuthoredEffects(definition.outcomes[d])
    BY <1>1, <1>5 DEF ResolutionShape, AuthoredEffects
  <2>2. t \in UNION {Outcomes(s, plan, definition.outcomes[degree]) :
                       degree \in CheckDegrees(s, plan, definition, attacks)}
    BY <1>2, <1>5 DEF Executed
  <2>3. CheckDegrees(s, plan, definition, attacks) \subseteq 1 .. 4
    BY DegreeIsOneOfFour DEF CheckDegrees
  <2> QED BY <2>1, <2>2, <2>3, OutcomesInTurn
<1>6. CASE definition.kind = "recall-knowledge"
  <2>1. PICK degree : t = KnowledgeRecorded(s, plan, IsSuccess(degree))
    BY <1>2, <1>6 DEF Executed
  <2>2. DraftShape(s)
    BY DEF Exact
  <2>3. /\ DraftShape(t) /\ SameTurn(s, t) /\ t.effects = s.effects
        /\ \A b \in Fighters : Fear(t, b) = Fear(s, b) /\ t.scares[b] = s.scares[b]
    BY <2>1, <2>2 DEF KnowledgeRecorded, DraftShape, DraftFields, SameTurn, Fear
  <2> QED BY <2>3, OtherThings
<1> QED BY <1>1, <1>2, <1>3, <1>4, <1>5, <1>6

LEMMA LandedInTurn ==
  ASSUME NEW s, NEW done, Exact(s, done), NEW a, NEW t \in Landed(s, a)
  PROVE  Exact(t, done) /\ SameTurn(s, t)
<1>1. t = s \/ t = AddCondition(s, a, "grabbed", 1)
  BY DEF Landed
<1> QED BY <1>1, AddedInTurn DEF SameTurn

LEMMA FlourishedInTurn ==
  ASSUME NEW s, NEW done, Exact(s, done), NEW a, NEW definition
  PROVE  Exact(Flourished(s, a, definition), done) /\ SameTurn(s, Flourished(s, a, definition))
<1> DEFINE t == Flourished(s, a, definition)
<1>1. DraftShape(s)
  BY DEF Exact
<1>2. /\ DraftShape(t) /\ SameTurn(s, t) /\ t.effects = s.effects
      /\ \A b \in Fighters : Fear(t, b) = Fear(s, b) /\ t.scares[b] = s.scares[b]
  BY <1>1 DEF Flourished, DraftShape, DraftFields, TurnFields, SameTurn, Fear
<1> HIDE DEF t
<1>3. Exact(t, done)
  BY <1>2, OtherThings
<1> QED BY <1>2, <1>3 DEF t

LEMMA PaidInTurn ==
  ASSUME NEW s, NEW done, Exact(s, done), NEW a, NEW definition
  PROVE  Exact(Paid(s, a, definition), done) /\ SameTurn(s, Paid(s, a, definition))
<1> DEFINE f == Flourished(s, a, definition)
           t == Paid(s, a, definition)
<1>1. Exact(f, done) /\ SameTurn(s, f)
  BY FlourishedInTurn
<1> HIDE DEF f
<1>2. DraftShape(f)
  BY <1>1 DEF Exact
<1>3. /\ DraftShape(t) /\ SameTurn(f, t) /\ t.effects = f.effects
      /\ \A b \in Fighters : Fear(t, b) = Fear(f, b) /\ t.scares[b] = f.scares[b]
  BY <1>2 DEF Paid, f, DraftShape, DraftFields, TurnFields, SameTurn, Fear
<1> HIDE DEF t
<1>4. Exact(t, done)
  BY <1>1, <1>3, OtherThings
<1> QED BY <1>1, <1>3, <1>4 DEF t, SameTurn

LEMMA TurnAdvances ==
  ASSUME NEW s, NEW done, Exact(s, done)
  PROVE  Advanced(s).turn.number = s.turn.number + 1
<1> DEFINE ended == s.turn.active
           e == [s EXCEPT !.effects = {f \in @ : ~Lapsed(f, s)}]
           d == Decayed(e, ended)
           next == Order[NextIndex(d)]
           r == [d EXCEPT !.actors[next].reaction = TRUE, !.actors[next].shieldRaised = FALSE]
           x == Expired(r, next)
           turned == [active |-> next, index |-> NextIndex(d), actions |-> 3, attacks |-> 0,
                      number |-> s.turn.number + 1, locked |-> {}, flourish |-> {}]
<1>1. Advanced(s) = [x EXCEPT !.turn = turned]
  BY DEF Advanced
<1>2. "turn" \in DOMAIN x
  BY DEF Exact, DraftShape, DraftFields, Decayed, Expired
<1>3. turned.number = s.turn.number + 1
  OBVIOUS
<1> HIDE DEF x, turned
<1> QED BY <1>1, <1>2, <1>3

\* The end of a turn: the fear of whoever ends it wears off by one, and what was
\* neither created nor sustained in it is gone.
EndsTurn(s, done, after) ==
  \A b \in Fighters :
    after[b] = IF b = s.turn.active THEN done[b] \union {s.turn.number} ELSE done[b]

LEMMA NextTurn ==
  ASSUME NEW s, NEW done, Exact(s, done),
         NEW after, EndsTurn(s, done, after)
  PROVE  Exact(Advanced(s), after)
<1> DEFINE ended == s.turn.active
           max == Conditions["frightened"].max
           kept == {f \in s.effects : ~Lapsed(f, s)}
           e == [s EXCEPT !.effects = kept]
           d == Decayed(e, ended)
           next == Order[NextIndex(d)]
           r == [d EXCEPT !.actors[next].reaction = TRUE, !.actors[next].shieldRaised = FALSE]
           x == Expired(r, next)
           turned == [active |-> next, index |-> NextIndex(d), actions |-> 3, attacks |-> 0,
                      number |-> s.turn.number + 1, locked |-> {}, flourish |-> {}]
           t == Advanced(s)
<1>1. DraftShape(s) /\ TurnsBefore(s, done) /\ FearIsExact(s, done) /\ EffectsArePaid(s, done)
  BY DEF Exact
<1>2. t = [x EXCEPT !.turn = turned]
  BY DEF Advanced
<1>3. /\ "frightened" \in ConditionIds /\ Valued("frightened") /\ max \in Nat \ {0}
      /\ Conditions["frightened"].endTurnDelta = -1 /\ ~Conditions["frightened"].expires
  BY FrightenedAssumption DEF Valued, ConditionIds
<1>4. DOMAIN turned = TurnFields /\ turned.number = s.turn.number + 1
  BY DEF TurnFields
<1> HIDE DEF t, turned, kept
<1>5. /\ DraftShape(e) /\ e.effects = kept
      /\ \A b \in Fighters : Fear(e, b) = Fear(s, b) /\ e.scares[b] = s.scares[b]
  BY <1>1 DEF DraftShape, DraftFields, Fear
<1> HIDE DEF e
<1>6. /\ DraftShape(d) /\ d.effects = kept
      /\ \A b \in Fighters :
           /\ Fear(d, b) = IF b = ended THEN Clamp("frightened", Fear(s, b) + -1) ELSE Fear(s, b)
           /\ d.scares[b] = s.scares[b]
  BY <1>3, <1>5 DEF Decayed, DraftShape, DraftFields, ActorFields, Fear
<1> HIDE DEF d, next
<1>7. /\ DraftShape(r) /\ r.effects = kept
      /\ \A b \in Fighters : Fear(r, b) = Fear(d, b) /\ r.scares[b] = d.scares[b]
  BY <1>6 DEF DraftShape, DraftFields, ActorFields, Fear
<1> HIDE DEF r
<1>8. /\ DraftShape(x) /\ x.effects = kept
      /\ \A b \in Fighters : Fear(x, b) = Fear(d, b) /\ x.scares[b] = d.scares[b]
  BY <1>3, <1>7 DEF Expired, DraftShape, DraftFields, ActorFields, Fear
<1> HIDE DEF x
<1>9. /\ DraftShape(t) /\ t.effects = kept /\ t.turn = turned
      /\ \A b \in Fighters : Fear(t, b) = Fear(d, b) /\ t.scares[b] = d.scares[b]
  BY <1>2, <1>4, <1>8 DEF DraftShape, DraftFields, Fear
<1>10. s.turn.number \in Nat /\ t.turn.number = s.turn.number + 1
  BY <1>1, <1>4, <1>9 DEF TurnsBefore
<1> USE DEF EndsTurn
<1>11. TurnsBefore(t, after)
  <2>1. ASSUME NEW b \in Fighters
        PROVE  IsFiniteSet(after[b]) /\ \A n \in after[b] : n \in Nat /\ n < t.turn.number
    <3>1. IsFiniteSet(done[b]) /\ \A n \in done[b] : n \in Nat /\ n < s.turn.number
      BY <1>1 DEF TurnsBefore
    <3>2. IsFiniteSet(done[b] \union {s.turn.number})
      BY <3>1, FS_AddElement
    <3> QED BY <1>10, <3>1, <3>2
  <2> QED BY <1>10, <2>1 DEF TurnsBefore
<1>12. FearIsExact(t, after)
  <2> SUFFICES ASSUME NEW b \in Fighters
               PROVE  /\ Fear(t, b) \in 0 .. max
                      /\ \A f \in t.scares[b] :
                           f.value \in Nat /\ f.since \in Nat /\ f.since <= t.turn.number
                      /\ Fear(t, b) \in Frights(t.scares[b], after[b]) \union {0}
                      /\ \A n \in Frights(t.scares[b], after[b]) : n \in Nat /\ n <= Fear(t, b)
    BY DEF FearIsExact
  <2>1. /\ Fear(s, b) \in 0 .. max
        /\ \A f \in s.scares[b] :
             f.value \in Nat /\ f.since \in Nat /\ f.since <= s.turn.number
        /\ Fear(s, b) \in Frights(s.scares[b], done[b]) \union {0}
        /\ \A n \in Frights(s.scares[b], done[b]) : n \in Nat /\ n <= Fear(s, b)
    BY <1>1 DEF FearIsExact
  <2>2. t.scares[b] = s.scares[b]
    BY <1>6, <1>9
  <2>3. \A f \in t.scares[b] :
          f.value \in Nat /\ f.since \in Nat /\ f.since <= t.turn.number
    BY <1>10, <2>1, <2>2
  <2>4. CASE b = ended
    <3> DEFINE v == Fear(s, b)
               before == Frights(s.scares[b], done[b])
               left == Frights(t.scares[b], after[b])
               now == s.turn.number
    <3>1. Fear(t, b) = Clamp("frightened", v + -1)
      BY <1>6, <1>9, <2>4
    <3>2. Fear(t, b) = Most(0, v - 1)
      <4> HIDE DEF v
      <4>1. v \in 0 .. max
        BY <2>1 DEF v
      <4> QED BY <1>3, <3>1, <4>1 DEF Clamp, Most, Least
    <3>3. \A f \in s.scares[b] : Left(f, after[b]) = Most(0, Left(f, done[b]) - 1)
      <4>1. IsFiniteSet(done[b]) /\ \A n \in done[b] : n \in Nat /\ n < now
        BY <1>1 DEF TurnsBefore
      <4>2. after[b] = done[b] \union {now}
        BY <2>4
      <4> HIDE DEF now
      <4>3. now \in Nat /\ \A f \in s.scares[b] :
              f.value \in Nat /\ f.since \in Nat /\ f.since <= now
        BY <1>10, <2>1 DEF now
      <4> QED BY <4>1, <4>2, <4>3, FrightWearsOff
    <3>4. left = {Most(0, n - 1) : n \in before}
      BY <2>2, <3>3 DEF Frights
    <3> HIDE DEF left, v, before
    <3>5. /\ v \in 0 .. max /\ v \in before \union {0}
          /\ \A n \in before : n \in Nat /\ n <= v
      BY <2>1 DEF v, before
    <3>6. max \in Nat
      BY <1>3
    <3> HIDE DEF max
    <3>7. Fear(t, b) \in 0 .. max /\ Fear(t, b) \in left \union {0}
      BY <3>2, <3>4, <3>5, <3>6 DEF Most
    <3>8. \A n \in left : n \in Nat /\ n <= Fear(t, b)
      BY <3>2, <3>4, <3>5, <3>6 DEF Most
    <3> QED BY <2>3, <3>7, <3>8 DEF left, max
  <2>5. CASE b # ended
    BY <1>6, <1>9, <2>1, <2>3, <2>5
  <2> QED BY <2>4, <2>5
<1>13. EffectsArePaid(t, after)
  <2>1. ASSUME NEW f \in t.effects
        PROVE  /\ DOMAIN f = EffectFields
               /\ f.owner \in Fighters /\ f.created \in Nat /\ f.sustained \in Nat
               /\ \A n \in after[f.owner] : n <= Most(f.created, f.sustained)
    <3>1. f \in s.effects /\ ~Lapsed(f, s)
      BY <1>9 DEF kept
    <3>2. /\ DOMAIN f = EffectFields
          /\ f.owner \in Fighters /\ f.created \in Nat /\ f.sustained \in Nat
          /\ \A n \in done[f.owner] : n <= Most(f.created, f.sustained)
      BY <1>1, <3>1 DEF EffectsArePaid
    <3>3. f.owner = ended => s.turn.number <= Most(f.created, f.sustained)
      BY <1>10, <3>1, <3>2 DEF Lapsed, Most
    <3> QED BY <3>2, <3>3
  <2> QED BY <2>1 DEF EffectsArePaid
<1> QED BY <1>9, <1>11, <1>12, <1>13 DEF Exact, t

-----------------------------------------------------------------------------
(* The fight *)

\* Whose turn it is moves, and whoever is asked has the reaction at hand.
MoveIsActive ==
  pending # NoMove =>
    /\ pending.mover = turn.active
    /\ pending.reactor \in Fighters
    /\ "reactive-strike" \in owned[pending.reactor]

FightInv ==
  /\ owned \in Hands
  /\ DOMAIN finished = Fighters
  /\ Exact(draft, finished)
  /\ MoveIsActive

LEMMA DraftIsSet ==
  ASSUME NEW s, DraftShape(s), Set(s), Exact(s, finished')
  PROVE  Exact(draft, finished)' /\ turn'.active = s.turn.active
<1>1. /\ draft'.actors = s.actors /\ draft'.turn = s.turn /\ draft'.effects = s.effects
      /\ draft'.scares = s.scares /\ DOMAIN draft' = DraftFields /\ turn' = s.turn
  BY DEF draft, Set, DraftFields
<1>2. /\ DraftShape(draft)' = DraftShape(draft')
      /\ TurnsBefore(draft, finished)' = TurnsBefore(draft', finished')
      /\ FearIsExact(draft, finished)' = FearIsExact(draft', finished')
      /\ EffectsArePaid(draft, finished)' = EffectsArePaid(draft', finished')
  BY DEF DraftShape, TurnsBefore, FearIsExact, EffectsArePaid, Fear, Frights, Left
<1>3. /\ DraftShape(draft') /\ TurnsBefore(draft', finished')
      /\ FearIsExact(draft', finished') /\ EffectsArePaid(draft', finished')
  BY <1>1 DEF Exact, DraftShape, TurnsBefore, FearIsExact, EffectsArePaid, Fear
<1> QED BY <1>1, <1>2, <1>3 DEF Exact

LEMMA SetKeeps ==
  ASSUME FightInv, NEW s, Set(s), Exact(s, finished'), owned' = owned, MoveIsActive'
  PROVE  FightInv'
<1>1. Exact(draft, finished)'
  BY DraftIsSet DEF Exact
<1>2. DOMAIN finished' = Fighters
  BY DEF FightInv, Set
<1> QED BY <1>1, <1>2 DEF FightInv

\* A state within the turn.
LEMMA SameTurnKeeps ==
  ASSUME FightInv, NEW s, Set(s), Exact(s, finished), SameTurn(draft, s),
         owned' = owned, pending' = NoMove \/ pending' = pending
  PROVE  FightInv'
<1>1. s.turn.active = turn.active /\ turn' = s.turn /\ finished' = finished
  BY DEF SameTurn, draft, Set
<1>2. MoveIsActive'
  BY <1>1 DEF FightInv, MoveIsActive, NoMove
<1>3. Exact(s, finished')
  BY <1>1
<1> QED BY <1>2, <1>3, SetKeeps DEF FightInv

\* A state in which the turn has passed on: whoever was active has ended it.
LEMMA TurnEndKeeps ==
  ASSUME FightInv, NEW s, Exact(s, finished), SameTurn(draft, s), Set(Advanced(s)),
         owned' = owned, pending' = NoMove
  PROVE  FightInv'
<1>1. s.turn.active = turn.active /\ s.turn.number = turn.number /\ turn.number \in Nat
  BY DEF SameTurn, draft, Exact, TurnsBefore
<1>2. Advanced(s).turn.number = s.turn.number + 1
  BY TurnAdvances
<1>3. finished' = [finished EXCEPT ![turn.active] = @ \union {turn.number}]
  <2> DEFINE t == Advanced(s)
  <2>1. t.turn.number # turn.number /\ Set(t)
    BY <1>1, <1>2
  <2> HIDE DEF t
  <2> QED BY <2>1 DEF Set
<1> DEFINE after == finished'
<1>4. Exact(Advanced(s), after)
  <2>1. EndsTurn(s, finished, after)
    BY <1>1, <1>3 DEF FightInv, EndsTurn
  <2> HIDE DEF after
  <2> QED BY <2>1, NextTurn
<1>5. MoveIsActive'
  BY DEF MoveIsActive
<1> QED BY <1>4, <1>5, SetKeeps

LEMMA FightStarts == Init => FightInv
<1> SUFFICES ASSUME Init PROVE FightInv
  OBVIOUS
<1>1. DraftShape(draft)
  BY DEF Init, draft, DraftShape, DraftFields, TurnFields, ActorFields
<1>2. FearIsExact(draft, finished)
  BY FrightenedAssumption DEF Init, draft, FearIsExact, Fear, Frights, ConditionIds
<1>3. TurnsBefore(draft, finished) /\ EffectsArePaid(draft, finished)
  BY FS_EmptySet DEF Init, draft, TurnsBefore, EffectsArePaid
<1> QED BY <1>1, <1>2, <1>3 DEF Init, FightInv, Exact, MoveIsActive

\* An action one may use is authored, and its plan says who acts.
LEMMA LegalIsAuthored ==
  ASSUME NEW a, NEW id \in LegalActions(a)
  PROVE  id \in DOMAIN Actions
BY DEF LegalActions, Sources, ActionIds

LEMMA PlanIsActors ==
  ASSUME NEW a, NEW id \in LegalActions(a), NEW plan \in LegalPlans(a, id)
  PROVE  plan.actor = a
<1>1. Actions[id].targeting \in {"none", "self", "ally", "creature", "enemy", "tile", "effect"}
  BY LegalIsAuthored, ActionsAssumption DEF ActionShape
<1>2. plan \in Plans(a, id)
  BY DEF LegalPlans
<1>3. \E target, effect : plan = Plan(a, target, effect)
  BY <1>1, <1>2 DEF Plans
<1> QED BY <1>3 DEF Plan

LEMMA UseActionKeeps ==
  ASSUME FightInv, NEW a \in Fighters, UseAction(a)
  PROVE  FightInv'
<1>1. PICK id \in LegalActions(a) :
        /\ Actions[id].kind # "move"
        /\ \E plan \in LegalPlans(a, id) :
             \E s \in Executed(Paid(draft, a, Actions[id]), plan, Actions[id],
                               AttacksForMap(TRUE, turn.attacks, HasAttackTrait(Actions[id]))) :
               Set(OutcomeChecked(s))
  BY DEF UseAction
<1>2. PICK plan \in LegalPlans(a, id) :
        \E s \in Executed(Paid(draft, a, Actions[id]), plan, Actions[id],
                          AttacksForMap(TRUE, turn.attacks, HasAttackTrait(Actions[id]))) :
          Set(OutcomeChecked(s))
  BY <1>1
<1> DEFINE p == Paid(draft, a, Actions[id])
           attacks == AttacksForMap(TRUE, turn.attacks, HasAttackTrait(Actions[id]))
<1>3. PICK s \in Executed(p, plan, Actions[id], attacks) : Set(OutcomeChecked(s))
  BY <1>2
<1>4. Exact(p, finished) /\ SameTurn(draft, p)
  BY PaidInTurn DEF FightInv
<1> HIDE DEF p, attacks
<1>5. id \in DOMAIN Actions /\ plan.actor \in Fighters
  BY LegalIsAuthored, PlanIsActors
<1>6. Exact(s, finished) /\ SameTurn(p, s)
  BY <1>1, <1>3, <1>4, <1>5, ActionInTurn
<1>7. Exact(OutcomeChecked(s), finished) /\ SameTurn(s, OutcomeChecked(s))
  BY <1>6, OutcomeInTurn
<1>8. SameTurn(draft, OutcomeChecked(s))
  BY <1>4, <1>6, <1>7 DEF SameTurn
<1> QED BY <1>3, <1>7, <1>8, SameTurnKeeps DEF UseAction

LEMMA MoveKeeps ==
  ASSUME FightInv, NEW a \in Fighters, Move(a)
  PROVE  FightInv'
<1> PICK id \in LegalActions(a) :
       LET s == Paid(draft, a, Actions[id]) IN
       \/ /\ \E landed \in Landed(s, a) : Set(landed)
          /\ UNCHANGED pending
       \/ /\ \E r \in Fighters : MayReact(s, r, a) /\ pending' = [mover |-> a, reactor |-> r]
          /\ Set(s)
       \/ (Set(s) \/ Set(Advanced(s))) /\ UNCHANGED pending
  BY DEF Move
<1> DEFINE s == Paid(draft, a, Actions[id])
<1>1. Exact(s, finished) /\ SameTurn(draft, s)
  BY PaidInTurn DEF FightInv
<1>2. turn.active = a /\ pending = NoMove /\ owned' = owned
  BY DEF Move
<1>3. CASE (\E landed \in Landed(s, a) : Set(landed)) /\ UNCHANGED pending
  <2> HIDE DEF s
  <2>1. PICK landed \in Landed(s, a) : Set(landed)
    BY <1>3
  <2>2. Exact(landed, finished) /\ SameTurn(s, landed)
    BY <1>1, LandedInTurn
  <2>3. SameTurn(draft, landed)
    BY <1>1, <2>2 DEF SameTurn
  <2> QED BY <1>2, <1>3, <2>1, <2>2, <2>3, SameTurnKeeps
<1>4. CASE /\ \E r \in Fighters : MayReact(s, r, a) /\ pending' = [mover |-> a, reactor |-> r]
           /\ Set(s)
  <2> HIDE DEF s
  <2>1. PICK r \in Fighters : MayReact(s, r, a) /\ pending' = [mover |-> a, reactor |-> r]
    BY <1>4
  <2>2. turn'.active = a
    BY <1>1, <1>2, <1>4 DEF Set, SameTurn, draft
  <2>3. MoveIsActive'
    BY <1>2, <2>1, <2>2 DEF MoveIsActive, MayReact
  <2>4. Exact(s, finished')
    BY <1>1, <1>4 DEF Set, SameTurn, draft
  <2> QED BY <1>2, <1>4, <2>3, <2>4, SetKeeps
<1>5. CASE Set(s) /\ UNCHANGED pending
  <2> HIDE DEF s
  <2> QED BY <1>1, <1>2, <1>5, SameTurnKeeps
<1>6. CASE Set(Advanced(s)) /\ UNCHANGED pending
  <2> HIDE DEF s
  <2> QED BY <1>1, <1>2, <1>6, TurnEndKeeps
<1> QED BY <1>3, <1>4, <1>5, <1>6

LEMMA EndTurnKeeps ==
  ASSUME FightInv, NEW a \in Fighters, EndTurn(a)
  PROVE  FightInv'
<1>1. Exact(draft, finished) /\ SameTurn(draft, draft)
  BY DEF FightInv, SameTurn
<1>2. Set(Advanced(draft)) /\ owned' = owned /\ pending' = NoMove
  BY DEF EndTurn
<1> QED BY <1>1, <1>2, TurnEndKeeps

\* What follows a reaction: the turn goes on, or it ends with whoever fell in it.
LEMMA ResumedKeeps ==
  ASSUME FightInv, NEW s, Exact(s, finished), SameTurn(draft, s),
         NEW resumed \in Resumed(s, turn.active), Set(resumed),
         owned' = owned, pending' = NoMove
  PROVE  FightInv'
<1>1. CASE s.actors[turn.active].defeated /\ s.outcome = "none"
  <2>1. resumed = Advanced(s)
    BY <1>1 DEF Resumed
  <2> QED BY <1>1, <2>1, TurnEndKeeps
<1>2. CASE ~(s.actors[turn.active].defeated /\ s.outcome = "none")
  <2>1. resumed = s \/ resumed \in Landed(s, turn.active)
    BY <1>2 DEF Resumed
  <2>2. Exact(resumed, finished) /\ SameTurn(s, resumed)
    BY <2>1, LandedInTurn DEF SameTurn
  <2>3. SameTurn(draft, resumed)
    BY <2>2 DEF SameTurn
  <2> QED BY <1>2, <2>2, <2>3, SameTurnKeeps
<1> QED BY <1>1, <1>2

LEMMA UseReactionKeeps ==
  ASSUME FightInv, NEW r \in Fighters, UseReaction(r)
  PROVE  FightInv'
<1> DEFINE reaction == Actions["reactive-strike"]
           s == [Flourished(draft, r, reaction) EXCEPT !.actors[r].reaction = FALSE]
           plan == Plan(r, turn.active, Nobody)
           attacks == AttacksForMap(FALSE, turn.attacks, HasAttackTrait(reaction))
<1>1. /\ pending.mover = turn.active /\ owned' = owned /\ pending' = NoMove
      /\ "reactive-strike" \in owned[r] /\ owned \in Hands
  BY DEF FightInv, MoveIsActive, UseReaction
<1>2. "reactive-strike" \in DOMAIN Actions /\ reaction.kind = "strike"
  BY <1>1, ReactionAssumption
<1>3. PICK struck \in Reacted(s, r, turn.active, reaction) :
        \E resumed \in Resumed(struck, turn.active) : Set(resumed)
  BY <1>1 DEF UseReaction
<1>4. struck = s \/ struck \in Executed(s, plan, reaction, attacks)
  BY <1>3 DEF Reacted
<1>5. Exact(s, finished) /\ SameTurn(draft, s)
  <2> DEFINE f == Flourished(draft, r, reaction)
  <2>1. Exact(f, finished) /\ SameTurn(draft, f)
    BY FlourishedInTurn DEF FightInv
  <2> HIDE DEF f, reaction
  <2>2. DraftShape(f)
    BY <2>1 DEF Exact
  <2>3. s = [f EXCEPT !.actors[r].reaction = FALSE]
    BY DEF f
  <2>4. /\ DraftShape(s) /\ SameTurn(f, s) /\ s.effects = f.effects
        /\ \A b \in Fighters : Fear(s, b) = Fear(f, b) /\ s.scares[b] = f.scares[b]
    BY <2>2, <2>3 DEF DraftShape, DraftFields, ActorFields, SameTurn, Fear
  <2> HIDE DEF s
  <2>5. Exact(s, finished)
    BY <2>1, <2>4, OtherThings
  <2> QED BY <2>1, <2>4, <2>5 DEF SameTurn
<1>6. plan.actor \in Fighters
  BY DEF Plan
<1> HIDE DEF s, plan, attacks
<1>7. Exact(struck, finished) /\ SameTurn(s, struck)
  BY <1>2, <1>4, <1>5, <1>6, ActionInTurn DEF SameTurn
<1>8. SameTurn(draft, struck)
  BY <1>5, <1>7 DEF SameTurn
<1>9. PICK resumed \in Resumed(struck, turn.active) : Set(resumed)
  BY <1>3
<1> QED BY <1>1, <1>3, <1>7, <1>8, <1>9, ResumedKeeps

LEMMA PassReactionKeeps ==
  ASSUME FightInv, NEW r \in Fighters, PassReaction(r)
  PROVE  FightInv'
<1>1. pending.mover = turn.active /\ owned' = owned /\ pending' = NoMove
  BY DEF FightInv, MoveIsActive, PassReaction
<1>2. PICK resumed \in Resumed(draft, turn.active) : Set(resumed)
  BY <1>1 DEF PassReaction
<1>3. Exact(draft, finished) /\ SameTurn(draft, draft)
  BY DEF FightInv, SameTurn
<1> QED BY <1>1, <1>2, <1>3, ResumedKeeps

LEMMA NothingKeeps == FightInv /\ UNCHANGED vars => FightInv'
<1> SUFFICES ASSUME FightInv, UNCHANGED vars PROVE FightInv'
  OBVIOUS
<1>1. Set(draft) /\ owned' = owned /\ pending' = pending
  BY DEF vars, fight, history, Set, draft
<1> QED BY <1>1, SameTurnKeeps DEF FightInv, SameTurn

\* Whatever the fighters do, fear equals its strongest fright that is left, no
\* sustained effect outlives an unpaid turn, and who waits for a reaction is the
\* active fighter (engine.ts: useAction, resolveReaction, advanceTurn).
THEOREM FightInvariant == Spec => []FightInv
<1>1. FightInv /\ [Next]_vars => FightInv'
  <2> SUFFICES ASSUME FightInv, [Next]_vars PROVE FightInv'
    OBVIOUS
  <2>1. CASE UNCHANGED vars
    BY <2>1, NothingKeeps
  <2>2. CASE Next
    BY <2>2, UseActionKeeps, MoveKeeps, EndTurnKeeps, UseReactionKeeps, PassReactionKeeps DEF Next
  <2> QED BY <2>1, <2>2
<1> QED BY <1>1, FightStarts, PTL DEF Spec

\* Fear is always the strongest fright less the turns the frightened fighter has
\* ended since, whoever else ended turns meanwhile and however they ended, and
\* nobody keeps a sustained effect for free.
THEOREM DurationsHold == Spec => []DurationsAreExact
<1>1. FightInv => DurationsAreExact
  <2> SUFFICES ASSUME FightInv PROVE FearLedger /\ SustainedIsPaid
    BY DEF DurationsAreExact
  <2>1. FearIsExact(draft, finished) /\ EffectsArePaid(draft, finished)
    BY DEF FightInv, Exact
  <2>2. draft.actors = actors /\ draft.scares = scares /\ draft.effects = effects
    BY DEF draft
  <2>3. FearLedger
    BY <2>1, <2>2 DEF FearIsExact, FearLedger, Fear, Frights
  <2>4. SustainedIsPaid
    BY <2>1, <2>2 DEF EffectsArePaid, SustainedIsPaid
  <2> QED BY <2>3, <2>4
<1> QED BY <1>1, FightInvariant, PTL

-----------------------------------------------------------------------------
(* Fights a save accepts *)

\* Each condition has its value within the bounds its definition sets.
FighterFits(f, a) ==
  /\ f.hp \in 0 .. MaxHp(Profiles[a])
  /\ f.defeated \in BOOLEAN /\ (f.defeated <=> f.hp = 0)
  /\ f.reaction \in BOOLEAN /\ f.shieldRaised \in BOOLEAN
  /\ \A c \in ConditionIds : f.conditions[c] \in 0 .. Most(1, Conditions[c].max)

TurnFits(t) ==
  /\ t.index \in DOMAIN Order /\ Order[t.index] = t.active
  /\ t.actions \in Nat /\ t.attacks \in Nat /\ t.number \in Nat
  /\ t.flourish \subseteq Fighters

KnowledgeFits(attempts) ==
  \A k \in attempts : k.actor \in Fighters /\ k.target \in Fighters /\ k.success \in BOOLEAN

Parts(s) ==
  /\ DraftShape(s)
  /\ \A a \in Fighters : FighterFits(s.actors[a], a)
  /\ TurnFits(s.turn) /\ KnowledgeFits(s.knowledge)
  /\ s.outcome \in {"none", "victory", "defeat"}

\* While the combat lasts somebody stands on both sides.
Fits(s) ==
  Parts(s) /\ (s.outcome = "none" => Standing(s, "heroes") /\ Standing(s, "enemies"))

\* From s to t whoever is defeated stays so, and nobody's conditions grow.
Lower(s, t) ==
  \A a \in Fighters :
    /\ s.actors[a].defeated => t.actors[a].defeated
    /\ \A c \in ConditionIds : t.actors[a].conditions[c] <= s.actors[a].conditions[c]

\* Or the conditions of whoever is defeated in the end, at least, do not grow.
Meek(s, t) ==
  \A a \in Fighters :
    /\ s.actors[a].defeated => t.actors[a].defeated
    /\ t.actors[a].defeated =>
         \A c \in ConditionIds : t.actors[a].conditions[c] <= s.actors[a].conditions[c]

\* Nobody but the victim falls.
OnlyHarms(s, t, victim) ==
  \A a \in Fighters : a # victim => t.actors[a].defeated = s.actors[a].defeated

\* Nobody falls.
Unharmed(s, t) == \A a \in Fighters : t.actors[a].defeated = s.actors[a].defeated

LEMMA HitPointsType ==
  ASSUME NEW a \in Fighters
  PROVE  MaxHp(Profiles[a]) \in Int
<1> DEFINE p == Profiles[a]
<1>1. \/ p.kind = "character" /\ CharacterShape(p.stats)
      \/ p.kind = "creature" /\ CreatureShape(p.stats)
  BY ProfilesAssumption, FightersAssumption
<1> SUFFICES MaxHp(p) \in Int
  OBVIOUS
<1> HIDE DEF p
<1>2. CASE p.kind = "creature" /\ CreatureShape(p.stats)
  BY <1>2 DEF MaxHp, CreatureShape
<1>3. CASE p.kind = "character" /\ CharacterShape(p.stats)
  <2>1. p.stats.level \in Int /\ p.stats.ancestryHp \in Int
        /\ p.stats.classHpPerLevel + p.stats.attributes.con \in Int
    BY <1>3 DEF CharacterShape, Attributes
  <2>2. MaxHp(p) = p.stats.ancestryHp
          + p.stats.level * (p.stats.classHpPerLevel + p.stats.attributes.con)
    BY <1>3 DEF MaxHp
  <2> QED BY <2>1, <2>2
<1> QED BY <1>1, <1>2, <1>3

LEMMA ConditionsAreWhole ==
  ASSUME NEW s, Fits(s), NEW a \in Fighters, NEW c \in ConditionIds
  PROVE  s.actors[a].conditions[c] \in Int
BY DEF Fits, Parts, FighterFits

LEMMA LowerThenMeek ==
  ASSUME NEW s, NEW t, NEW u, Fits(s), Fits(t), Fits(u), Lower(s, t), Meek(t, u)
  PROVE  Meek(s, u)
<1>1. \A a \in Fighters : \A c \in ConditionIds :
        /\ s.actors[a].conditions[c] \in Int /\ t.actors[a].conditions[c] \in Int
        /\ u.actors[a].conditions[c] \in Int
  BY ConditionsAreWhole
<1> QED BY <1>1 DEF Lower, Meek

LEMMA LowerThenLower ==
  ASSUME NEW s, NEW t, NEW u, Fits(s), Fits(t), Fits(u), Lower(s, t), Lower(t, u)
  PROVE  Lower(s, u)
<1>1. \A a \in Fighters : \A c \in ConditionIds :
        /\ s.actors[a].conditions[c] \in Int /\ t.actors[a].conditions[c] \in Int
        /\ u.actors[a].conditions[c] \in Int
  BY ConditionsAreWhole
<1> QED BY <1>1 DEF Lower

LEMMA MeekThenUnharmed ==
  ASSUME NEW s, NEW t, NEW u, Fits(s), Fits(t), Fits(u), Meek(s, t), Meek(t, u), Unharmed(t, u)
  PROVE  Meek(s, u)
<1>1. \A a \in Fighters : \A c \in ConditionIds :
        /\ s.actors[a].conditions[c] \in Int /\ t.actors[a].conditions[c] \in Int
        /\ u.actors[a].conditions[c] \in Int
  BY ConditionsAreWhole
<1> QED BY <1>1 DEF Meek, Unharmed

LEMMA NothingIsLower ==
  ASSUME NEW s, Fits(s)
  PROVE  Lower(s, s) /\ Unharmed(s, s)
BY ConditionsAreWhole DEF Lower, Unharmed

LEMMA LowerIsMeek ==
  ASSUME NEW s, NEW t, Lower(s, t)
  PROVE  Meek(s, t)
BY DEF Lower, Meek

\* What leaves the fighters and the outcome alone.
LEMMA ActorsAlone ==
  ASSUME NEW s, Fits(s), NEW t, DraftShape(t), t.actors = s.actors, t.outcome = s.outcome,
         TurnFits(t.turn), KnowledgeFits(t.knowledge)
  PROVE  Fits(t) /\ Lower(s, t) /\ Unharmed(s, t)
<1>1. Lower(s, s) /\ Unharmed(s, s)
  BY NothingIsLower
<1> QED BY <1>1 DEF Fits, Parts, Standing, Lower, Unharmed

LEMMA RecordedFits ==
  ASSUME NEW s, Fits(s), NEW plan, plan.actor \in Fighters, plan.target \in Fighters,
         NEW success \in BOOLEAN
  PROVE  LET t == KnowledgeRecorded(s, plan, success) IN
         Fits(t) /\ Lower(s, t) /\ Unharmed(s, t)
<1> DEFINE new == [actor |-> plan.actor, target |-> plan.target, success |-> success]
           t == KnowledgeRecorded(s, plan, success)
<1>1. DraftShape(s) /\ TurnFits(s.turn) /\ KnowledgeFits(s.knowledge)
  BY DEF Fits, Parts
<1>2. /\ DraftShape(t) /\ t.actors = s.actors /\ t.outcome = s.outcome /\ t.turn = s.turn
      /\ t.knowledge = s.knowledge \union {new}
  BY <1>1 DEF KnowledgeRecorded, DraftShape, DraftFields
<1>3. new.actor \in Fighters /\ new.target \in Fighters /\ new.success \in BOOLEAN
  OBVIOUS
<1> HIDE DEF t, new
<1>4. KnowledgeFits(t.knowledge)
  BY <1>1, <1>2, <1>3 DEF KnowledgeFits
<1>5. Fits(t) /\ Lower(s, t) /\ Unharmed(s, t)
  BY <1>1, <1>2, <1>4, ActorsAlone
<1> QED BY <1>5 DEF t

LEMMA OutcomeFits ==
  ASSUME NEW s, Parts(s)
  PROVE  /\ Fits(OutcomeChecked(s)) /\ OutcomeChecked(s).actors = s.actors
         /\ OutcomeChecked(s).turn = s.turn
<1> DEFINE t == OutcomeChecked(s)
<1>1. DraftShape(s)
  BY DEF Parts
<1>2. /\ DraftShape(t) /\ t.turn = s.turn /\ t.actors = s.actors /\ t.knowledge = s.knowledge
      /\ \/ t.outcome = s.outcome /\ (s.outcome # "none" \/ (Standing(s, "heroes") /\ Standing(s, "enemies")))
         \/ t.outcome \in {"victory", "defeat"}
  BY <1>1 DEF OutcomeChecked, DraftShape, DraftFields
<1> HIDE DEF t
<1>3. Fits(t)
  BY <1>2 DEF Fits, Parts, Standing
<1> QED BY <1>2, <1>3 DEF t

LEMMA MergedFits ==
  ASSUME NEW c \in ConditionIds, NEW existing \in 0 .. Most(1, Conditions[c].max), NEW value \in Int
  PROVE  Merged(c, existing, value) \in 0 .. Most(1, Conditions[c].max)
<1>1. Conditions[c].max \in Nat
  BY ConditionsAssumption DEF ConditionIds
<1> QED BY <1>1 DEF Merged, Valued, Clamp, Most, Least

LEMMA AddedFits ==
  ASSUME NEW s, Fits(s), NEW a \in Fighters, ~s.actors[a].defeated, NEW c, NEW value \in Int
  PROVE  LET t == AddCondition(s, a, c, value) IN Fits(t) /\ Meek(s, t) /\ Unharmed(s, t)
<1> DEFINE t == AddCondition(s, a, c, value)
           added == Merged(c, s.actors[a].conditions[c], value)
<1>1. DraftShape(s)
  BY DEF Fits, Parts
<1>2. /\ DraftShape(t) /\ t.turn = s.turn /\ t.knowledge = s.knowledge /\ t.outcome = s.outcome
      /\ \A b \in Fighters :
           /\ t.actors[b].hp = s.actors[b].hp /\ t.actors[b].defeated = s.actors[b].defeated
           /\ t.actors[b].reaction = s.actors[b].reaction
           /\ t.actors[b].shieldRaised = s.actors[b].shieldRaised
           /\ \A d \in ConditionIds :
                t.actors[b].conditions[d] = IF b = a /\ d = c THEN added ELSE s.actors[b].conditions[d]
  BY <1>1 DEF AddCondition, DraftShape, DraftFields, ActorFields
<1>3. c \in ConditionIds => added \in 0 .. Most(1, Conditions[c].max)
  BY MergedFits DEF Fits, Parts, FighterFits
<1> HIDE DEF t, added
<1>4. \A b \in Fighters : FighterFits(t.actors[b], b)
  BY <1>2, <1>3 DEF Fits, Parts, FighterFits
<1>5. Fits(t)
  BY <1>2, <1>4 DEF Fits, Parts, Standing
<1>6. Meek(s, t) /\ Unharmed(s, t)
  BY <1>2, ConditionsAreWhole DEF Meek, Unharmed
<1> QED BY <1>5, <1>6 DEF t

LEMMA RemovedFits ==
  ASSUME NEW s, Fits(s), NEW a, NEW c
  PROVE  LET t == RemoveCondition(s, a, c) IN Fits(t) /\ Lower(s, t) /\ Unharmed(s, t)
<1> DEFINE t == RemoveCondition(s, a, c)
<1>1. DraftShape(s)
  BY DEF Fits, Parts
<1>2. /\ DraftShape(t) /\ t.turn = s.turn /\ t.knowledge = s.knowledge /\ t.outcome = s.outcome
      /\ \A b \in Fighters :
           /\ t.actors[b].hp = s.actors[b].hp /\ t.actors[b].defeated = s.actors[b].defeated
           /\ t.actors[b].reaction = s.actors[b].reaction
           /\ t.actors[b].shieldRaised = s.actors[b].shieldRaised
           /\ \A d \in ConditionIds :
                t.actors[b].conditions[d] = IF b = a /\ d = c THEN 0 ELSE s.actors[b].conditions[d]
  BY <1>1 DEF RemoveCondition, DraftShape, DraftFields, ActorFields
<1>3. \A b \in Fighters : \A d \in ConditionIds :
        s.actors[b].conditions[d] \in 0 .. Most(1, Conditions[d].max) /\ 0 \in 0 .. Most(1, Conditions[d].max)
  BY ConditionsAssumption DEF Fits, Parts, FighterFits, Most, ConditionIds
<1> HIDE DEF t
<1>4. \A b \in Fighters : FighterFits(t.actors[b], b)
  BY <1>2, <1>3 DEF Fits, Parts, FighterFits
<1>5. Fits(t)
  BY <1>2, <1>4 DEF Fits, Parts, Standing
<1>6. Lower(s, t) /\ Unharmed(s, t)
  BY <1>2, <1>3 DEF Lower, Unharmed
<1> QED BY <1>5, <1>6 DEF t

LEMMA DamagedFits ==
  ASSUME NEW s, Fits(s), NEW a \in Fighters, NEW amount \in Nat
  PROVE  LET t == Damaged(s, a, amount) IN Fits(t) /\ Lower(s, t) /\ OnlyHarms(s, t, a)
<1> DEFINE hp == Most(0, s.actors[a].hp - amount)
           d == [s EXCEPT !.actors[a].hp = hp, !.actors[a].defeated = (hp = 0)]
           t == Damaged(s, a, amount)
<1>1. DraftShape(s) /\ Parts(s)
  BY DEF Fits, Parts
<1>2. t = IF s.actors[a].defeated THEN s ELSE OutcomeChecked(d)
  BY DEF Damaged
<1>3. hp \in 0 .. MaxHp(Profiles[a])
  <2>1. s.actors[a].hp \in 0 .. MaxHp(Profiles[a]) /\ MaxHp(Profiles[a]) \in Int
    BY <1>1, HitPointsType DEF Parts, FighterFits
  <2> QED BY <2>1 DEF Most
<1> HIDE DEF t, hp
<1>4. CASE s.actors[a].defeated
  BY <1>2, <1>4, NothingIsLower DEF OnlyHarms, Unharmed, t
<1>5. CASE ~s.actors[a].defeated
  <2>1. /\ DraftShape(d) /\ d.turn = s.turn /\ d.knowledge = s.knowledge /\ d.outcome = s.outcome
        /\ \A b \in Fighters :
             /\ d.actors[b].hp = IF b = a THEN hp ELSE s.actors[b].hp
             /\ d.actors[b].defeated = IF b = a THEN (hp = 0) ELSE s.actors[b].defeated
             /\ d.actors[b].reaction = s.actors[b].reaction
             /\ d.actors[b].shieldRaised = s.actors[b].shieldRaised
             /\ d.actors[b].conditions = s.actors[b].conditions
    BY <1>1 DEF DraftShape, DraftFields, ActorFields
  <2> HIDE DEF d
  <2>2. \A b \in Fighters : FighterFits(d.actors[b], b)
    BY <1>1, <1>3, <2>1 DEF Parts, FighterFits
  <2>3. Parts(d)
    BY <1>1, <2>1, <2>2 DEF Parts
  <2>4. Fits(t) /\ t.actors = d.actors
    BY <1>2, <1>5, <2>3, OutcomeFits
  <2>5. \A b \in Fighters : \A c \in ConditionIds : s.actors[b].conditions[c] \in Int
    BY ConditionsAreWhole
  <2>6. Lower(s, t) /\ OnlyHarms(s, t, a)
    BY <1>5, <2>1, <2>4, <2>5 DEF Lower, OnlyHarms
  <2> QED BY <2>4, <2>6 DEF t
<1> QED BY <1>4, <1>5

LEMMA RestoredFits ==
  ASSUME NEW s, Fits(s), NEW a \in Fighters, NEW amount \in Nat
  PROVE  LET t == Restored(s, a, amount) IN Fits(t) /\ Lower(s, t) /\ Unharmed(s, t)
<1> DEFINE hp == Least(MaxHp(Profiles[a]), s.actors[a].hp + amount)
           t == Restored(s, a, amount)
<1>1. DraftShape(s) /\ Parts(s)
  BY DEF Fits, Parts
<1>2. t = IF s.actors[a].defeated THEN s ELSE [s EXCEPT !.actors[a].hp = hp]
  BY <1>1 DEF Restored, DraftShape, DraftFields, ActorFields
<1>3. CASE s.actors[a].defeated
  <2> HIDE DEF t
  <2> QED BY <1>2, <1>3, NothingIsLower DEF t
<1>4. CASE ~s.actors[a].defeated
  <2>1. hp \in 0 .. MaxHp(Profiles[a]) /\ hp # 0
    <3>1. /\ s.actors[a].hp \in 0 .. MaxHp(Profiles[a]) /\ s.actors[a].hp # 0
          /\ MaxHp(Profiles[a]) \in Int
      BY <1>1, <1>4, FightersAssumption, HitPointsType DEF Parts, FighterFits
    <3> QED BY <3>1 DEF Least
  <2> HIDE DEF hp, t
  <2>2. /\ DraftShape(t) /\ t.turn = s.turn /\ t.knowledge = s.knowledge /\ t.outcome = s.outcome
        /\ \A b \in Fighters :
             /\ t.actors[b].hp = IF b = a THEN hp ELSE s.actors[b].hp
             /\ t.actors[b].defeated = s.actors[b].defeated
             /\ t.actors[b].reaction = s.actors[b].reaction
             /\ t.actors[b].shieldRaised = s.actors[b].shieldRaised
             /\ t.actors[b].conditions = s.actors[b].conditions
    BY <1>1, <1>2, <1>4 DEF DraftShape, DraftFields, ActorFields
  <2>3. \A b \in Fighters : FighterFits(t.actors[b], b)
    BY <1>1, <1>4, <2>1, <2>2 DEF Parts, FighterFits
  <2>4. Fits(t)
    BY <1>1, <2>2, <2>3 DEF Fits, Parts, Standing
  <2>5. \A b \in Fighters : \A c \in ConditionIds : s.actors[b].conditions[c] \in Int
    BY ConditionsAreWhole
  <2>6. Lower(s, t) /\ Unharmed(s, t)
    BY <2>2, <2>5 DEF Lower, Unharmed
  <2> QED BY <2>4, <2>6 DEF t
<1> QED BY <1>3, <1>4

\* What one effect of an action may do.
EffectStep(s, t, plan, kind) ==
  /\ Fits(t) /\ Meek(s, t) /\ OnlyHarms(s, t, plan.target)
  /\ kind # "apply-condition" => Lower(s, t)
  /\ kind # "damage" => Unharmed(s, t)

LEMMA LowStep ==
  ASSUME NEW s, NEW t, Fits(t), Lower(s, t), Unharmed(s, t), NEW plan, NEW kind
  PROVE  EffectStep(s, t, plan, kind)
BY LowerIsMeek DEF EffectStep, Unharmed, OnlyHarms

\* Damage is a natural number, whatever its sum and its multiplier.
LEMMA DamageIsNatural ==
  ASSUME NEW n \in Int, NEW flat \in Int, NEW halves \in Nat
  PROVE  DamageTotal(n, flat, halves) \in Nat
<1> DEFINE dealt == WeaponDamageRoll(n, flat) * halves
<1>1. dealt \in Int
  <2>1. WeaponDamageRoll(n, flat) \in Int
    BY DEF WeaponDamageRoll, Most
  <2> QED BY <2>1
<1>2. DamageTotal(n, flat, halves) = IF halves <= 0 THEN 0 ELSE Most(1, dealt \div 2)
  BY DEF DamageTotal
<1> HIDE DEF dealt
<1>3. dealt \div 2 \in Int
  BY <1>1, HalfIsWhole
<1> QED BY <1>2, <1>3 DEF Most

LEMMA RestoredIsNatural ==
  ASSUME NEW n \in Int, NEW flat \in Int, NEW times \in Nat
  PROVE  Most(0, n + flat) * times \in Nat
<1> DEFINE m == Most(0, n + flat)
<1>1. m \in Nat
  BY DEF Most
<1> HIDE DEF m
<1>2. m * times \in Nat
  BY <1>1
<1> QED BY <1>2 DEF m

\* A plan somebody can make: it has an actor and perhaps a target.
PlanShape(plan) == plan.actor \in Fighters /\ plan.target \in Fighters \union {Nobody}

LEMMA EffectFits ==
  ASSUME NEW s, Fits(s), NEW plan, PlanShape(plan), NEW e, EffectShape(e),
         NEW total, e.kind \in {"damage", "restore-hp"} => total \in Nat,
         e.kind = "damage" => e.owner = "target"
  PROVE  EffectStep(s, EffectApplied(s, plan, e, total), plan, e.kind)
<1> DEFINE a == Owner(plan, e.owner)
           t == EffectApplied(s, plan, e, total)
           D == Damaged(s, a, DamageTotal(total, e.flat, e.halves))
           R == Restored(s, a, Most(0, total + e.flat) * e.times)
           locked == [s EXCEPT !.turn.locked = @ \union {e.action}]
           recorded == KnowledgeRecorded(s, plan, e.success)
           raised == [s EXCEPT !.actors[a].shieldRaised = TRUE]
<1>1. /\ DraftShape(s) /\ TurnFits(s.turn) /\ KnowledgeFits(s.knowledge)
      /\ Lower(s, s) /\ Unharmed(s, s)
  BY NothingIsLower DEF Fits, Parts
<1>2. a \in Fighters \union {Nobody} /\ (e.kind = "damage" => a = plan.target)
  BY DEF Owner, PlanShape
<1>3. e.kind \in {"apply-condition", "remove-condition", "damage", "restore-hp", "lock-action",
                  "create-sustained-effect", "sustain-effect", "raise-shield", "record-knowledge"}
  BY DEF EffectShape
<1>4. EffectStep(s, s, plan, e.kind)
  BY <1>1, LowStep
<1>5. EffectStep(s, locked, plan, e.kind)
  <2>1. /\ DraftShape(locked) /\ locked.actors = s.actors /\ locked.outcome = s.outcome
        /\ locked.knowledge = s.knowledge /\ TurnFits(locked.turn)
    BY <1>1 DEF DraftShape, DraftFields, TurnFields, TurnFits
  <2> HIDE DEF locked
  <2>2. Fits(locked) /\ Lower(s, locked) /\ Unharmed(s, locked)
    BY <1>1, <2>1, ActorsAlone
  <2> QED BY <2>2, LowStep
<1>6. EffectStep(s, CreateEffect(s, plan), plan, e.kind)
  <2> DEFINE u == CreateEffect(s, plan)
  <2>1. /\ DraftShape(u) /\ u.actors = s.actors /\ u.outcome = s.outcome
        /\ u.knowledge = s.knowledge /\ u.turn = s.turn
    BY <1>1 DEF CreateEffect, DraftShape, DraftFields
  <2> HIDE DEF u
  <2>2. Fits(u) /\ Lower(s, u) /\ Unharmed(s, u)
    BY <1>1, <2>1, ActorsAlone
  <2> QED BY <2>2, LowStep DEF u
<1>7. EffectStep(s, SustainEffect(s, plan), plan, e.kind)
  <2> DEFINE u == SustainEffect(s, plan)
  <2>1. /\ DraftShape(u) /\ u.actors = s.actors /\ u.outcome = s.outcome
        /\ u.knowledge = s.knowledge /\ u.turn = s.turn
    BY <1>1 DEF SustainEffect, DraftShape, DraftFields
  <2> HIDE DEF u
  <2>2. Fits(u) /\ Lower(s, u) /\ Unharmed(s, u)
    BY <1>1, <2>1, ActorsAlone
  <2> QED BY <2>2, LowStep DEF u
<1>8. ASSUME plan.target \in Fighters, e.success \in BOOLEAN
      PROVE  EffectStep(s, recorded, plan, e.kind)
  <2>1. Fits(recorded) /\ Lower(s, recorded) /\ Unharmed(s, recorded)
    BY <1>8, RecordedFits DEF PlanShape
  <2> HIDE DEF recorded
  <2> QED BY <2>1, LowStep
<1> HIDE DEF a
<1>9. EffectStep(s, raised, plan, e.kind)
  <2>1. /\ DraftShape(raised) /\ raised.turn = s.turn /\ raised.knowledge = s.knowledge
        /\ raised.outcome = s.outcome
        /\ \A b \in Fighters :
             /\ raised.actors[b].hp = s.actors[b].hp
             /\ raised.actors[b].defeated = s.actors[b].defeated
             /\ raised.actors[b].reaction = s.actors[b].reaction
             /\ raised.actors[b].shieldRaised = IF b = a THEN TRUE ELSE s.actors[b].shieldRaised
             /\ raised.actors[b].conditions = s.actors[b].conditions
    BY <1>1 DEF DraftShape, DraftFields, ActorFields
  <2> HIDE DEF raised
  <2>2. \A b \in Fighters : FighterFits(raised.actors[b], b)
    BY <2>1 DEF Fits, Parts, FighterFits
  <2>3. Fits(raised)
    BY <1>1, <2>1, <2>2 DEF Fits, Parts, Standing
  <2>4. Lower(s, raised) /\ Unharmed(s, raised)
    BY <1>1, <2>1 DEF Lower, Unharmed
  <2> QED BY <2>3, <2>4, LowStep
<1> HIDE DEF D, R, locked, recorded, raised
<1>10. CASE a = Nobody
  <2>1. t = s
    BY <1>10 DEF EffectApplied, a
  <2> HIDE DEF t
  <2> QED BY <1>4, <2>1 DEF t
<1>11. CASE a # Nobody
  <2>0. a \in Fighters
    BY <1>2, <1>11
  <2>1. CASE e.kind = "apply-condition"
    <3>1. t = IF SkipsDefeated(s, a) THEN s ELSE AddCondition(s, a, e.condition, e.value)
      BY <1>11, <2>1 DEF EffectApplied, a
    <3>2. e.value \in Int
      BY <2>1 DEF EffectShape
    <3> HIDE DEF t
    <3>3. CASE SkipsDefeated(s, a)
      BY <1>4, <3>1, <3>3 DEF t
    <3>4. CASE ~SkipsDefeated(s, a)
      <4>1. Fits(t) /\ Meek(s, t) /\ Unharmed(s, t)
        BY <2>0, <3>1, <3>2, <3>4, AddedFits DEF SkipsDefeated
      <4> QED BY <2>1, <4>1 DEF t, EffectStep, Unharmed, OnlyHarms
    <3> QED BY <3>3, <3>4
  <2>2. CASE e.kind = "remove-condition"
    <3>1. t = RemoveCondition(s, a, e.condition)
      BY <1>11, <2>2 DEF EffectApplied, a
    <3> HIDE DEF t
    <3> QED BY <3>1, RemovedFits, LowStep DEF t
  <2>3. CASE e.kind = "damage"
    <3>1. t = D
      BY <1>11, <2>3 DEF EffectApplied, a, D
    <3>2. DamageTotal(total, e.flat, e.halves) \in Nat
      <4>1. total \in Int /\ e.flat \in Int /\ e.halves \in Nat
        BY <2>3 DEF EffectShape
      <4> QED BY <4>1, DamageIsNatural
    <3> HIDE DEF t
    <3>3. Fits(t) /\ Lower(s, t) /\ OnlyHarms(s, t, a)
      BY <2>0, <3>1, <3>2, DamagedFits DEF D
    <3> QED BY <1>2, <2>3, <3>3, LowerIsMeek DEF t, EffectStep
  <2>4. CASE e.kind = "restore-hp"
    <3>1. t = R
      BY <1>11, <2>4 DEF EffectApplied, a, R
    <3>2. Most(0, total + e.flat) * e.times \in Nat
      <4>1. total \in Int /\ e.flat \in Int /\ e.times \in Nat
        BY <2>4 DEF EffectShape
      <4> QED BY <4>1, RestoredIsNatural
    <3> HIDE DEF t
    <3> QED BY <2>0, <3>1, <3>2, RestoredFits, LowStep DEF t, R
  <2>5. CASE e.kind = "lock-action"
    <3>1. t = locked
      BY <1>11, <2>5 DEF EffectApplied, a, locked
    <3> HIDE DEF t
    <3> QED BY <1>5, <3>1 DEF t
  <2>6. CASE e.kind = "create-sustained-effect"
    <3>1. t = CreateEffect(s, plan)
      BY <1>11, <2>6 DEF EffectApplied, a
    <3> HIDE DEF t
    <3> QED BY <1>6, <3>1 DEF t
  <2>7. CASE e.kind = "sustain-effect"
    <3>1. t = SustainEffect(s, plan)
      BY <1>11, <2>7 DEF EffectApplied, a
    <3> HIDE DEF t
    <3> QED BY <1>7, <3>1 DEF t
  <2>8. CASE e.kind = "record-knowledge"
    <3>1. t = recorded
      BY <1>11, <2>8 DEF EffectApplied, a, recorded
    <3>2. e.success \in BOOLEAN /\ plan.target = a
      BY <2>8 DEF EffectShape, Owner, a
    <3> HIDE DEF t
    <3> QED BY <1>8, <2>0, <3>1, <3>2 DEF t
  <2>9. CASE e.kind = "raise-shield"
    <3>1. t = IF HasShield(a) THEN raised ELSE s
      BY <1>11, <2>9 DEF EffectApplied, a, raised
    <3> HIDE DEF t
    <3> QED BY <1>4, <1>9, <3>1 DEF t
  <2> HIDE DEF t
  <2> QED BY <1>3, <2>1, <2>2, <2>3, <2>4, <2>5, <2>6, <2>7, <2>8, <2>9
<1> QED BY <1>10, <1>11

\* The effects of an outcome: what does damage does it to the target, before any condition.
DamageFirst(es) ==
  \A i \in DOMAIN es :
    es[i].kind = "damage" => es[i].owner = "target" /\ \A j \in 1 .. i : es[j].kind # "apply-condition"

Harmless(es) == \A i \in DOMAIN es : es[i].kind # "damage"

LEMMA EffectsFit ==
  ASSUME NEW s, Fits(s), NEW plan, PlanShape(plan), NEW es, AuthoredEffects(es), DamageFirst(es),
         NEW totals, totals \in TotalsOf(es)
  PROVE  LET t == EffectsApplied(s, plan, es, totals) IN
         /\ Fits(t) /\ Meek(s, t) /\ OnlyHarms(s, t, plan.target)
         /\ Harmless(es) => Unharmed(s, t)
<1> DEFINE n == Len(es)
<1>1. n \in Nat /\ DOMAIN es = 1 .. n /\ \A i \in 1 .. n : EffectShape(es[i])
  BY DEF AuthoredEffects
<1>2. PICK f : IsCourse(f, s, plan, es, totals, n) /\ EffectsApplied(s, plan, es, totals) = f[n]
  <2>1. \E f : IsCourse(f, s, plan, es, totals, n)
    <3> HIDE DEF n
    <3> QED BY <1>1, CourseExists
  <2>2. EffectsApplied(s, plan, es, totals) = (CHOOSE f : IsCourse(f, s, plan, es, totals, n))[n]
    BY DEF EffectsApplied, IsCourse
  <2> QED BY <2>1, <2>2
<1> HIDE DEF n
<1>3. ASSUME NEW i \in 1 .. n, es[i].kind \in {"damage", "restore-hp"}
      PROVE  totals[i] \in Nat
  <2>1. totals[i] \in DiceTotals(es[i].count, es[i].sides)
    BY <1>1 DEF TotalsOf
  <2>2. es[i].count \in Nat /\ es[i].sides \in Nat
    BY <1>1, <1>3 DEF EffectShape
  <2> QED BY <2>1, <2>2 DEF DiceTotals
<1> DEFINE Good(i) ==
             /\ Fits(f[i]) /\ Meek(s, f[i]) /\ OnlyHarms(s, f[i], plan.target)
             /\ (\A j \in 1 .. i : es[j].kind # "apply-condition") => Lower(s, f[i])
             /\ (\A j \in 1 .. i : es[j].kind # "damage") => Unharmed(s, f[i])
           S == {i \in 0 .. n : Good(i)}
<1>4. 0 \in S
  <2>1. f[0] = s
    BY <1>1, <1>2 DEF IsCourse
  <2>2. Lower(s, s) /\ Unharmed(s, s) /\ Meek(s, s) /\ OnlyHarms(s, s, plan.target)
    BY NothingIsLower, LowerIsMeek DEF OnlyHarms, Unharmed
  <2> QED BY <1>1, <2>1, <2>2
<1>5. ASSUME NEW i \in 1 .. n, i - 1 \in S
      PROVE  i \in S
  <2> DEFINE u == f[i - 1]
             t == f[i]
  <2>1. t = EffectApplied(u, plan, es[i], totals[i])
    BY <1>1, <1>2 DEF IsCourse
  <2>2. Good(i - 1)
    BY <1>5
  <2>3. es[i].kind = "damage" =>
          es[i].owner = "target" /\ \A j \in 1 .. i - 1 : es[j].kind # "apply-condition"
    BY <1>1 DEF DamageFirst
  <2>4. EffectStep(u, t, plan, es[i].kind)
    BY <1>1, <1>3, <2>1, <2>2, <2>3, EffectFits
  <2>5. \A j \in 1 .. i - 1 : j \in 1 .. i
    OBVIOUS
  <2>6. Fits(u) /\ Fits(t) /\ Meek(u, t)
    BY <2>2, <2>4 DEF EffectStep
  <2>7. Meek(s, t)
    <3>1. CASE es[i].kind = "damage"
      <4>1. Lower(s, u)
        BY <2>2, <2>3, <3>1
      <4> HIDE DEF u, t
      <4> QED BY <2>6, <4>1, LowerThenMeek
    <3>2. CASE es[i].kind # "damage"
      <4>1. Unharmed(u, t) /\ Meek(s, u)
        BY <2>2, <2>4, <3>2 DEF EffectStep
      <4> HIDE DEF u, t
      <4> QED BY <2>6, <4>1, MeekThenUnharmed
    <3> QED BY <3>1, <3>2
  <2>8. ASSUME \A j \in 1 .. i : es[j].kind # "apply-condition"
        PROVE  Lower(s, t)
    <3>1. Lower(s, u) /\ Lower(u, t)
      BY <2>2, <2>4, <2>5, <2>8 DEF EffectStep
    <3> HIDE DEF u, t
    <3> QED BY <2>6, <3>1, LowerThenLower
  <2>9. ASSUME \A j \in 1 .. i : es[j].kind # "damage"
        PROVE  Unharmed(s, t)
    <3>1. Unharmed(s, u) /\ Unharmed(u, t)
      BY <2>2, <2>4, <2>5, <2>9 DEF EffectStep
    <3> QED BY <3>1 DEF Unharmed
  <2>10. OnlyHarms(s, t, plan.target)
    BY <2>2, <2>4 DEF EffectStep, OnlyHarms
  <2>11. Good(i)
    BY <2>6, <2>7, <2>8, <2>9, <2>10
  <2> QED BY <2>11
<1> HIDE DEF S
<1>6. 0 .. n \subseteq S
  BY <1>1, <1>4, <1>5, UpTo
<1>7. Good(n)
  BY <1>1, <1>6 DEF S
<1> QED BY <1>1, <1>2, <1>7 DEF Harmless

-----------------------------------------------------------------------------
(* Actions of a fight *)

\* What an action may do: only its target may fall.
ActionStep(s, t, plan) == Fits(t) /\ Meek(s, t) /\ OnlyHarms(s, t, plan.target)

LEMMA OutcomesFit ==
  ASSUME NEW s, Fits(s), NEW plan, PlanShape(plan), NEW es, AuthoredEffects(es), DamageFirst(es),
         NEW t \in Outcomes(s, plan, es)
  PROVE  ActionStep(s, t, plan) /\ (Harmless(es) => Unharmed(s, t))
<1>1. PICK totals \in TotalsOf(es) : t = EffectsApplied(s, plan, es, totals)
  BY DEF Outcomes
<1> QED BY <1>1, EffectsFit DEF ActionStep

LEMMA StrikeFits ==
  ASSUME NEW s, Fits(s), NEW plan, PlanShape(plan), plan.target \in Fighters, NEW definition,
         definition.multiplier \in Nat, definition.extraDice \in Nat,
         \A d \in 1 .. 4 : AuthoredEffects(definition.outcomes[d]) /\ DamageFirst(definition.outcomes[d]),
         NEW attacks, NEW t \in StrikeExecuted(s, plan, definition, attacks)
  PROVE  ActionStep(s, t, plan)
<1> DEFINE actor == ActorRecord(s, plan.actor)
           strike == Strike(actor, attacks, definition.extraDice)
           Halves(degree) == 2 * definition.multiplier * (IF degree = 4 THEN 2 ELSE 1)
           Hit(degree, total) ==
             Damaged(s, plan.target, DamageTotal(total, strike.flatModifier, Halves(degree)))
           Totals == DiceTotals(strike.count, strike.sides)
           Hits(degree) == IF IsSuccess(degree) THEN {Hit(degree, total) : total \in Totals} ELSE {s}
           Degrees == StrikeDegrees(s, plan, strike)
<1>1. t \in UNION {UNION {Outcomes(hit, plan, definition.outcomes[degree]) : hit \in Hits(degree)} :
                     degree \in Degrees}
  BY DEF StrikeExecuted
<1>2. Degrees \subseteq 1 .. 4
  <2> HIDE DEF strike
  <2> QED BY DegreeIsOneOfFour DEF StrikeDegrees
<1>3. strike.flatModifier \in Int /\ Totals \subseteq Nat
  <2>1. ActorShape(actor)
    <3>1. actor.id = plan.actor /\ actor.shieldRaised = s.actors[plan.actor].shieldRaised
          /\ actor.conditions = s.actors[plan.actor].conditions
      BY DEF ActorRecord
    <3>2. FighterFits(s.actors[plan.actor], plan.actor) /\ plan.actor \in DOMAIN Profiles
      BY FightersAssumption DEF Fits, Parts, PlanShape
    <3> HIDE DEF actor
    <3> QED BY <3>1, <3>2 DEF ActorShape, FighterFits, ConditionIds
  <2> HIDE DEF actor
  <2>2. strike.count \in Nat /\ strike.sides \in Nat /\ strike.flatModifier \in Int
    BY <2>1, StrikeType
  <2> HIDE DEF strike
  <2> QED BY <2>2 DEF DiceTotals
<1>4. \A degree : Halves(degree) \in Nat
  <2>1. 2 * definition.multiplier \in Nat /\ 2 * definition.multiplier * 2 \in Nat
        /\ 2 * definition.multiplier * 1 \in Nat
    OBVIOUS
  <2> QED BY <2>1
<1> HIDE DEF Degrees, strike, Totals, Halves
<1>5. \A degree : \A hit \in Hits(degree) :
        Fits(hit) /\ Lower(s, hit) /\ OnlyHarms(s, hit, plan.target)
  <2>1. Fits(s) /\ Lower(s, s) /\ OnlyHarms(s, s, plan.target)
    BY NothingIsLower DEF OnlyHarms
  <2>2. ASSUME NEW degree, NEW total \in Totals
        PROVE  /\ Fits(Hit(degree, total)) /\ Lower(s, Hit(degree, total))
               /\ OnlyHarms(s, Hit(degree, total), plan.target)
    <3> DEFINE amount == DamageTotal(total, strike.flatModifier, Halves(degree))
    <3>1. total \in Int /\ strike.flatModifier \in Int /\ Halves(degree) \in Nat
      BY <1>3, <1>4
    <3>2. amount \in Nat
      BY <3>1, DamageIsNatural
    <3> HIDE DEF amount
    <3>3. /\ Fits(Damaged(s, plan.target, amount)) /\ Lower(s, Damaged(s, plan.target, amount))
          /\ OnlyHarms(s, Damaged(s, plan.target, amount), plan.target)
      BY <3>2, DamagedFits
    <3> QED BY <3>3 DEF amount
  <2> HIDE DEF Hit
  <2> QED BY <2>1, <2>2
<1> HIDE DEF Hits
<1>6. PICK degree \in Degrees : \E hit \in Hits(degree) :
        t \in Outcomes(hit, plan, definition.outcomes[degree])
  BY <1>1
<1>7. PICK hit \in Hits(degree) : t \in Outcomes(hit, plan, definition.outcomes[degree])
  BY <1>6
<1>8. AuthoredEffects(definition.outcomes[degree]) /\ DamageFirst(definition.outcomes[degree])
  BY <1>2
<1>9. Fits(hit) /\ Lower(s, hit) /\ OnlyHarms(s, hit, plan.target)
  BY <1>5
<1>10. ActionStep(hit, t, plan)
  BY <1>7, <1>8, <1>9, OutcomesFit
<1>11. Meek(s, t)
  BY <1>9, <1>10, LowerThenMeek DEF ActionStep
<1> QED BY <1>9, <1>10, <1>11 DEF ActionStep, OnlyHarms

LEMMA ActionFits ==
  ASSUME NEW s, Fits(s), NEW plan, PlanShape(plan),
         NEW id \in DOMAIN Actions, Actions[id].kind # "move",
         Actions[id].targeting = "enemy" => plan.target \in Fighters,
         NEW attacks, NEW t \in Executed(s, plan, Actions[id], attacks)
  PROVE  ActionStep(s, t, plan) /\ (Actions[id].targeting # "enemy" => Unharmed(s, t))
<1> DEFINE definition == Actions[id]
           harmful == definition.targeting = "enemy"
<1>1. /\ definition.kind \in {"recall-knowledge", "move", "strike", "check", "direct"}
      /\ definition.kind \in {"recall-knowledge", "strike"} => harmful
      /\ ResolutionShape(definition)
  <2>1. ActionShape(definition)
    BY ActionsAssumption
  <2> HIDE DEF definition
  <2> QED BY <2>1 DEF ActionShape
<1>2. \A es \in EffectLists(definition) : DamageFirst(es) /\ (~harmful => Harmless(es))
  BY HarmAssumption DEF DamageFirst, Harmless
<1>3. t \in Executed(s, plan, definition, attacks) /\ definition.kind # "move"
      /\ (harmful => plan.target \in Fighters)
  OBVIOUS
<1> HIDE DEF definition
<1>4. CASE definition.kind = "direct"
  <2>1. AuthoredEffects(definition.effects)
    BY <1>1, <1>4 DEF ResolutionShape, AuthoredEffects
  <2>2. definition.effects \in EffectLists(definition)
    BY <1>4 DEF EffectLists
  <2>3. t \in Outcomes(s, plan, definition.effects)
    BY <1>3, <1>4 DEF Executed
  <2> QED BY <1>2, <2>1, <2>2, <2>3, OutcomesFit DEF definition
<1>5. CASE definition.kind = "strike"
  <2>1. /\ \A d \in 1 .. 4 : AuthoredEffects(definition.outcomes[d])
        /\ definition.multiplier \in Nat /\ definition.extraDice \in Nat
    BY <1>1, <1>5 DEF ResolutionShape, AuthoredEffects
  <2>2. \A d \in 1 .. 4 : DamageFirst(definition.outcomes[d])
    <3>1. \A d \in 1 .. 4 : definition.outcomes[d] \in EffectLists(definition)
      BY <1>5 DEF EffectLists
    <3> QED BY <1>2, <3>1
  <2>3. t \in StrikeExecuted(s, plan, definition, attacks)
    BY <1>3, <1>5 DEF Executed
  <2>4. harmful /\ plan.target \in Fighters
    BY <1>1, <1>3, <1>5
  <2>5. ActionStep(s, t, plan)
    BY <2>1, <2>2, <2>3, <2>4, StrikeFits
  <2> QED BY <2>4, <2>5 DEF definition
<1>6. CASE definition.kind = "check"
  <2>1. \A d \in 1 .. 4 : AuthoredEffects(definition.outcomes[d])
    BY <1>1, <1>6 DEF ResolutionShape, AuthoredEffects
  <2>2. \A d \in 1 .. 4 : definition.outcomes[d] \in EffectLists(definition)
    BY <1>6 DEF EffectLists
  <2>3. t \in UNION {Outcomes(s, plan, definition.outcomes[degree]) :
                       degree \in CheckDegrees(s, plan, definition, attacks)}
    BY <1>3, <1>6 DEF Executed
  <2>4. CheckDegrees(s, plan, definition, attacks) \subseteq 1 .. 4
    BY DegreeIsOneOfFour DEF CheckDegrees
  <2>5. PICK degree \in 1 .. 4 : t \in Outcomes(s, plan, definition.outcomes[degree])
    BY <2>3, <2>4
  <2> QED BY <1>2, <2>1, <2>2, <2>5, OutcomesFit DEF definition
<1>7. CASE definition.kind = "recall-knowledge"
  <2>0. RecallDegrees(s, plan) \subseteq 1 .. 4
    BY DegreeIsOneOfFour DEF RecallDegrees
  <2>1. PICK degree \in 1 .. 4 : t = KnowledgeRecorded(s, plan, IsSuccess(degree))
    BY <1>3, <1>7, <2>0 DEF Executed
  <2>2. harmful /\ plan.target \in Fighters /\ plan.actor \in Fighters
    BY <1>1, <1>3, <1>7 DEF PlanShape
  <2>3. IsSuccess(degree) \in BOOLEAN
    BY DEF IsSuccess
  <2>4. Fits(t) /\ Lower(s, t) /\ Unharmed(s, t)
    BY <2>1, <2>2, <2>3, RecordedFits
  <2> QED BY <2>2, <2>4, LowerIsMeek DEF definition, ActionStep, OnlyHarms, Unharmed
<1> QED BY <1>1, <1>3, <1>4, <1>5, <1>6, <1>7

\* Whoever one may do harm to is somebody else.
LEMMA PlanFits ==
  ASSUME NEW a \in Fighters, NEW id \in LegalActions(a), Actions[id].kind # "move",
         NEW plan \in LegalPlans(a, id)
  PROVE  /\ PlanShape(plan)
         /\ Actions[id].targeting = "enemy" => plan.target \in Fighters /\ plan.target # a
<1>1. Actions[id].targeting \in {"none", "self", "ally", "creature", "enemy", "tile", "effect"}
  BY LegalIsAuthored, ActionsAssumption DEF ActionShape
<1>2. plan \in Plans(a, id)
  BY DEF LegalPlans
<1>3. \E effect : \E target \in Fighters \union {Nobody} :
        /\ plan = Plan(a, target, effect)
        /\ Actions[id].targeting = "enemy" => target \in Fighters /\ Teams[target] # Teams[a]
  BY <1>1, <1>2 DEF Plans
<1> QED BY <1>3 DEF Plan, PlanShape

LEMMA LandedFits ==
  ASSUME NEW s, Fits(s), NEW a \in Fighters, ~s.actors[a].defeated, NEW t \in Landed(s, a)
  PROVE  Fits(t) /\ Meek(s, t) /\ Unharmed(s, t)
<1>1. t = s \/ t = AddCondition(s, a, "grabbed", 1)
  BY DEF Landed
<1> QED BY <1>1, AddedFits, NothingIsLower, LowerIsMeek

LEMMA FlourishedFits ==
  ASSUME NEW s, Fits(s), NEW a \in Fighters, NEW definition
  PROVE  LET t == Flourished(s, a, definition) IN
         /\ Fits(t) /\ Lower(s, t) /\ Unharmed(s, t)
         /\ t.turn.actions = s.turn.actions
<1> DEFINE t == Flourished(s, a, definition)
<1>1. DraftShape(s) /\ TurnFits(s.turn) /\ KnowledgeFits(s.knowledge)
  BY DEF Fits, Parts
<1>2. /\ DraftShape(t) /\ t.actors = s.actors /\ t.outcome = s.outcome
      /\ t.knowledge = s.knowledge /\ TurnFits(t.turn) /\ t.turn.actions = s.turn.actions
  BY <1>1 DEF Flourished, DraftShape, DraftFields, TurnFields, TurnFits
<1> HIDE DEF t
<1>3. Fits(t) /\ Lower(s, t) /\ Unharmed(s, t)
  BY <1>1, <1>2, ActorsAlone
<1> QED BY <1>2, <1>3 DEF t

LEMMA PaidFits ==
  ASSUME NEW s, Fits(s), NEW a \in Fighters, NEW id \in DOMAIN Actions,
         Actions[id].cost <= s.turn.actions
  PROVE  LET t == Paid(s, a, Actions[id]) IN Fits(t) /\ Lower(s, t) /\ Unharmed(s, t)
<1> DEFINE definition == Actions[id]
           f == Flourished(s, a, definition)
           t == Paid(s, a, definition)
<1>1. Fits(f) /\ Lower(s, f) /\ Unharmed(s, f) /\ f.turn.actions = s.turn.actions
  BY FlourishedFits
<1>2. /\ definition.cost \in 0 .. 3 /\ definition.mapAttackCount \in 1 .. 3
      /\ definition.cost <= s.turn.actions
  BY ActionsAssumption DEF ActionShape
<1> HIDE DEF definition
<1>3. t = [f EXCEPT !.turn.actions = @ - definition.cost,
                    !.turn.attacks = @ + (IF HasAttackTrait(definition)
                                            THEN definition.mapAttackCount ELSE 0)]
  BY DEF Paid
<1> HIDE DEF f
<1>4. DraftShape(f) /\ TurnFits(f.turn) /\ KnowledgeFits(f.knowledge)
  BY <1>1 DEF Fits, Parts
<1> HIDE DEF t
<1>5. /\ DraftShape(t) /\ t.actors = f.actors /\ t.outcome = f.outcome
      /\ t.knowledge = f.knowledge
  BY <1>3, <1>4 DEF DraftShape, DraftFields, TurnFields
<1>6. /\ t.turn.index = f.turn.index /\ t.turn.active = f.turn.active
      /\ t.turn.number = f.turn.number /\ t.turn.flourish = f.turn.flourish
      /\ t.turn.actions = f.turn.actions - definition.cost
      /\ \/ t.turn.attacks = f.turn.attacks + definition.mapAttackCount
         \/ t.turn.attacks = f.turn.attacks + 0
  BY <1>3, <1>4 DEF DraftShape, DraftFields, TurnFields
<1>7. TurnFits(t.turn)
  BY <1>1, <1>2, <1>4, <1>6 DEF TurnFits
<1>8. Fits(t) /\ Lower(f, t) /\ Unharmed(f, t)
  BY <1>1, <1>4, <1>5, <1>7, ActorsAlone
<1>9. Lower(s, t)
  BY <1>1, <1>8, LowerThenLower
<1> QED BY <1>1, <1>8, <1>9 DEF t, definition, Unharmed

-----------------------------------------------------------------------------
(* Turns of a fight *)

\* What wraps around lands where it started.
LEMMA WrapsAround ==
  ASSUME NEW n \in Nat, n > 0, NEW m \in 0 .. n - 1
  PROVE  m % n = m /\ (m + n) % n = m
<1>1. ASSUME NEW x \in Nat, x < n + n PROVE (x % n) \in 0 .. n - 1 /\ x = n * (x \div n) + (x % n)
  BY <1>1
<1>2. ASSUME NEW q \in Int, NEW r \in 0 .. n - 1, n * q + r = m
      PROVE  r = m
  <2>1. q = 0 \/ q >= 1 \/ q <= -1
    BY <1>2
  <2>2. CASE q >= 1
    <3>1. n * q >= n
      BY <2>2
    <3> QED BY <1>2, <3>1
  <2>3. CASE q <= -1
    <3>1. n * q <= -n
      BY <2>3
    <3> QED BY <1>2, <3>1
  <2> QED BY <1>2, <2>1, <2>2, <2>3
<1>3. m \div n \in Int /\ (m + n) \div n \in Int
  OBVIOUS
<1>4. m % n = m
  BY <1>1, <1>2, <1>3
<1>5. (m + n) % n = m
  <2> DEFINE q == (m + n) \div n
             r == (m + n) % n
  <2>1. r \in 0 .. n - 1 /\ m + n = n * q + r /\ q \in Int
    BY <1>1, <1>3
  <2> HIDE DEF q, r
  <2>2. n * (q - 1) = n * q - n
    BY <2>1
  <2>3. n * (q - 1) + r = m
    BY <2>1, <2>2
  <2>4. r = m
    BY <1>2, <2>1, <2>3
  <2> QED BY <2>4 DEF r
<1> QED BY <1>4, <1>5

\* The next place of the order, and whoever is in it stands, if somebody does.
LEMMA NextStands ==
  ASSUME NEW s, s.turn.index \in DOMAIN Order
  PROVE  /\ NextIndex(s) \in DOMAIN Order
         /\ (\E a \in Fighters : ~s.actors[a].defeated) => ~s.actors[Order[NextIndex(s)]].defeated
<1> DEFINE n == Len(Order)
           index == s.turn.index
           Place(k) == ((index - 1 + k) % n) + 1
           standing == {k \in 1 .. n : ~s.actors[Order[Place(k)]].defeated}
           least == CHOOSE k \in standing : \A l \in standing : k <= l
<1>1. n \in Nat /\ n > 0 /\ DOMAIN Order = 1 .. n /\ index \in 1 .. n
  BY OrderAssumption, LenProperties
<1>2. NextIndex(s) = Place(IF standing = {} THEN n ELSE least)
  BY DEF NextIndex
<1> HIDE DEF n, index
<1>3. ASSUME NEW k \in Nat PROVE Place(k) \in 1 .. n
  BY <1>1, <1>3
<1>4. standing # {} => least \in standing
  <2>1. standing \subseteq Nat
    BY <1>1
  <2> HIDE DEF standing
  <2> QED BY <2>1, LeastNatural
<1>5. NextIndex(s) \in 1 .. n
  <2>1. (IF standing = {} THEN n ELSE least) \in Nat
    <3>1. standing \subseteq Nat
      BY <1>1
    <3> HIDE DEF standing, least
    <3> QED BY <1>1, <1>4, <3>1
  <2> HIDE DEF Place, standing, least
  <2> QED BY <1>2, <1>3, <2>1
<1>6. ASSUME NEW a \in Fighters, ~s.actors[a].defeated
      PROVE  ~s.actors[Order[NextIndex(s)]].defeated
  <2>1. PICK j \in 1 .. n : Order[j] = a
    BY <1>1, OrderAssumption
  <2>2. \E k \in 1 .. n : Place(k) = j
    <3> DEFINE k == IF j > index THEN j - index ELSE j - index + n
    <3>1. k \in 1 .. n /\ (index - 1 + k = j - 1 \/ index - 1 + k = j - 1 + n)
      BY <1>1
    <3>2. j - 1 \in 0 .. n - 1
      BY <1>1
    <3>3. (j - 1) % n = j - 1 /\ (j - 1 + n) % n = j - 1
      BY <1>1, <3>2, WrapsAround
    <3> HIDE DEF k
    <3>4. Place(k) = j
      BY <1>1, <3>1, <3>3
    <3> QED BY <3>1, <3>4
  <2>3. standing # {}
    BY <1>6, <2>1, <2>2
  <2> QED BY <1>2, <1>4, <2>3
<1> QED BY <1>1, <1>5, <1>6

LEMMA DecayedFits ==
  ASSUME NEW s, Fits(s), NEW a \in Fighters
  PROVE  LET t == Decayed(s, a) IN
         Fits(t) /\ Lower(s, t) /\ Unharmed(s, t) /\ t.turn = s.turn /\ t.outcome = s.outcome
<1> DEFINE left == [c \in ConditionIds |->
                      IF Valued(c) THEN Clamp(c, s.actors[a].conditions[c] + Conditions[c].endTurnDelta)
                                   ELSE s.actors[a].conditions[c]]
           t == Decayed(s, a)
<1>1. DraftShape(s)
  BY DEF Fits, Parts
<1>2. \A c \in ConditionIds :
        left[c] \in 0 .. Most(1, Conditions[c].max) /\ left[c] <= s.actors[a].conditions[c]
  <2> TAKE c \in ConditionIds
  <2>1. /\ s.actors[a].conditions[c] \in 0 .. Most(1, Conditions[c].max)
        /\ Conditions[c].max \in Nat /\ Conditions[c].endTurnDelta \in {-1, 0}
    BY ConditionsAssumption DEF Fits, Parts, FighterFits, ConditionIds
  <2> QED BY <2>1 DEF Valued, Clamp, Most, Least
<1>3. DOMAIN left = ConditionIds
  OBVIOUS
<1>4. /\ DraftShape(t) /\ t.turn = s.turn /\ t.knowledge = s.knowledge /\ t.outcome = s.outcome
      /\ \A b \in Fighters :
           /\ t.actors[b].hp = s.actors[b].hp /\ t.actors[b].defeated = s.actors[b].defeated
           /\ t.actors[b].reaction = s.actors[b].reaction
           /\ t.actors[b].shieldRaised = s.actors[b].shieldRaised
           /\ t.actors[b].conditions = IF b = a THEN left ELSE s.actors[b].conditions
  BY <1>1 DEF Decayed, DraftShape, DraftFields, ActorFields
<1> HIDE DEF t, left
<1>5. \A b \in Fighters : FighterFits(t.actors[b], b)
  BY <1>2, <1>4 DEF Fits, Parts, FighterFits
<1>6. Fits(t)
  BY <1>4, <1>5 DEF Fits, Parts, Standing
<1>7. Lower(s, t) /\ Unharmed(s, t)
  BY <1>2, <1>4, ConditionsAreWhole DEF Lower, Unharmed
<1> QED BY <1>4, <1>6, <1>7 DEF t

LEMMA ExpiredFits ==
  ASSUME NEW s, Fits(s), NEW a \in Fighters
  PROVE  LET t == Expired(s, a) IN
         Fits(t) /\ Lower(s, t) /\ Unharmed(s, t) /\ t.turn = s.turn /\ t.outcome = s.outcome
<1> DEFINE left == [c \in ConditionIds |-> IF Conditions[c].expires THEN 0 ELSE s.actors[a].conditions[c]]
           t == Expired(s, a)
<1>1. DraftShape(s)
  BY DEF Fits, Parts
<1>2. \A c \in ConditionIds :
        left[c] \in 0 .. Most(1, Conditions[c].max) /\ left[c] <= s.actors[a].conditions[c]
  <2> TAKE c \in ConditionIds
  <2>1. /\ s.actors[a].conditions[c] \in 0 .. Most(1, Conditions[c].max)
        /\ Conditions[c].max \in Nat
    BY ConditionsAssumption DEF Fits, Parts, FighterFits, ConditionIds
  <2> QED BY <2>1 DEF Most
<1>3. DOMAIN left = ConditionIds
  OBVIOUS
<1>4. /\ DraftShape(t) /\ t.turn = s.turn /\ t.knowledge = s.knowledge /\ t.outcome = s.outcome
      /\ \A b \in Fighters :
           /\ t.actors[b].hp = s.actors[b].hp /\ t.actors[b].defeated = s.actors[b].defeated
           /\ t.actors[b].reaction = s.actors[b].reaction
           /\ t.actors[b].shieldRaised = s.actors[b].shieldRaised
           /\ t.actors[b].conditions = IF b = a THEN left ELSE s.actors[b].conditions
  BY <1>1 DEF Expired, DraftShape, DraftFields, ActorFields
<1> HIDE DEF t, left
<1>5. \A b \in Fighters : FighterFits(t.actors[b], b)
  BY <1>2, <1>4 DEF Fits, Parts, FighterFits
<1>6. Fits(t)
  BY <1>4, <1>5 DEF Fits, Parts, Standing
<1>7. Lower(s, t) /\ Unharmed(s, t)
  BY <1>2, <1>4, ConditionsAreWhole DEF Lower, Unharmed
<1> QED BY <1>4, <1>6, <1>7 DEF t

\* The turn passes to somebody who stands, and nobody is the worse for it.
LEMMA AdvancedFits ==
  ASSUME NEW s, Fits(s)
  PROVE  LET t == Advanced(s) IN
         /\ Fits(t) /\ Lower(s, t) /\ Unharmed(s, t) /\ t.outcome = s.outcome
         /\ s.outcome = "none" => ~t.actors[t.turn.active].defeated
<1> DEFINE ended == s.turn.active
           e == [s EXCEPT !.effects = {f \in @ : ~Lapsed(f, s)}]
           d == Decayed(e, ended)
           index == NextIndex(d)
           next == Order[index]
           r == [d EXCEPT !.actors[next].reaction = TRUE, !.actors[next].shieldRaised = FALSE]
           x == Expired(r, next)
           turned == [active |-> next, index |-> index, actions |-> 3, attacks |-> 0,
                      number |-> s.turn.number + 1, locked |-> {}, flourish |-> {}]
           t == Advanced(s)
<1>1. DraftShape(s) /\ TurnFits(s.turn) /\ KnowledgeFits(s.knowledge)
  BY DEF Fits, Parts
<1>2. t = [x EXCEPT !.turn = turned]
  BY DEF Advanced
<1>3. ended \in Fighters
  BY <1>1, OrderAssumption DEF TurnFits
<1>4. Fits(e) /\ Lower(s, e) /\ Unharmed(s, e) /\ e.turn = s.turn /\ e.outcome = s.outcome
  <2>1. /\ DraftShape(e) /\ e.actors = s.actors /\ e.outcome = s.outcome
        /\ e.knowledge = s.knowledge /\ e.turn = s.turn
    BY <1>1 DEF DraftShape, DraftFields
  <2> HIDE DEF e
  <2> QED BY <1>1, <2>1, ActorsAlone
<1> HIDE DEF t, e, ended
<1>5. Fits(d) /\ Lower(e, d) /\ Unharmed(e, d) /\ d.turn = s.turn /\ d.outcome = s.outcome
  BY <1>3, <1>4, DecayedFits
<1> HIDE DEF d
<1>6. index \in DOMAIN Order /\ next \in Fighters
      /\ ((\E a \in Fighters : ~d.actors[a].defeated) => ~d.actors[next].defeated)
  <2>1. d.turn.index \in DOMAIN Order
    BY <1>1, <1>5 DEF TurnFits
  <2>2. index \in DOMAIN Order
        /\ ((\E a \in Fighters : ~d.actors[a].defeated) => ~d.actors[next].defeated)
    BY <2>1, NextStands
  <2> HIDE DEF index
  <2> QED BY <2>2, OrderAssumption
<1>7. TurnFits(turned) /\ turned.active = next /\ DOMAIN turned = TurnFields
  BY <1>1, <1>6 DEF TurnFits, TurnFields
<1> HIDE DEF index, next, turned
<1>8. Fits(r) /\ Lower(d, r) /\ Unharmed(d, r) /\ r.turn = s.turn /\ r.outcome = s.outcome
  <2>0. DraftShape(d)
    BY <1>5 DEF Fits, Parts
  <2>1. /\ DraftShape(r) /\ r.turn = d.turn /\ r.knowledge = d.knowledge
        /\ r.outcome = d.outcome
        /\ \A b \in Fighters :
             /\ r.actors[b].hp = d.actors[b].hp
             /\ r.actors[b].defeated = d.actors[b].defeated
             /\ r.actors[b].reaction = IF b = next THEN TRUE ELSE d.actors[b].reaction
             /\ r.actors[b].shieldRaised = IF b = next THEN FALSE ELSE d.actors[b].shieldRaised
             /\ r.actors[b].conditions = d.actors[b].conditions
    BY <2>0 DEF DraftShape, DraftFields, ActorFields
  <2> HIDE DEF r
  <2>2. \A b \in Fighters : FighterFits(r.actors[b], b)
    BY <1>5, <2>1 DEF Fits, Parts, FighterFits
  <2>3. Fits(r)
    BY <1>5, <2>1, <2>2 DEF Fits, Parts, Standing
  <2>4. \A b \in Fighters : \A c \in ConditionIds : d.actors[b].conditions[c] \in Int
    BY <1>5, ConditionsAreWhole
  <2>5. Unharmed(d, r)
    BY <2>1 DEF Unharmed
  <2>6. \A b \in Fighters : \A c \in ConditionIds : r.actors[b].conditions[c] <= d.actors[b].conditions[c]
    <3> TAKE b \in Fighters
    <3> TAKE c \in ConditionIds
    <3>1. r.actors[b].conditions = d.actors[b].conditions
      BY <2>1
    <3>2. d.actors[b].conditions[c] \in Int
      BY <2>4
    <3> QED BY <3>1, <3>2
  <2>7. Lower(d, r)
    BY <2>1, <2>6 DEF Lower
  <2> QED BY <1>5, <2>1, <2>3, <2>5, <2>7
<1> HIDE DEF r
<1>9. Fits(x) /\ Lower(r, x) /\ Unharmed(r, x) /\ x.turn = s.turn /\ x.outcome = s.outcome
  BY <1>6, <1>8, ExpiredFits
<1> HIDE DEF x
<1>10. Fits(t) /\ Lower(x, t) /\ Unharmed(x, t) /\ t.turn = turned /\ t.outcome = s.outcome
  <2>0. DraftShape(x) /\ KnowledgeFits(x.knowledge)
    BY <1>9 DEF Fits, Parts
  <2>1. /\ DraftShape(t) /\ t.actors = x.actors /\ t.outcome = x.outcome
        /\ t.knowledge = x.knowledge /\ t.turn = turned
    BY <1>2, <1>7, <2>0 DEF DraftShape, DraftFields
  <2> QED BY <1>7, <1>9, <2>0, <2>1, ActorsAlone
<1>11. Lower(s, t)
  <2>1. Lower(s, d)
    BY <1>4, <1>5, LowerThenLower
  <2>2. Lower(s, r)
    BY <1>5, <1>8, <2>1, LowerThenLower
  <2>3. Lower(s, x)
    BY <1>8, <1>9, <2>2, LowerThenLower
  <2> QED BY <1>9, <1>10, <2>3, LowerThenLower
<1>12. Unharmed(s, t) /\ Unharmed(d, t)
  BY <1>4, <1>5, <1>8, <1>9, <1>10 DEF Unharmed
<1>13. ASSUME s.outcome = "none" PROVE ~t.actors[t.turn.active].defeated
  <2>1. \E a \in Fighters : ~d.actors[a].defeated
    BY <1>5, <1>13 DEF Fits, Standing
  <2> QED BY <1>6, <1>7, <1>10, <1>12, <2>1 DEF Unharmed
<1> QED BY <1>10, <1>11, <1>12, <1>13 DEF t

-----------------------------------------------------------------------------
(* What every command leads to *)

\* What a command leads to: whoever fell stays down and out of the turn.
Follows(t) ==
  Fits(t) /\ Meek(draft, t) /\ (t.outcome = "none" => ~t.actors[t.turn.active].defeated)

FitInv == FightInv /\ Fits(draft)

\* What DefeatIsFinal says of a step.
DefeatStays ==
  \A a \in Fighters :
    /\ actors[a].defeated => actors'[a].defeated
    /\ actors'[a].defeated =>
         /\ actors'[a].hp = 0
         /\ \A c \in ConditionIds : actors'[a].conditions[c] <= actors[a].conditions[c]
         /\ (outcome' = "none" => turn'.active # a)

LEMMA SetFits ==
  ASSUME NEW s, Set(s), Follows(s)
  PROVE  Fits(draft)' /\ DefeatStays
<1>1. /\ draft'.actors = s.actors /\ draft'.turn = s.turn /\ draft'.effects = s.effects
      /\ draft'.knowledge = s.knowledge /\ draft'.outcome = s.outcome
      /\ draft'.scares = s.scares /\ DOMAIN draft' = DraftFields
      /\ actors' = s.actors /\ turn' = s.turn /\ outcome' = s.outcome
      /\ draft.actors = actors
  BY DEF draft, Set, DraftFields
<1>2. Fits(draft)' <=> Fits(draft')
  BY DEF Fits, Parts, DraftShape, FighterFits, TurnFits, KnowledgeFits, Standing
<1>3. Fits(draft')
  BY <1>1 DEF Follows, Fits, Parts, DraftShape, KnowledgeFits, Standing
<1>4. DefeatStays
  <2>1. \A a \in Fighters : s.actors[a].defeated => s.actors[a].hp = 0
    BY DEF Follows, Fits, Parts, FighterFits
  <2> QED BY <1>1, <2>1 DEF Follows, Meek, DefeatStays
<1> QED BY <1>2, <1>3, <1>4

LEMMA FitStarts == Init => Fits(draft)
<1> SUFFICES ASSUME Init PROVE Fits(draft)
  OBVIOUS
<1>1. DraftShape(draft)
  BY DEF Init, draft, DraftShape, DraftFields, TurnFields, ActorFields
<1>2. ASSUME NEW a \in Fighters PROVE FighterFits(draft.actors[a], a)
  <2>1. /\ draft.actors[a].hp = StartHp[a] /\ draft.actors[a].defeated = FALSE
        /\ draft.actors[a].reaction = (a = Order[1]) /\ draft.actors[a].shieldRaised = FALSE
        /\ \A c \in ConditionIds : draft.actors[a].conditions[c] = 0
    BY DEF Init, draft
  <2>2. StartHp[a] \in 1 .. MaxHp(Profiles[a]) /\ MaxHp(Profiles[a]) \in Int
    BY FightersAssumption, HitPointsType
  <2>3. \A c \in ConditionIds : 0 \in 0 .. Most(1, Conditions[c].max)
    BY ConditionsAssumption DEF ConditionIds, Most
  <2> DEFINE f == draft.actors[a]
  <2> HIDE DEF f
  <2>4. /\ f.hp = StartHp[a] /\ f.defeated = FALSE
        /\ f.reaction \in BOOLEAN /\ f.shieldRaised = FALSE
        /\ \A c \in ConditionIds : f.conditions[c] = 0
    BY <2>1 DEF f
  <2>5. f.hp \in 0 .. MaxHp(Profiles[a]) /\ f.hp # 0
    BY <2>2, <2>4
  <2>6. \A c \in ConditionIds : f.conditions[c] \in 0 .. Most(1, Conditions[c].max)
    BY <2>3, <2>4
  <2>7. FighterFits(f, a)
    BY <2>4, <2>5, <2>6 DEF FighterFits
  <2> QED BY <2>7 DEF f
<1>3. TurnFits(draft.turn)
  <2>1. 1 \in DOMAIN Order
    BY OrderAssumption, LenProperties
  <2> QED BY <2>1 DEF Init, draft, TurnFits
<1>4. KnowledgeFits(draft.knowledge) /\ draft.outcome = "none"
  BY DEF Init, draft, KnowledgeFits
<1>5. Standing(draft, "heroes") /\ Standing(draft, "enemies")
  <2>1. \A a \in Fighters : ~draft.actors[a].defeated
    BY DEF Init, draft
  <2> HIDE DEF draft
  <2> QED BY <2>1, FightersAssumption DEF Standing
<1> QED BY <1>1, <1>2, <1>3, <1>4, <1>5 DEF Fits, Parts

LEMMA UseActionFits ==
  ASSUME FitInv, NEW a \in Fighters, UseAction(a)
  PROVE  Fits(draft)' /\ DefeatStays
<1>1. PICK id \in LegalActions(a) :
        /\ Actions[id].kind # "move"
        /\ \E plan \in LegalPlans(a, id) :
             \E s \in Executed(Paid(draft, a, Actions[id]), plan, Actions[id],
                               AttacksForMap(TRUE, turn.attacks, HasAttackTrait(Actions[id]))) :
               Set(OutcomeChecked(s))
  BY DEF UseAction
<1>2. PICK plan \in LegalPlans(a, id) :
        \E s \in Executed(Paid(draft, a, Actions[id]), plan, Actions[id],
                          AttacksForMap(TRUE, turn.attacks, HasAttackTrait(Actions[id]))) :
          Set(OutcomeChecked(s))
  BY <1>1
<1> DEFINE p == Paid(draft, a, Actions[id])
           attacks == AttacksForMap(TRUE, turn.attacks, HasAttackTrait(Actions[id]))
<1>3. PICK s \in Executed(p, plan, Actions[id], attacks) : Set(OutcomeChecked(s))
  BY <1>2
<1>4. Exact(p, finished) /\ SameTurn(draft, p)
  BY PaidInTurn DEF FitInv, FightInv
<1>5. /\ id \in DOMAIN Actions /\ PlanShape(plan)
      /\ Actions[id].targeting = "enemy" => plan.target \in Fighters /\ plan.target # a
  BY <1>1, LegalIsAuthored, PlanFits
<1>6. Fits(p) /\ Lower(draft, p) /\ Unharmed(draft, p)
  <2>1. Actions[id].cost <= draft.turn.actions
    <3>1. MayUse(a, id)
      BY <1>2 DEF LegalPlans
    <3>2. turn.actions \in Nat /\ draft.turn = turn
      BY DEF FitInv, Fits, Parts, TurnFits, draft
    <3> QED BY <3>1, <3>2 DEF MayUse
  <2>2. Fits(draft)
    BY DEF FitInv
  <2> QED BY <1>5, <2>1, <2>2, PaidFits
<1> HIDE DEF p, attacks
<1>7. SameTurn(p, s)
  BY <1>1, <1>3, <1>4, <1>5, ActionInTurn DEF PlanShape
<1>8. ActionStep(p, s, plan) /\ (Actions[id].targeting # "enemy" => Unharmed(p, s))
  BY <1>1, <1>3, <1>5, <1>6, ActionFits
<1>9. ~s.actors[a].defeated /\ s.turn.active = a
  <2>1. ~draft.actors[a].defeated /\ draft.turn.active = a
    BY DEF UseAction, draft
  <2>2. ~p.actors[a].defeated
    BY <1>6, <2>1 DEF Unharmed
  <2>3. ~s.actors[a].defeated
    BY <1>5, <1>8, <2>2 DEF ActionStep, OnlyHarms, Unharmed
  <2> QED BY <1>4, <1>7, <2>1, <2>3 DEF SameTurn
<1>10. Meek(draft, s)
  BY <1>6, <1>8, LowerThenMeek DEF FitInv, ActionStep
<1> DEFINE o == OutcomeChecked(s)
<1>11. Fits(o) /\ o.actors = s.actors /\ o.turn = s.turn
  BY <1>8, OutcomeFits DEF ActionStep, Fits
<1> HIDE DEF o
<1>12. Follows(o)
  BY <1>9, <1>10, <1>11 DEF Follows, Meek
<1> QED BY <1>3, <1>12, SetFits DEF o

LEMMA MoveFits ==
  ASSUME FitInv, NEW a \in Fighters, Move(a)
  PROVE  Fits(draft)' /\ DefeatStays
<1>1. PICK id \in LegalActions(a) :
        \/ \E landed \in Landed(Paid(draft, a, Actions[id]), a) : Set(landed)
        \/ Set(Paid(draft, a, Actions[id]))
        \/ Set(Advanced(Paid(draft, a, Actions[id])))
  BY DEF Move
<1> DEFINE s == Paid(draft, a, Actions[id])
<1>2. id \in DOMAIN Actions
  BY LegalIsAuthored
<1>3. Fits(s) /\ Lower(draft, s) /\ Unharmed(draft, s)
  <2>1. Actions[id].cost <= draft.turn.actions
    <3>1. MayUse(a, id)
      BY DEF LegalActions, LegalPlans
    <3>2. turn.actions \in Nat /\ draft.turn = turn
      BY DEF FitInv, Fits, Parts, TurnFits, draft
    <3> QED BY <3>1, <3>2 DEF MayUse
  <2>2. Fits(draft)
    BY DEF FitInv
  <2> QED BY <1>2, <2>1, <2>2, PaidFits
<1>4. Exact(s, finished) /\ SameTurn(draft, s)
  BY PaidInTurn DEF FitInv, FightInv
<1> HIDE DEF s
<1>5. ~s.actors[a].defeated /\ s.turn.active = a
  BY <1>3, <1>4 DEF Move, draft, Unharmed, SameTurn
<1>6. CASE Set(s)
  <2>1. Follows(s)
    BY <1>3, <1>5, LowerIsMeek DEF Follows
  <2> QED BY <1>6, <2>1, SetFits
<1>7. CASE \E landed \in Landed(s, a) : Set(landed)
  <2>1. PICK landed \in Landed(s, a) : Set(landed)
    BY <1>7
  <2>2. Fits(landed) /\ Meek(s, landed) /\ Unharmed(s, landed)
    BY <1>3, <1>5, LandedFits
  <2>3. Meek(draft, landed)
    BY <1>3, <2>2, LowerThenMeek DEF FitInv
  <2>4. ~landed.actors[a].defeated
    BY <1>5, <2>2 DEF Unharmed
  <2>5. landed.turn.active = a
    BY <1>4, <1>5, LandedInTurn DEF SameTurn
  <2>6. Follows(landed)
    BY <2>2, <2>3, <2>4, <2>5 DEF Follows
  <2> QED BY <2>1, <2>6, SetFits
<1>8. CASE Set(Advanced(s))
  <2> DEFINE t == Advanced(s)
  <2>1. /\ Fits(t) /\ Lower(s, t) /\ Unharmed(s, t)
        /\ s.outcome = "none" => ~t.actors[t.turn.active].defeated
    BY <1>3, AdvancedFits
  <2>2. Set(t)
    BY <1>8
  <2>3. t.outcome = s.outcome
    BY <1>3, AdvancedFits
  <2> HIDE DEF t
  <2>4. Lower(draft, t)
    BY <1>3, <2>1, LowerThenLower DEF FitInv
  <2>5. Follows(t)
    BY <2>1, <2>3, <2>4, LowerIsMeek DEF Follows
  <2> QED BY <2>2, <2>5, SetFits
<1> QED BY <1>1, <1>6, <1>7, <1>8 DEF s

LEMMA EndTurnFits ==
  ASSUME FitInv, NEW a \in Fighters, EndTurn(a)
  PROVE  Fits(draft)' /\ DefeatStays
<1> DEFINE t == Advanced(draft)
<1>1. Set(t)
  BY DEF EndTurn
<1>2. /\ Fits(t) /\ Lower(draft, t) /\ t.outcome = draft.outcome
      /\ draft.outcome = "none" => ~t.actors[t.turn.active].defeated
  BY AdvancedFits DEF FitInv
<1> HIDE DEF t
<1>3. Follows(t)
  BY <1>2, LowerIsMeek DEF Follows
<1> QED BY <1>1, <1>3, SetFits

\* What follows a reaction to the move of the active fighter.
LEMMA ResumedFits ==
  ASSUME FitInv, NEW s, Fits(s), Meek(draft, s), s.turn.active = turn.active,
         NEW resumed \in Resumed(s, turn.active), Set(resumed)
  PROVE  Fits(draft)' /\ DefeatStays
<1> DEFINE a == turn.active
<1>1. a \in Fighters
  BY OrderAssumption DEF FitInv, Fits, Parts, TurnFits, draft
<1> HIDE DEF a
<1>2. CASE s.actors[a].defeated /\ s.outcome = "none"
  <2>1. resumed = Advanced(s)
    BY <1>2 DEF Resumed, a
  <2>2. /\ Fits(resumed) /\ Lower(s, resumed) /\ Unharmed(s, resumed)
        /\ ~resumed.actors[resumed.turn.active].defeated
    BY <1>2, <2>1, AdvancedFits
  <2>3. Meek(draft, resumed)
    BY <2>2, LowerIsMeek, MeekThenUnharmed DEF FitInv
  <2>4. Follows(resumed)
    BY <2>2, <2>3 DEF Follows
  <2> QED BY <2>4, SetFits
<1>3. CASE s.actors[a].defeated /\ s.outcome # "none"
  <2>1. resumed = s
    BY <1>3 DEF Resumed, a
  <2>2. Follows(resumed)
    BY <1>3, <2>1 DEF Follows
  <2> QED BY <2>2, SetFits
<1>4. CASE ~s.actors[a].defeated
  <2>1. resumed = s \/ resumed \in Landed(s, a)
    BY <1>4 DEF Resumed, a
  <2>2. Fits(resumed) /\ Meek(s, resumed) /\ Unharmed(s, resumed)
    BY <1>1, <1>4, <2>1, LandedFits, NothingIsLower, LowerIsMeek
  <2>3. Meek(draft, resumed)
    BY <2>2, MeekThenUnharmed DEF FitInv
  <2>4. resumed.turn = s.turn
    <3>1. DraftShape(s)
      BY DEF Fits, Parts
    <3> QED BY <2>1, <3>1 DEF Landed, AddCondition, DraftShape, DraftFields
  <2>5. Follows(resumed)
    BY <1>1, <1>4, <2>2, <2>3, <2>4 DEF Follows, Unharmed, a
  <2> QED BY <2>5, SetFits
<1> QED BY <1>2, <1>3, <1>4

LEMMA UseReactionFits ==
  ASSUME FitInv, NEW r \in Fighters, UseReaction(r)
  PROVE  Fits(draft)' /\ DefeatStays
<1> DEFINE reaction == Actions["reactive-strike"]
           f == Flourished(draft, r, reaction)
           s == [f EXCEPT !.actors[r].reaction = FALSE]
           plan == Plan(r, turn.active, Nobody)
           attacks == AttacksForMap(FALSE, turn.attacks, HasAttackTrait(reaction))
<1>1. /\ pending.mover = turn.active /\ "reactive-strike" \in owned[r] /\ owned \in Hands
  BY DEF FitInv, FightInv, MoveIsActive, UseReaction
<1>2. "reactive-strike" \in DOMAIN Actions /\ reaction.kind = "strike"
  BY <1>1, ReactionAssumption
<1>3. PICK struck \in Reacted(s, r, turn.active, reaction) :
        \E resumed \in Resumed(struck, turn.active) : Set(resumed)
  BY <1>1 DEF UseReaction
<1>4. Exact(f, finished) /\ SameTurn(draft, f)
  BY FlourishedInTurn DEF FitInv, FightInv
<1>5. Fits(f) /\ Lower(draft, f)
  BY FlourishedFits DEF FitInv
<1>6. PlanShape(plan) /\ plan.target \in Fighters /\ plan.actor \in Fighters
  BY OrderAssumption DEF FitInv, Fits, Parts, TurnFits, draft, Plan, PlanShape
<1> HIDE DEF f, plan, attacks, reaction
<1>7. Fits(s) /\ Lower(f, s) /\ SameTurn(f, s) /\ Exact(s, finished)
  <2>1. DraftShape(f)
    BY <1>4 DEF Exact
  <2>2. /\ DraftShape(s) /\ s.turn = f.turn /\ s.knowledge = f.knowledge /\ s.outcome = f.outcome
        /\ s.effects = f.effects /\ s.scares = f.scares
        /\ \A b \in Fighters :
             /\ s.actors[b].hp = f.actors[b].hp /\ s.actors[b].defeated = f.actors[b].defeated
             /\ s.actors[b].reaction = IF b = r THEN FALSE ELSE f.actors[b].reaction
             /\ s.actors[b].shieldRaised = f.actors[b].shieldRaised
             /\ s.actors[b].conditions = f.actors[b].conditions
    BY <2>1 DEF DraftShape, DraftFields, ActorFields
  <2> HIDE DEF s
  <2>3. \A b \in Fighters : FighterFits(s.actors[b], b)
    BY <1>5, <2>2 DEF Fits, Parts, FighterFits
  <2>4. Fits(s)
    BY <1>5, <2>2, <2>3 DEF Fits, Parts, Standing
  <2>5. ASSUME NEW b \in Fighters, NEW c \in ConditionIds
        PROVE  s.actors[b].conditions[c] <= f.actors[b].conditions[c]
    <3>1. f.actors[b].conditions[c] \in Int
      BY <1>5, ConditionsAreWhole
    <3>2. s.actors[b].conditions = f.actors[b].conditions
      BY <2>2
    <3> QED BY <3>1, <3>2
  <2>6. Lower(f, s)
    BY <2>2, <2>5 DEF Lower
  <2>7. SameTurn(f, s) /\ \A b \in Fighters : Fear(s, b) = Fear(f, b) /\ s.scares[b] = f.scares[b]
    BY <2>2 DEF SameTurn, Fear
  <2>8. Exact(s, finished)
    BY <1>4, <2>2, <2>7, OtherThings
  <2> QED BY <2>4, <2>6, <2>7, <2>8
<1> HIDE DEF s
<1>8. "reactive-strike" \in DOMAIN Actions /\ Actions["reactive-strike"].kind # "move"
      /\ (struck = s \/ struck \in Executed(s, plan, Actions["reactive-strike"], attacks))
  BY <1>2, <1>3 DEF Reacted, reaction, plan, attacks
<1>9. SameTurn(s, struck)
  BY <1>6, <1>7, <1>8, ActionInTurn DEF SameTurn
<1>10. Fits(struck) /\ Meek(s, struck)
  <2>1. CASE struck = s
    BY <1>7, <2>1, NothingIsLower, LowerIsMeek
  <2>2. CASE struck \in Executed(s, plan, Actions["reactive-strike"], attacks)
    BY <1>6, <1>7, <1>8, <2>2, ActionFits DEF ActionStep
  <2> QED BY <1>8, <2>1, <2>2
<1>11. Meek(draft, struck)
  <2>1. Lower(draft, s)
    BY <1>5, <1>7, LowerThenLower DEF FitInv
  <2> QED BY <1>7, <1>10, <2>1, LowerThenMeek DEF FitInv
<1>12. struck.turn.active = turn.active
  BY <1>4, <1>7, <1>9 DEF SameTurn, draft
<1> QED BY <1>3, <1>10, <1>11, <1>12, ResumedFits

LEMMA PassReactionFits ==
  ASSUME FitInv, NEW r \in Fighters, PassReaction(r)
  PROVE  Fits(draft)' /\ DefeatStays
<1>1. \E resumed \in Resumed(draft, turn.active) : Set(resumed)
  BY DEF FitInv, FightInv, MoveIsActive, PassReaction
<1>2. Fits(draft) /\ Meek(draft, draft) /\ draft.turn.active = turn.active
  BY NothingIsLower, LowerIsMeek DEF FitInv, draft
<1> QED BY <1>1, <1>2, ResumedFits

LEMMA StepFits ==
  ASSUME FitInv, Next
  PROVE  Fits(draft)' /\ DefeatStays
BY UseActionFits, MoveFits, EndTurnFits, UseReactionFits, PassReactionFits DEF Next

\* The initiative order is as long as there are fighters.
LEMMA EverybodyOnce == Len(Order) = Cardinality(Fighters)
<1>1. Len(Order) \in Nat /\ DOMAIN Order = 1 .. Len(Order)
  BY OrderAssumption, LenProperties
<1>2. ExistsBijection(1 .. Len(Order), Fighters)
  <2>1. Order \in Bijection(1 .. Len(Order), Fighters)
    <3>1. Order \in [1 .. Len(Order) -> Fighters] /\ IsInjective(Order)
      BY <1>1, OrderAssumption, ElementOfSeq DEF IsInjective
    <3>2. \A a \in Fighters : \E i \in 1 .. Len(Order) : Order[i] = a
      BY <1>1, OrderAssumption
    <3> QED BY <3>1, <3>2 DEF Bijection, Injection, Surjection
  <2> QED BY <2>1 DEF ExistsBijection
<1> QED BY <1>1, <1>2, FS_NatBijection, FS_CountingElements

\* Every fighter is within its bounds, and while the combat lasts somebody stands
\* on both sides (engine.ts: applyDamage, checkCombatOutcome, advanceTurn).
THEOREM FitInvariant == Spec => []FitInv
<1>1. FitInv /\ [Next]_vars => FitInv'
  <2> SUFFICES ASSUME FitInv, [Next]_vars PROVE Fits(draft)' /\ FightInv'
    BY DEF FitInv
  <2>1. FightInv'
    <3>1. CASE UNCHANGED vars
      BY <3>1, NothingKeeps DEF FitInv
    <3>2. CASE Next
      BY <3>2, UseActionKeeps, MoveKeeps, EndTurnKeeps, UseReactionKeeps, PassReactionKeeps
      DEF Next, FitInv
    <3> QED BY <3>1, <3>2
  <2>2. Fits(draft)'
    <3>1. CASE UNCHANGED vars
      <4>1. draft' = draft
        BY <3>1 DEF vars, fight, history, draft
      <4>2. Fits(draft)' <=> Fits(draft')
        BY DEF Fits, Parts, DraftShape, FighterFits, TurnFits, KnowledgeFits, Standing
      <4> QED BY <4>1, <4>2 DEF FitInv
    <3>2. CASE Next
      BY <3>2, StepFits
    <3> QED BY <3>1, <3>2
  <2> QED BY <2>1, <2>2
<1>2. Init => FitInv
  BY FightStarts, FitStarts DEF FitInv
<1> QED BY <1>1, <1>2, PTL DEF Spec

\* What validateCombat and the schema of a save ask holds of every state a fight
\* comes to (campaign-save.ts), for any content, fighters and rolls.
THEOREM FightsAreAccepted == Spec => []FightsCanBeContinued
<1>1. FitInv => FightsCanBeContinued
  <2> SUFFICES ASSUME FitInv PROVE FightsCanBeContinued
    OBVIOUS
  <2>1. /\ draft.actors = actors /\ draft.turn = turn /\ draft.effects = effects
        /\ draft.knowledge = knowledge /\ draft.outcome = outcome
    BY DEF draft
  <2>2. DraftShape(draft) /\ Parts(draft) /\ EffectsArePaid(draft, finished) /\ MoveIsActive
    BY DEF FitInv, Fits, Parts, FightInv, Exact
  <2> HIDE DEF draft
  <2>3. ActorsAreValid
    <3> SUFFICES ASSUME NEW a \in Fighters
                 PROVE  /\ actors[a].hp \in 0 .. MaxHp(Profiles[a])
                        /\ actors[a].defeated <=> actors[a].hp <= 0
                        /\ {actors[a].reaction, actors[a].shieldRaised} \subseteq BOOLEAN
                        /\ \A c \in ConditionIds : actors[a].conditions[c] \in Int
      BY <2>1, <2>2 DEF ActorsAreValid, DraftShape
    <3>1. FighterFits(actors[a], a) /\ MaxHp(Profiles[a]) \in Int
      BY <2>1, <2>2, HitPointsType DEF Parts
    <3>2. actors[a].hp \in 0 .. MaxHp(Profiles[a]) /\ (actors[a].defeated <=> actors[a].hp <= 0)
      BY <3>1 DEF FighterFits
    <3>3. \A c \in ConditionIds : actors[a].conditions[c] \in Int
      BY <3>1 DEF FighterFits
    <3> QED BY <3>1, <3>2, <3>3 DEF FighterFits
  <2>4. TurnIsValid
    <3>1. Len(Order) = Cardinality(Fighters)
      BY EverybodyOnce
    <3> QED BY <2>1, <2>2, <3>1 DEF TurnIsValid, Parts, TurnFits
  <2>5. ReferencesAreValid
    <3>1. \A f \in effects : f.owner \in Fighters /\ f.created \in Nat /\ f.sustained \in Int
      BY <2>1, <2>2 DEF EffectsArePaid
    <3>2. \A k \in knowledge : {k.actor, k.target} \subseteq Fighters /\ k.success \in BOOLEAN
      BY <2>1, <2>2 DEF Parts, KnowledgeFits
    <3>3. pending # NoMove => {pending.mover, pending.reactor} \subseteq Fighters
      <4>1. turn.active \in Fighters
        BY <2>1, <2>2, OrderAssumption DEF Parts, TurnFits
      <4> QED BY <2>2, <4>1 DEF MoveIsActive
    <3>4. outcome \in {"none", "victory", "defeat"}
      BY <2>1, <2>2 DEF Parts
    <3> QED BY <3>1, <3>2, <3>3, <3>4 DEF ReferencesAreValid
  <2> QED BY <2>3, <2>4, <2>5 DEF FightsCanBeContinued, SaveAccepts
<1> QED BY <1>1, FitInvariant, PTL

\* With actions whose damage only hits enemies, and hits them before any condition of
\* the same outcome (HarmAssumption: so in content/m7, but nothing validates it),
\* whoever is at 0 hit points stays there, gains no condition, not from the action
\* that felled it either, and gets no turn while the combat lasts.
THEOREM DefeatHolds == Spec => DefeatIsFinal
<1>1. FitInv /\ Next => DefeatStays
  BY StepFits
<1>2. FitInv /\ [Next]_vars => [DefeatStays]_vars
  BY <1>1
<1>3. Spec => [][DefeatStays]_vars
  BY <1>2, FitInvariant, PTL DEF Spec
<1>4. DefeatIsFinal <=> [][DefeatStays]_vars
  BY DEF DefeatIsFinal, DefeatStays
<1> QED BY <1>3, <1>4
=============================================================================
