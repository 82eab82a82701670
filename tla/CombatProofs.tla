--------------------------- MODULE CombatProofs ---------------------------
(***************************************************************************)
(* Proofs about a combat: the engine that plays it, and the application    *)
(* that shows it to a player.                                              *)
(*                                                                         *)
(* The engine, for any actors, decks, hands and order of ids.  CombatInv   *)
(* is inductive.  A command is a composition of operators on states, so    *)
(* there is a lemma for each operator: Well is what holds all through a    *)
(* command, Good what holds again at its end.                              *)
(*                                                                         *)
(* The application, for any number of snapshots, boards and account        *)
(* requests, any cap of the backlog and any combat a server may show.      *)
(* ScreensInv is inductive.  A board is Fine when what it shows ends what  *)
(* it told and everything chosen on it belongs to the state it shows; every *)
(* operation of the board keeps that.  The application adds where the board *)
(* stands: what waits in its backlog leads up to the newest snapshot, and  *)
(* a rendering that awaits the assets goes on only for that snapshot.      *)
(***************************************************************************)
EXTENDS Combat, Screens, TLAPS, FiniteSetTheorems, WellFoundedInduction

Well(s) ==
  /\ s \in States
  /\ \A a \in Actors : Partition(s.zones[a], Deck[a])
  /\ OutcomeIsExact(s)

Good(s) == Well(s) /\ ActiveActorLives(s) /\ QueueIsOpen(s)

Teams == team \in [Actors -> {"heroes", "enemies"}]

CombatInv == CombatTypeOK /\ Good(state)

\* What a command may do to the turn and to positions, from s to t.
SkipsOnlyTheDefeated(s, t) ==
  t.active # s.active => Between(s.active, t.active) \subseteq t.defeated

ArrivesFree(s, t) ==
  \A a \in Actors :
    t.moved = a => s.held[a] = "free" /\ t.held[a] # "held" /\ s.pending.mover \in {a, Nobody}

\* What bounds the pump.  While reactions are open, each command costs an enemy
\* the reaction it had ready.  On an enemy's turn, P are the enemies whose turns
\* this pump has played to their end, four commands each at most; the initiative
\* order brings none of them round again before every living hero.
Enemies == {a \in Actors : team[a] = "enemies"}

Turns(s, P) ==
  /\ s.active \notin P
  /\ \A h \in Alive(s, "heroes") : P \subseteq Between(h, s.active)

PumpIsPaid(s, n) ==
  /\ ~ServersTurn(s) => n = 0
  /\ ServersTurn(s) /\ s.pending # None =>
       n + Cardinality(Enemies \cap s.ready) <= Cardinality(Enemies)
  /\ ServersTurn(s) /\ s.pending = None =>
       \E P \in SUBSET Enemies :
         /\ Turns(s, P)
         /\ n <= Cardinality(Enemies) + 4 * Cardinality(P) + (3 - s.actions)

PumpInv == Enemies # {} /\ PumpIsPaid(state, streak)

\* A command's result.
Keeps(s, t) == Good(t) /\ SkipsOnlyTheDefeated(s, t) /\ ArrivesFree(s, t)

-----------------------------------------------------------------------------
(* Least elements *)

\* Every nonempty set of naturals has a least element.
LEMMA LeastNatural ==
  ASSUME NEW S, S \subseteq Nat, S # {}
  PROVE  \E x \in S : \A y \in S : x <= y
<1> DEFINE R == OpToRel(<, Nat)
<1>1. IsWellFoundedOn(R, Nat)
  BY NatLessThanWellFounded
<1>2. PICK x \in S : \A y \in S : ~(<<y, x>> \in R)
  <2> HIDE DEF R
  <2> QED BY <1>1, WFMin
<1>3. ASSUME NEW y \in S PROVE x <= y
  <2>1. ~(y < x)
    BY <1>2, <1>3 DEF OpToRel
  <2>2. x \in Nat /\ y \in Nat
    BY <1>3
  <2> QED BY <2>1, <2>2
<1> QED BY <1>2, <1>3

\* The next turn goes to a living actor, over nobody who lives.
LEMMA NextActorLives ==
  ASSUME NEW s, s.active \in Actors, Actors \ s.defeated # {}
  PROVE  /\ NextActor(s) \in Actors \ s.defeated
         /\ Between(s.active, NextActor(s)) \subseteq s.defeated
<1> DEFINE living == Actors \ s.defeated
           later == {a \in living : a > s.active}
           turns == IF later = {} THEN living ELSE later
<1>1. Actors \subseteq Nat
  BY CombatAssumption DEF Actors
<1>2. turns \subseteq Nat /\ turns # {}
  BY <1>1
<1>3. NextActor(s) = CHOOSE a \in turns : \A b \in turns : a <= b
  BY DEF NextActor
<1>4. \E a \in turns : \A b \in turns : a <= b
  <2> HIDE DEF turns
  <2> QED BY <1>2, LeastNatural
<1>5. NextActor(s) \in turns /\ \A b \in turns : NextActor(s) <= b
  <2> HIDE DEF turns
  <2> QED BY <1>3, <1>4
<1>6. NextActor(s) \in Actors \ s.defeated
  BY <1>5
<1>7. ASSUME NEW c \in Between(s.active, NextActor(s)), c \notin s.defeated
      PROVE  FALSE
  <2>1. c \in living /\ s.active \in Nat /\ c \in Nat /\ NextActor(s) \in Nat
    BY <1>1, <1>6, <1>7 DEF Between
  <2>2. CASE later = {}
    BY <1>5, <1>7, <2>1, <2>2 DEF Between
  <2>3. CASE later # {}
    BY <1>5, <1>7, <2>1, <2>3 DEF Between
  <2> QED BY <2>2, <2>3
<1> QED BY <1>6, <1>7

\* A queue has a head.
LEMMA FirstIsIn ==
  ASSUME NEW Q, Q \subseteq Candidates, Q # {}
  PROVE  First(Q) \in Q
<1> DEFINE ranks == {IdRank[c.actor] : c \in Q}
<1>1. ranks \subseteq Nat
  BY CombatAssumption DEF Candidates
<1>2. PICK r \in ranks : \A q \in ranks : r <= q
  <2>1. ranks # {}
    OBVIOUS
  <2> HIDE DEF ranks
  <2> QED BY <1>1, <2>1, LeastNatural
<1>3. PICK c \in Q : \A d \in Q : IdRank[c.actor] <= IdRank[d.actor]
  BY <1>2
<1> QED BY <1>3 DEF First

-----------------------------------------------------------------------------
(* Zones *)

\* Drawing, with the reshuffle it may need, moves one card of the deck.
LEMMA DrawnConserves ==
  ASSUME NEW z \in Zones, NEW cards, Partition(z, cards), NEW y \in Drawn(z)
  PROVE  y \in Zones /\ Partition(y, cards)
<1> DEFINE pile == IF z.draw = {} THEN z.discard ELSE z.draw
           rest == IF z.draw = {} THEN {} ELSE z.discard
<1>1. CASE pile = {}
  BY <1>1 DEF Drawn
<1>2. CASE pile # {}
  <2>1. PICK c \in pile :
          y = [draw |-> pile \ {c}, hand |-> z.hand \union {c}, discard |-> rest]
    BY <1>2 DEF Drawn
  <2>2. /\ pile \subseteq Cards /\ rest \subseteq Cards /\ z.hand \subseteq Cards
        /\ pile \union z.hand \union rest = cards
        /\ pile \cap z.hand = {} /\ pile \cap rest = {} /\ z.hand \cap rest = {}
    BY DEF Zones, Partition
  <2> HIDE DEF pile, rest
  <2>3. y \in Zones
    BY <2>1, <2>2 DEF Zones
  <2>4. Partition(y, cards)
    BY <2>1, <2>2 DEF Partition
  <2> QED BY <2>3, <2>4
<1> QED BY <1>1, <1>2

\* Playing a card of the hand discards it.
LEMMA PlayedConserves ==
  ASSUME NEW z \in Zones, NEW cards, Partition(z, cards), NEW c \in z.hand
  PROVE  Played(z, c) \in Zones /\ Partition(Played(z, c), cards)
<1>1. z.hand \subseteq Cards /\ z.draw \subseteq Cards /\ z.discard \subseteq Cards
  BY DEF Zones
<1>2. /\ Played(z, c).draw = z.draw
      /\ Played(z, c).hand = z.hand \ {c}
      /\ Played(z, c).discard = z.discard \union {c}
  BY DEF Played, Zones
<1>3. Played(z, c) \in Zones
  BY <1>1 DEF Played, Zones
<1>4. Partition(Played(z, c), cards)
  BY <1>2 DEF Partition
<1> QED BY <1>3, <1>4

-----------------------------------------------------------------------------
(* Steps of a command *)

\* While the combat goes on both teams have somebody.
LEMMA SomebodyLives ==
  ASSUME NEW s, Well(s), s.outcome = "none"
  PROVE  /\ Alive(s, "heroes") # {} /\ Alive(s, "enemies") # {}
         /\ Actors \ s.defeated # {}
BY DEF Well, OutcomeIsExact, Alive

\* The turn advances to a state that can be played on.
LEMMA TurnAdvancedIsGood ==
  ASSUME NEW s, Well(s), s.outcome = "none", s.pending = None, NEW t \in TurnAdvanced(s)
  PROVE  /\ Good(t)
         /\ Between(s.active, t.active) \subseteq t.defeated
         /\ t.held = s.held /\ t.moved = s.moved
<1> DEFINE a == NextActor(s)
<1>1. a \in Actors \ s.defeated /\ Between(s.active, a) \subseteq s.defeated
  BY SomebodyLives, NextActorLives DEF Well, States
<1>2. PICK z \in Drawn(s.zones[a]) :
        t = [s EXCEPT !.active = a, !.actions = 3, !.ready = @ \union {a}, !.zones[a] = z]
  BY DEF TurnAdvanced
<1> HIDE DEF a
<1>3. z \in Zones /\ Partition(z, Deck[a])
  BY <1>1, DrawnConserves DEF Well, States
<1>4. t \in States
  <2>1. [s.zones EXCEPT ![a] = z] \in [Actors -> Zones]
    BY <1>3 DEF Well, States
  <2>2. t = [s EXCEPT !.active = a, !.actions = 3, !.ready = @ \union {a},
                      !.zones = [s.zones EXCEPT ![a] = z]]
    BY <1>2 DEF Well, States
  <2>3. a \in Actors /\ s.ready \union {a} \subseteq Actors /\ 3 \in 0..3
    BY <1>1 DEF Well, States
  <2> QED BY <2>1, <2>2, <2>3 DEF Well, States
<1>5. /\ t.active = a /\ t.defeated = s.defeated /\ t.outcome = s.outcome
      /\ t.pending = s.pending /\ t.held = s.held /\ t.moved = s.moved
      /\ t.zones = [s.zones EXCEPT ![a] = z]
  BY <1>2 DEF Well, States
<1>6. \A b \in Actors : Partition(t.zones[b], Deck[b])
  BY <1>1, <1>3, <1>5 DEF Well, States
<1>7. OutcomeIsExact(t)
  BY <1>5 DEF Well, OutcomeIsExact, Alive
<1>8. ActiveActorLives(t) /\ QueueIsOpen(t)
  BY <1>1, <1>5 DEF ActiveActorLives, QueueIsOpen
<1> QED BY <1>1, <1>4, <1>5, <1>6, <1>7, <1>8 DEF Good, Well

\* An attack changes who is defeated, who is held and the outcome, never the
\* turn, the queue or the cards; it ends the combat only by a defeat.
LEMMA AttackedIsWell ==
  ASSUME Teams, NEW s, Well(s), s.outcome = "none",
         NEW target \in Actors \ s.defeated, NEW attacker \in Foes(target) \ s.defeated,
         NEW t \in Attacked(s, target)
  PROVE  /\ Well(t)
         /\ t.active = s.active /\ t.actions = s.actions /\ t.pending = s.pending
         /\ t.ready = s.ready /\ t.zones = s.zones /\ t.moved = s.moved
         /\ s.defeated \subseteq t.defeated
         /\ t.defeated \subseteq s.defeated \union {target}
         /\ t.outcome # "none" => target \in t.defeated
<1> DEFINE hit == [s EXCEPT !.defeated = @ \union {target}]
<1>1. CASE t = s
  BY <1>1 DEF Well, States
<1>2. CASE t = Concluded(hit)
  <2>1. /\ hit \in States
        /\ hit.active = s.active /\ hit.actions = s.actions /\ hit.pending = s.pending
        /\ hit.ready = s.ready /\ hit.zones = s.zones /\ hit.moved = s.moved
        /\ hit.defeated = s.defeated \union {target} /\ hit.outcome = "none"
    BY DEF Well, States
  <2>2. attacker \in Alive(hit, team[attacker]) /\ team[attacker] \in {"heroes", "enemies"}
    BY <2>1 DEF Foes, Alive, Teams
  <2> HIDE DEF hit
  <2>3. CASE Alive(hit, "heroes") # {} /\ Alive(hit, "enemies") # {}
    <3>1. t = hit
      BY <1>2, <2>3 DEF Concluded
    <3> QED BY <3>1, <2>1, <2>3 DEF Well, OutcomeIsExact
  <2>4. CASE Alive(hit, "heroes") = {}
    <3>1. t = [hit EXCEPT !.outcome = "defeat"]
      BY <1>2, <2>1, <2>4 DEF Concluded
    <3>2. /\ t \in States
          /\ t.active = hit.active /\ t.actions = hit.actions /\ t.pending = hit.pending
          /\ t.ready = hit.ready /\ t.zones = hit.zones /\ t.moved = hit.moved
          /\ t.defeated = hit.defeated /\ t.outcome = "defeat"
      BY <3>1, <2>1 DEF States
    <3>3. Alive(t, "heroes") = {} /\ Alive(t, "enemies") # {}
      BY <2>2, <2>4, <3>2 DEF Alive
    <3> QED BY <2>1, <3>2, <3>3 DEF Well, OutcomeIsExact
  <2>5. CASE Alive(hit, "heroes") # {} /\ Alive(hit, "enemies") = {}
    <3>1. t = [hit EXCEPT !.outcome = "victory"]
      BY <1>2, <2>1, <2>5 DEF Concluded
    <3>2. /\ t \in States
          /\ t.active = hit.active /\ t.actions = hit.actions /\ t.pending = hit.pending
          /\ t.ready = hit.ready /\ t.zones = hit.zones /\ t.moved = hit.moved
          /\ t.defeated = hit.defeated /\ t.outcome = "victory"
      BY <3>1, <2>1 DEF States
    <3>3. Alive(t, "enemies") = {} /\ Alive(t, "heroes") # {}
      BY <2>5, <3>2 DEF Alive
    <3> QED BY <2>1, <3>2, <3>3 DEF Well, OutcomeIsExact
  <2> QED BY <2>3, <2>4, <2>5
<1>3. CASE t = [s EXCEPT !.held[target] = "held"]
  <2>1. /\ t \in States
        /\ t.active = s.active /\ t.actions = s.actions /\ t.pending = s.pending
        /\ t.ready = s.ready /\ t.zones = s.zones /\ t.moved = s.moved
        /\ t.defeated = s.defeated /\ t.outcome = s.outcome
    BY <1>3 DEF Well, States, Holds
  <2> QED BY <2>1 DEF Well, OutcomeIsExact, Alive
<1> QED BY <1>1, <1>2, <1>3 DEF Attacked

\* A living actor that is free arrives, and at most the web holds it there.
LEMMA MoveCompletedIsGood ==
  ASSUME NEW s, Good(s), s.pending = None, NEW mover \in Actors, s.moved = Nobody,
         s.held[mover] = "free", NEW t \in MoveCompleted(s, mover)
  PROVE  /\ Good(t) /\ t.active = s.active
         /\ t.moved \in {Nobody, mover} /\ t.held[mover] # "held"
<1>1. CASE t = s
  BY <1>1 DEF Good, Well
<1>2. ASSUME NEW held \in [Actors -> Holds], held[mover] # "held",
             t = [s EXCEPT !.moved = mover, !.held = held]
      PROVE  Good(t) /\ t.active = s.active /\ t.moved = mover /\ t.held[mover] # "held"
  <2>1. /\ t \in States
        /\ t.active = s.active /\ t.pending = s.pending /\ t.zones = s.zones
        /\ t.defeated = s.defeated /\ t.outcome = s.outcome
        /\ t.moved = mover /\ t.held = held
    BY <1>2 DEF Good, Well, States
  <2> QED
    BY <1>2, <2>1 DEF Good, Well, OutcomeIsExact, Alive, ActiveActorLives, QueueIsOpen
<1>3. CASE t = [s EXCEPT !.moved = mover]
  <2>1. t = [s EXCEPT !.moved = mover, !.held = s.held] /\ s.held \in [Actors -> Holds]
    BY <1>3 DEF Good, Well, States
  <2> QED BY <1>2, <2>1
<1>4. CASE t = [s EXCEPT !.moved = mover, !.held[mover] = "webbed"]
  <2> DEFINE held == [s.held EXCEPT ![mover] = "webbed"]
  <2>1. held \in [Actors -> Holds] /\ held[mover] # "held"
    BY DEF Good, Well, States, Holds
  <2>2. t = [s EXCEPT !.moved = mover, !.held = held]
    BY <1>4 DEF Good, Well, States
  <2> QED BY <1>2, <2>1, <2>2
<1>5. \/ t = s
      \/ t = [s EXCEPT !.moved = mover]
      \/ t = [s EXCEPT !.moved = mover, !.held[mover] = "webbed"]
  BY DEF MoveCompleted
<1> QED BY <1>1, <1>3, <1>4, <1>5

\* A move of the active actor arrives or is suspended with a queue every
\* member of which can react.
LEMMA MovedIsGood ==
  ASSUME NEW s, Good(s), MayAct(s), s.moved = Nobody, s.held[s.active] = "free",
         NEW provokes \in BOOLEAN, NEW t \in Moved(s, s.active, provokes)
  PROVE  /\ Good(t) /\ t.active = s.active
         /\ t.moved \in {Nobody, s.active} /\ t.held[s.active] # "held"
<1> DEFINE mover == s.active
<1>1. mover \in Actors /\ s.pending = None /\ s.outcome = "none" /\ mover \notin s.defeated
  BY DEF MayAct, Good, Well, States
<1>2. CASE t \in MoveCompleted(s, mover)
  BY <1>1, <1>2, MoveCompletedIsGood
<1>3. ASSUME NEW q \in Queues(s, mover), q # {},
             t = [s EXCEPT !.pending = [mover |-> mover, candidates |-> q]]
      PROVE  /\ Good(t) /\ t.active = mover
             /\ t.moved \in {Nobody, mover} /\ t.held[mover] # "held"
  <2> DEFINE suspended == [mover |-> mover, candidates |-> q]
  <2>1. suspended \in Pendings /\ q \subseteq Eligible(s, mover)
    BY <1>1 DEF Queues, Eligible, Pendings
  <2> HIDE DEF mover
  <2>2. /\ t \in States
        /\ t.active = s.active /\ t.pending = suspended /\ t.zones = s.zones
        /\ t.ready = s.ready /\ t.held = s.held /\ t.moved = s.moved
        /\ t.defeated = s.defeated /\ t.outcome = s.outcome
    BY <1>3, <2>1 DEF Good, Well, States
  <2>3. Well(t) /\ ActiveActorLives(t)
    BY <2>2 DEF Good, Well, OutcomeIsExact, Alive, ActiveActorLives
  <2>4. \A c \in q : MayReact(t, c)
    BY <1>1, <2>1, <2>2 DEF Eligible, MayReact
  <2>5. MoveIsLegal(t, mover)
    BY <1>1, <2>2 DEF MoveIsLegal, mover
  <2>6. QueueIsOpen(t)
    BY <1>3, <2>2, <2>4, <2>5 DEF QueueIsOpen
  <2> QED BY <2>2, <2>3, <2>6 DEF Good, mover
<1>4. \/ t \in MoveCompleted(s, mover)
      \/ \E q \in Queues(s, mover) :
           q # {} /\ t = [s EXCEPT !.pending = [mover |-> mover, candidates |-> q]]
  BY DEF Moved
<1> QED BY <1>2, <1>3, <1>4

\* Spending actions and playing the card leave the combat as playable.
LEMMA SpentIsGood ==
  ASSUME NEW s, Good(s), MayAct(s), NEW cost \in 1..3, NEW card, Affordable(s, cost, card)
  PROVE  LET t == Spent(s, cost, card) IN
         /\ Good(t) /\ MayAct(t)
         /\ t.active = s.active /\ t.held = s.held /\ t.moved = s.moved
         /\ t.pending = s.pending /\ t.defeated = s.defeated
<1> DEFINE t == Spent(s, cost, card)
           a == s.active
           paid == [s EXCEPT !.actions = @ - cost]
<1>1. /\ paid \in States /\ a \in Actors
      /\ paid.active = s.active /\ paid.held = s.held /\ paid.moved = s.moved
      /\ paid.pending = s.pending /\ paid.defeated = s.defeated
      /\ paid.outcome = s.outcome /\ paid.zones = s.zones
  BY DEF Affordable, Good, Well, States
<1>2. CASE card = NoCard
  <2>1. t = paid
    BY <1>2 DEF Spent
  <2> HIDE DEF t, paid
  <2> QED BY <1>1, <2>1
    DEF Good, Well, OutcomeIsExact, Alive, ActiveActorLives, QueueIsOpen, MayAct, t
<1>3. CASE card # NoCard
  <2> DEFINE zones == [s.zones EXCEPT ![a] = Played(@, card)]
  <2>1. Played(s.zones[a], card) \in Zones /\ Partition(Played(s.zones[a], card), Deck[a])
    BY <1>1, <1>3, PlayedConserves DEF Affordable, Good, Well, States
  <2>2. zones \in [Actors -> Zones] /\ \A b \in Actors : Partition(zones[b], Deck[b])
    BY <1>1, <2>1 DEF Good, Well, States
  <2>3. t = [paid EXCEPT !.zones = zones]
    BY <1>1, <1>3 DEF Spent, States
  <2> HIDE DEF t, paid, zones
  <2>4. /\ t \in States
        /\ t.active = s.active /\ t.held = s.held /\ t.moved = s.moved
        /\ t.pending = s.pending /\ t.defeated = s.defeated
        /\ t.outcome = s.outcome /\ t.zones = zones
    BY <1>1, <2>2, <2>3 DEF States
  <2> QED BY <2>2, <2>4
    DEF Good, Well, OutcomeIsExact, Alive, ActiveActorLives, QueueIsOpen, MayAct, t
<1> QED BY <1>2, <1>3

-----------------------------------------------------------------------------
(* Commands *)

\* What an action comes to.
LEMMA ExecutedCases ==
  ASSUME NEW u, NEW t \in Executed(u)
  PROVE  \/ t = u
         \/ \E b \in Foes(u.active) \ u.defeated : t \in Attacked(u, b)
         \/ u.held[u.active] = "free" /\ \E provokes \in BOOLEAN : t \in Moved(u, u.active, provokes)
         \/ t = [u EXCEPT !.held[u.active] = "free"]
BY DEF Executed

\* useAction keeps the combat playable, moves nobody that is held, and leaves
\* the turn where it is.
LEMMA UseActionKeeps ==
  ASSUME Teams, NEW s, Good(s), s.moved = Nobody, NEW cards, NEW t \in UseAction(s, cards)
  PROVE  Keeps(s, t)
<1>1. MayAct(s)
  BY DEF UseAction
<1>2. PICK cost \in 1..3, card \in cards :
        Affordable(s, cost, card) /\ t \in Executed(Spent(s, cost, card))
  BY <1>1 DEF UseAction
<1> DEFINE u == Spent(s, cost, card)
           a == u.active
<1>3. /\ Good(u) /\ MayAct(u)
      /\ s.active = a /\ u.held = s.held /\ u.moved = Nobody
      /\ u.pending = None /\ u.defeated = s.defeated /\ s.pending = None
  BY <1>1, <1>2, SpentIsGood DEF MayAct
<1> HIDE DEF u
<1>4. u \in States /\ a \in Actors \ u.defeated /\ u.outcome = "none" /\ Well(u)
  BY <1>3 DEF Good, Well, States, MayAct
<1>5. ASSUME Good(t), t.active = a, t.moved = Nobody
      PROVE  Keeps(s, t)
  BY <1>3, <1>5 DEF Keeps, SkipsOnlyTheDefeated, ArrivesFree, Nobody, Actors
<1>6. CASE t = u
  BY <1>3, <1>5, <1>6
<1>7. ASSUME NEW b \in Foes(a) \ u.defeated, t \in Attacked(u, b)
      PROVE  Keeps(s, t)
  <2>1. b \in Actors \ u.defeated /\ a \in Foes(b) \ u.defeated /\ b # a
    BY <1>4, <1>7 DEF Foes
  <2>2. /\ Well(t) /\ t.active = a /\ t.pending = None /\ t.moved = Nobody
        /\ t.defeated \subseteq u.defeated \union {b}
    BY <1>3, <1>4, <1>7, <2>1, AttackedIsWell
  <2>3. Good(t)
    BY <1>4, <2>1, <2>2 DEF Good, ActiveActorLives, QueueIsOpen
  <2> QED BY <1>5, <2>2, <2>3
<1>8. ASSUME NEW provokes \in BOOLEAN, u.held[a] = "free", t \in Moved(u, a, provokes)
      PROVE  Keeps(s, t)
  <2>1. /\ Good(t) /\ t.active = a
        /\ t.moved \in {Nobody, a} /\ t.held[a] # "held"
    BY <1>3, <1>8, MovedIsGood
  <2>2. s.held[a] = "free" /\ s.pending.mover = Nobody
    BY <1>3, <1>8 DEF None
  <2> QED
    BY <1>3, <2>1, <2>2 DEF Keeps, SkipsOnlyTheDefeated, ArrivesFree, Nobody, Actors
<1>9. CASE t = [u EXCEPT !.held[a] = "free"]
  <2>1. /\ t \in States
        /\ t.active = a /\ t.pending = None /\ t.zones = u.zones
        /\ t.moved = Nobody /\ t.defeated = u.defeated /\ t.outcome = u.outcome
    BY <1>3, <1>4, <1>9 DEF States, Holds
  <2>2. Good(t)
    BY <1>3, <1>4, <2>1
    DEF Good, Well, OutcomeIsExact, Alive, ActiveActorLives, QueueIsOpen
  <2> QED BY <1>5, <2>1, <2>2
<1>10. t \in Executed(u)
  BY <1>2 DEF u
<1> QED BY <1>6, <1>7, <1>8, <1>9, <1>10, ExecutedCases

\* A Step in place ends the turn or just spends an action.
LEMMA StepInPlaceKeeps ==
  ASSUME NEW s, Good(s), s.moved = Nobody, NEW cards, NEW t \in StepInPlace(s, cards)
  PROVE  Keeps(s, t)
<1>1. MayAct(s)
  BY DEF StepInPlace
<1>2. PICK card \in cards :
        /\ Affordable(s, 1, card)
        /\ LET u == Spent(s, 1, card) IN
           t \in IF u.actions = 0 THEN TurnAdvanced(u) ELSE {u}
  BY <1>1 DEF StepInPlace
<1> DEFINE u == Spent(s, 1, card)
<1>3. 1 \in 1..3
  OBVIOUS
<1>4. /\ Good(u) /\ MayAct(u) /\ u.active = s.active /\ u.moved = Nobody
  BY <1>1, <1>2, <1>3, SpentIsGood
<1>5. t \in TurnAdvanced(u) \/ t = u
  BY <1>2
<1> HIDE DEF u
<1>6. CASE t \in TurnAdvanced(u)
  <2>1. /\ Good(t) /\ Between(u.active, t.active) \subseteq t.defeated /\ t.moved = Nobody
    BY <1>4, <1>6, TurnAdvancedIsGood DEF Good, MayAct
  <2> QED BY <1>4, <2>1 DEF Keeps, SkipsOnlyTheDefeated, ArrivesFree, Nobody, Actors
<1>7. CASE t = u
  BY <1>4, <1>7 DEF Keeps, SkipsOnlyTheDefeated, ArrivesFree, Nobody, Actors
<1> QED BY <1>5, <1>6, <1>7

\* endTurn passes the turn on.
LEMMA EndTurnKeeps ==
  ASSUME NEW s, Good(s), s.moved = Nobody, NEW t \in EndTurn(s)
  PROVE  Keeps(s, t)
<1>1. s.outcome = "none" /\ s.pending = None /\ t \in TurnAdvanced(s)
  BY DEF EndTurn
<1>2. Good(t) /\ Between(s.active, t.active) \subseteq t.defeated /\ t.moved = Nobody
  BY <1>1, TurnAdvancedIsGood DEF Good
<1> QED BY <1>2 DEF Keeps, SkipsOnlyTheDefeated, ArrivesFree, Nobody, Actors

\* Whatever the reaction did, the suspended move is dropped, arrives or hands
\* the turn on from a mover it killed.
LEMMA ResumedIsGood ==
  ASSUME NEW s, Well(s), s.moved = Nobody, NEW mover \in Actors, s.pending.mover = mover,
         s.active = mover, NEW t \in Resumed(s)
  PROVE  /\ Good(t)
         /\ t.active # mover => Between(mover, t.active) \subseteq t.defeated
         /\ \/ t.moved = Nobody
            \/ t.moved = mover /\ s.held[mover] = "free" /\ t.held[mover] # "held"
<1> DEFINE over == [s EXCEPT !.pending = None]
<1>1. /\ over \in States
      /\ over.active = mover /\ over.pending = None /\ over.zones = s.zones
      /\ over.held = s.held /\ over.moved = Nobody
      /\ over.defeated = s.defeated /\ over.outcome = s.outcome
  BY DEF Well, States, None, Pendings
<1> HIDE DEF over
<1>2. Well(over) /\ QueueIsOpen(over)
  BY <1>1 DEF Well, OutcomeIsExact, Alive, QueueIsOpen
<1>3. \/ mover \in s.defeated /\ s.outcome = "none" /\ t \in TurnAdvanced(over)
      \/ mover \in s.defeated /\ s.outcome # "none" /\ t = over
      \/ mover \notin s.defeated /\ MoveIsLegal(s, mover) /\ t \in MoveCompleted(over, mover)
      \/ mover \notin s.defeated /\ t = over
  BY DEF Resumed, over
<1>4. CASE s.outcome = "none" /\ t \in TurnAdvanced(over)
  <2>1. /\ Good(t) /\ Between(over.active, t.active) \subseteq t.defeated
        /\ t.moved = over.moved
    BY <1>1, <1>2, <1>4, TurnAdvancedIsGood
  <2> QED BY <1>1, <2>1
<1>5. CASE (s.outcome # "none" \/ mover \notin s.defeated) /\ t = over
  <2>1. Good(over)
    BY <1>1, <1>2, <1>5 DEF Good, ActiveActorLives
  <2> QED BY <1>1, <1>5, <2>1
<1>6. CASE mover \notin s.defeated /\ MoveIsLegal(s, mover) /\ t \in MoveCompleted(over, mover)
  <2>1. Good(over) /\ over.held[mover] = "free"
    BY <1>1, <1>2, <1>6 DEF Good, ActiveActorLives, MoveIsLegal
  <2>2. Good(t) /\ t.active = mover /\ t.moved \in {Nobody, mover} /\ t.held[mover] # "held"
    BY <1>1, <1>6, <2>1, MoveCompletedIsGood
  <2> QED BY <1>1, <2>1, <2>2
<1> QED BY <1>3, <1>4, <1>5, <1>6

\* After a reaction or a pass the queue goes on with those that can still
\* react, or the move is resumed.
LEMMA QueueContinuedIsGood ==
  ASSUME NEW s, Well(s), s.moved = Nobody, NEW mover \in Actors, s.pending.mover = mover,
         s.active = mover, NEW remaining \in SUBSET Candidates,
         NEW t \in QueueContinued(s, remaining)
  PROVE  /\ Good(t)
         /\ t.active # mover => Between(mover, t.active) \subseteq t.defeated
         /\ \/ t.moved = Nobody
            \/ t.moved = mover /\ s.held[mover] = "free" /\ t.held[mover] # "held"
<1> DEFINE left == {c \in remaining : MayReact(s, c)}
<1>1. \/ t \in Resumed(s)
      \/ mover \notin s.defeated /\ t = [s EXCEPT !.pending = None]
      \/ /\ MoveIsLegal(s, mover) /\ left # {}
         /\ t = [s EXCEPT !.pending.candidates = left]
  BY DEF QueueContinued
<1>2. CASE t \in Resumed(s)
  BY <1>2, ResumedIsGood
<1>3. CASE mover \notin s.defeated /\ t = [s EXCEPT !.pending = None]
  <2>1. /\ t \in States
        /\ t.active = mover /\ t.pending = None /\ t.zones = s.zones
        /\ t.moved = Nobody /\ t.defeated = s.defeated /\ t.outcome = s.outcome
    BY <1>3 DEF Well, States, None, Pendings
  <2>2. Good(t)
    BY <1>3, <2>1 DEF Good, Well, OutcomeIsExact, Alive, ActiveActorLives, QueueIsOpen
  <2> QED BY <2>1, <2>2
<1>4. CASE /\ MoveIsLegal(s, mover) /\ left # {}
           /\ t = [s EXCEPT !.pending.candidates = left]
  <2> DEFINE pending == [s.pending EXCEPT !.candidates = left]
  <2>1. /\ pending \in Pendings /\ pending.mover = mover /\ pending.candidates = left
        /\ t = [s EXCEPT !.pending = pending]
    BY <1>4 DEF Well, States, Pendings
  <2> HIDE DEF pending
  <2>2. /\ t \in States
        /\ t.active = mover /\ t.pending = pending /\ t.zones = s.zones
        /\ t.ready = s.ready /\ t.held = s.held
        /\ t.moved = Nobody /\ t.defeated = s.defeated /\ t.outcome = s.outcome
    BY <2>1 DEF Well, States
  <2>3. \A c \in left : MayReact(t, c)
    BY <2>1, <2>2 DEF MayReact
  <2>4. MoveIsLegal(t, mover)
    BY <1>4, <2>2 DEF MoveIsLegal
  <2>5. QueueIsOpen(t) /\ ActiveActorLives(t)
    BY <1>4, <2>1, <2>2, <2>3, <2>4 DEF QueueIsOpen, ActiveActorLives, MoveIsLegal
  <2>6. Good(t)
    BY <2>2, <2>5 DEF Good, Well, OutcomeIsExact, Alive
  <2> QED BY <2>2, <2>6
<1> QED BY <1>1, <1>2, <1>3, <1>4

\* What a continued queue comes to is what its command may come to.
LEMMA QueueKeeps ==
  ASSUME NEW s, Good(s), s.pending # None, NEW u, Well(u), u.moved = Nobody,
         u.pending = s.pending, u.active = s.active,
         NEW remaining \in SUBSET Candidates, NEW t \in QueueContinued(u, remaining)
  PROVE  Keeps(s, t)
<1> DEFINE mover == s.active
<1>1. mover \in Actors /\ s.pending.mover = mover /\ s.held[mover] = "free"
  BY DEF Good, Well, States, Pendings, QueueIsOpen, MoveIsLegal
<1>2. /\ Good(t)
      /\ t.active # mover => Between(mover, t.active) \subseteq t.defeated
      /\ \/ t.moved = Nobody
         \/ t.moved = mover /\ u.held[mover] = "free" /\ t.held[mover] # "held"
  BY <1>1, QueueContinuedIsGood
<1> QED BY <1>1, <1>2 DEF Keeps, SkipsOnlyTheDefeated, ArrivesFree, Nobody, Actors

\* useReaction strikes the mover and keeps the combat playable.
LEMMA UseReactionKeeps ==
  ASSUME Teams, NEW s, Good(s), s.moved = Nobody, NEW t \in UseReaction(s)
  PROVE  Keeps(s, t)
<1> DEFINE head == First(s.pending.candidates)
           a == head.actor
           mover == s.pending.mover
           reacting == [s EXCEPT !.ready = @ \ {head.actor},
                                 !.zones[head.actor] = Played(@, head.card)]
<1>1. s.pending # None /\ MayReact(s, head)
  BY DEF UseReaction
<1>2. PICK u \in Attacked(reacting, mover) :
        t \in QueueContinued(u, s.pending.candidates \ {head})
  BY <1>1 DEF UseReaction
<1>3. s.pending.candidates \subseteq Candidates /\ s.pending.candidates # {}
  BY <1>1 DEF Good, Well, States, Pendings, QueueIsOpen
<1>4. head \in Candidates
  BY <1>3, FirstIsIn
<1>5. a \in Actors /\ a \in Foes(mover) \ s.defeated /\ head.card \in s.zones[a].hand
  BY <1>1, <1>4 DEF MayReact, Candidates
<1>6. mover \in Actors \ s.defeated /\ s.outcome = "none" /\ s.active = mover
  BY <1>1 DEF Good, Well, States, QueueIsOpen, MoveIsLegal
<1> HIDE DEF head
<1>7. /\ Well(reacting) /\ reacting.moved = Nobody
      /\ reacting.pending = s.pending /\ reacting.active = s.active
      /\ reacting.defeated = s.defeated /\ reacting.outcome = "none"
  <2> DEFINE zones == [s.zones EXCEPT ![a] = Played(@, head.card)]
  <2>1. Played(s.zones[a], head.card) \in Zones
        /\ Partition(Played(s.zones[a], head.card), Deck[a])
    BY <1>5, PlayedConserves DEF Good, Well, States
  <2>2. zones \in [Actors -> Zones] /\ \A b \in Actors : Partition(zones[b], Deck[b])
    BY <1>5, <2>1 DEF Good, Well, States
  <2>3. reacting = [s EXCEPT !.ready = s.ready \ {a}, !.zones = zones]
    BY <1>5 DEF Good, Well, States
  <2> HIDE DEF reacting, zones
  <2>4. /\ reacting \in States /\ reacting.moved = Nobody
        /\ reacting.pending = s.pending /\ reacting.active = s.active
        /\ reacting.defeated = s.defeated /\ reacting.outcome = s.outcome
        /\ reacting.zones = zones
    BY <2>2, <2>3 DEF Good, Well, States
  <2> QED BY <1>6, <2>2, <2>4 DEF Good, Well, OutcomeIsExact, Alive
<1> HIDE DEF reacting
<1>8. /\ Well(u) /\ u.moved = Nobody /\ u.pending = s.pending /\ u.active = s.active
  BY <1>2, <1>5, <1>6, <1>7, AttackedIsWell
<1>9. s.pending.candidates \ {head} \in SUBSET Candidates
  BY <1>3
<1> QED BY <1>1, <1>2, <1>8, <1>9, QueueKeeps

\* passReaction keeps the combat playable.
LEMMA PassReactionKeeps ==
  ASSUME NEW s, Good(s), s.moved = Nobody, NEW t \in PassReaction(s)
  PROVE  Keeps(s, t)
<1> DEFINE remaining == s.pending.candidates \ {First(s.pending.candidates)}
<1>1. s.pending # None /\ t \in QueueContinued(s, remaining)
  BY DEF PassReaction
<1>2. remaining \in SUBSET Candidates /\ Well(s)
  BY DEF Good, Well, States, Pendings
<1> HIDE DEF remaining
<1> QED BY <1>1, <1>2, QueueKeeps

-----------------------------------------------------------------------------
(* The specification *)

\* createCombat deals a playable combat.
LEMMA CombatInit == Init => CombatInv
<1> SUFFICES ASSUME Init PROVE CombatInv
  OBVIOUS
<1>1. PICK zones \in [Actors -> Zones] :
        /\ \A a \in Actors : zones[a] \in Dealt(a)
        /\ state = [active |-> 1, actions |-> 3, ready |-> {1}, defeated |-> {},
                    held |-> [a \in Actors |-> "free"], zones |-> zones,
                    pending |-> None, outcome |-> "none", moved |-> Nobody]
  BY DEF Init
<1>2. 1 \in Actors /\ None \in Pendings
  BY CombatAssumption DEF Actors, None, Pendings
<1>3. state \in States
  BY <1>1, <1>2 DEF States, Holds
<1>4. \A a \in Actors : Partition(state.zones[a], Deck[a])
  BY <1>1 DEF Dealt, Partition
<1>5. Alive(state, "heroes") # {} /\ Alive(state, "enemies") # {}
  <2>1. ASSUME NEW t \in {"heroes", "enemies"} PROVE Alive(state, t) # {}
    BY <1>1, <2>1 DEF Init, Alive
  <2> QED BY <2>1
<1>6. OutcomeIsExact(state) /\ ActiveActorLives(state) /\ QueueIsOpen(state)
  BY <1>1, <1>5 DEF OutcomeIsExact, ActiveActorLives, QueueIsOpen
<1>7. CombatTypeOK
  BY <1>3 DEF Init, CombatTypeOK
<1> QED BY <1>3, <1>4, <1>6, <1>7 DEF CombatInv, Good, Well

\* Where the last command moved somebody does not matter to the next one.
LEMMA MovedForgotten ==
  ASSUME NEW s, Good(s)
  PROVE  LET u == [s EXCEPT !.moved = Nobody] IN
         /\ Good(u) /\ u.moved = Nobody /\ u.active = s.active
         /\ u.held = s.held /\ u.pending = s.pending
<1> DEFINE u == [s EXCEPT !.moved = Nobody]
<1>1. /\ u \in States
      /\ u.active = s.active /\ u.pending = s.pending /\ u.zones = s.zones
      /\ u.ready = s.ready /\ u.held = s.held
      /\ u.moved = Nobody /\ u.defeated = s.defeated /\ u.outcome = s.outcome
  BY DEF Good, Well, States
<1> HIDE DEF u
<1>2. Well(u) /\ ActiveActorLives(u)
  BY <1>1 DEF Good, Well, OutcomeIsExact, Alive, ActiveActorLives
<1>3. QueueIsOpen(u)
  BY <1>1 DEF Good, QueueIsOpen, MayReact, MoveIsLegal
<1> QED BY <1>1, <1>2, <1>3 DEF Good, u

\* A step of either side is one of the five commands.
LEMMA NextKeeps ==
  ASSUME CombatInv, Next
  PROVE  Keeps(state, state') /\ team' = team /\ streak' \in Nat
<1> DEFINE s == [state EXCEPT !.moved = Nobody]
<1>1. Good(state) /\ Teams /\ streak \in Nat
  BY DEF CombatInv, CombatTypeOK, Teams
<1>2. /\ Good(s) /\ s.moved = Nobody /\ s.active = state.active
      /\ s.held = state.held /\ s.pending = state.pending
  BY <1>1, MovedForgotten
<1>3. team' = team /\ streak' \in Nat
  BY <1>1 DEF Next, HumanCommand, ServerCommand
<1>4. \/ \E cards : state' \in UseAction(s, cards)
      \/ \E cards : state' \in StepInPlace(s, cards)
      \/ state' \in EndTurn(s) \/ state' \in UseReaction(s) \/ state' \in PassReaction(s)
  BY DEF Next, HumanCommand, ServerCommand
<1> HIDE DEF s
<1>5. Keeps(s, state')
  BY <1>1, <1>2, <1>4, UseActionKeeps, StepInPlaceKeeps, EndTurnKeeps,
     UseReactionKeeps, PassReactionKeeps
<1>6. Keeps(state, state')
  BY <1>2, <1>5 DEF Keeps, SkipsOnlyTheDefeated, ArrivesFree
<1> QED BY <1>3, <1>6

\* CombatInv is inductive.
LEMMA CombatStep == CombatInv /\ [Next]_vars => CombatInv'
<1> SUFFICES ASSUME CombatInv, [Next]_vars PROVE CombatInv'
  OBVIOUS
<1>1. CASE Next
  <2>1. Good(state') /\ team' = team /\ streak' \in Nat
    BY <1>1, NextKeeps DEF Keeps
  <2>2. Good(state)'
    BY <2>1 DEF Good, Well, OutcomeIsExact, Alive, ActiveActorLives, QueueIsOpen,
                MayReact, Foes, MoveIsLegal
  <2>3. state' \in States /\ team \in [Actors -> {"heroes", "enemies"}]
    BY <2>1 DEF Good, Well, CombatInv, CombatTypeOK
  <2> QED BY <2>1, <2>2, <2>3 DEF CombatInv, CombatTypeOK
<1>2. CASE UNCHANGED vars
  BY <1>2 DEF vars, CombatInv, CombatTypeOK, Good, Well, OutcomeIsExact, Alive,
              ActiveActorLives, QueueIsOpen, MayReact, Foes, MoveIsLegal
<1> QED BY <1>1, <1>2

-----------------------------------------------------------------------------
(* The length of a pump *)

\* A move costs nobody its life and no further action.
LEMMA MovedSpendsNothing ==
  ASSUME NEW s \in States, NEW mover \in Actors, NEW provokes \in BOOLEAN,
         NEW t \in Moved(s, mover, provokes)
  PROVE  t.actions = s.actions /\ t.defeated = s.defeated
<1>1. \/ t \in MoveCompleted(s, mover)
      \/ \E q : t = [s EXCEPT !.pending = [mover |-> mover, candidates |-> q]]
  BY DEF Moved
<1>2. CASE t \in MoveCompleted(s, mover)
  <2>1. \/ t = s
        \/ t = [s EXCEPT !.moved = mover]
        \/ t = [s EXCEPT !.moved = mover, !.held[mover] = "webbed"]
    BY <1>2 DEF MoveCompleted
  <2> QED BY <2>1 DEF States
<1>3. CASE \E q : t = [s EXCEPT !.pending = [mover |-> mover, candidates |-> q]]
  BY <1>3 DEF States
<1> QED BY <1>1, <1>2, <1>3

\* Spending leaves fewer actions.
LEMMA SpentCosts ==
  ASSUME NEW s \in States, NEW cost \in 1..3, NEW card, Affordable(s, cost, card)
  PROVE  Spent(s, cost, card).actions \in Nat /\ Spent(s, cost, card).actions < s.actions
<1>1. s.actions \in 0..3 /\ cost <= s.actions
  BY DEF States, Affordable
<1>2. Spent(s, cost, card).actions = s.actions - cost
  BY DEF Spent, States
<1> QED BY <1>1, <1>2

\* An action of the active actor costs it one of its three at least.
LEMMA UseActionCosts ==
  ASSUME Teams, NEW s, Good(s), s.moved = Nobody, NEW cards, NEW t \in UseAction(s, cards)
  PROVE  /\ Good(t) /\ t.active = s.active /\ s.defeated \subseteq t.defeated
         /\ t.actions < s.actions
<1>1. MayAct(s)
  BY DEF UseAction
<1>2. PICK cost \in 1..3, card \in cards :
        Affordable(s, cost, card) /\ t \in Executed(Spent(s, cost, card))
  BY <1>1 DEF UseAction
<1> DEFINE u == Spent(s, cost, card)
           a == u.active
<1>3. /\ Good(u) /\ MayAct(u)
      /\ s.active = a /\ u.moved = Nobody
      /\ u.pending = None /\ u.defeated = s.defeated
  BY <1>1, <1>2, SpentIsGood DEF MayAct
<1>4. u.actions < s.actions
  BY <1>2, SpentCosts DEF Good, Well
<1>5. t \in Executed(u)
  BY <1>2
<1> HIDE DEF u
<1>6. u \in States /\ a \in Actors \ u.defeated /\ u.outcome = "none" /\ Well(u)
  BY <1>3 DEF Good, Well, States, MayAct
<1>7. Good(t)
  BY UseActionKeeps DEF Keeps
<1>8. CASE t = u
  BY <1>3, <1>4, <1>7, <1>8
<1>9. ASSUME NEW b \in Foes(a) \ u.defeated, t \in Attacked(u, b)
      PROVE  t.active = a /\ u.defeated \subseteq t.defeated /\ t.actions = u.actions
  <2>1. b \in Actors \ u.defeated /\ a \in Foes(b) \ u.defeated
    BY <1>6, <1>9 DEF Foes
  <2> QED BY <1>6, <1>9, <2>1, AttackedIsWell
<1>10. ASSUME NEW provokes \in BOOLEAN, u.held[a] = "free", t \in Moved(u, a, provokes)
       PROVE  t.active = a /\ u.defeated \subseteq t.defeated /\ t.actions = u.actions
  <2>1. t.active = a
    BY <1>3, <1>10, MovedIsGood
  <2>2. t.actions = u.actions /\ t.defeated = u.defeated
    BY <1>6, <1>10, MovedSpendsNothing
  <2> QED BY <2>1, <2>2
<1>11. CASE t = [u EXCEPT !.held[a] = "free"]
  <2>1. t.active = a /\ t.defeated = u.defeated /\ t.actions = u.actions
    BY <1>6, <1>11 DEF States
  <2> QED BY <1>3, <1>4, <1>7, <2>1
<1> QED BY <1>3, <1>4, <1>5, <1>7, <1>8, <1>9, <1>10, <1>11, ExecutedCases

\* A new turn has its three actions, and costs nobody its life.
LEMMA TurnAdvancedIsNew ==
  ASSUME NEW s \in States, NEW t \in TurnAdvanced(s)
  PROVE  t.actions = 3 /\ t.defeated = s.defeated /\ t.pending = s.pending
BY DEF TurnAdvanced, States

\* An open reaction is continued with the reactions that are ready.
LEMMA QueueKeepsReady ==
  ASSUME NEW s \in States, NEW remaining, NEW t \in QueueContinued(s, remaining)
  PROVE  t.pending = None \/ t.ready = s.ready
<1> DEFINE over == [s EXCEPT !.pending = None]
           mover == s.pending.mover
<1>1. \/ t \in Resumed(s)
      \/ t = over
      \/ \E left : t = [s EXCEPT !.pending.candidates = left]
  BY DEF QueueContinued
<1>2. over \in States /\ over.pending = None
  BY DEF States, Pendings, None
<1>3. CASE t = over
  BY <1>2, <1>3
<1>4. CASE \E left : t = [s EXCEPT !.pending.candidates = left]
  BY <1>4 DEF States
<1>5. CASE t \in Resumed(s)
  <2>1. t = over \/ t \in TurnAdvanced(over) \/ t \in MoveCompleted(over, mover)
    BY <1>5 DEF Resumed
  <2> HIDE DEF over, mover
  <2>2. CASE t \in TurnAdvanced(over)
    BY <1>2, <2>2, TurnAdvancedIsNew
  <2>3. CASE t \in MoveCompleted(over, mover)
    <3>1. \/ t = over
          \/ t = [over EXCEPT !.moved = mover]
          \/ t = [over EXCEPT !.moved = mover, !.held[mover] = "webbed"]
      BY <2>3 DEF MoveCompleted
    <3> QED BY <1>2, <3>1 DEF States
  <2> QED BY <1>2, <2>1, <2>2, <2>3
<1> QED BY <1>1, <1>3, <1>4, <1>5

\* There are finitely many enemies.
LEMMA EnemiesAreFew ==
  ASSUME NEW P \in SUBSET Enemies
  PROVE  /\ IsFiniteSet(Enemies) /\ IsFiniteSet(P)
         /\ Cardinality(Enemies) \in Nat /\ Cardinality(P) \in Nat
         /\ Cardinality(P) <= Cardinality(Enemies)
         /\ Cardinality(P) = Cardinality(Enemies) => P = Enemies
<1>1. IsFiniteSet(Actors)
  BY CombatAssumption, FS_Interval DEF Actors
<1>2. IsFiniteSet(Enemies)
  BY <1>1, FS_Subset DEF Enemies
<1>3. IsFiniteSet(P)
  BY <1>2, FS_Subset
<1> QED BY <1>2, <1>3, FS_Subset, FS_CardinalityType

\* Whoever the turn goes to is none of those that had one since the last hero:
\* a hero alive comes between.
LEMMA TurnsGoRound ==
  ASSUME NEW s, s.active \in Actors, NEW t, t.active \in Actors, t.defeated = s.defeated,
         Between(s.active, t.active) \subseteq t.defeated,
         s.active \in Enemies, t.active \in Enemies,
         NEW P \in SUBSET Enemies, Turns(s, P), Alive(s, "heroes") # {}
  PROVE  Turns(t, P \union {s.active})
<1> DEFINE a == s.active
           b == t.active
<1>1. Actors \subseteq Nat /\ P \subseteq Actors
  BY CombatAssumption DEF Actors, Enemies
<1>2. ASSUME NEW h \in Alive(t, "heroes")
      PROVE  /\ b \notin P \union {a}
             /\ P \union {a} \subseteq Between(h, b)
  <2>1. h \in Actors \ t.defeated /\ h # a /\ h # b /\ h \notin P
    BY <1>2 DEF Alive, Enemies
  <2>2. h \notin Between(a, b)
    BY <2>1
  <2>3. a \in Nat /\ b \in Nat /\ h \in Nat
    BY <1>1, <2>1
  <2>4. a # b
    BY <2>1, <2>2, <2>3 DEF Between
  <2>5. a \in Between(h, b)
    BY <2>1, <2>2, <2>3, <2>4 DEF Between
  <2>6. ASSUME NEW p \in P PROVE p # b /\ p \in Between(h, b)
    <3>1. p \in Between(h, a) /\ p \in Nat /\ p \in Actors
      BY <1>1, <1>2, <2>6 DEF Turns, Alive
    <3>2. p # b
      BY <2>1, <2>2, <2>3, <2>4, <3>1 DEF Between
    <3>3. p \in Between(h, b)
      BY <2>1, <2>2, <2>3, <2>4, <2>5, <3>1, <3>2 DEF Between
    <3> QED BY <3>2, <3>3
  <2> QED BY <2>4, <2>5, <2>6
<1>3. Alive(t, "heroes") # {}
  BY DEF Alive
<1> QED BY <1>2, <1>3 DEF Turns

\* Nothing has been given yet when a pump begins.
LEMMA PumpBegins ==
  ASSUME Teams, NEW s, Good(s)
  PROVE  PumpIsPaid(s, 0)
<1>1. s.actions \in 0..3
  BY DEF Good, Well, States
<1>2. Cardinality(Enemies \cap s.ready) <= Cardinality(Enemies) /\ Cardinality(Enemies \cap s.ready) \in Nat
  BY EnemiesAreFew
<1>3. Turns(s, {})
  BY DEF Turns
<1>4. Cardinality({}) = 0 /\ Cardinality(Enemies) \in Nat
  BY EnemiesAreFew, FS_EmptySet
<1>5. 0 <= Cardinality(Enemies) + 4 * Cardinality({}) + (3 - s.actions)
  BY <1>1, <1>4
<1>6. {} \in SUBSET Enemies
  OBVIOUS
<1> QED BY <1>2, <1>3, <1>4, <1>5, <1>6 DEF PumpIsPaid

\* A reaction of the server's costs the enemy that takes it.
LEMMA ReactionIsPaid ==
  ASSUME Teams, NEW s, Good(s), s.moved = Nobody, ServersTurn(s), NEW n \in Nat,
         PumpIsPaid(s, n), NEW t \in UseReaction(s), Good(t), ServersTurn(t)
  PROVE  PumpIsPaid(t, n + 1)
<1> DEFINE head == First(s.pending.candidates)
           e == head.actor
           reacting == [s EXCEPT !.ready = @ \ {head.actor},
                                 !.zones[head.actor] = Played(@, head.card)]
           N == Cardinality(Enemies)
<1>1. s.pending # None /\ MayReact(s, head)
  BY DEF UseReaction
<1>2. e \in Enemies \cap s.ready
  BY <1>1 DEF ServersTurn, Decider, MayReact, Foes, Enemies
<1>3. n + Cardinality(Enemies \cap s.ready) <= N
  BY <1>1 DEF PumpIsPaid
<1>4. /\ IsFiniteSet(Enemies \cap s.ready) /\ N \in Nat
      /\ Cardinality((Enemies \cap s.ready) \ {e}) = Cardinality(Enemies \cap s.ready) - 1
      /\ Cardinality(Enemies \cap s.ready) \in Nat
      /\ Cardinality((Enemies \cap s.ready) \ {e}) \in Nat
  <2>1. (Enemies \cap s.ready) \in SUBSET Enemies /\ (Enemies \cap s.ready) \ {e} \in SUBSET Enemies
    OBVIOUS
  <2>2. IsFiniteSet(Enemies \cap s.ready)
    BY <2>1, EnemiesAreFew
  <2> HIDE DEF e
  <2> QED BY <1>2, <2>1, <2>2, EnemiesAreFew, FS_RemoveElement
<1>5. CASE t.pending = None
  <2>1. s.actions \in 0..3 /\ t.actions \in 0..3
    BY DEF Good, Well, States
  <2>2. n + 1 <= N
    BY <1>3, <1>4
  <2>3. Cardinality({}) = 0 /\ {} \in SUBSET Enemies
    BY FS_EmptySet
  <2>4. n + 1 <= N + 4 * Cardinality({}) + (3 - t.actions)
    BY <1>4, <2>1, <2>2, <2>3
  <2>5. Turns(t, {})
    BY DEF Turns
  <2> QED BY <1>5, <2>3, <2>4, <2>5 DEF PumpIsPaid
<1>6. CASE t.pending # None
  <2>1. PICK u \in Attacked(reacting, s.pending.mover) :
          t \in QueueContinued(u, s.pending.candidates \ {head})
    BY <1>1 DEF UseReaction
  <2> DEFINE zones == [s.zones EXCEPT ![e] = Played(@, head.card)]
  <2>2. e \in Actors /\ head.card \in s.zones[e].hand
    BY <1>1 DEF MayReact, Foes
  <2>3. u \in States /\ u.ready = s.ready \ {e}
    <3>1. /\ reacting.ready = s.ready \ {e} /\ reacting \in States /\ Well(reacting)
          /\ reacting.defeated = s.defeated /\ reacting.outcome = s.outcome
          /\ reacting.pending = s.pending
      <4>1. Played(s.zones[e], head.card) \in Zones
            /\ Partition(Played(s.zones[e], head.card), Deck[e])
        BY <2>2, PlayedConserves DEF Good, Well, States
      <4>2. zones \in [Actors -> Zones] /\ \A b \in Actors : Partition(zones[b], Deck[b])
        BY <2>2, <4>1 DEF Good, Well, States
      <4>3. reacting = [s EXCEPT !.ready = s.ready \ {e}, !.zones = zones]
        BY <2>2 DEF Good, Well, States
      <4> HIDE DEF reacting, zones, e
      <4>4. /\ reacting \in States /\ reacting.ready = s.ready \ {e}
            /\ reacting.defeated = s.defeated /\ reacting.outcome = s.outcome
            /\ reacting.zones = zones /\ reacting.pending = s.pending
        BY <4>2, <4>3 DEF Good, Well, States
      <4> QED BY <4>2, <4>4 DEF Good, Well, OutcomeIsExact, Alive
    <3>2. /\ s.pending.mover \in Actors \ s.defeated /\ s.outcome = "none"
          /\ e \in Foes(s.pending.mover) \ s.defeated
      BY <1>1 DEF Good, Well, States, QueueIsOpen, MoveIsLegal, MayReact
    <3> HIDE DEF reacting, e
    <3> QED BY <2>1, <3>1, <3>2, AttackedIsWell DEF Well
  <2> HIDE DEF reacting, e, head
  <2>4. t.ready = s.ready \ {e}
    BY <1>6, <2>1, <2>3, QueueKeepsReady
  <2>5. Enemies \cap t.ready = (Enemies \cap s.ready) \ {e}
    BY <2>4
  <2>6. Cardinality(Enemies \cap t.ready) = Cardinality(Enemies \cap s.ready) - 1
    BY <1>4, <2>5
  <2> HIDE DEF N
  <2>7. n + 1 + Cardinality(Enemies \cap t.ready) <= N
    BY <1>3, <1>4, <2>6
  <2> QED BY <1>6, <2>7 DEF PumpIsPaid, N
<1> QED BY <1>5, <1>6

\* An action of the server's is paid from the three of the turn.
LEMMA ActionIsPaid ==
  ASSUME Teams, NEW s, Good(s), s.moved = Nobody, ServersTurn(s), NEW n \in Nat,
         PumpIsPaid(s, n), NEW cards, NEW t \in UseAction(s, cards), ServersTurn(t)
  PROVE  PumpIsPaid(t, n + 1)
<1>1. /\ Good(t) /\ t.active = s.active /\ s.defeated \subseteq t.defeated
      /\ t.actions < s.actions
  BY UseActionCosts
<1>2. s.pending = None
  BY DEF UseAction, MayAct
<1>3. s.active \in Enemies
  BY <1>2 DEF ServersTurn, Decider, Enemies, Good, Well, States
<1>4. t.pending = None
  <2> SUFFICES ASSUME t.pending # None PROVE FALSE
    OBVIOUS
  <2>1. t.pending.candidates \subseteq Candidates /\ t.pending.candidates # {}
    BY <1>1 DEF Good, Well, States, Pendings, QueueIsOpen
  <2>2. First(t.pending.candidates) \in t.pending.candidates
    BY <2>1, FirstIsIn
  <2>3. First(t.pending.candidates).actor \in Foes(s.active)
    BY <1>1, <2>2 DEF Good, QueueIsOpen, MayReact, MoveIsLegal
  <2> QED BY <1>3, <2>3 DEF ServersTurn, Decider, Foes, Enemies
<1>5. PICK P \in SUBSET Enemies :
        /\ Turns(s, P)
        /\ n <= Cardinality(Enemies) + 4 * Cardinality(P) + (3 - s.actions)
  BY <1>2 DEF PumpIsPaid
<1>6. Turns(t, P)
  BY <1>1, <1>5 DEF Turns, Alive
<1>7. n + 1 <= Cardinality(Enemies) + 4 * Cardinality(P) + (3 - t.actions)
  <2>1. s.actions \in 0..3 /\ t.actions \in 0..3
    BY <1>1 DEF Good, Well, States
  <2>2. Cardinality(Enemies) \in Nat /\ Cardinality(P) \in Nat
    BY EnemiesAreFew
  <2> QED BY <1>1, <1>5, <2>1, <2>2
<1> QED BY <1>4, <1>6, <1>7 DEF PumpIsPaid

\* A turn the server ends is one of those the initiative order counts.
LEMMA TurnIsPaid ==
  ASSUME Teams, NEW s, Good(s), s.moved = Nobody, ServersTurn(s), NEW n \in Nat,
         PumpIsPaid(s, n), NEW t \in EndTurn(s), ServersTurn(t)
  PROVE  PumpIsPaid(t, n + 1)
<1>1. s.outcome = "none" /\ s.pending = None /\ t \in TurnAdvanced(s)
  BY DEF EndTurn
<1>2. Good(t) /\ Between(s.active, t.active) \subseteq t.defeated
  BY <1>1, TurnAdvancedIsGood DEF Good
<1>3. t.actions = 3 /\ t.defeated = s.defeated /\ t.pending = None
  BY <1>1, TurnAdvancedIsNew DEF Good, Well
<1>4. s.active \in Enemies /\ t.active \in Enemies
  BY <1>1, <1>2, <1>3 DEF ServersTurn, Decider, Enemies, Good, Well, States
<1>5. PICK P \in SUBSET Enemies :
        /\ Turns(s, P)
        /\ n <= Cardinality(Enemies) + 4 * Cardinality(P) + (3 - s.actions)
  BY <1>1 DEF PumpIsPaid
<1> DEFINE Q == P \union {s.active}
<1>6. Alive(s, "heroes") # {}
  BY <1>1, SomebodyLives DEF Good
<1>7. Turns(t, Q)
  <2>1. s.active \in Actors /\ t.active \in Actors
    BY <1>4 DEF Enemies
  <2> QED BY <1>2, <1>3, <1>4, <1>5, <1>6, <2>1, TurnsGoRound
<1>8. Cardinality(Q) = Cardinality(P) + 1
  <2>1. IsFiniteSet(P) /\ s.active \notin P
    BY <1>5, EnemiesAreFew DEF Turns
  <2> QED BY <2>1, FS_AddElement
<1>9. n + 1 <= Cardinality(Enemies) + 4 * Cardinality(Q) + (3 - t.actions)
  <2>1. s.actions \in 0..3
    BY DEF Good, Well, States
  <2>2. Cardinality(Enemies) \in Nat /\ Cardinality(P) \in Nat
    BY EnemiesAreFew
  <2> HIDE DEF Q
  <2> QED BY <1>3, <1>5, <1>8, <2>1, <2>2
<1>10. Q \in SUBSET Enemies
  BY <1>4
<1> QED BY <1>3, <1>7, <1>9, <1>10 DEF PumpIsPaid

\* Where the last command moved somebody does not matter to the pump either.
LEMMA PumpForgets ==
  ASSUME NEW s, Good(s), NEW n, PumpIsPaid(s, n)
  PROVE  LET u == [s EXCEPT !.moved = Nobody] IN
         PumpIsPaid(u, n) /\ (ServersTurn(u) <=> ServersTurn(s))
<1> DEFINE u == [s EXCEPT !.moved = Nobody]
<1>1. /\ u.active = s.active /\ u.pending = s.pending /\ u.ready = s.ready
      /\ u.defeated = s.defeated /\ u.outcome = s.outcome /\ u.actions = s.actions
  BY DEF Good, Well, States
<1> HIDE DEF u
<1>2. ServersTurn(u) <=> ServersTurn(s)
  BY <1>1 DEF ServersTurn, Decider
<1>3. PumpIsPaid(u, n)
  BY <1>1, <1>2 DEF PumpIsPaid, Turns, Alive
<1> QED BY <1>2, <1>3 DEF u

\* A combat begins before any pump.
LEMMA PumpInit == Init => PumpInv
<1> SUFFICES ASSUME Init PROVE PumpInv
  OBVIOUS
<1>1. CombatInv /\ streak = 0
  BY CombatInit DEF Init
<1>2. Enemies # {}
  BY DEF Init, Enemies
<1>3. PumpIsPaid(state, streak)
  BY <1>1, PumpBegins DEF CombatInv, CombatTypeOK, Teams
<1> QED BY <1>2, <1>3 DEF PumpInv

\* Every command of a pump is paid for.
LEMMA PumpStep == CombatInv /\ PumpInv /\ [Next]_vars => PumpInv'
<1> SUFFICES ASSUME CombatInv, PumpInv, [Next]_vars PROVE PumpInv'
  OBVIOUS
<1>1. CASE Next
  <2>1. Good(state) /\ Teams /\ streak \in Nat /\ Enemies # {} /\ PumpIsPaid(state, streak)
    BY DEF CombatInv, CombatTypeOK, Teams, PumpInv
  <2>2. Good(state') /\ team' = team
    BY <1>1, NextKeeps DEF Keeps
  <2> DEFINE s == [state EXCEPT !.moved = Nobody]
  <2>3. Good(s) /\ s.moved = Nobody
    BY <2>1, MovedForgotten
  <2>4. PumpIsPaid(s, streak) /\ (ServersTurn(s) <=> ServersTurn(state))
    BY <2>1, PumpForgets
  <2>5. PumpIsPaid(state', streak')
    <3>1. CASE streak' = 0
      BY <2>1, <2>2, <3>1, PumpBegins
    <3>2. CASE ServerCommand /\ streak' # 0
      <4>1. /\ ServersTurn(state)
            /\ state' \in UseAction(s, {NoCard}) \union EndTurn(s) \union UseReaction(s)
        BY <3>2 DEF ServerCommand
      <4>2. ServersTurn(state') /\ streak' = streak + 1
        <5>1. ServersTurn(state)' <=> ServersTurn(state')
          BY <2>2 DEF ServersTurn, Decider, First
        <5> QED BY <3>2, <5>1 DEF ServerCommand
      <4> HIDE DEF s
      <4>3. PumpIsPaid(state', streak + 1)
        BY <2>1, <2>2, <2>3, <2>4, <4>1, <4>2, ActionIsPaid, TurnIsPaid, ReactionIsPaid
      <4> QED BY <4>2, <4>3
    <3>3. ServerCommand \/ streak' = 0
      BY <1>1 DEF Next, HumanCommand
    <3> QED BY <3>1, <3>2, <3>3
  <2>6. Enemies' = Enemies
    BY <2>2 DEF Enemies
  <2>7. PumpIsPaid(state, streak)'
    BY <2>2, <2>5, <2>6 DEF PumpIsPaid, Turns, Alive, ServersTurn, Decider
  <2> QED BY <2>1, <2>6, <2>7 DEF PumpInv
<1>2. CASE UNCHANGED vars
  BY <1>2 DEF vars, PumpInv, Enemies, PumpIsPaid, Turns, Alive, ServersTurn, Decider
<1> QED BY <1>1, <1>2

\* What is paid for is few commands: the enemy whose turn it is has not ended it.
LEMMA PaidIsShort ==
  ASSUME CombatInv, PumpInv
  PROVE  PumpIsShort
<1> DEFINE N == Cardinality(Enemies)
<1>1. N \in Nat /\ N > 0
  <2>1. IsFiniteSet(Enemies) /\ Enemies # {} /\ N \in Nat
    BY EnemiesAreFew DEF PumpInv
  <2> QED BY <2>1, FS_EmptySet
<1>2. streak \in Nat /\ state.actions \in 0..3
  BY DEF CombatInv, CombatTypeOK, States
<1>3. CASE ~ServersTurn(state)
  BY <1>1, <1>3 DEF PumpInv, PumpIsPaid, PumpIsShort, Enemies
<1>4. CASE ServersTurn(state) /\ state.pending # None
  <2>1. Cardinality(Enemies \cap state.ready) \in Nat
    BY EnemiesAreFew
  <2>2. streak + Cardinality(Enemies \cap state.ready) <= N
    BY <1>4 DEF PumpInv, PumpIsPaid
  <2>3. streak < 5 * N
    <3> HIDE DEF N
    <3> QED BY <1>1, <1>2, <2>1, <2>2
  <2> QED BY <2>3 DEF PumpIsShort, Enemies
<1>5. CASE ServersTurn(state) /\ state.pending = None
  <2>1. PICK P \in SUBSET Enemies :
          Turns(state, P) /\ streak <= N + 4 * Cardinality(P) + (3 - state.actions)
    BY <1>5 DEF PumpInv, PumpIsPaid
  <2>2. state.active \in Enemies \ P
    BY <1>5, <2>1 DEF ServersTurn, Decider, Enemies, Turns, CombatInv, CombatTypeOK, States
  <2>3. Cardinality(P) \in Nat /\ Cardinality(P) < N
    BY <1>1, <2>2, EnemiesAreFew
  <2>4. streak < 5 * N
    <3> HIDE DEF N
    <3> QED BY <1>1, <1>2, <2>1, <2>3
  <2> QED BY <2>4 DEF PumpIsShort, Enemies
<1> QED BY <1>3, <1>4, <1>5

-----------------------------------------------------------------------------
(* Theorems about the engine *)

\* Every reachable state of every combat satisfies the invariant.
THEOREM CombatInvariant == Spec => []CombatInv
BY CombatInit, CombatStep, PTL DEF Spec

\* The state keeps its shape: no command spends actions the turn has not got.
THEOREM CombatTypeCorrect == Spec => []CombatTypeOK
<1>1. CombatInv => CombatTypeOK
  BY DEF CombatInv
<1> QED BY <1>1, CombatInvariant, PTL

\* No command leaves a combat nobody can play on: reactions that kill the
\* mover, hold it or end the combat included.
THEOREM CombatStaysPlayable == Spec => []CombatIsPlayable
<1>1. CombatInv => CombatIsPlayable
  BY DEF CombatInv, Good, Well, CombatIsPlayable
<1> QED BY <1>1, CombatInvariant, PTL

\* No card is lost, doubled or in two zones, whatever is drawn or reshuffled.
THEOREM CardsAreConserved == Spec => []CardsConserved
<1>1. CombatInv => CardsConserved
  BY DEF CombatInv, Good, Well, CardsConserved
<1> QED BY <1>1, CombatInvariant, PTL

\* A combat saved after any command, with a reaction open or not, is one the
\* restoring code accepts (validateCombat).
THEOREM CombatsCanBeContinued == Spec => []SaveAccepts(state)
<1>1. ASSUME CombatInv PROVE SaveAccepts(state)
  <2>1. \A a \in Actors : Partition(state.zones[a], Deck[a])
    BY <1>1 DEF CombatInv, Good, Well
  <2>2. ASSUME state.pending # None
        PROVE  /\ state.pending.mover \in Actors
               /\ state.pending.candidates # {}
               /\ \A c \in state.pending.candidates :
                    c.actor \in Actors /\ c.card \in state.zones[c.actor].hand
    <3>1. /\ state.pending.candidates # {}
          /\ \A c \in state.pending.candidates : MayReact(state, c)
          /\ MoveIsLegal(state, state.pending.mover)
      BY <1>1, <2>2 DEF CombatInv, Good, QueueIsOpen
    <3>2. state.active \in Actors
      BY <1>1 DEF CombatInv, CombatTypeOK, States
    <3>3. state.pending.mover \in Actors
      BY <3>1, <3>2 DEF MoveIsLegal
    <3>4. \A c \in state.pending.candidates :
            c.actor \in Actors /\ c.card \in state.zones[c.actor].hand
      BY <3>1 DEF MayReact, Foes
    <3> QED
      BY <3>1, <3>3, <3>4
  <2> QED
    BY <2>1, <2>2 DEF SaveAccepts, Partition
<1>2. CombatInv => SaveAccepts(state)
  BY <1>1
<1> QED BY <1>2, CombatInvariant, PTL

\* The turn passes over nobody who lives, for any number of actors.
THEOREM TurnSkipsNobody == Spec => NobodySkipped
<1> DEFINE A == state'.active # state.active =>
                  Between(state.active, state'.active) \subseteq state'.defeated
<1>1. CombatInv /\ [Next]_vars => [A]_vars
  BY NextKeeps DEF Keeps, SkipsOnlyTheDefeated
<1> QED BY <1>1, CombatInvariant, PTL DEF Spec, NobodySkipped

\* Nobody that is held when it asks to move, or held by a reaction to the
\* move, arrives.
THEOREM HeldActorsStay == Spec => HeldNeverMoves
<1> DEFINE A == \A a \in Actors :
                  state'.moved = a /\ state' # state =>
                    /\ state.held[a] = "free"
                    /\ state'.held[a] # "held"
                    /\ state.pending.mover \in {a, Nobody}
<1>1. CombatInv /\ [Next]_vars => [A]_vars
  BY NextKeeps DEF Keeps, ArrivesFree
<1> QED BY <1>1, CombatInvariant, PTL DEF Spec, HeldNeverMoves

\* The turn goes to the next actor alive and nobody held moves, for any number of
\* actors and any decks (advanceTurn and resumeMove).
THEOREM TurnsAreTaken == Spec => EverybodyInTurn
BY TurnSkipsNobody, HeldActorsStay DEF EverybodyInTurn

\* Every command of a running pump is paid for, in every reachable state.
THEOREM PumpInvariant == Spec => []PumpInv
BY PumpInit, PumpStep, CombatInvariant, PTL DEF Spec

\* The server's pump ends, for any number of heroes and enemies: with n enemies
\* the loop of pumpServerAuthority gives at most 5n - 1 commands, so that its
\* guard of 512 is out of reach below 103 enemies.
THEOREM PumpEnds == Spec => []PumpIsShort
<1>1. CombatInv /\ PumpInv => PumpIsShort
  BY PaidIsShort
<1> QED BY <1>1, CombatInvariant, PumpInvariant, PTL

-----------------------------------------------------------------------------
(* The boards of the application *)

Statuses == {"none", "connecting", "connected", "reconnecting", "closed"}

Updates ==
  [id : Nat \ {0}, newTurn : BOOLEAN, at : Situations, walks : BOOLEAN, resync : BOOLEAN]

Choices ==
  [kind : {"idle", "card", "ring", "direction"},
   purpose : {"none", "end-turn", "step-turn"}, on : Nat]

Answers == [kind : {"facing"}, interaction : Choices, previous : Choices]

Boards ==
  [id : Nat \ {0}, shown : [id : Nat \ {0}, at : Situations], history : Seq(Nat),
   backlog : Seq(Updates), moving : BOOLEAN, interaction : Choices,
   directionReturn : Choices, pendingFacing : {NoFacing} \union Answers,
   requestPending : BOOLEAN, connection : Statuses, offered : BOOLEAN, dialog : Nat]

\* A choice belongs to the state shown, which then is this player's to act in.
Current(choice, shown) == choice = IDLE \/ (choice.on = shown.id /\ shown.at.mine)

ChosenInTime(b) ==
  /\ Current(b.interaction, b.shown) /\ Current(b.directionReturn, b.shown)
  /\ b.pendingFacing # NoFacing =>
       /\ b.pendingFacing.interaction.kind = "direction"
       /\ Current(b.pendingFacing.interaction, b.shown)
       /\ Current(b.pendingFacing.previous, b.shown)

\* What was told are consecutive snapshots up to the one shown.
Ends(story, n) ==
  /\ story \in Seq(Nat) /\ story # <<>>
  /\ \A i \in DOMAIN story : story[i] + Len(story) = n + i

ToldSoFar(b) == Ends(b.history, b.shown.id)

Fine(b) == b \in Boards /\ ChosenInTime(b) /\ ToldSoFar(b)

\* What waits goes on where the board stands, and only behind a walk.
WaitsInLine(b) ==
  /\ Len(b.backlog) <= MaxPaced
  /\ \A i \in DOMAIN b.backlog : b.backlog[i].id = b.shown.id + i /\ ~b.backlog[i].resync
  /\ b.backlog # <<>> => b.moving

-----------------------------------------------------------------------------
(* The invariant of the application *)

EntryTypes ==
  /\ view \in Views /\ destination \in {"landing", "new-adventure", "campaigns"}
  /\ busy \in BOOLEAN /\ account \in BOOLEAN /\ client \in BOOLEAN
  /\ auth \in {"checking", "ready", "failed"}
  /\ status \in Statuses
  /\ bundle \in {"unasked", "loading", "loaded"}

EntryInv ==
  /\ EntryTypes
  /\ request \in {NoRequest, "login", "logout", "create", "list", "delete", "continue", "join"}
  /\ client => request = NoRequest
  /\ EntryLockIsOwned

SnapshotInv ==
  /\ delivered \in 0 .. MaxSnapshots /\ boards \in 0 .. MaxBoards
  /\ snapshot \in {NoSnapshot} \union [id : {delivered} \ {0}, kind : {"table", "combat"}]
  /\ snapshot # NoSnapshot => client
  /\ outstanding \in [board : Nat]

\* While the assets are awaited the newest combat is among what awaits them.
AwaitingInv ==
  /\ awaiting \subseteq Updates
  /\ \A update \in awaiting :
       /\ update.id <= delivered
       /\ update.id = snapshot.id => snapshot.kind = "combat"
  /\ bundle # "loaded" /\ snapshot.kind = "combat" =>
       \E update \in awaiting : update.id = snapshot.id

BoardInv ==
  IF battle = NoBoard THEN ~(bundle = "loaded" /\ snapshot.kind = "combat")
  ELSE /\ Fine(battle) /\ WaitsInLine(battle)
       /\ bundle = "loaded" /\ snapshot.kind = "combat"
       /\ battle.shown.id + Len(battle.backlog) = snapshot.id
       /\ battle.requestPending => outstanding.board = battle.id

ScreensInv == EntryInv /\ SnapshotInv /\ AwaitingInv /\ BoardInv

-----------------------------------------------------------------------------
(* Choosing on a board *)

\* What touching a board leaves as it is.
Kept(b, c) ==
  /\ c.id = b.id /\ c.shown = b.shown /\ c.history = b.history
  /\ c.backlog = b.backlog /\ c.moving = b.moving

\* Of a request too.
KeptWaiting(b, c) ==
  Kept(b, c) /\ c.requestPending = b.requestPending /\ c.connection = b.connection

\* The fields of a board.
LEMMA BoardFields ==
  ASSUME NEW b \in Boards
  PROVE  /\ b.id \in Nat \ {0} /\ b # NoBoard
         /\ b.shown.id \in Nat \ {0} /\ b.shown.at \in Situations
         /\ b.history \in Seq(Nat) /\ b.backlog \in Seq(Updates)
         /\ b.moving \in BOOLEAN /\ b.interaction \in Choices /\ b.directionReturn \in Choices
         /\ b.pendingFacing \in {NoFacing} \union Answers
         /\ b.requestPending \in BOOLEAN /\ b.connection \in Statuses
         /\ b.offered \in BOOLEAN /\ b.dialog \in Nat
BY DEF Boards, NoBoard

\* What is chosen on the state shown is current where the player may act.
LEMMA ChoiceIsCurrent ==
  ASSUME NEW b \in Boards, b.shown.at.mine,
         NEW kind \in {"idle", "card", "ring", "direction"},
         NEW purpose \in {"none", "end-turn", "step-turn"}
  PROVE  /\ Interaction(kind, purpose, b.shown.id) \in Choices
         /\ Current(Interaction(kind, purpose, b.shown.id), b.shown)
<1>1. b.shown.id \in Nat
  BY BoardFields
<1> QED BY <1>1 DEF Interaction, Choices, Current

\* Nothing chosen is right whatever is shown.
LEMMA IdleIsCurrent ==
  IDLE \in Choices /\ IDLE.kind = "idle" /\ \A shown : Current(IDLE, shown)
BY DEF IDLE, Interaction, Choices, Current, NoState

\* Choices, the dialog and the offer of a board may change as long as what is
\* chosen belongs to the state shown.
LEMMA ChoosingIsFine ==
  ASSUME NEW b, Fine(b), NEW c \in Boards, KeptWaiting(b, c),
         Current(c.interaction, b.shown), Current(c.directionReturn, b.shown),
         c.pendingFacing = b.pendingFacing
  PROVE  Fine(c)
BY ONLY Fine(b), c \in Boards, KeptWaiting(b, c), c.pendingFacing = b.pendingFacing,
        Current(c.interaction, b.shown), Current(c.directionReturn, b.shown)
   DEF Fine, ChosenInTime, ToldSoFar, KeptWaiting, Kept

\* A question for the direction at the end of a turn, asked by the player or by
\* the board, is one of the state shown.
LEMMA BeginEndTurnIsFine ==
  ASSUME NEW b, Fine(b), MayBeginEndTurn(b), NEW o \in BOOLEAN, NEW n \in Nat, NEW c,
         c = [BeginEndTurn(b) EXCEPT !.offered = o, !.dialog = n]
  PROVE  Fine(c) /\ KeptWaiting(b, c) /\ c.pendingFacing = b.pendingFacing
<1> DEFINE i == Interaction("direction", "end-turn", b.shown.id)
<1>1. b \in Boards /\ b.shown.at.mine /\ b.interaction \in Choices
      /\ Current(b.interaction, b.shown)
  BY BoardFields DEF Fine, ChosenInTime, MayBeginEndTurn, HeroMayAct
<1>2. i \in Choices /\ Current(i, b.shown)
  BY <1>1, ChoiceIsCurrent
<1>3. c = [b EXCEPT !.interaction = i, !.directionReturn = b.interaction,
                    !.dialog = n, !.offered = o]
  BY <1>1 DEF BeginEndTurn, Boards
<1> HIDE DEF i
<1>4. c \in Boards
  BY <1>1, <1>2, <1>3 DEF Boards
<1>5. /\ KeptWaiting(b, c) /\ c.pendingFacing = b.pendingFacing
      /\ c.interaction = i /\ c.directionReturn = b.interaction
  BY <1>1, <1>3 DEF Boards, KeptWaiting, Kept
<1> QED BY <1>1, <1>2, <1>4, <1>5, ChoosingIsFine

\* A spent turn's question is one of the state shown (offerSpentTurnDirection).
LEMMA OfferIsFine ==
  ASSUME NEW b, Fine(b), NEW c, c = OfferSpentTurn(b)
  PROVE  Fine(c) /\ KeptWaiting(b, c) /\ c.pendingFacing = b.pendingFacing
<1>1. CASE b.shown.at.spent /\ ~b.offered /\ MayBeginEndTurn(b)
  <2>1. b \in Boards /\ b.dialog \in Nat
    BY BoardFields DEF Fine
  <2>2. c = [BeginEndTurn(b) EXCEPT !.offered = TRUE]
    BY <1>1 DEF OfferSpentTurn
  <2>3. c = [BeginEndTurn(b) EXCEPT !.offered = TRUE, !.dialog = b.dialog]
    BY <2>1, <2>2 DEF Boards, BeginEndTurn
  <2> QED BY <1>1, <2>1, <2>3, BeginEndTurnIsFine
<1>2. CASE ~(b.shown.at.spent /\ ~b.offered /\ MayBeginEndTurn(b))
  <2>1. c = b
    BY <1>2 DEF OfferSpentTurn
  <2> QED BY <2>1 DEF KeptWaiting, Kept
<1> QED BY <1>1, <1>2

-----------------------------------------------------------------------------
(* Showing an update *)

\* An update that is shown ends the story told: it follows the state on the board
\* or begins the story anew.
Follows(b, u) == u \in Updates /\ (u.resync \/ u.id = b.shown.id + 1)

\* The board after an update.
Shown(b, u, c) ==
  /\ Fine(c)
  /\ c.id = b.id /\ c.shown = StateOf(u) /\ c.moving = u.walks
  /\ c.backlog = b.backlog /\ c.requestPending = b.requestPending
  /\ c.connection = b.connection /\ c.pendingFacing = NoFacing

\* A sequence grows at its end.
LEMMA Appended ==
  ASSUME NEW S, NEW p \in Seq(S), NEW x \in S, NEW h, h = Append(p, x)
  PROVE  /\ h \in Seq(S) /\ Len(h) = Len(p) + 1 /\ h # <<>> /\ h[Len(p) + 1] = x
         /\ \A i \in 1 .. Len(p) : h[i] = p[i] /\ p[i] \in S
         /\ Len(p) \in Nat /\ DOMAIN p = 1 .. Len(p) /\ DOMAIN h = 1 .. Len(p) + 1
<1>1. h \in Seq(S) /\ Len(h) = Len(p) + 1 /\ Len(p) \in Nat
  OBVIOUS
<1>2. h[Len(p) + 1] = x
  OBVIOUS
<1>3. \A i \in 1 .. Len(p) : h[i] = p[i] /\ p[i] \in S
  OBVIOUS
<1> QED BY <1>1, <1>2, <1>3

\* The story goes on by one.
LEMMA ToldOnce ==
  ASSUME NEW p, NEW n \in Nat, Ends(p, n), NEW next \in Nat, next = n + 1,
         NEW h, h = Append(p, next)
  PROVE  Ends(h, next)
<1>1. p \in Seq(Nat) /\ \A i \in DOMAIN p : p[i] + Len(p) = n + i
  BY DEF Ends
<1>2. /\ h \in Seq(Nat) /\ Len(h) = Len(p) + 1 /\ h # <<>> /\ h[Len(p) + 1] = next
      /\ \A i \in 1 .. Len(p) : h[i] = p[i] /\ p[i] \in Nat
      /\ Len(p) \in Nat /\ DOMAIN p = 1 .. Len(p) /\ DOMAIN h = 1 .. Len(p) + 1
  BY ONLY <1>1, h = Append(p, next), next \in Nat, Appended
<1>3. ASSUME NEW i \in 1 .. Len(p) + 1 PROVE h[i] + Len(h) = next + i
  <2>1. CASE i = Len(p) + 1
    <3>1. h[i] = next
      BY ONLY <1>2, <2>1
    <3> QED BY ONLY <3>1, <1>2, <2>1, next \in Nat
  <2>2. CASE i # Len(p) + 1
    <3>1. i \in 1 .. Len(p) /\ i \in Int
      BY ONLY <1>2, <2>2, i \in 1 .. Len(p) + 1
    <3>2. h[i] = p[i] /\ p[i] \in Nat /\ p[i] + Len(p) = n + i
      BY <1>1, <1>2, <3>1
    <3> DEFINE told == p[i]
               long == Len(p)
    <3>3. told \in Int /\ long \in Int /\ told + long = n + i
      BY <1>2, <3>2
    <3>4. h[i] = told /\ Len(h) = long + 1
      BY <1>2, <3>2
    <3> HIDE DEF told, long
    <3> QED BY ONLY <3>1, <3>3, <3>4, n \in Nat, next = n + 1
  <2> QED BY <2>1, <2>2
<1> QED BY <1>2, <1>3 DEF Ends

\* A resync begins the story anew.
LEMMA ToldAfresh ==
  ASSUME NEW n \in Nat
  PROVE  Ends(<<n>>, n)
BY DEF Ends

\* Showing an update.
LEMMA ApplyIsFine ==
  ASSUME NEW b, Fine(b), NEW u, Follows(b, u)
  PROVE  Shown(b, u, ApplyUpdate(b, u))
<1> DEFINE h == IF u.resync THEN <<u.id>> ELSE Append(b.history, u.id)
           o == b.offered /\ ~u.newTurn
           m == [b EXCEPT !.pendingFacing = NoFacing, !.shown = StateOf(u), !.moving = u.walks,
                          !.offered = o, !.history = h]
           g == GoIdle(m)
<1>1. /\ b \in Boards /\ u \in Updates /\ u.id \in Nat \ {0} /\ u.at \in Situations
      /\ u.walks \in BOOLEAN /\ u.resync \in BOOLEAN /\ b.history \in Seq(Nat)
      /\ b.shown.id \in Nat \ {0} /\ b.offered \in BOOLEAN
  BY BoardFields DEF Fine, ToldSoFar, Follows, Updates
<1>2. StateOf(u) \in [id : Nat \ {0}, at : Situations] /\ StateOf(u).id = u.id
  BY <1>1 DEF StateOf
<1>3. h \in Seq(Nat) /\ Ends(h, u.id)
  <2>1. CASE u.resync
    BY <1>1, <2>1, ToldAfresh DEF Ends
  <2>2. CASE ~u.resync
    <3>1. u.id = b.shown.id + 1 /\ Ends(b.history, b.shown.id)
      BY <2>2 DEF Follows, Fine, ToldSoFar
    <3>2. h = Append(b.history, u.id) /\ u.id \in Nat /\ b.shown.id \in Nat
      BY <1>1, <2>2
    <3> HIDE DEF h
    <3>3. Ends(h, u.id)
      BY ONLY <3>1, <3>2, ToldOnce
    <3> QED BY <3>3 DEF Ends
  <2> QED BY <1>1, <2>1, <2>2
<1> HIDE DEF h
<1>4. o \in BOOLEAN
  OBVIOUS
<1> HIDE DEF o
<1>5. g = [m EXCEPT !.interaction = IDLE, !.directionReturn = IDLE]
  BY DEF GoIdle
<1>6. g \in Boards
  BY <1>1, <1>2, <1>3, <1>4, IdleIsCurrent DEF Boards, GoIdle
<1>7. /\ g.id = b.id /\ g.shown = StateOf(u) /\ g.moving = u.walks /\ g.history = h
      /\ g.backlog = b.backlog /\ g.requestPending = b.requestPending
      /\ g.connection = b.connection /\ g.pendingFacing = NoFacing
      /\ g.interaction = IDLE /\ g.directionReturn = IDLE
  BY <1>1 DEF Boards, GoIdle
<1>8. ApplyUpdate(b, u) = OfferSpentTurn(g)
  BY DEF ApplyUpdate, h, o
<1> HIDE DEF m, g
<1>9. Fine(g)
  BY <1>2, <1>3, <1>6, <1>7, IdleIsCurrent DEF Fine, ChosenInTime, ToldSoFar
<1> QED BY <1>7, <1>8, <1>9, OfferIsFine DEF Shown, KeptWaiting, Kept

\* The function ApplyAll runs through is there, for any number of updates.
IsRun(f, b, us, n) ==
  f = [i \in 0 .. n |-> IF i = 0 THEN b ELSE ApplyUpdate(f[i - 1], us[i])]

\* There is such a function, however many updates it runs through.
LEMMA RunExists ==
  ASSUME NEW b, NEW us, NEW n \in Nat
  PROVE  \E f : IsRun(f, b, us, n)
<1> DEFINE missing == {m \in Nat : ~ \E f : IsRun(f, b, us, m)}
<1>1. SUFFICES ASSUME n \in missing PROVE FALSE
  OBVIOUS
<1>2. PICK m \in missing : \A k \in missing : m <= k
  <2>1. missing \subseteq Nat /\ missing # {}
    BY <1>1
  <2> HIDE DEF missing
  <2> QED BY <2>1, LeastNatural
<1>3. m \in Nat
  BY <1>2
<1>4. CASE m = 0
  <2> DEFINE f == [i \in 0 .. 0 |-> b]
  <2>1. IsRun(f, b, us, 0)
    <3>1. \A i \in 0 .. 0 : i = 0
      OBVIOUS
    <3> QED BY <3>1 DEF IsRun
  <2> HIDE DEF f
  <2> QED BY <1>2, <1>4, <2>1
<1>5. CASE m # 0
  <2>1. m - 1 \in Nat /\ ~(m <= m - 1)
    BY <1>3, <1>5
  <2>2. m - 1 \notin missing
    BY <1>2, <2>1
  <2>3. PICK f : IsRun(f, b, us, m - 1)
    BY <2>1, <2>2
  <2> DEFINE g == [i \in 0 .. m |-> IF i = m THEN ApplyUpdate(f[m - 1], us[m]) ELSE f[i]]
  <2>4. ASSUME NEW i \in 0 .. m
        PROVE  g[i] = IF i = 0 THEN b ELSE ApplyUpdate(g[i - 1], us[i])
    <3>1. i \in Int /\ (i # m => i \in 0 .. m - 1) /\ (i # 0 => i - 1 \in 0 .. m - 1 /\ i - 1 # m)
      BY <1>3
    <3>2. i # 0 => g[i - 1] = f[i - 1]
      BY <1>3, <3>1
    <3>3. CASE i = m
      BY <1>5, <3>1, <3>2, <3>3
    <3>4. CASE i # m
      <4>1. f[i] = IF i = 0 THEN b ELSE ApplyUpdate(f[i - 1], us[i])
        BY <2>3, <3>1, <3>4 DEF IsRun
      <4>2. g[i] = f[i]
        BY <3>4
      <4> QED BY <3>2, <4>1, <4>2
    <3> QED BY <3>3, <3>4
  <2>5. IsRun(g, b, us, m)
    BY <2>4 DEF IsRun
  <2> HIDE DEF g
  <2> QED BY <1>2, <2>5
<1> QED BY <1>4, <1>5

\* The board after the first i of several updates.
Along(b, us, i, c) ==
  /\ Fine(c)
  /\ c.id = b.id /\ c.backlog = b.backlog
  /\ c.requestPending = b.requestPending /\ c.connection = b.connection
  /\ c.shown.id = b.shown.id + i
  /\ IF i = 0 THEN c = b ELSE c.moving = us[i].walks

\* Updates that follow one another are shown one after the other.
LEMMA ApplyAllIsFine ==
  ASSUME NEW b, Fine(b), NEW us \in Seq(Updates),
         \A i \in DOMAIN us : us[i].id = b.shown.id + i
  PROVE  Along(b, us, Len(us), ApplyAll(b, us))
<1> DEFINE n == Len(us)
<1>1. n \in Nat /\ DOMAIN us = 1 .. n /\ b.shown.id \in Nat
      /\ \A i \in 1 .. n : us[i] \in Updates
  BY BoardFields DEF Fine
<1>2. PICK f : IsRun(f, b, us, n) /\ ApplyAll(b, us) = f[n]
  <2>1. \E f : IsRun(f, b, us, n)
    <3> HIDE DEF n
    <3> QED BY <1>1, RunExists
  <2>2. ApplyAll(b, us) = (CHOOSE f : IsRun(f, b, us, n))[n]
    BY DEF ApplyAll, IsRun
  <2> QED BY <2>1, <2>2
<1> HIDE DEF n
<1> DEFINE wrong == {i \in 0 .. n : ~Along(b, us, i, f[i])}
<1>3. SUFFICES ASSUME wrong # {} PROVE FALSE
  <2>1. n \in 0 .. n
    BY <1>1
  <2> QED BY <1>2, <2>1 DEF n
<1>4. PICK m \in wrong : \A k \in wrong : m <= k
  <2>1. wrong \subseteq Nat
    BY <1>1
  <2> HIDE DEF wrong
  <2> QED BY <1>3, <2>1, LeastNatural
<1>5. m \in 0 .. n /\ m \in Nat /\ ~Along(b, us, m, f[m])
  BY <1>1, <1>4
<1>6. CASE m = 0
  <2>1. f[0] = b
    BY <1>1, <1>2 DEF IsRun
  <2>2. b.shown.id + 0 = b.shown.id
    BY <1>1
  <2> QED BY <1>5, <1>6, <2>1, <2>2 DEF Along
<1>7. CASE m # 0
  <2>1. m - 1 \in 0 .. n /\ m - 1 \in Nat /\ ~(m <= m - 1) /\ m \in 1 .. n
    BY <1>1, <1>5, <1>7
  <2>2. Along(b, us, m - 1, f[m - 1])
    BY <1>4, <2>1
  <2> DEFINE c == f[m - 1]
             u == us[m]
             d == ApplyUpdate(c, u)
  <2>3. f[m] = d
    BY <1>2, <1>5, <1>7 DEF IsRun
  <2>4. Fine(c) /\ u \in Updates /\ c.shown.id = b.shown.id + (m - 1) /\ u.id = b.shown.id + m
    BY <1>1, <2>1, <2>2 DEF Along
  <2>5. Follows(c, u)
    <3>1. b.shown.id + m = (b.shown.id + (m - 1)) + 1
      <4>1. b.shown.id \in Nat /\ m \in Nat
        BY <1>1, <1>5
      <4> QED BY ONLY <4>1
    <3> HIDE DEF c, u
    <3> QED BY <2>4, <3>1 DEF Follows
  <2>6. Shown(c, u, d)
    <3> HIDE DEF c, u
    <3> QED BY <2>4, <2>5, ApplyIsFine
  <2>7. d.shown.id = b.shown.id + m
    BY <2>4, <2>6 DEF Shown, StateOf
  <2>8. c.id = b.id /\ c.backlog = b.backlog
        /\ c.requestPending = b.requestPending /\ c.connection = b.connection
    BY <2>2 DEF Along
  <2> HIDE DEF c, d
  <2>9. Along(b, us, m, d)
    BY <1>7, <2>6, <2>7, <2>8 DEF Along, Shown
  <2> QED BY <1>5, <2>3, <2>9
<1> QED BY <1>6, <1>7

-----------------------------------------------------------------------------
(* Updates and walks *)

\* A board in its place: the newest of what it shows or keeps waiting is n.
InPlace(b, n) == Fine(b) /\ WaitsInLine(b) /\ b.shown.id + Len(b.backlog) = n

\* The board a board was, for whoever asks it by name.
SameBoard(b, c) ==
  c.id = b.id /\ c.requestPending = b.requestPending /\ c.connection = b.connection

\* Another backlog is no concern of what is chosen and told.
LEMMA BacklogIsFree ==
  ASSUME NEW b, Fine(b), NEW q \in Seq(Updates), NEW c, c = [b EXCEPT !.backlog = q]
  PROVE  /\ Fine(c) /\ SameBoard(b, c) /\ c.backlog = q
         /\ c.shown = b.shown /\ c.moving = b.moving
<1>1. b \in Boards
  BY DEF Fine
<1>2. c \in Boards
  BY <1>1 DEF Boards
<1>3. /\ SameBoard(b, c) /\ c.backlog = q /\ c.shown = b.shown /\ c.moving = b.moving
      /\ c.history = b.history /\ c.interaction = b.interaction
      /\ c.directionReturn = b.directionReturn /\ c.pendingFacing = b.pendingFacing
  BY <1>1 DEF Boards, SameBoard
<1> QED BY <1>2, <1>3 DEF Fine, ChosenInTime, ToldSoFar

\* That a walk goes on or ends is no concern of what is chosen and told either.
LEMMA WalkIsFree ==
  ASSUME NEW b, Fine(b), NEW w \in BOOLEAN, NEW c, c = [b EXCEPT !.moving = w]
  PROVE  /\ Fine(c) /\ SameBoard(b, c) /\ c.moving = w
         /\ c.shown = b.shown /\ c.backlog = b.backlog
<1>1. b \in Boards
  BY DEF Fine
<1>2. c \in Boards
  BY <1>1 DEF Boards
<1>3. /\ SameBoard(b, c) /\ c.backlog = b.backlog /\ c.shown = b.shown /\ c.moving = w
      /\ c.history = b.history /\ c.interaction = b.interaction
      /\ c.directionReturn = b.directionReturn /\ c.pendingFacing = b.pendingFacing
  BY <1>1 DEF Boards, SameBoard
<1> QED BY <1>2, <1>3 DEF Fine, ChosenInTime, ToldSoFar

\* The update of a new snapshot leaves a board that ends with it, whether it is
\* shown at once, waits, or pushes everything that waited onto the board.
LEMMA UpdateIsInPlace ==
  ASSUME NEW b, Fine(b), WaitsInLine(b), NEW u \in Updates,
         u.resync \/ u.id = b.shown.id + Len(b.backlog) + 1
  PROVE  InPlace(Update(b, u), u.id) /\ SameBoard(b, Update(b, u))
<1> DEFINE e == [b EXCEPT !.backlog = <<>>]
           n == Len(b.backlog)
           x == b.shown.id
<1>1. /\ b.backlog \in Seq(Updates) /\ n \in Nat /\ x \in Nat /\ u.id \in Nat
      /\ MaxPaced \in Nat /\ (~u.resync => u.id = x + (n + 1))
  <2>1. b.backlog \in Seq(Updates) /\ b.shown.id \in Nat
    BY BoardFields DEF Fine
  <2>2. n \in Nat /\ x \in Nat
    BY <2>1
  <2>3. u.id \in Nat
    BY DEF Updates
  <2>4. ~u.resync => u.id = x + n + 1
    OBVIOUS
  <2> HIDE DEF n, x
  <2> QED BY <2>1, <2>2, <2>3, <2>4, PlaybackAssumption
<1>2. /\ Fine(e) /\ SameBoard(b, e) /\ e.backlog = <<>>
      /\ e.shown = b.shown /\ e.moving = b.moving
  <2>1. <<>> \in Seq(Updates)
    OBVIOUS
  <2> QED BY <2>1, BacklogIsFree
<1> HIDE DEF e
<1>3. ASSUME NEW c, Fine(c), c.backlog = <<>>, c.shown.id = u.id
      PROVE  InPlace(c, u.id)
  <2>1. Len(c.backlog) = 0 /\ DOMAIN c.backlog = {}
    BY <1>3
  <2> QED BY <1>1, <1>3, <2>1 DEF InPlace, WaitsInLine
<1>4. CASE u.resync
  <2>1. Shown(e, u, ApplyUpdate(e, u))
    BY <1>2, <1>4, ApplyIsFine DEF Follows
  <2>2. Update(b, u) = ApplyUpdate(e, u)
    BY <1>4 DEF Update, e
  <2> QED BY <1>2, <1>3, <2>1, <2>2 DEF Shown, StateOf, SameBoard
<1>5. CASE ~u.resync /\ n >= MaxPaced
  <2> DEFINE us == Append(b.backlog, u)
             c == ApplyAll(e, us)
  <2>1. /\ us \in Seq(Updates) /\ Len(us) = n + 1 /\ us[n + 1] = u
        /\ \A i \in 1 .. n : us[i] = b.backlog[i]
        /\ DOMAIN us = 1 .. n + 1
    BY <1>1, Appended
  <2>2. ASSUME NEW i \in DOMAIN us PROVE us[i].id = e.shown.id + i
    <3>1. i \in Int /\ (i = n + 1 \/ i \in 1 .. n)
      BY <1>1, <2>1
    <3>2. CASE i \in 1 .. n
      BY <1>2, <2>1, <3>2 DEF WaitsInLine
    <3>3. CASE i = n + 1
      <4>1. us[i] = u /\ e.shown.id = x
        BY <1>2, <2>1, <3>3
      <4> HIDE DEF us, n, x
      <4> QED BY <1>1, <1>5, <3>3, <4>1
    <3> QED BY <3>1, <3>2, <3>3
  <2> HIDE DEF us
  <2>3. Along(e, us, Len(us), c)
    BY <1>2, <2>1, <2>2, ApplyAllIsFine
  <2>4. c.shown.id = u.id
    BY <1>1, <1>2, <1>5, <2>1, <2>3 DEF Along
  <2>5. Update(b, u) = c
    BY <1>5 DEF Update, us, e
  <2> HIDE DEF c
  <2> QED BY <1>2, <1>3, <2>3, <2>4, <2>5 DEF Along, SameBoard
<1>6. CASE ~u.resync /\ ~(n >= MaxPaced) /\ (b.moving \/ b.backlog # <<>>)
  <2> DEFINE us == Append(b.backlog, u)
             c == [b EXCEPT !.backlog = us]
  <2>1. /\ us \in Seq(Updates) /\ Len(us) = n + 1 /\ us[n + 1] = u
        /\ \A i \in 1 .. n : us[i] = b.backlog[i]
        /\ DOMAIN us = 1 .. n + 1
    BY <1>1, Appended
  <2> HIDE DEF us
  <2>2. /\ Fine(c) /\ SameBoard(b, c) /\ c.backlog = us
        /\ c.shown = b.shown /\ c.moving = b.moving
    BY <2>1, BacklogIsFree
  <2>3. ASSUME NEW i \in DOMAIN us PROVE us[i].id = x + i /\ ~us[i].resync
    <3>1. i \in Int /\ (i = n + 1 \/ i \in 1 .. n)
      BY <1>1, <2>1
    <3>2. CASE i \in 1 .. n
      BY <2>1, <3>2 DEF WaitsInLine
    <3>3. CASE i = n + 1
      <4>1. us[i] = u
        BY <2>1, <3>3
      <4> HIDE DEF n, x
      <4> QED BY <1>1, <1>6, <3>3, <4>1
    <3> QED BY <3>1, <3>2, <3>3
  <2>4. b.moving
    BY <1>6 DEF WaitsInLine
  <2>5. n + 1 <= MaxPaced /\ x + (n + 1) = u.id
    BY <1>1, <1>6
  <2>6. Update(b, u) = c
    BY <1>6 DEF Update, us
  <2>7. c.shown.id = x /\ Len(c.backlog) = n + 1
    BY <2>1, <2>2
  <2> HIDE DEF c, n, x
  <2>8. WaitsInLine(c)
    BY <2>2, <2>3, <2>4, <2>5, <2>7 DEF WaitsInLine
  <2>9. c.shown.id + Len(c.backlog) = u.id
    BY <2>5, <2>7
  <2> QED BY <2>2, <2>6, <2>8, <2>9 DEF InPlace
<1>7. CASE ~u.resync /\ ~(n >= MaxPaced) /\ ~b.moving /\ b.backlog = <<>>
  <2>1. n = 0
    BY <1>7
  <2>2. u.id = b.shown.id + 1
    BY <1>1, <1>7, <2>1
  <2>3. Shown(b, u, ApplyUpdate(b, u))
    BY <2>2, ApplyIsFine DEF Follows
  <2>4. Update(b, u) = ApplyUpdate(b, u)
    BY <1>7 DEF Update
  <2> QED BY <1>3, <1>7, <2>3, <2>4 DEF Shown, StateOf, SameBoard
<1> QED BY <1>4, <1>5, <1>6, <1>7

\* A sequence in two parts.
LEMMA Parted ==
  ASSUME NEW S, NEW q \in Seq(S), NEW k \in 0 .. Len(q),
         NEW front, front = SubSeq(q, 1, k), NEW back, back = SubSeq(q, k + 1, Len(q))
  PROVE  /\ front \in Seq(S) /\ Len(front) = k /\ DOMAIN front = 1 .. k
         /\ \A i \in 1 .. k : front[i] = q[i]
         /\ back \in Seq(S) /\ Len(back) = Len(q) - k /\ DOMAIN back = 1 .. Len(q) - k
         /\ \A i \in 1 .. Len(q) - k : back[i] = q[k + i]
<1>1. Len(q) \in Nat /\ k \in Int /\ \A i \in 1 .. Len(q) : q[i] \in S
  OBVIOUS
<1>2. front \in Seq(S) /\ Len(front) = k /\ \A i \in 1 .. k : front[i] = q[i]
  BY <1>1
<1>3. back \in Seq(S) /\ Len(back) = Len(q) - k
  BY <1>1
<1>4. \A i \in 1 .. Len(q) - k : back[i] = q[k + i]
  BY <1>1
<1> QED BY <1>2, <1>3, <1>4

\* A walk that ends shows what waited behind it, up to the next walk.
LEMMA WalkEndsInPlace ==
  ASSUME NEW b, Fine(b), WaitsInLine(b)
  PROVE  InPlace(WalkEnds(b), b.shown.id + Len(b.backlog)) /\ SameBoard(b, WalkEnds(b))
<1> DEFINE s == [b EXCEPT !.moving = FALSE]
           q == b.backlog
           n == Len(q)
           x == b.shown.id
           stops == {i \in 1 .. n : q[i].walks}
           last == IF stops = {} THEN n ELSE CHOOSE i \in stops : \A j \in stops : i <= j
           front == SubSeq(q, 1, last)
           back == SubSeq(q, last + 1, n)
           e == [s EXCEPT !.backlog = back]
           c == ApplyAll(e, front)
<1>1. q \in Seq(Updates) /\ n \in Nat /\ x \in Nat
  BY BoardFields DEF Fine
<1>2. Fine(s) /\ SameBoard(b, s) /\ s.moving = FALSE /\ s.shown = b.shown /\ s.backlog = q
  BY WalkIsFree
<1>3. WalkEnds(b) = c
  BY <1>2 DEF WalkEnds, DrainPacedUpdates
<1> HIDE DEF s
<1>4. last \in 0 .. n /\ (last # n => last \in stops)
  <2>1. CASE stops = {}
    BY <1>1, <2>1
  <2>2. CASE stops # {}
    <3>1. stops \subseteq Nat /\ stops \subseteq 0 .. n
      BY <1>1
    <3> HIDE DEF stops
    <3>2. \E i \in stops : \A j \in stops : i <= j
      BY <2>2, <3>1, LeastNatural
    <3> QED BY <2>2, <3>1, <3>2
  <2> QED BY <2>1, <2>2
<1> HIDE DEF last
<1>5. /\ front \in Seq(Updates) /\ Len(front) = last /\ DOMAIN front = 1 .. last
      /\ \A i \in 1 .. last : front[i] = q[i]
      /\ back \in Seq(Updates) /\ Len(back) = n - last /\ DOMAIN back = 1 .. n - last
      /\ \A i \in 1 .. n - last : back[i] = q[last + i]
  BY <1>1, <1>4, Parted
<1> HIDE DEF front, back
<1>6. /\ Fine(e) /\ SameBoard(s, e) /\ e.backlog = back
      /\ e.shown = b.shown /\ e.moving = FALSE
  BY <1>2, <1>5, BacklogIsFree
<1> HIDE DEF e
<1>7. \A i \in DOMAIN q : q[i].id = x + i /\ ~q[i].resync
  BY DEF WaitsInLine
<1>8. DOMAIN q = 1 .. n
  BY <1>1
<1>9. Along(e, front, last, c)
  <2>1. \A i \in DOMAIN front : front[i].id = e.shown.id + i
    BY <1>1, <1>4, <1>5, <1>6, <1>7, <1>8
  <2> QED BY <1>5, <1>6, <2>1, ApplyAllIsFine
<1> HIDE DEF c
<1>10. c.shown.id = x + last /\ c.backlog = back /\ Fine(c) /\ SameBoard(b, c)
  BY <1>2, <1>6, <1>9 DEF Along, SameBoard
<1>11. back # <<>> => c.moving
  <2>1. HAVE back # <<>>
  <2>2. last # n
    BY <1>1, <1>4, <1>5, <2>1
  <2>3. last \in stops /\ last # 0 /\ last \in 1 .. last
    BY <1>1, <1>4, <2>2
  <2>4. front[last].walks
    BY <1>5, <2>3
  <2> QED BY <1>9, <2>3, <2>4 DEF Along
<1>12. ASSUME NEW i \in DOMAIN back PROVE back[i].id = (x + last) + i /\ ~back[i].resync
  <2>1. i \in 1 .. n - last /\ last + i \in 1 .. n /\ x + (last + i) = (x + last) + i
    BY <1>1, <1>4, <1>5
  <2> QED BY <1>5, <1>7, <1>8, <2>1
<1>13. n - last <= MaxPaced /\ (x + last) + (n - last) = x + n
  BY <1>1, <1>4, PlaybackAssumption DEF WaitsInLine
<1> QED BY <1>3, <1>5, <1>10, <1>11, <1>12, <1>13 DEF InPlace, WaitsInLine

-----------------------------------------------------------------------------
(* Input and verdicts *)

\* The question that waits for its verdict is one of the state shown.
Asked(facing, shown) ==
  facing # NoFacing =>
    /\ facing.interaction.kind = "direction"
    /\ Current(facing.interaction, shown) /\ Current(facing.previous, shown)

\* A board stays fine with other choices, as long as they are of the state shown.
LEMMA StaysFine ==
  ASSUME NEW b, Fine(b), NEW c \in Boards, Kept(b, c),
         Current(c.interaction, b.shown), Current(c.directionReturn, b.shown),
         Asked(c.pendingFacing, b.shown)
  PROVE  Fine(c)
BY ONLY Fine(b), c \in Boards, Kept(b, c), Asked(c.pendingFacing, b.shown),
        Current(c.interaction, b.shown), Current(c.directionReturn, b.shown)
   DEF Fine, ChosenInTime, ToldSoFar, Kept, Asked

\* What a fine board promises of its choices.
LEMMA FineFields ==
  ASSUME NEW b, Fine(b)
  PROVE  /\ b \in Boards
         /\ Current(b.interaction, b.shown) /\ Current(b.directionReturn, b.shown)
         /\ Asked(b.pendingFacing, b.shown)
BY DEF Fine, ChosenInTime, Asked

\* What is chosen on a board may be put away, or be another choice.
LEMMA EnterIsFine ==
  ASSUME NEW b, Fine(b), NEW i \in Choices, NEW r \in Choices,
         Current(i, b.shown), Current(r, b.shown),
         NEW c, c = [b EXCEPT !.interaction = i, !.directionReturn = r]
  PROVE  Fine(c) /\ KeptWaiting(b, c)
<1>1. /\ b \in Boards /\ Asked(b.pendingFacing, b.shown)
  BY FineFields
<1>2. c \in Boards
  BY <1>1 DEF Boards
<1>3. /\ KeptWaiting(b, c) /\ c.pendingFacing = b.pendingFacing
      /\ c.interaction = i /\ c.directionReturn = r
  BY <1>1 DEF Boards, KeptWaiting, Kept
<1> QED BY <1>1, <1>2, <1>3, StaysFine DEF KeptWaiting

\* Putting away what is chosen (goIdle).
LEMMA GoIdleIsFine ==
  ASSUME NEW b, Fine(b)
  PROVE  Fine(GoIdle(b)) /\ KeptWaiting(b, GoIdle(b))
BY EnterIsFine, IdleIsCurrent DEF GoIdle

\* Choosing a card or the ring where the player may act (enter).
LEMMA ChooseIsFine ==
  ASSUME NEW b, Fine(b), b.shown.at.mine,
         NEW kind \in {"idle", "card", "ring", "direction"}, NEW c,
         c = Enter(b, Interaction(kind, "none", b.shown.id))
  PROVE  Fine(c) /\ KeptWaiting(b, c)
<1> DEFINE i == Interaction(kind, "none", b.shown.id)
<1>1. /\ b \in Boards /\ b.directionReturn \in Choices
      /\ Current(b.directionReturn, b.shown)
  BY FineFields, BoardFields
<1>2. i \in Choices /\ Current(i, b.shown)
  BY <1>1, ChoiceIsCurrent
<1> HIDE DEF i
<1>3. c = [b EXCEPT !.interaction = i, !.directionReturn = b.directionReturn]
  BY <1>1 DEF Boards, Enter, i
<1> QED BY <1>1, <1>2, <1>3, EnterIsFine

\* A dialog opens and closes beside what is chosen.
LEMMA DialogIsFine ==
  ASSUME NEW b, Fine(b), NEW n \in Nat, NEW c, c = [b EXCEPT !.dialog = n]
  PROVE  Fine(c) /\ KeptWaiting(b, c)
<1>1. /\ b \in Boards /\ Current(b.interaction, b.shown) /\ Current(b.directionReturn, b.shown)
  BY FineFields
<1>2. c \in Boards
  BY <1>1 DEF Boards
<1>3. /\ KeptWaiting(b, c) /\ c.pendingFacing = b.pendingFacing
      /\ c.interaction = b.interaction /\ c.directionReturn = b.directionReturn
  BY <1>1 DEF Boards, KeptWaiting, Kept
<1> QED BY <1>1, <1>2, <1>3, ChoosingIsFine

\* Whatever the player touches, what is chosen stays of the state shown.
LEMMA TouchedIsFine ==
  ASSUME NEW b, Fine(b), NEW c \in Touched(b)
  PROVE  Fine(c) /\ KeptWaiting(b, c)
<1>1. /\ b \in Boards /\ b.interaction \in Choices /\ b.directionReturn \in Choices
      /\ Current(b.interaction, b.shown) /\ Current(b.directionReturn, b.shown)
      /\ b.shown.id \in Nat /\ b.dialog \in Nat /\ b.offered \in BOOLEAN
  BY FineFields, BoardFields
<1>2. CASE c \in ConfirmEndTurn(b)
  <2>1. CASE b.dialog = b.shown.id /\ MayBeginEndTurn(b)
    <3>1. c = [BeginEndTurn(b) EXCEPT !.dialog = NoState]
      BY <1>2, <2>1 DEF ConfirmEndTurn
    <3>2. c = [BeginEndTurn(b) EXCEPT !.offered = b.offered, !.dialog = NoState]
      BY <1>1, <3>1 DEF Boards, BeginEndTurn
    <3> QED BY <1>1, <2>1, <3>2, BeginEndTurnIsFine DEF NoState
  <2>2. CASE ~(b.dialog = b.shown.id /\ MayBeginEndTurn(b))
    <3>1. c = [b EXCEPT !.dialog = NoState]
      BY <1>2, <2>2 DEF ConfirmEndTurn
    <3> QED BY <3>1, DialogIsFine DEF NoState
  <2> QED BY <2>1, <2>2
<1>3. CASE c \in DismissDialog(b)
  <2>1. c = [b EXCEPT !.dialog = NoState]
    BY <1>3 DEF DismissDialog
  <2> QED BY <2>1, DialogIsFine DEF NoState
<1>4. CASE c \in OpenRing(b)
  <2>1. /\ b.shown.at.mine
        /\ c = Enter(b, Interaction("ring", "none", b.shown.id)) \/ c = GoIdle(b)
    BY <1>4 DEF OpenRing, HeroMayAct
  <2> QED BY <2>1, ChooseIsFine, GoIdleIsFine
<1>5. CASE c \in ChooseCard(b)
  <2>1. /\ b.shown.at.mine
        /\ c = Enter(b, Interaction("card", "none", b.shown.id)) \/ c = GoIdle(b)
    BY <1>5 DEF ChooseCard, HeroMayAct
  <2> QED BY <2>1, ChooseIsFine, GoIdleIsFine
<1>6. CASE c \in AskStepDirection(b)
  <2> DEFINE i == Interaction("direction", "step-turn", b.shown.id)
  <2>1. /\ b.interaction.kind = "ring" \/ b.shown.at.mine
        /\ c = [b EXCEPT !.directionReturn = b.interaction, !.interaction = i]
    BY <1>6 DEF AskStepDirection, HeroMayAct
  <2>2. b.shown.at.mine
    BY <1>1, <2>1, IdleIsCurrent DEF Current
  <2>3. i \in Choices /\ Current(i, b.shown)
    BY <1>1, <2>2, ChoiceIsCurrent
  <2> HIDE DEF i
  <2>4. c = [b EXCEPT !.interaction = i, !.directionReturn = b.interaction]
    BY <1>1, <2>1 DEF Boards
  <2> QED BY <1>1, <2>3, <2>4, EnterIsFine
<1>7. CASE c \in Escape(b)
  <2>1. \/ c = [b EXCEPT !.interaction = b.directionReturn, !.directionReturn = IDLE]
        \/ c = GoIdle(b)
    BY <1>7 DEF Escape
  <2> QED BY <1>1, <2>1, EnterIsFine, GoIdleIsFine, IdleIsCurrent
<1>8. CASE c \in PressEndTurn(b)
  <2>1. /\ MayBeginEndTurn(b)
        /\ c = BeginEndTurn(b) \/ c = [b EXCEPT !.dialog = b.shown.id]
    BY <1>8 DEF PressEndTurn
  <2>2. BeginEndTurn(b) = [BeginEndTurn(b) EXCEPT !.offered = b.offered, !.dialog = b.dialog]
    BY <1>1 DEF Boards, BeginEndTurn
  <2> QED BY <1>1, <2>1, <2>2, BeginEndTurnIsFine, DialogIsFine
<1> QED BY <1>2, <1>3, <1>4, <1>5, <1>6, <1>7, <1>8 DEF Touched

\* A question that is given back is still one of the state shown.
LEMMA RestoreIsFine ==
  ASSUME NEW b, Fine(b)
  PROVE  Fine(RestoreDirection(b)) /\ KeptWaiting(b, RestoreDirection(b))
<1> DEFINE c == RestoreDirection(b)
<1>1. b \in Boards /\ Asked(b.pendingFacing, b.shown)
      /\ b.pendingFacing \in {NoFacing} \union Answers
  BY FineFields, BoardFields
<1>2. CASE b.pendingFacing = NoFacing
  BY <1>2 DEF RestoreDirection, KeptWaiting, Kept
<1>3. CASE b.pendingFacing # NoFacing
  <2> DEFINE i == b.pendingFacing.interaction
             r == b.pendingFacing.previous
  <2>1. i \in Choices /\ r \in Choices /\ Current(i, b.shown) /\ Current(r, b.shown)
    BY <1>1, <1>3 DEF Answers, Asked
  <2>2. c = [b EXCEPT !.pendingFacing = NoFacing, !.interaction = i, !.directionReturn = r]
    BY <1>3 DEF RestoreDirection
  <2> HIDE DEF c, i, r
  <2>3. c \in Boards
    BY <1>1, <2>1, <2>2 DEF Boards
  <2>4. /\ KeptWaiting(b, c) /\ c.pendingFacing = NoFacing
        /\ c.interaction = i /\ c.directionReturn = r
    BY <1>1, <2>2 DEF Boards, KeptWaiting, Kept
  <2>5. Asked(c.pendingFacing, b.shown)
    BY <2>4 DEF Asked
  <2>6. Fine(c)
    BY <2>1, <2>3, <2>4, <2>5, StaysFine DEF KeptWaiting
  <2> QED BY <2>4, <2>6 DEF c
<1> QED BY <1>2, <1>3

\* A board waits for a verdict, or not, and hears of its connection.
LEMMA WaitingIsFree ==
  ASSUME NEW b, Fine(b), NEW c \in Boards, Kept(b, c), c.pendingFacing = b.pendingFacing,
         c.interaction = b.interaction, c.directionReturn = b.directionReturn
  PROVE  Fine(c)
BY FineFields, StaysFine

\* A request that is taken or refused, a verdict, and news of the connection.
LEMMA RequestsAreFine ==
  ASSUME NEW b, Fine(b)
  PROVE  /\ Fine(Sent(b)) /\ Kept(b, Sent(b))
         /\ Fine(Refused(b)) /\ Kept(b, Refused(b)) /\ ~Refused(b).requestPending
         /\ \A accepted \in BOOLEAN :
              LET c == Settled(b, accepted)
              IN Fine(c) /\ Kept(b, c) /\ ~c.requestPending
<1> DEFINE t == [b EXCEPT !.requestPending = TRUE]
           r == [b EXCEPT !.requestPending = FALSE]
<1>1. b \in Boards
  BY FineFields
<1>2. Fine(t) /\ Kept(b, t)
  <2>1. t \in Boards
    BY <1>1 DEF Boards
  <2>2. /\ Kept(b, t) /\ t.pendingFacing = b.pendingFacing
        /\ t.interaction = b.interaction /\ t.directionReturn = b.directionReturn
    BY <1>1 DEF Boards, Kept
  <2> HIDE DEF t
  <2> QED BY <2>1, <2>2, WaitingIsFree
<1>3. Fine(r) /\ Kept(b, r) /\ ~r.requestPending
  <2>1. r \in Boards
    BY <1>1 DEF Boards
  <2>2. /\ Kept(b, r) /\ r.pendingFacing = b.pendingFacing
        /\ r.interaction = b.interaction /\ r.directionReturn = b.directionReturn
        /\ ~r.requestPending
    BY <1>1 DEF Boards, Kept
  <2> HIDE DEF r
  <2> QED BY <2>1, <2>2, WaitingIsFree
<1>4. Sent(b) = GoIdle(t) /\ Refused(b) = r
  BY DEF Sent, Refused
<1>5. Settled(b, TRUE) = OfferSpentTurn(r) /\ Settled(b, FALSE) = RestoreDirection(r)
  BY DEF Settled
<1> HIDE DEF t, r
<1>6. Fine(Sent(b)) /\ Kept(b, Sent(b))
  BY <1>2, <1>4, GoIdleIsFine DEF KeptWaiting, Kept
<1>7. LET c == Settled(b, TRUE) IN Fine(c) /\ Kept(b, c) /\ ~c.requestPending
  <2>1. Fine(OfferSpentTurn(r)) /\ KeptWaiting(r, OfferSpentTurn(r))
    BY <1>3, OfferIsFine
  <2> QED BY <1>3, <1>5, <2>1 DEF KeptWaiting, Kept
<1>8. LET c == Settled(b, FALSE) IN Fine(c) /\ Kept(b, c) /\ ~c.requestPending
  BY <1>3, <1>5, RestoreIsFine DEF KeptWaiting, Kept
<1> QED BY <1>3, <1>4, <1>6, <1>7, <1>8

\* The question that is answered is kept as it was asked (submitFacing).
LEMMA AnsweredIsFine ==
  ASSUME NEW b, Fine(b), MayAnswer(b)
  PROVE  Fine(Answered(b)) /\ KeptWaiting(b, Answered(b))
<1> DEFINE a == [kind |-> "facing", interaction |-> b.interaction, previous |-> b.directionReturn]
           c == Answered(b)
<1>1. /\ b \in Boards /\ Current(b.interaction, b.shown) /\ Current(b.directionReturn, b.shown)
      /\ b.interaction \in Choices /\ b.directionReturn \in Choices
      /\ b.interaction.kind = "direction"
  BY FineFields, BoardFields DEF MayAnswer
<1>2. a \in Answers /\ Asked(a, b.shown)
  BY <1>1 DEF Answers, Asked
<1>3. c = [b EXCEPT !.pendingFacing = a]
  BY DEF Answered
<1> HIDE DEF a, c
<1>4. c \in Boards
  BY <1>1, <1>2, <1>3 DEF Boards
<1>5. /\ KeptWaiting(b, c) /\ c.pendingFacing = a
      /\ c.interaction = b.interaction /\ c.directionReturn = b.directionReturn
  BY <1>1, <1>3 DEF Boards, KeptWaiting, Kept
<1>6. Fine(c)
  BY <1>1, <1>2, <1>4, <1>5, StaysFine DEF KeptWaiting
<1> QED BY <1>5, <1>6 DEF c

\* A lost connection gives the question back (setConnectionStatus).
LEMMA ConnectionIsFine ==
  ASSUME NEW b, Fine(b)
  PROVE  LET c == SetConnectionStatus(b, "reconnecting")
         IN Fine(c) /\ Kept(b, c) /\ c.requestPending = b.requestPending
<1> DEFINE t == [b EXCEPT !.connection = "reconnecting"]
<1>1. b \in Boards
  BY FineFields
<1>2. t \in Boards
  BY <1>1 DEF Boards, Statuses
<1>3. SetConnectionStatus(b, "reconnecting") = RestoreDirection(t)
  BY DEF SetConnectionStatus, ReportError
<1>4. /\ Kept(b, t) /\ t.pendingFacing = b.pendingFacing
      /\ t.interaction = b.interaction /\ t.directionReturn = b.directionReturn
      /\ t.requestPending = b.requestPending
  BY <1>1 DEF Boards, Kept
<1> HIDE DEF t
<1>5. Fine(t)
  BY <1>2, <1>4, WaitingIsFree
<1> QED BY <1>3, <1>4, <1>5, RestoreIsFine DEF KeptWaiting, Kept

\* A board that keeps what it shows and what waits stays in its place.
LEMMA StaysInPlace ==
  ASSUME NEW b, NEW n, InPlace(b, n), NEW c, Fine(c), Kept(b, c)
  PROVE  InPlace(c, n) /\ c.id = b.id
BY DEF InPlace, WaitsInLine, Kept

\* A new board is in its place.
LEMMA NewBoardIsInPlace ==
  ASSUME NEW id \in Nat \ {0}, NEW u \in Updates, NEW s \in Statuses, NEW c,
         c = NewBoard(id, u, s)
  PROVE  InPlace(c, u.id) /\ ~c.requestPending
<1>1. u.id \in Nat \ {0} /\ u.at \in Situations
  BY DEF Updates
<1>2. StateOf(u) \in [id : Nat \ {0}, at : Situations] /\ StateOf(u).id = u.id
  BY <1>1 DEF StateOf
<1>3. <<u.id>> \in Seq(Nat) /\ <<>> \in Seq(Updates) /\ Ends(<<u.id>>, u.id)
  BY <1>1, ToldAfresh DEF Ends
<1>4. /\ c.shown = StateOf(u) /\ c.history = <<u.id>> /\ c.backlog = <<>>
      /\ c.interaction = IDLE /\ c.directionReturn = IDLE /\ c.pendingFacing = NoFacing
      /\ c.requestPending = FALSE
  BY DEF NewBoard
<1>5. c \in Boards
  BY <1>2, <1>3, IdleIsCurrent DEF Boards, NewBoard, NoState
<1>6. Fine(c)
  BY <1>2, <1>3, <1>4, <1>5, IdleIsCurrent DEF Fine, ChosenInTime, ToldSoFar
<1>7. Len(c.backlog) = 0 /\ DOMAIN c.backlog = {}
  BY <1>4
<1> QED BY <1>1, <1>2, <1>4, <1>6, <1>7, PlaybackAssumption DEF InPlace, WaitsInLine

-----------------------------------------------------------------------------
(* Every action of the application keeps the invariant *)

\* A tab that opens, with a stored credential or without.
LEMMA ScreensInitially == ASSUME ScreensInit PROVE ScreensInv
<1>1. EntryInv
  <2>1. /\ view \in Views /\ destination = "landing" /\ account \in BOOLEAN
        /\ auth = "checking" /\ bundle = "unasked"
        /\ request = NoRequest /\ snapshot = NoSnapshot
    BY DEF ScreensInit, Views
  <2>2. client \in BOOLEAN /\ busy \in BOOLEAN /\ (busy <=> client) /\ status \in Statuses
    <3>1. PICK stored \in BOOLEAN :
            /\ client = stored /\ busy = stored
            /\ status = IF stored THEN "connecting" ELSE "none"
      BY DEF ScreensInit
    <3>2. CASE stored
      BY <3>1, <3>2 DEF Statuses
    <3>3. CASE ~stored
      BY <3>1, <3>3 DEF Statuses
    <3> QED BY <3>2, <3>3
  <2> QED BY <2>1, <2>2 DEF EntryInv, EntryTypes, EntryLockIsOwned
<1>2. SnapshotInv
  BY ScreensAssumption DEF ScreensInit, SnapshotInv, NothingSent
<1>3. AwaitingInv
  BY DEF ScreensInit, AwaitingInv, NoSnapshot
<1>4. BoardInv
  BY DEF ScreensInit, BoardInv, NoSnapshot
<1> QED BY <1>1, <1>2, <1>3, <1>4 DEF ScreensInv

\* Without a session nothing of one is left.
LEMMA NothingIsLeft ==
  ASSUME ScreensInv, ~client
  PROVE  snapshot = NoSnapshot /\ snapshot.kind = "none" /\ battle = NoBoard
<1>1. snapshot = NoSnapshot
  BY DEF ScreensInv, SnapshotInv
<1>2. snapshot.kind = "none"
  BY <1>1 DEF NoSnapshot
<1> QED BY <1>1, <1>2 DEF ScreensInv, BoardInv

\* A board is that of the newest snapshot, which is a combat.
LEMMA BoardIsThere ==
  ASSUME ScreensInv, battle # NoBoard
  PROVE  /\ InPlace(battle, snapshot.id) /\ Fine(battle) /\ WaitsInLine(battle)
         /\ bundle = "loaded" /\ snapshot.kind = "combat" /\ client
         /\ snapshot # NoSnapshot /\ snapshot.id = delivered
         /\ battle.requestPending => outstanding.board = battle.id
<1>1. snapshot.kind = "combat"
  BY DEF ScreensInv, BoardInv
<1>2. snapshot # NoSnapshot
  BY <1>1 DEF NoSnapshot
<1> QED BY <1>1, <1>2 DEF ScreensInv, BoardInv, SnapshotInv, InPlace

\* What a session shows is nobody else's business.
LEMMA ShowStays ==
  ASSUME ScreensInv, UNCHANGED <<client, outstanding, screenVars>>
  PROVE  SnapshotInv' /\ AwaitingInv' /\ BoardInv'
BY DEF ScreensInv, SnapshotInv, AwaitingInv, BoardInv, screenVars

\* Nothing at the entry touches what a session shows, and a request there holds
\* the entry until it is answered or becomes a session.
LEMMA EntryKeeps ==
  ASSUME ScreensInv, EntryStep
  PROVE  ScreensInv'
<1> USE DEF clientVars, EntryInv, EntryTypes, EntryLockIsOwned, Views, NoRequest,
            BeginEntry, FinishEntry
<1>1. /\ EntryInv
      /\ request # NoRequest => ~client
      /\ ~client => snapshot = NoSnapshot
  BY NothingIsLeft DEF ScreensInv
<1>2. ASSUME UNCHANGED <<client, outstanding, screenVars>>, EntryInv'
      PROVE  ScreensInv'
  BY <1>2, ShowStays DEF ScreensInv
<1>3. ASSUME NEW to \in {"landing", "login"} \union {Screen(kind) : kind \in Kinds}, Navigate(to)
      PROVE  ScreensInv'
  <2>1. to \in Views
    BY ScreensAssumption DEF Screen
  <2>2. view' \in Views /\ destination' \in {"landing", "new-adventure", "campaigns"}
    BY <1>1, <1>3, <2>1 DEF Navigate
  <2>3. EntryInv'
    BY <1>1, <1>3, <2>2 DEF Navigate, screenVars
  <2> QED BY <1>2, <1>3, <2>3 DEF Navigate
<1>4. CASE ShowCampaigns
  <2>1. EntryInv'
    <3>1. /\ ~client /\ ~busy /\ view' \in Views
          /\ destination' \in {"landing", "new-adventure", "campaigns"}
          /\ UNCHANGED <<auth, account, client, status, bundle, snapshot>>
      BY <1>1, <1>4 DEF ShowCampaigns, screenVars
    <3>2. CASE busy' = TRUE /\ request' = "list"
      BY <1>1, <3>1, <3>2
    <3>3. CASE UNCHANGED <<busy, request>>
      BY <1>1, <3>1, <3>3
    <3> QED BY <1>4, <3>2, <3>3 DEF ShowCampaigns
  <2> QED BY <1>2, <1>4, <2>1 DEF ShowCampaigns
<1>5. ASSUME NEW kind \in Kinds, Ask(kind)
      PROVE  ScreensInv'
  <2>1. kind \in {"login", "logout", "create", "delete", "continue", "join"}
    BY ScreensAssumption
  <2>2. EntryInv'
    BY <1>1, <1>5, <2>1 DEF Ask, screenVars
  <2> QED BY <1>2, <1>5, <2>2 DEF Ask
<1>6. CASE Authenticated
  <2>1. EntryInv'
    BY <1>1, <1>6 DEF Authenticated, screenVars
  <2> QED BY <1>2, <1>6, <2>1 DEF Authenticated
<1>7. CASE SignedOut
  <2>1. EntryInv'
    BY <1>1, <1>7 DEF SignedOut, screenVars
  <2> QED BY <1>2, <1>7, <2>1 DEF SignedOut
<1>8. CASE CampaignsAnswered
  <2>1. EntryInv'
    BY <1>1, <1>8 DEF CampaignsAnswered, screenVars
  <2> QED BY <1>2, <1>8, <2>1 DEF CampaignsAnswered
<1>9. CASE Credentialed
  <2>1. /\ request # NoRequest /\ client' = TRUE /\ status' = "connecting"
        /\ outstanding' = NothingSent /\ request' = NoRequest
        /\ UNCHANGED <<view, busy, destination, auth, account, screenVars>>
    BY <1>9 DEF Credentialed, Attach
  <2>2. /\ snapshot = NoSnapshot /\ snapshot.kind = "none" /\ battle = NoBoard /\ busy
    BY <1>1, <2>1, NothingIsLeft
  <2>3. EntryInv'
    BY <1>1, <2>1, <2>2 DEF Statuses, screenVars
  <2>4. SnapshotInv'
    BY <2>1, <2>2 DEF ScreensInv, SnapshotInv, screenVars, NothingSent
  <2>5. AwaitingInv'
    BY <2>1 DEF ScreensInv, AwaitingInv, screenVars
  <2>6. BoardInv'
    BY <2>1, <2>2 DEF BoardInv, screenVars
  <2> QED BY <2>3, <2>4, <2>5, <2>6 DEF ScreensInv
<1>10. CASE RequestFailed
  <2>1. EntryInv'
    BY <1>1, <1>10 DEF RequestFailed, screenVars
  <2> QED BY <1>2, <1>10, <2>1 DEF RequestFailed
<1>11. CASE Expired
  <2>1. EntryInv'
    BY <1>1, <1>11 DEF Expired, screenVars
  <2> QED BY <1>2, <1>11, <2>1 DEF Expired
<1>12. CASE RetryAuth
  <2>1. EntryInv'
    BY <1>1, <1>12 DEF RetryAuth, screenVars
  <2> QED BY <1>2, <1>12, <2>1 DEF RetryAuth
<1>13. CASE AccountRestored
  <2>1. EntryInv'
    BY <1>1, <1>13 DEF AccountRestored, screenVars
  <2> QED BY <1>2, <1>13, <2>1 DEF AccountRestored
<1> QED
  BY <1>3, <1>4, <1>5, <1>6, <1>7, <1>8, <1>9, <1>10, <1>11, <1>12, <1>13, EntryStep DEF EntryStep

\* A step of the session that shows nothing new and keeps the entry's lock.
LEMMA BoardStepKeeps ==
  ASSUME ScreensInv, status' \in Statuses, outstanding' \in [board : Nat],
         UNCHANGED <<entryVars, client, snapshot, bundle, awaiting, delivered, boards>>,
         battle # NoBoard =>
           /\ Fine(battle') /\ Kept(battle, battle')
           /\ battle'.requestPending => outstanding'.board = battle.id,
         battle = NoBoard => battle' = NoBoard
  PROVE  ScreensInv'
<1>1. EntryInv'
  BY DEF ScreensInv, EntryInv, EntryTypes, EntryLockIsOwned, entryVars
<1>2. SnapshotInv' /\ AwaitingInv'
  BY DEF ScreensInv, SnapshotInv, AwaitingInv
<1>3. BoardInv'
  <2>1. CASE battle = NoBoard
    BY <2>1 DEF ScreensInv, BoardInv
  <2>2. CASE battle # NoBoard
    <3> DEFINE c == battle'
    <3>1. Fine(c) /\ Kept(battle, c) /\ (c.requestPending => outstanding'.board = battle.id)
      BY <2>2
    <3>2. /\ InPlace(battle, snapshot.id) /\ bundle = "loaded" /\ snapshot.kind = "combat"
      BY <2>2, BoardIsThere
    <3>3. InPlace(c, snapshot.id) /\ c.id = battle.id
      <4> HIDE DEF c
      <4> QED BY <3>1, <3>2, StaysInPlace
    <3>4. c # NoBoard
      BY <3>1, FineFields, BoardFields
    <3>5. /\ snapshot' = snapshot /\ bundle' = bundle
      OBVIOUS
    <3> HIDE DEF c
    <3>6. /\ c # NoBoard /\ Fine(c) /\ WaitsInLine(c)
          /\ bundle' = "loaded" /\ snapshot'.kind = "combat"
          /\ c.shown.id + Len(c.backlog) = snapshot'.id
          /\ c.requestPending => outstanding'.board = c.id
      BY <3>1, <3>2, <3>3, <3>4, <3>5 DEF InPlace
    <3> QED BY <3>6 DEF BoardInv, c, Fine, WaitsInLine
  <2> QED BY <2>1, <2>2
<1> QED BY <1>1, <1>2, <1>3 DEF ScreensInv

\* The socket opens or breaks.
LEMMA ConnectionKeeps ==
  ASSUME ScreensInv, SocketOpens \/ ConnectionLost
  PROVE  ScreensInv'
<1> USE DEF entryVars, clientVars, screenVars
<1>1. /\ status' \in Statuses /\ outstanding' \in [board : Nat] /\ outstanding' = outstanding
      /\ UNCHANGED <<entryVars, client, snapshot, bundle, awaiting, delivered, boards>>
  BY DEF SocketOpens, ConnectionLost, ScreensInv, EntryInv, EntryTypes, SnapshotInv, Statuses
<1>2. \/ battle' = battle
      \/ /\ battle # NoBoard => battle' = SetConnectionStatus(battle, "reconnecting")
         /\ battle = NoBoard => battle' = NoBoard
  BY DEF SocketOpens, ConnectionLost, OnBoard
<1>3. ASSUME battle # NoBoard
      PROVE  /\ Fine(battle') /\ Kept(battle, battle')
             /\ battle'.requestPending => outstanding'.board = battle.id
  <2>1. Fine(battle) /\ (battle.requestPending => outstanding.board = battle.id)
    BY <1>3, BoardIsThere
  <2> QED BY <1>1, <1>2, <1>3, <2>1, ConnectionIsFine DEF Kept
<1>4. battle = NoBoard => battle' = NoBoard
  BY <1>2
<1> QED BY <1>1, <1>3, <1>4, BoardStepKeeps

\* A refusal or an error settles at most the board's own request.
LEMMA RejectedKeeps ==
  ASSUME ScreensInv, NEW settles \in BOOLEAN, Rejected(settles)
  PROVE  ScreensInv'
<1> USE DEF entryVars, clientVars, screenVars
<1>1. /\ status' \in Statuses /\ outstanding' \in [board : Nat]
      /\ ~settles => outstanding' = outstanding
      /\ UNCHANGED <<entryVars, client, snapshot, bundle, awaiting, delivered, boards>>
  BY DEF Rejected, ScreensInv, EntryInv, EntryTypes, SnapshotInv, NothingSent
<1>2. /\ battle = NoBoard => battle' = NoBoard
      /\ battle # NoBoard => battle' = RestoreDirection(
           IF settles /\ outstanding.board = battle.id THEN Settled(battle, FALSE) ELSE battle)
  BY DEF Rejected, OnBoard, ReportError
<1>3. ASSUME battle # NoBoard
      PROVE  /\ Fine(battle') /\ Kept(battle, battle')
             /\ battle'.requestPending => outstanding'.board = battle.id
  <2> DEFINE c == IF settles /\ outstanding.board = battle.id
                    THEN Settled(battle, FALSE) ELSE battle
  <2>1. Fine(battle) /\ (battle.requestPending => outstanding.board = battle.id)
    BY <1>3, BoardIsThere
  <2>2. /\ Fine(c) /\ Kept(battle, c)
        /\ c.requestPending => ~settles /\ outstanding.board = battle.id
    <3>1. CASE settles /\ outstanding.board = battle.id
      BY <2>1, <3>1, RequestsAreFine
    <3>2. CASE ~(settles /\ outstanding.board = battle.id)
      BY <2>1, <3>2 DEF Kept
    <3> QED BY <3>1, <3>2
  <2>3. battle' = RestoreDirection(c)
    BY <1>2, <1>3
  <2> HIDE DEF c
  <2>4. Fine(battle') /\ KeptWaiting(c, battle')
    BY <2>2, <2>3, RestoreIsFine
  <2> QED BY <1>1, <2>2, <2>4 DEF KeptWaiting, Kept
<1> QED BY <1>1, <1>2, <1>3, BoardStepKeeps

\* The way back to the landing page leaves nothing of the session.
LEMMA LeavingKeeps ==
  ASSUME ScreensInv, ReturnToLanding
  PROVE  ScreensInv'
<1>1. EntryInv'
  BY DEF ScreensInv, EntryInv, EntryTypes, EntryLockIsOwned, ReturnToLanding, FinishEntry,
         Views, Statuses, NoRequest
<1>2. SnapshotInv'
  BY DEF ScreensInv, SnapshotInv, ReturnToLanding, NothingSent
<1>3. AwaitingInv'
  <2>1. snapshot'.id = 0 /\ snapshot'.kind = "none" /\ UNCHANGED <<awaiting, delivered, bundle>>
    BY DEF ReturnToLanding, NoSnapshot, NoState
  <2>2. \A update \in awaiting : update.id # 0
    BY DEF ScreensInv, AwaitingInv, Updates
  <2> QED BY <2>1, <2>2 DEF ScreensInv, AwaitingInv
<1>4. BoardInv'
  BY DEF BoardInv, ReturnToLanding, NoSnapshot
<1> QED BY <1>1, <1>2, <1>3, <1>4 DEF ScreensInv

\* Whatever the player touches.
LEMMA TouchKeeps ==
  ASSUME ScreensInv, Touch
  PROVE  ScreensInv'
<1> USE DEF entryVars, clientVars
<1>1. /\ status' \in Statuses /\ outstanding' \in [board : Nat] /\ outstanding' = outstanding
      /\ UNCHANGED <<entryVars, client, snapshot, bundle, awaiting, delivered, boards>>
  BY DEF Touch, ScreensInv, EntryInv, EntryTypes, SnapshotInv
<1>2. battle # NoBoard /\ battle' \in Touched(battle)
  BY DEF Touch
<1>3. /\ Fine(battle') /\ KeptWaiting(battle, battle')
      /\ battle.requestPending => outstanding.board = battle.id
  BY <1>2, BoardIsThere, TouchedIsFine
<1> QED BY <1>1, <1>2, <1>3, BoardStepKeeps DEF KeptWaiting

\* A request that the client takes waits for its verdict; one it refuses does not.
LEMMA SendKeeps ==
  ASSUME ScreensInv, Send \/ AnswerDirection
  PROVE  ScreensInv'
<1> USE DEF entryVars, clientVars
<1>1. /\ status' \in Statuses
      /\ UNCHANGED <<entryVars, client, snapshot, bundle, awaiting, delivered, boards>>
      /\ battle # NoBoard
  BY DEF Send, AnswerDirection, ScreensInv, EntryInv, EntryTypes
<1>2. /\ Fine(battle) /\ (battle.requestPending => outstanding.board = battle.id)
      /\ battle.id \in Nat /\ outstanding \in [board : Nat]
  BY <1>1, BoardIsThere, FineFields, BoardFields DEF ScreensInv, SnapshotInv
<1>3. outstanding' \in [board : Nat]
  BY <1>2 DEF Send, AnswerDirection
<1>4. CASE Send
  <2>1. CASE ClientTakes
    <3>1. battle' = Sent(battle) /\ outstanding'.board = battle.id
      BY <1>4, <2>1 DEF Send
    <3> QED BY <1>1, <1>2, <1>3, <3>1, RequestsAreFine, BoardStepKeeps
  <2>2. CASE ~ClientTakes
    <3>1. battle' = Refused(battle)
      BY <1>4, <2>2 DEF Send
    <3> QED BY <1>1, <1>2, <1>3, <3>1, RequestsAreFine, BoardStepKeeps
  <2> QED BY <2>1, <2>2
<1>5. CASE AnswerDirection
  <2> DEFINE a == Answered(battle)
  <2>1. Fine(a) /\ KeptWaiting(battle, a)
    BY <1>2, <1>5, AnsweredIsFine DEF AnswerDirection
  <2>2. CASE ~Blocked(battle) /\ ClientTakes
    <3>1. battle' = Sent(a) /\ outstanding'.board = battle.id
      BY <1>5, <2>2 DEF AnswerDirection
    <3> HIDE DEF a
    <3>2. Fine(battle') /\ Kept(battle, battle')
      BY <2>1, <3>1, RequestsAreFine DEF KeptWaiting, Kept
    <3> QED BY <1>1, <1>3, <3>1, <3>2, BoardStepKeeps
  <2>3. CASE ~(~Blocked(battle) /\ ClientTakes)
    <3> DEFINE r == IF Blocked(battle) THEN a ELSE Refused(a)
    <3>1. battle' = RestoreDirection(r) /\ outstanding' = outstanding
      BY <1>5, <2>3 DEF AnswerDirection
    <3>2. /\ Fine(r) /\ Kept(battle, r)
          /\ r.requestPending => outstanding.board = battle.id
      <4> HIDE DEF a
      <4>1. CASE Blocked(battle)
        BY <1>2, <2>1, <4>1 DEF KeptWaiting
      <4>2. CASE ~Blocked(battle)
        BY <2>1, <4>2, RequestsAreFine DEF KeptWaiting, Kept
      <4> QED BY <4>1, <4>2
    <3> HIDE DEF r
    <3>3. Fine(battle') /\ KeptWaiting(r, battle')
      BY <3>1, <3>2, RestoreIsFine
    <3>4. Kept(battle, battle') /\ (battle'.requestPending => outstanding'.board = battle.id)
      BY <3>1, <3>2, <3>3 DEF KeptWaiting, Kept
    <3> QED BY <1>1, <1>3, <3>3, <3>4, BoardStepKeeps
  <2> QED BY <2>2, <2>3
<1> QED BY <1>4, <1>5

\* A walk ends and what waited behind it is shown.
LEMMA WalkKeeps ==
  ASSUME ScreensInv, WalkSettles
  PROVE  ScreensInv'
<1> USE DEF entryVars, clientVars
<1> DEFINE c == WalkEnds(battle)
<1>1. /\ battle # NoBoard /\ battle' = c
      /\ UNCHANGED <<entryVars, clientVars, snapshot, bundle, awaiting, delivered, boards>>
  BY DEF WalkSettles
<1>2. /\ InPlace(battle, snapshot.id) /\ bundle = "loaded" /\ snapshot.kind = "combat"
      /\ Fine(battle) /\ WaitsInLine(battle)
      /\ battle.requestPending => outstanding.board = battle.id
  BY <1>1, BoardIsThere
<1>3. InPlace(c, snapshot.id) /\ SameBoard(battle, c)
  BY <1>2, WalkEndsInPlace DEF InPlace
<1> HIDE DEF c
<1>4. EntryInv'
  BY <1>1 DEF ScreensInv, EntryInv, EntryTypes, EntryLockIsOwned
<1>5. SnapshotInv' /\ AwaitingInv'
  BY <1>1 DEF ScreensInv, SnapshotInv, AwaitingInv
<1>6. /\ c # NoBoard /\ Fine(c) /\ WaitsInLine(c)
      /\ c.shown.id + Len(c.backlog) = snapshot.id
      /\ c.requestPending => outstanding.board = c.id
  BY <1>2, <1>3, FineFields, BoardFields DEF InPlace, SameBoard
<1>7. BoardInv'
  BY <1>1, <1>2, <1>6 DEF BoardInv, Fine, WaitsInLine
<1> QED BY <1>4, <1>5, <1>7 DEF ScreensInv

\* A snapshot frees the entry and is the newest, whatever it shows.
LEMMA ShowsKeeps ==
  ASSUME ScreensInv, NEW kind \in {"table", "combat"}, NEW resync, NEW settles,
         Shows(kind, resync, settles),
         bundle' \in {"unasked", "loading", "loaded"}, boards' \in 0 .. MaxBoards
  PROVE  /\ EntryInv' /\ SnapshotInv'
         /\ client' /\ snapshot'.id = delivered + 1 /\ snapshot'.kind = kind
         /\ delivered' = delivered + 1 /\ delivered \in Nat
         /\ \A update \in awaiting : update.id # snapshot'.id /\ update.id <= delivered'
<1>1. /\ client /\ client' = client /\ status' = "connected" /\ busy' = FALSE
      /\ request' = NoRequest /\ snapshot' = [id |-> delivered + 1, kind |-> kind]
      /\ delivered < MaxSnapshots /\ delivered' = delivered + 1
      /\ outstanding' \in {NothingSent, outstanding}
      /\ UNCHANGED <<view, auth, destination, account>>
  BY DEF Shows, FinishEntry
<1>2. delivered \in Nat /\ MaxSnapshots \in Nat /\ delivered + 1 \in Nat /\ delivered + 1 # 0
  BY ScreensAssumption DEF ScreensInv, SnapshotInv
<1>3. snapshot' # NoSnapshot /\ snapshot'.id = delivered + 1 /\ snapshot'.kind = kind
  BY <1>1, <1>2 DEF NoSnapshot, NoState
<1>4. EntryInv'
  BY <1>1, <1>3 DEF ScreensInv, EntryInv, EntryTypes, EntryLockIsOwned, Statuses, NoRequest
<1>5. SnapshotInv'
  BY <1>1, <1>2 DEF ScreensInv, SnapshotInv, NothingSent
<1>6. ASSUME NEW update \in awaiting
      PROVE  update.id # snapshot'.id /\ update.id <= delivered'
  <2>1. update.id \in Nat /\ update.id <= delivered
    BY DEF ScreensInv, AwaitingInv, Updates
  <2> QED BY <1>1, <1>2, <1>3, <2>1
<1> QED BY <1>1, <1>2, <1>3, <1>4, <1>5, <1>6

\* A lobby or an adventure arrives and takes the board away.
LEMMA TableKeeps ==
  ASSUME ScreensInv, NEW resync, NEW settles, TableArrives(resync, settles)
  PROVE  ScreensInv'
<1>1. /\ Shows("table", resync, settles) /\ battle' = NoBoard
      /\ UNCHANGED <<bundle, awaiting, boards>>
  BY DEF TableArrives
<1>2. bundle' \in {"unasked", "loading", "loaded"} /\ boards' \in 0 .. MaxBoards
  BY <1>1 DEF ScreensInv, EntryInv, EntryTypes, SnapshotInv
<1>3. /\ EntryInv' /\ SnapshotInv' /\ snapshot'.kind = "table"
      /\ \A update \in awaiting : update.id # snapshot'.id /\ update.id <= delivered'
  BY <1>1, <1>2, ShowsKeeps
<1>4. AwaitingInv'
  BY <1>1, <1>3 DEF ScreensInv, AwaitingInv
<1>5. BoardInv'
  BY <1>1, <1>3 DEF BoardInv
<1> QED BY <1>3, <1>4, <1>5 DEF ScreensInv

\* The board as it is when the rendering goes on: the request that is settled
\* no longer blocks it, and another one is not settled by it.
LEMMA VerdictIsFine ==
  ASSUME ScreensInv, battle # NoBoard, NEW settles \in BOOLEAN, NEW told,
         told = AfterVerdict(OnBoard(LAMBDA b : [b EXCEPT !.connection = "connected"]), settles)
  PROVE  /\ Fine(told) /\ Kept(battle, told)
         /\ told.requestPending => outstanding.board = battle.id /\ ~settles
<1> DEFINE t == [battle EXCEPT !.connection = "connected"]
<1>1. /\ Fine(battle) /\ battle \in Boards
      /\ battle.requestPending => outstanding.board = battle.id
  BY BoardIsThere, FineFields
<1>2. t \in Boards
  BY <1>1 DEF Boards, Statuses
<1>3. /\ Kept(battle, t) /\ t.pendingFacing = battle.pendingFacing
      /\ t.interaction = battle.interaction /\ t.directionReturn = battle.directionReturn
      /\ t.requestPending = battle.requestPending /\ t.id = battle.id
  BY <1>1 DEF Boards, Kept
<1>4. told = IF settles /\ t # NoBoard /\ outstanding.board = t.id THEN Settled(t, TRUE) ELSE t
  BY DEF AfterVerdict, OnBoard
<1> HIDE DEF t
<1>5. Fine(t) /\ t # NoBoard
  BY <1>1, <1>2, <1>3, WaitingIsFree, BoardFields
<1>6. CASE settles /\ outstanding.board = battle.id
  <2>1. told = Settled(t, TRUE)
    BY <1>3, <1>4, <1>5, <1>6
  <2>2. Fine(told) /\ Kept(t, told) /\ ~told.requestPending
    BY <1>5, <2>1, RequestsAreFine
  <2> QED BY <1>3, <2>2 DEF Kept
<1>7. CASE ~(settles /\ outstanding.board = battle.id)
  <2>1. told = t
    BY <1>3, <1>4, <1>7
  <2> QED BY <1>1, <1>3, <1>5, <1>7, <2>1
<1> QED BY <1>6, <1>7

\* A combat arrives: it awaits the assets, or its board shows it or keeps it waiting.
LEMMA CombatKeeps ==
  ASSUME ScreensInv, NEW situation \in Situations, NEW newTurn \in BOOLEAN,
         NEW walks \in BOOLEAN, NEW resync \in BOOLEAN, NEW settles \in BOOLEAN,
         CombatArrives(situation, newTurn, walks, resync, settles)
  PROVE  ScreensInv'
<1> DEFINE u == PacedUpdate(delivered + 1, newTurn, situation, walks, resync)
           told == AfterVerdict(OnBoard(LAMBDA b : [b EXCEPT !.connection = "connected"]), settles)
           now == [told EXCEPT !.connection = "connected"]
<1>1. /\ Shows("combat", resync, settles)
      /\ \/ /\ bundle = "loaded"
            /\ boards < MaxBoards \/ battle # NoBoard
            /\ battle' = RenderCombat(told, u, "connected")
            /\ boards' = IF battle = NoBoard THEN boards + 1 ELSE boards
            /\ UNCHANGED <<bundle, awaiting>>
         \/ /\ bundle # "loaded"
            /\ bundle' = "loading"
            /\ awaiting' = awaiting \union {u}
            /\ battle' = told
            /\ UNCHANGED boards
  BY DEF CombatArrives
<1>2. /\ bundle' \in {"unasked", "loading", "loaded"} /\ boards' \in 0 .. MaxBoards
      /\ boards \in Nat
  BY <1>1, ScreensAssumption DEF ScreensInv, EntryInv, EntryTypes, SnapshotInv
<1>3. /\ EntryInv' /\ SnapshotInv' /\ snapshot'.id = delivered + 1 /\ snapshot'.kind = "combat"
      /\ delivered' = delivered + 1 /\ delivered \in Nat
      /\ \A update \in awaiting : update.id # snapshot'.id /\ update.id <= delivered'
  BY <1>1, <1>2, ShowsKeeps
<1>4. u \in Updates /\ u.id = delivered + 1 /\ u.resync = resync
  BY <1>3 DEF Updates, PacedUpdate
<1>5. outstanding' = IF settles THEN NothingSent ELSE outstanding
  BY <1>1 DEF Shows
<1>6. battle = NoBoard => told = NoBoard
  BY DEF AfterVerdict, OnBoard
<1>7. battle # NoBoard =>
        /\ Fine(told) /\ Kept(battle, told)
        /\ told.requestPending => outstanding.board = battle.id /\ ~settles
  BY VerdictIsFine
<1> HIDE DEF u, told
<1>8. CASE bundle # "loaded"
  <2>1. battle = NoBoard
    BY <1>8, BoardIsThere
  <2>2. /\ battle' = NoBoard /\ bundle' = "loading" /\ awaiting' = awaiting \union {u}
    BY <1>1, <1>6, <1>8, <2>1
  <2>3. AwaitingInv'
    BY <1>3, <1>4, <2>2 DEF ScreensInv, AwaitingInv
  <2>4. BoardInv'
    BY <2>2 DEF BoardInv
  <2> QED BY <1>3, <2>3, <2>4 DEF ScreensInv
<1>9. CASE bundle = "loaded"
  <2>1. battle' = RenderCombat(told, u, "connected") /\ UNCHANGED <<bundle, awaiting>>
    BY <1>1, <1>9
  <2>2. AwaitingInv'
    BY <1>3, <1>9, <2>1 DEF ScreensInv, AwaitingInv
  <2>3. ASSUME NEW c, c = battle', InPlace(c, u.id),
               c.requestPending => outstanding'.board = c.id
        PROVE  ScreensInv'
    <3>1. c # NoBoard /\ Fine(c) /\ WaitsInLine(c) /\ c.shown.id + Len(c.backlog) = u.id
      BY <2>3, FineFields, BoardFields DEF InPlace
    <3>2. /\ c # NoBoard /\ Fine(c) /\ WaitsInLine(c)
          /\ bundle' = "loaded" /\ snapshot'.kind = "combat"
          /\ c.shown.id + Len(c.backlog) = snapshot'.id
          /\ c.requestPending => outstanding'.board = c.id
      BY <1>3, <1>4, <1>9, <2>1, <2>3, <3>1
    <3>3. BoardInv'
      BY <2>3, <3>2 DEF BoardInv, Fine, WaitsInLine
    <3> QED BY <1>3, <2>2, <3>3 DEF ScreensInv
  <2>4. CASE battle = NoBoard
    <3>1. battle' = NewBoard(boards + 1, u, "connected")
      BY <1>6, <2>1, <2>4 DEF RenderCombat
    <3>2. InPlace(battle', u.id) /\ ~battle'.requestPending
      <4>1. boards + 1 \in Nat \ {0} /\ "connected" \in Statuses
        BY <1>2 DEF Statuses
      <4> QED BY <1>4, <3>1, <4>1, NewBoardIsInPlace
    <3> QED BY <2>3, <3>2
  <2>5. CASE battle # NoBoard
    <3>1. /\ Fine(told) /\ Kept(battle, told) /\ told \in Boards
          /\ told.requestPending => outstanding.board = battle.id /\ ~settles
      BY <1>7, <2>5, FineFields
    <3>2. InPlace(told, snapshot.id) /\ told.id = battle.id /\ snapshot.id = delivered
      BY <2>5, <3>1, BoardIsThere, StaysInPlace
    <3>3. now \in Boards
      BY <3>1 DEF Boards, Statuses
    <3>4. /\ Kept(told, now) /\ now.pendingFacing = told.pendingFacing
          /\ now.interaction = told.interaction /\ now.directionReturn = told.directionReturn
          /\ now.requestPending = told.requestPending
      BY <3>1 DEF Boards, Kept
    <3>5. battle' = Update(now, u)
      BY <2>1, <3>1, BoardFields DEF RenderCombat
    <3> HIDE DEF now
    <3>6. Fine(now)
      BY <3>1, <3>3, <3>4, WaitingIsFree
    <3>7. InPlace(now, delivered) /\ now.id = battle.id
      BY <3>2, <3>4, <3>6, StaysInPlace
    <3>8. u.id = now.shown.id + Len(now.backlog) + 1
      BY <1>4, <3>7 DEF InPlace
    <3>9. InPlace(battle', u.id) /\ SameBoard(now, battle')
      BY <1>4, <3>5, <3>7, <3>8, UpdateIsInPlace DEF InPlace
    <3>10. battle'.requestPending => outstanding'.board = battle'.id
      BY <1>5, <3>1, <3>4, <3>7, <3>9 DEF SameBoard
    <3> QED BY <2>3, <3>9, <3>10
  <2> QED BY <2>4, <2>5
<1> QED BY <1>8, <1>9

\* The rendering of the newest snapshot is the only one that goes on.
LEMMA BundleKeeps ==
  ASSUME ScreensInv, BundleLoaded
  PROVE  ScreensInv'
<1> USE DEF entryVars, clientVars
<1> DEFINE wanted == {update \in awaiting : StillWanted(update)}
<1>1. /\ bundle = "loading" /\ bundle' = "loaded" /\ awaiting' = {}
      /\ UNCHANGED <<entryVars, clientVars, snapshot, delivered>>
      /\ \/ wanted = {} /\ UNCHANGED <<battle, boards>>
         \/ /\ boards < MaxBoards
            /\ \E update \in wanted :
                 /\ battle' = RenderCombat(battle, update, status)
                 /\ boards' = IF battle = NoBoard THEN boards + 1 ELSE boards
  BY DEF BundleLoaded
<1>2. battle = NoBoard
  BY <1>1, BoardIsThere
<1>3. boards \in 0 .. MaxBoards /\ MaxBoards \in Nat /\ status \in Statuses
  BY ScreensAssumption DEF ScreensInv, SnapshotInv, EntryInv, EntryTypes
<1>4. EntryInv'
  BY <1>1 DEF ScreensInv, EntryInv, EntryTypes, EntryLockIsOwned
<1>5. SnapshotInv'
  BY <1>1, <1>2, <1>3 DEF ScreensInv, SnapshotInv
<1>6. AwaitingInv'
  BY <1>1 DEF AwaitingInv
<1>7. BoardInv'
  <2>1. CASE wanted = {} /\ UNCHANGED <<battle, boards>>
    <3>1. snapshot.kind # "combat"
      BY <1>1, <2>1 DEF ScreensInv, AwaitingInv, StillWanted
    <3> QED BY <1>1, <1>2, <2>1, <3>1 DEF BoardInv
  <2>2. ASSUME NEW update \in wanted, battle' = RenderCombat(battle, update, status)
        PROVE  BoardInv'
    <3>1. update \in Updates /\ update.id = snapshot.id /\ snapshot.kind = "combat"
      BY <2>2 DEF ScreensInv, AwaitingInv, StillWanted
    <3> DEFINE c == NewBoard(boards + 1, update, status)
    <3>2. battle' = c
      BY <1>2, <2>2 DEF RenderCombat
    <3>3. InPlace(c, snapshot.id) /\ ~c.requestPending
      <4>1. boards + 1 \in Nat \ {0}
        BY <1>3
      <4> QED BY <1>3, <3>1, <4>1, NewBoardIsInPlace
    <3> HIDE DEF c
    <3>4. c # NoBoard /\ Fine(c) /\ WaitsInLine(c) /\ c.shown.id + Len(c.backlog) = snapshot.id
      BY <3>3, FineFields, BoardFields DEF InPlace
    <3> QED BY <1>1, <3>1, <3>2, <3>3, <3>4 DEF BoardInv, Fine, WaitsInLine
  <2> QED BY <1>1, <2>1, <2>2
<1> QED BY <1>4, <1>5, <1>6, <1>7 DEF ScreensInv

\* Nothing happens.
LEMMA ScreensStutter == ASSUME ScreensInv, UNCHANGED applicationVars PROVE ScreensInv'
<1>1. EntryInv'
  BY DEF ScreensInv, EntryInv, EntryTypes, EntryLockIsOwned, applicationVars, entryVars, clientVars, screenVars
<1>2. SnapshotInv' /\ AwaitingInv' /\ BoardInv'
  BY ShowStays DEF applicationVars, clientVars
<1> QED BY <1>1, <1>2 DEF ScreensInv

\* Every step of the application.
LEMMA ScreensStep ==
  ASSUME ScreensInv, [ScreensNext]_applicationVars
  PROVE  ScreensInv'
BY EntryKeeps, ConnectionKeeps, RejectedKeeps, LeavingKeeps, TableKeeps, CombatKeeps,
   BundleKeeps, TouchKeeps, SendKeeps, WalkKeeps, ScreensStutter DEF ScreensNext

-----------------------------------------------------------------------------
(* What the player sees *)

\* At every moment of every run what is shown, waits and is chosen fits together.
THEOREM ScreensInvariant == ScreensSpec => []ScreensInv
BY ScreensInitially, ScreensStep, PTL DEF ScreensSpec

\* What is chosen is nothing, or was chosen on the state shown.
LEMMA ChosenNow ==
  ASSUME NEW b, Fine(b)
  PROVE  /\ b.interaction.kind # "idle" => b.interaction.on = b.shown.id /\ b.shown.at.mine
         /\ b.pendingFacing # NoFacing => b.pendingFacing.interaction.on = b.shown.id
         /\ b.interaction.on \in {0, b.shown.id} /\ b.directionReturn.on \in {0, b.shown.id}
<1>1. /\ Current(b.interaction, b.shown) /\ Current(b.directionReturn, b.shown)
      /\ Asked(b.pendingFacing, b.shown)
  BY FineFields
<1>2. IDLE.kind = "idle" /\ IDLE.on = 0
  BY DEF IDLE, Interaction, NoState
<1> QED BY <1>1, <1>2 DEF Current, Asked

\* Two sequences, one behind the other.
LEMMA Behind ==
  ASSUME NEW p \in Seq(Nat), NEW q \in Seq(Nat), NEW t, t = p \o q
  PROVE  /\ Len(t) = Len(p) + Len(q) /\ Len(p) \in Nat /\ Len(q) \in Nat
         /\ \A i \in 1 .. Len(p) : t[i] = p[i]
         /\ \A i \in 1 .. Len(q) : t[Len(p) + i] = q[i]
OBVIOUS

\* What waits, by its numbers.
LEMMA Numbered ==
  ASSUME NEW q \in Seq(Updates), NEW w, w = [i \in DOMAIN q |-> q[i].id]
  PROVE  w \in Seq(Nat) /\ Len(w) = Len(q) /\ DOMAIN w = DOMAIN q
<1>1. Len(q) \in Nat /\ DOMAIN q = 1 .. Len(q) /\ \A i \in 1 .. Len(q) : q[i] \in Updates
  OBVIOUS
<1>2. \A i \in 1 .. Len(q) : q[i].id \in Nat
  BY <1>1 DEF Updates
<1>3. w = [i \in 1 .. Len(q) |-> q[i].id]
  BY <1>1
<1> QED BY <1>1, <1>2, <1>3

\* Cancelling on both sides.
LEMMA SameDistance ==
  ASSUME NEW v \in Nat, NEW k \in Nat, NEW x \in Nat, NEW m \in Nat, v + k = x + (k + m)
  PROVE  v = x + m
OBVIOUS

\* What ends with x and what goes on behind it are one story: its i-th is as far
\* from x as i from the place where x is told.
LEMMA OneStory ==
  ASSUME NEW x \in Nat, NEW h, Ends(h, x), NEW w \in Seq(Nat),
         \A i \in DOMAIN w : w[i] = x + i, NEW t, t = h \o w
  PROVE  /\ \A i \in 2 .. Len(t) : t[i] = t[i - 1] + 1
         /\ t[Len(t)] = x + Len(w)
         /\ h[Len(h)] = x
<1>1. h \in Seq(Nat) /\ h # <<>> /\ \A i \in DOMAIN h : h[i] + Len(h) = x + i
  BY DEF Ends
<1>2. PICK k \in Nat : k = Len(h) /\ k > 0 /\ DOMAIN h = 1 .. k
  BY <1>1
<1>3. PICK m \in Nat : m = Len(w) /\ DOMAIN w = 1 .. m
  OBVIOUS
<1>4. /\ Len(t) = k + m
      /\ \A i \in 1 .. k : t[i] = h[i]
      /\ \A i \in 1 .. m : t[k + i] = w[i]
  <2>1. /\ Len(t) = Len(h) + Len(w)
        /\ \A i \in 1 .. Len(h) : t[i] = h[i]
        /\ \A i \in 1 .. Len(w) : t[Len(h) + i] = w[i]
    BY <1>1, Behind
  <2> QED BY <1>2, <1>3, <2>1
<1>5. ASSUME NEW i \in 1 .. k + m PROVE t[i] \in Nat /\ t[i] + k = x + i
  <2>1. i \in Int /\ (i \in 1 .. k \/ (i - k \in 1 .. m /\ k + (i - k) = i))
    OBVIOUS
  <2>2. CASE i \in 1 .. k
    <3>1. t[i] = h[i]
      BY <1>4, <2>2
    <3>2. h[i] + k = x + i
      BY <1>1, <1>2, <2>2
    <3>3. h[i] \in Nat
      BY <1>1, <1>2, <2>2
    <3> QED BY ONLY <3>1, <3>2, <3>3
  <2>3. CASE i - k \in 1 .. m /\ k + (i - k) = i
    <3>1. t[i] = w[i - k] /\ w[i - k] = x + (i - k)
      BY <1>3, <1>4, <2>3
    <3>2. x + (i - k) \in Nat /\ (x + (i - k)) + k = x + i
      BY <2>1, <2>3
    <3>3. t[i] = x + (i - k)
      BY <3>1
    <3> QED BY ONLY <3>2, <3>3
  <2> QED BY <2>1, <2>2, <2>3
<1>6. ASSUME NEW i \in 2 .. k + m PROVE t[i] = t[i - 1] + 1
  <2>1. i \in 1 .. k + m /\ i - 1 \in 1 .. k + m /\ i \in Int
    OBVIOUS
  <2>2. t[i] \in Nat /\ t[i] + k = x + i /\ t[i - 1] \in Nat /\ t[i - 1] + k = x + (i - 1)
    BY <1>5, <2>1
  <2>3. PICK v \in Nat : v = t[i] /\ v + k = x + i
    BY <2>2
  <2>4. PICK u \in Nat : u = t[i - 1] /\ u + k = x + (i - 1)
    BY <2>2
  <2>5. i \in Int /\ v + k = x + i /\ u + k = x + (i - 1)
    BY <2>1, <2>3, <2>4
  <2>6. v = u + 1
    BY ONLY v \in Nat, u \in Nat, k \in Nat, x \in Nat, <2>5
  <2> QED BY <2>3, <2>4, <2>6
<1>7. t[k + m] = x + m
  <2>1. k + m \in 1 .. k + m
    BY <1>2
  <2>2. t[k + m] \in Nat /\ t[k + m] + k = x + (k + m)
    BY <1>5, <2>1
  <2> QED BY ONLY k \in Nat, m \in Nat, x \in Nat, <2>2, SameDistance
<1>8. h[k] = x
  <2>1. k \in DOMAIN h
    BY <1>2
  <2>2. h[k] \in Nat
    BY <1>1, <2>1
  <2>3. h[k] + k = x + k
    BY <1>1, <1>2, <2>1
  <2> QED BY ONLY k \in Nat, x \in Nat, <2>2, <2>3
<1> QED BY <1>2, <1>3, <1>4, <1>6, <1>7, <1>8

\* The combat is told in the order it happened and without a gap, for any cap of
\* the backlog and whatever walks, refusals and lost connections come between.
THEOREM CombatIsToldInOrder == ScreensSpec => []ToldInOrder
<1>1. ScreensInv => ToldInOrder
  <2> SUFFICES ASSUME ScreensInv, battle # NoBoard
               PROVE  ToldInOrder
    BY DEF ToldInOrder
  <2> DEFINE w == [i \in DOMAIN battle.backlog |-> battle.backlog[i].id]
             told == battle.history \o w
  <2>1. InPlace(battle, snapshot.id) /\ Fine(battle) /\ WaitsInLine(battle)
    BY BoardIsThere
  <2>2. /\ battle.shown.id \in Nat /\ battle.backlog \in Seq(Updates)
        /\ Ends(battle.history, battle.shown.id)
        /\ battle.shown.id + Len(battle.backlog) = snapshot.id
    BY <2>1, FineFields, BoardFields DEF InPlace, Fine, ToldSoFar
  <2>3. /\ w \in Seq(Nat) /\ Len(w) = Len(battle.backlog)
        /\ \A i \in DOMAIN w : w[i] = battle.shown.id + i
    <3>1. w \in Seq(Nat) /\ Len(w) = Len(battle.backlog) /\ DOMAIN w = DOMAIN battle.backlog
      BY <2>2, Numbered
    <3> QED BY <2>1, <3>1 DEF WaitsInLine
  <2>4. /\ \A i \in 2 .. Len(told) : told[i] = told[i - 1] + 1
        /\ told[Len(told)] = battle.shown.id + Len(w)
        /\ battle.history[Len(battle.history)] = battle.shown.id
    <3> HIDE DEF w
    <3> QED BY <2>2, <2>3, OneStory
  <2>5. told[Len(told)] = snapshot.id
    BY <2>2, <2>3, <2>4
  <2>6. battle.backlog # <<>> => battle.moving
    BY <2>1 DEF WaitsInLine
  <2> QED BY <2>4, <2>5, <2>6 DEF ToldInOrder
<1> QED BY <1>1, ScreensInvariant, PTL

\* Whatever the player has chosen, or gets back after a refusal, a lost connection
\* or a dialog, belongs to the state on the board, and no board waits forever.
THEOREM ChoicesAreCurrent == ScreensSpec => []TargetingIsCurrent
<1>1. ScreensInv => TargetingIsCurrent
  BY BoardIsThere, ChosenNow DEF TargetingIsCurrent
<1> QED BY <1>1, ScreensInvariant, PTL

\* The board is the newest snapshot's, nothing of a session outlives it, and the
\* entry is locked only while somebody will unlock it.
THEOREM ScreenIsOfOnePlace == ScreensSpec => []ScreenIsLatest
<1>1. ASSUME ScreensInv PROVE ScreenIsLatest
  <2>1. ~client => battle = NoBoard
    BY <1>1, NothingIsLeft
  <2>2. bundle = "loaded" =>
          (battle # NoBoard <=> client /\ snapshot # NoSnapshot /\ snapshot.kind = "combat")
    <3>1. battle # NoBoard => client /\ snapshot # NoSnapshot /\ snapshot.kind = "combat"
      BY <1>1, BoardIsThere
    <3>2. bundle = "loaded" /\ snapshot.kind = "combat" => battle # NoBoard
      BY <1>1 DEF ScreensInv, BoardInv
    <3> QED BY <3>1, <3>2
  <2>3. EntryLockIsOwned
    BY <1>1 DEF ScreensInv, EntryInv
  <2> QED BY <2>1, <2>2, <2>3 DEF ScreenIsLatest, BoardIsLatest
<1> QED BY <1>1, ScreensInvariant, PTL

\* The types of the application, and the backlog within its cap.
THEOREM ScreensTypeCorrect == ScreensSpec => []ScreensTypeOK
<1>1. ASSUME ScreensInv PROVE ScreensTypeOK
  <2>1. battle # NoBoard =>
          /\ battle.interaction \in Interactions /\ battle.directionReturn \in Interactions
          /\ battle.requestPending \in BOOLEAN /\ battle.moving \in BOOLEAN
          /\ Len(battle.backlog) <= MaxPaced
    <3>1. HAVE battle # NoBoard
    <3>2. /\ InPlace(battle, snapshot.id) /\ Fine(battle) /\ WaitsInLine(battle)
          /\ snapshot.id = delivered
      BY <1>1, <3>1, BoardIsThere
    <3>3. /\ battle.interaction \in Choices /\ battle.directionReturn \in Choices
          /\ battle.requestPending \in BOOLEAN /\ battle.moving \in BOOLEAN
          /\ battle.shown.id \in Nat /\ Len(battle.backlog) \in Nat
      BY <3>2, FineFields, BoardFields
    <3>4. battle.shown.id \in 0 .. MaxSnapshots /\ 0 \in 0 .. MaxSnapshots
      BY <1>1, <3>2, <3>3, ScreensAssumption DEF InPlace, ScreensInv, SnapshotInv
    <3>5. /\ battle.interaction.on \in 0 .. MaxSnapshots
          /\ battle.directionReturn.on \in 0 .. MaxSnapshots
      BY <3>2, <3>4, ChosenNow
    <3> QED BY <3>2, <3>3, <3>5 DEF Interactions, Choices, WaitsInLine
  <2> QED BY <1>1, <2>1 DEF ScreensTypeOK, ScreensInv, EntryInv, EntryTypes, Statuses
<1> QED BY <1>1, ScreensInvariant, PTL

=============================================================================
