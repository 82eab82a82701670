------------------------------- MODULE Combat -------------------------------
(***************************************************************************)
(* One combat: turns, suspended moves with their reactions, card zones and *)
(* the outcome, as src/src/game/engine.ts plays them, with the commands    *)
(* the server gives for enemies (session-host.ts, ai.ts).                  *)
(*                                                                         *)
(* Actors are numbered in initiative order.  What dice, numbers and places *)
(* decide is left open: whether an attack defeats its target, whether an   *)
(* outcome holds it (prone or grabbed), who is in reach of a mover, where  *)
(* a web is.  Damage falls on the opposite team only, as in every authored *)
(* action.  Bonuses, valued and expiring conditions, the shield, sustained *)
(* effects, locks, facing and map objects are abstracted away: they only   *)
(* make fewer commands legal or change numbers.                            *)
(***************************************************************************)
EXTENDS Integers, FiniteSets

CONSTANTS
  NumActors,   \* actors of the scenario
  Deck,        \* Deck[a]: the card instances of actor a
  Reactions,   \* those that carry the reaction reactive-strike
  HandSize,    \* cards dealt at the start (6 in the code)
  IdRank       \* IdRank[a]: the place of actor a's id among the sorted ids

Actors == 1..NumActors
Nobody == 0
NoCard == "no card"
Cards == UNION {Deck[a] : a \in Actors}

ASSUME CombatAssumption ==
  /\ NumActors \in Nat \ {0, 1}
  /\ DOMAIN Deck = Actors
  /\ \A a \in Actors : IsFiniteSet(Deck[a]) /\ NoCard \notin Deck[a]
  /\ HandSize \in Nat
  /\ IdRank \in [Actors -> Nat]
  /\ \A a, b \in Actors : IdRank[a] = IdRank[b] => a = b

VARIABLES
  team,    \* team[a]: "heroes" or "enemies"
  state,   \* CombatState
  streak   \* history: commands of the running pump, see ServerCommand

vars == <<team, state, streak>>

-----------------------------------------------------------------------------
(* Data *)

Zones == [draw : SUBSET Cards, hand : SUBSET Cards, discard : SUBSET Cards]

\* A pending reaction: its candidates are a queue in the order of their ids,
\* at most one per actor, kept here as a set.
Candidates == [actor : Actors, card : Cards \cap Reactions]
Pendings == [mover : Actors \union {Nobody}, candidates : SUBSET Candidates]
None == [mover |-> Nobody, candidates |-> {}]

First(candidates) ==
  CHOOSE c \in candidates : \A d \in candidates : IdRank[c.actor] <= IdRank[d.actor]

\* "webbed" is grabbed by the web terrain a move ended on, "held" is prone or
\* grabbed by an action.
Holds == {"free", "held", "webbed"}

\* CombatState
States ==
  [active : Actors, actions : 0..3, ready : SUBSET Actors, defeated : SUBSET Actors,
   held : [Actors -> Holds], zones : [Actors -> Zones], pending : Pendings,
   outcome : {"none", "victory", "defeat"}, moved : Actors \union {Nobody}]

Foes(a) == {b \in Actors : team[b] # team[a]}
Alive(s, t) == {a \in Actors \ s.defeated : team[a] = t}

\* The zones an actor may hold after its opening hand.
Dealt(a) ==
  {z \in Zones : /\ z.discard = {}
                 /\ z.hand \subseteq Deck[a]
                 /\ z.draw = Deck[a] \ z.hand
                 /\ \/ Cardinality(z.hand) = HandSize
                    \/ z.draw = {} /\ Cardinality(z.hand) < HandSize}

\* createCombat, for every initiative and every shuffle.
Init ==
  /\ team \in [Actors -> {"heroes", "enemies"}]
  /\ \A t \in {"heroes", "enemies"} : \E a \in Actors : team[a] = t
  /\ \E zones \in {z \in [Actors -> Zones] : \A a \in Actors : z[a] \in Dealt(a)} :
       state = [active |-> 1, actions |-> 3, ready |-> {1}, defeated |-> {},
                held |-> [a \in Actors |-> "free"], zones |-> zones,
                pending |-> None, outcome |-> "none", moved |-> Nobody]
  /\ streak = 0

-----------------------------------------------------------------------------
(* Steps of a command: each takes a state to one state or to a set of them *)

\* discardCard
Played(z, card) == [z EXCEPT !.hand = @ \ {card}, !.discard = @ \union {card}]

\* Fault: the reshuffled cards stay in the discard pile.
DrawnKeepingDiscard(z) ==
  LET pile == IF z.draw = {} THEN z.discard ELSE z.draw IN
  IF pile = {} THEN {z}
  ELSE {[z EXCEPT !.draw = pile \ {c}, !.hand = @ \union {c}] : c \in pile}

\* drawCard: the discard pile is shuffled in when the draw pile is empty.
Drawn(z) ==
  LET pile == IF z.draw = {} THEN z.discard ELSE z.draw
      rest == IF z.draw = {} THEN {} ELSE z.discard
  IN  IF pile = {} THEN {z}
      ELSE {[draw |-> pile \ {c}, hand |-> z.hand \union {c}, discard |-> rest] : c \in pile}

\* checkCombatOutcome
Concluded(s) ==
  IF s.outcome = "none" /\ (Alive(s, "heroes") = {} \/ Alive(s, "enemies") = {})
    THEN [s EXCEPT !.outcome = IF Alive(s, "heroes") = {} THEN "defeat" ELSE "victory"]
    ELSE s

\* Fault: the search starts from the head of the order.
NextActorFromFirst(s) ==
  LET turns == Actors \ (s.defeated \union {s.active}) IN
  CHOOSE a \in turns : \A b \in turns : a <= b

\* The next actor of the initiative order that is not defeated, round again.
NextActor(s) ==
  LET living == Actors \ s.defeated
      later == {a \in living : a > s.active}
      turns == IF later = {} THEN living ELSE later
  IN  CHOOSE a \in turns : \A b \in turns : a <= b

\* advanceTurn
TurnAdvanced(s) ==
  LET a == NextActor(s) IN
  {[s EXCEPT !.active = a, !.actions = 3, !.ready = @ \union {a}, !.zones[a] = z] :
     z \in Drawn(s.zones[a])}

\* An attack: damage that may defeat the target, an outcome that may hold it.
Attacked(s, target) ==
  {s, Concluded([s EXCEPT !.defeated = @ \union {target}])} \union
  (IF s.held[target] = "free" THEN {[s EXCEPT !.held[target] = "held"]} ELSE {})

\* completeMove; the web terrain may hold whoever ends there.
MoveCompleted(s, mover) ==
  IF mover \in s.defeated \/ s.outcome # "none" THEN {s}
  ELSE LET there == [s EXCEPT !.moved = mover] IN
       {there} \union (IF there.held[mover] = "free"
                         THEN {[there EXCEPT !.held[mover] = "webbed"]} ELSE {})

\* validateMoveContinuation: positions stand still while a reaction is
\* pending, so only what the reaction did to the mover can end the move.
MoveIsLegal(s, mover) ==
  /\ mover \notin s.defeated
  /\ s.outcome = "none"
  /\ s.active = mover
  /\ s.held[mover] = "free"

\* Fault: a move cut short by its mover's death leaves the turn where it is.
ResumedSameTurn(s) ==
  LET over == [s EXCEPT !.pending = None] IN
  IF MoveIsLegal(s, s.pending.mover) THEN MoveCompleted(over, s.pending.mover) ELSE {over}

\* resumeAfterReaction
Resumed(s) ==
  LET mover == s.pending.mover
      over == [s EXCEPT !.pending = None]
  IN  IF mover \in s.defeated
        THEN IF s.outcome = "none" THEN TurnAdvanced(over) ELSE {over}
      ELSE IF MoveIsLegal(s, mover) THEN MoveCompleted(over, mover) ELSE {over}

\* isReactionCandidateValid
MayReact(s, candidate) ==
  LET mover == s.pending.mover IN
  /\ s.outcome = "none"
  /\ candidate.actor \in Foes(mover) \ s.defeated
  /\ mover \notin s.defeated
  /\ candidate.actor \in s.ready
  /\ candidate.card \in s.zones[candidate.actor].hand

\* continueReactionQueue
QueueContinued(s, remaining) ==
  LET mover == s.pending.mover
      left == {c \in remaining : MayReact(s, c)}
  IN  IF mover \in s.defeated \/ s.outcome # "none" THEN Resumed(s)
      ELSE IF ~MoveIsLegal(s, mover) THEN {[s EXCEPT !.pending = None]}
      ELSE IF left # {} THEN {[s EXCEPT !.pending.candidates = left]}
      ELSE Resumed(s)

\* eligibleMoveReactions, for every set of foes that have the mover in reach.
Eligible(s, mover) ==
  {c \in Candidates : /\ c.actor \in Foes(mover) \ s.defeated
                      /\ c.actor \in s.ready
                      /\ c.card \in s.zones[c.actor].hand}

Queues(s, mover) ==
  {q \in SUBSET Eligible(s, mover) : \A c, d \in q : c.actor = d.actor => c = d}

\* executeMove, for a movement that provokes reactions or one that does not.
Moved(s, mover, provokes) ==
  UNION {IF q = {} THEN MoveCompleted(s, mover)
         ELSE {[s EXCEPT !.pending = [mover |-> mover, candidates |-> q]]} :
           q \in IF provokes THEN Queues(s, mover) ELSE {{}}}

-----------------------------------------------------------------------------
(* Commands *)

\* validateActionBase
MayAct(s) ==
  /\ s.outcome = "none"
  /\ s.pending = None
  /\ s.active \notin s.defeated

\* Fault: the actions are checked but not spent.
SpentNothing(s, cost, card) ==
  IF card = NoCard THEN s ELSE [s EXCEPT !.zones[s.active] = Played(@, card)]

\* The start of useAction: the actions are spent and the card is played.
Spent(s, cost, card) ==
  LET a == s.active
      paid == [s EXCEPT !.actions = @ - cost]
  IN  IF card = NoCard THEN paid ELSE [paid EXCEPT !.zones[a] = Played(@, card)]

\* What an action may cost and come from.
Affordable(s, cost, card) ==
  /\ cost <= s.actions
  /\ card = NoCard \/ card \in s.zones[s.active].hand \ Reactions

\* executeResolvedAction: nothing this model shows, an attack, getting free
\* (stand, escape-grab, slip-free) or a move.
Executed(s) ==
  LET a == s.active IN
  {s}
    \union (UNION {Attacked(s, b) : b \in Foes(a) \ s.defeated})
    \union (IF s.held[a] = "free" THEN Moved(s, a, TRUE) \union Moved(s, a, FALSE)
            ELSE {[s EXCEPT !.held[a] = "free"]})

\* useAction
UseAction(s, cards) ==
  IF ~MayAct(s) THEN {}
  ELSE UNION {UNION {Executed(Spent(s, cost, card)) :
                       card \in {c \in cards : Affordable(s, cost, c)}} : cost \in 1..3}

\* useAction of a Step in place, whose facing is the last decision of the
\* turn when no action is left.
StepInPlace(s, cards) ==
  IF ~MayAct(s) \/ s.held[s.active] # "free" THEN {}
  ELSE UNION {LET t == Spent(s, 1, card) IN IF t.actions = 0 THEN TurnAdvanced(t) ELSE {t} :
                card \in {c \in cards : Affordable(s, 1, c)}}

\* endTurn
EndTurn(s) == IF s.outcome = "none" /\ s.pending = None THEN TurnAdvanced(s) ELSE {}

\* useReaction, by the head candidate
UseReaction(s) ==
  IF s.pending = None THEN {}
  ELSE LET head == First(s.pending.candidates)
           reacting == [s EXCEPT !.ready = @ \ {head.actor},
                                 !.zones[head.actor] = Played(@, head.card)]
       IN  IF ~MayReact(s, head) THEN {}
           ELSE UNION {QueueContinued(t, s.pending.candidates \ {head}) :
                         t \in Attacked(reacting, s.pending.mover)}

\* passReaction
PassReaction(s) ==
  LET queue == s.pending.candidates IN
  IF s.pending = None THEN {} ELSE QueueContinued(s, queue \ {First(queue)})

-----------------------------------------------------------------------------
(* Who gives them *)

\* Whose decision the combat waits for: the head candidate's, else the active
\* actor's.
Decider(s) == IF s.pending = None THEN s.active ELSE First(s.pending.candidates).actor

ServersTurn(s) == s.outcome = "none" /\ team[Decider(s)] = "enemies"

\* A command of the player who controls the hero that decides.
HumanCommand ==
  LET s == [state EXCEPT !.moved = Nobody]
      cards == Cards \union {NoCard}
  IN  /\ state.outcome = "none"
      /\ team[Decider(state)] = "heroes"
      /\ state' \in UseAction(s, cards) \union StepInPlace(s, cards) \union EndTurn(s)
                     \union UseReaction(s) \union PassReaction(s)
      /\ streak' = 0
      /\ UNCHANGED team

\* One round of pumpServerAuthority with chooseAiCommand: the server takes
\* every reaction, never plays a card on its own turn and never steps in
\* place.  streak counts the rounds of this pump: it returns to 0 when a
\* hero decides or the combat is over.
ServerCommand ==
  LET s == [state EXCEPT !.moved = Nobody] IN
  /\ ServersTurn(state)
  /\ state' \in UseAction(s, {NoCard}) \union EndTurn(s) \union UseReaction(s)
  /\ streak' = IF ServersTurn(state') THEN streak + 1 ELSE 0
  /\ UNCHANGED team

Next == HumanCommand \/ ServerCommand

Spec == Init /\ [][Next]_vars

-----------------------------------------------------------------------------
(* The saved combat *)

\* validateCombat (campaign-save.ts), of a combat some command left: no card
\* instance is in two zones, and a pending reaction has a mover and candidates
\* whose cards are still in their hands.
SaveAccepts(s) ==
  /\ \A a \in Actors :
       /\ s.zones[a].draw \cap s.zones[a].hand = {}
       /\ s.zones[a].draw \cap s.zones[a].discard = {}
       /\ s.zones[a].hand \cap s.zones[a].discard = {}
  /\ s.pending # None =>
       /\ s.pending.mover \in Actors
       /\ s.pending.candidates # {}
       /\ \A c \in s.pending.candidates :
            c.actor \in Actors /\ c.card \in s.zones[c.actor].hand

-----------------------------------------------------------------------------
(* Properties *)

\* The state keeps its shape: nobody spends an action it has not got, and a
\* queue holds cards that carry a reaction.
CombatTypeOK ==
  /\ team \in [Actors -> {"heroes", "enemies"}]
  /\ state \in States
  /\ streak \in Nat

\* The outcome is set exactly when a team has nobody left, and names the team
\* that has.
OutcomeIsExact(s) ==
  /\ s.outcome = "victory" <=> Alive(s, "enemies") = {}
  /\ s.outcome = "defeat" <=> Alive(s, "heroes") = {}

\* A combat that goes on is on the turn of somebody who can act, even when a
\* reaction has just killed whoever was moving.
ActiveActorLives(s) == s.outcome = "none" => s.active \notin s.defeated

\* An open reaction can be answered: every card it waits for may be used, in
\* its turn, and the suspended move may go on when all have passed.
QueueIsOpen(s) ==
  s.pending # None =>
    /\ s.pending.candidates # {}
    /\ \A c \in s.pending.candidates : MayReact(s, c)
    /\ MoveIsLegal(s, s.pending.mover)

\* No command leaves a combat nobody can play on: the outcome is exact, the
\* active actor is alive, no reaction stays open after the end, and the head
\* of an open reaction can take it, so that the use-reaction the server sends
\* for it (session-host.ts:302) is never rejected.
CombatIsPlayable ==
  /\ OutcomeIsExact(state)
  /\ ActiveActorLives(state)
  /\ QueueIsOpen(state)

\* Each card is in exactly one zone.
Partition(z, cards) ==
  /\ z.draw \union z.hand \union z.discard = cards
  /\ z.draw \cap z.hand = {}
  /\ z.draw \cap z.discard = {}
  /\ z.hand \cap z.discard = {}

\* Through deals, plays, draws and reshuffles no card of an actor's deck is
\* lost, doubled or left in two zones.
CardsConserved == \A a \in Actors : Partition(state.zones[a], Deck[a])

\* The actors after a, in the initiative order read round, before b.
Between(a, b) ==
  IF a < b THEN {c \in Actors : a < c /\ c < b}
  ELSE {c \in Actors : c > a \/ c < b}

\* The turn never passes over somebody who lives, whoever died in the command
\* that ended it.
NobodySkipped ==
  [][state'.active # state.active =>
       Between(state.active, state'.active) \subseteq state'.defeated]_vars

\* An actor that is prone or grabbed when its move is asked for, or becomes so
\* by a reaction while the move is suspended, does not arrive; only the web it
\* arrives on may hold it.
HeldNeverMoves ==
  [][\A a \in Actors :
       state'.moved = a /\ state' # state =>
         /\ state.held[a] = "free"
         /\ state'.held[a] # "held"
         /\ state.pending.mover \in {a, Nobody}]_vars

\* Whoever acts acts in turn: no death in the command that ends a turn costs
\* somebody alive the next one, and no reaction lets the mover it holds arrive.
EverybodyInTurn == NobodySkipped /\ HeldNeverMoves

\* The server's pump ends: with n enemies it gives fewer than 5n commands
\* before a hero decides, far from the 512 of its guard.
PumpIsShort == streak < 5 * Cardinality({a \in Actors : team[a] = "enemies"})
=============================================================================
