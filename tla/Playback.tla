------------------------------ MODULE Playback ------------------------------
(***************************************************************************)
(* The board of a running combat in the browser:                           *)
(* src/src/app/battle-controller.ts, with the interactions of              *)
(* battle-interaction.ts and the walks of pixi/battle/BattleView.ts.       *)
(*                                                                         *)
(* The server plays a creature's turn in one go, so several snapshots      *)
(* arrive while the first of them is still walking on the board.  The      *)
(* controller shows them one after the other and takes input meanwhile.    *)
(* A board is a value; every operation of the controller is an operator    *)
(* from boards to boards, and module Screens puts them into actions.       *)
(*                                                                         *)
(* Of a combat state only what decides about input is kept: id stands for  *)
(* the identity of the object, mine says that the active actor is a hero   *)
(* this player controls, reaction whose candidate heads the window.        *)
(***************************************************************************)
EXTENDS Integers, Sequences

CONSTANTS
  MaxPaced,   \* updates that may wait (MAX_PACED_UPDATES, 24 in the code)
  Situations  \* what a combat state can look like to this player

ASSUME PlaybackAssumption ==
  /\ MaxPaced \in Nat
  /\ Situations \subseteq
       [mine : BOOLEAN, spent : BOOLEAN, reaction : {"none", "mine", "other"}, over : BOOLEAN]

NoState == 0
NoFacing == [kind |-> "none"]

\* interaction: on is the state it was opened on.
Interaction(kind, purpose, on) == [kind |-> kind, purpose |-> purpose, on |-> on]
IDLE == Interaction("idle", "none", NoState)

\* An update of the controller: state, whether it is a new turn's (turns are
\* numbered and never come back), whether its events hold a walk that the view
\* can play, and whether it replaces the history.
PacedUpdate(id, newTurn, situation, walks, resync) ==
  [id |-> id, newTurn |-> newTurn, at |-> situation, walks |-> walks, resync |-> resync]

\* What remains of an update once it is on the board.
StateOf(u) == [id |-> u.id, at |-> u.at]

-----------------------------------------------------------------------------
(* What the player may do *)

\* inputBlocked
Blocked(b) == b.requestPending \/ b.connection # "connected"

\* activeHeroId is set, no reaction window is open and the combat goes on.
HeroMayAct(b) ==
  /\ ~Blocked(b)
  /\ b.shown.at.mine /\ b.shown.at.reaction = "none" /\ ~b.shown.at.over

\* enter and goIdle: a direction that was asked for is forgotten.
Enter(b, interaction) == [b EXCEPT !.interaction = interaction]
GoIdle(b) == [b EXCEPT !.interaction = IDLE, !.directionReturn = IDLE]

\* beginEndTurnDirection
MayBeginEndTurn(b) == HeroMayAct(b) /\ b.interaction.kind # "direction"
BeginEndTurn(b) ==
  [b EXCEPT !.directionReturn = b.interaction,
            !.interaction = Interaction("direction", "end-turn", b.shown.id)]

\* offerSpentTurnDirection: once per turn.
OfferSpentTurn(b) ==
  IF b.shown.at.spent /\ ~b.offered /\ MayBeginEndTurn(b)
    THEN [BeginEndTurn(b) EXCEPT !.offered = TRUE]
    ELSE b

\* restoreDirection: a refusal gives the question back that was answered.
RestoreDirection(b) ==
  IF b.pendingFacing = NoFacing THEN b
  ELSE [b EXCEPT !.pendingFacing = NoFacing,
                 !.interaction = b.pendingFacing.interaction,
                 !.directionReturn = b.pendingFacing.previous]

\* reportError, and setConnectionStatus with the report that goes with it.
ReportError(b) == RestoreDirection(b)
SetConnectionStatus(b, status) ==
  LET told == [b EXCEPT !.connection = status] IN
  IF status = "connected" THEN told ELSE ReportError(told)

-----------------------------------------------------------------------------
(* Showing updates *)

\* Fault: the answer that waits for its verdict survives a new state.
ApplyUpdateKeepingAnswer(b, u) ==
  OfferSpentTurn(GoIdle(
    [b EXCEPT !.shown = StateOf(u), !.moving = u.walks,
              !.offered = @ /\ ~u.newTurn,
              !.history = IF u.resync THEN <<u.id>> ELSE Append(@, u.id)]))

\* applyUpdate: rendering a new state cancels the walk of the one before it.
ApplyUpdate(b, u) ==
  OfferSpentTurn(GoIdle(
    [b EXCEPT !.pendingFacing = NoFacing, !.shown = StateOf(u), !.moving = u.walks,
              !.offered = @ /\ ~u.newTurn,
              !.history = IF u.resync THEN <<u.id>> ELSE Append(@, u.id)]))

ApplyAll(b, updates) ==
  LET applied[i \in 0 .. Len(updates)] ==
        IF i = 0 THEN b ELSE ApplyUpdate(applied[i - 1], updates[i])
  IN applied[Len(updates)]

\* Fault: past the cap the newest is shown at once and the rest forgotten.
UpdateSkipping(b, u) ==
  IF u.resync \/ Len(b.backlog) >= MaxPaced
    THEN ApplyUpdate([b EXCEPT !.backlog = <<>>], u)
  ELSE IF b.moving \/ b.backlog # <<>>
    THEN [b EXCEPT !.backlog = Append(@, u)]
  ELSE ApplyUpdate(b, u)

\* update: a resync drops the backlog for the truth, a full backlog is shown
\* at once, anything else waits for the walk on the board.
Update(b, u) ==
  IF u.resync THEN ApplyUpdate([b EXCEPT !.backlog = <<>>], u)
  ELSE IF Len(b.backlog) >= MaxPaced
    THEN ApplyAll([b EXCEPT !.backlog = <<>>], Append(b.backlog, u))
  ELSE IF b.moving \/ b.backlog # <<>>
    THEN [b EXCEPT !.backlog = Append(@, u)]
  ELSE ApplyUpdate(b, u)

\* drainPacedUpdates, the microtask of onMovementSettled: up to and including
\* the next update that walks.
DrainPacedUpdates(b) ==
  LET n == Len(b.backlog)
      stops == {i \in 1 .. n : b.backlog[i].walks}
      last == IF stops = {} THEN n ELSE CHOOSE i \in stops : \A j \in stops : i <= j
  IN IF b.moving THEN b
     ELSE ApplyAll([b EXCEPT !.backlog = SubSeq(@, last + 1, n)], SubSeq(b.backlog, 1, last))

\* endMovement of the last walk.
WalkEnds(b) == DrainPacedUpdates([b EXCEPT !.moving = FALSE])

\* The constructor renders its first state without asking anything, and what
\* led to it is not played: nobody on the board has a place to walk from.
NewBoard(id, u, connection) ==
  [id |-> id, shown |-> StateOf(u), history |-> <<u.id>>, backlog |-> <<>>, moving |-> FALSE,
   interaction |-> IDLE, directionReturn |-> IDLE, pendingFacing |-> NoFacing,
   requestPending |-> FALSE, connection |-> connection, offered |-> FALSE, dialog |-> NoState]

-----------------------------------------------------------------------------
(* Input.  Requests reach the session client in module Screens: a sent board *)
(* is one whose intent was taken, a refused one is told at once.             *)

\* sendIntent
Sent(b) == GoIdle([b EXCEPT !.requestPending = TRUE])
Refused(b) == [b EXCEPT !.requestPending = FALSE]

\* The verdict of the request.
Settled(b, accepted) ==
  LET idle == [b EXCEPT !.requestPending = FALSE] IN
  IF accepted THEN OfferSpentTurn(idle) ELSE RestoreDirection(idle)

\* handlePick on the board without a chosen card: the ring, or nothing there.
OpenRing(b) ==
  IF HeroMayAct(b) /\ b.interaction.kind \in {"idle", "ring"}
    THEN {Enter(b, Interaction("ring", "none", b.shown.id)), GoIdle(b)} ELSE {}

\* handleCard: choose a card, or put the chosen one back.
ChooseCard(b) ==
  IF HeroMayAct(b) /\ b.interaction.kind # "direction"
    THEN {Enter(b, Interaction("card", "none", b.shown.id))}
         \union (IF b.interaction.kind = "card" THEN {GoIdle(b)} ELSE {})
    ELSE {}

\* commit of a Step in place: a board pick for the chosen card, which asks
\* whether the player may act, or an entry of the open ring, which does not.
AskStepDirection(b) ==
  IF b.interaction.kind = "ring" \/ (b.interaction.kind = "card" /\ HeroMayAct(b))
    THEN {[b EXCEPT !.directionReturn = b.interaction,
                    !.interaction = Interaction("direction", "step-turn", b.shown.id)]}
    ELSE {}

\* Escape: cancelDirection for a Step, dismissRing and onEscape otherwise.
Escape(b) ==
  IF b.interaction.purpose = "step-turn"
    THEN {[b EXCEPT !.interaction = b.directionReturn, !.directionReturn = IDLE]}
  ELSE IF b.interaction.kind \in {"card", "ring"} THEN {GoIdle(b)}
  ELSE {}

\* endTurn: with actions left a dialog asks first, and its answer counts only
\* for the state it was opened on.
PressEndTurn(b) ==
  IF MayBeginEndTurn(b)
    THEN {IF b.shown.at.spent THEN BeginEndTurn(b) ELSE [b EXCEPT !.dialog = b.shown.id]}
    ELSE {}

ConfirmEndTurn(b) ==
  IF b.dialog = NoState THEN {}
  ELSE {IF b.dialog = b.shown.id /\ MayBeginEndTurn(b)
          THEN [BeginEndTurn(b) EXCEPT !.dialog = NoState]
          ELSE [b EXCEPT !.dialog = NoState]}

DismissDialog(b) == IF b.dialog = NoState THEN {} ELSE {[b EXCEPT !.dialog = NoState]}

\* Every way of touching the board that sends nothing; the dialog is modal.
Touched(b) ==
  IF b.dialog # NoState THEN ConfirmEndTurn(b) \union DismissDialog(b)
  ELSE OpenRing(b) \union ChooseCard(b) \union AskStepDirection(b)
         \union Escape(b) \union PressEndTurn(b)

\* submitFacing keeps the question until the verdict.
Answered(b) ==
  [b EXCEPT !.pendingFacing =
     [kind |-> "facing", interaction |-> b.interaction, previous |-> b.directionReturn]]

\* commit and resolveReaction: an action on a chosen target, or an answer to
\* the reaction window.
MaySend(b) ==
  /\ b.dialog = NoState
  /\ ~Blocked(b)
  /\ \/ b.interaction.kind = "card" /\ HeroMayAct(b)
     \/ b.interaction.kind = "ring" /\ b.shown.at.mine
     \/ b.shown.at.reaction = "mine"

MayAnswer(b) == b.dialog = NoState /\ b.interaction.kind = "direction"
=============================================================================
