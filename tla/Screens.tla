------------------------------ MODULE Screens ------------------------------
(***************************************************************************)
(* The browser application: src/src/app/adventure-controller.ts with the   *)
(* combat board of module Playback.                                        *)
(*                                                                         *)
(* Before a session there is the entry: account, campaigns, invitation.    *)
(* One entry request runs at a time; restoring the account runs beside it. *)
(* With a credential a session client is attached, and its snapshots       *)
(* decide what is on screen.  The first combat waits for the encounter     *)
(* assets, and what arrives meanwhile overtakes it.                        *)
(*                                                                         *)
(* The session client is module SessionClient; here it delivers snapshots, *)
(* statuses, verdicts and terminal errors in the order it calls back.      *)
(***************************************************************************)
EXTENDS Playback

CONSTANTS
  Kinds,        \* the requests this player makes at the entry
  MaxSnapshots, \* bound: snapshots delivered
  MaxBoards,    \* bound: combats shown
  MaxRestores   \* bound: account requests in flight beside the entry

ASSUME ScreensAssumption ==
  /\ Kinds \subseteq {"login", "logout", "create", "delete", "continue", "join"}
  /\ MaxSnapshots \in Nat /\ MaxBoards \in Nat /\ MaxRestores \in Nat

VARIABLES
  view,        \* entryView
  busy,        \* entryBusy
  auth,        \* authState
  destination, \* authDestination
  account,     \* account is set
  request,     \* history: the entry request that runs
  restores,    \* runs of restoreAccount that await their answer
  client,      \* a session client is attached
  status,      \* its last status
  socketOpen,  \* its socket would take a message
  outstanding, \* the request it has not settled, with the board that sent it
  snapshot,    \* snapshot
  bundle,      \* encounterBundle
  awaiting,    \* combat snapshots whose rendering awaits it
  battle,      \* the board
  delivered,   \* number of snapshots so far, the identity of the next
  boards       \* number of boards so far

entryVars == <<view, busy, auth, destination, account, request, restores>>
clientVars == <<client, status, socketOpen, outstanding>>
screenVars == <<snapshot, bundle, awaiting, battle, delivered, boards>>
applicationVars == <<entryVars, clientVars, screenVars>>

NoRequest == "none"
NoBoard == [id |-> 0]
NoSnapshot == [id |-> NoState, kind |-> "none"]
NothingSent == [board |-> 0]
Views == {"landing", "login", "join", "new-adventure", "campaigns"}

\* A tab with a stored credential connects again, another one asks who it is.
ScreensInit ==
  /\ \E stored \in BOOLEAN :
       /\ client = stored /\ busy = stored
       /\ status = IF stored THEN "connecting" ELSE "none"
       /\ restores = IF stored THEN 0 ELSE 1
  /\ view = "landing" /\ auth = "checking" /\ destination = "landing"
  /\ account = FALSE /\ request = NoRequest
  /\ socketOpen = FALSE /\ outstanding = NothingSent
  /\ snapshot = NoSnapshot /\ bundle = "unasked" /\ awaiting = {}
  /\ battle = NoBoard /\ delivered = 0 /\ boards = 0

-----------------------------------------------------------------------------
(* The entry *)

\* beginEntry: one request holds the entry.
BeginEntry(kind) == busy' = TRUE /\ request' = kind
FinishEntry == busy' = FALSE /\ request' = NoRequest

\* navigateEntry, openNewAdventure and going back; nothing while a request runs.
Navigate(to) ==
  /\ ~client /\ ~busy
  /\ to # "campaigns"
  /\ to = "new-adventure" => auth = "ready"
  /\ view' = IF to = "new-adventure" /\ ~account THEN "login" ELSE to
  /\ destination' = CASE to = "new-adventure" -> "new-adventure"
                      [] to = "landing" -> "landing"
                      [] OTHER -> destination
  /\ UNCHANGED <<busy, auth, account, request, restores, clientVars, screenVars>>

\* showCampaigns
ShowCampaigns ==
  /\ ~client /\ ~busy
  /\ \/ /\ ~account
        /\ destination' = "campaigns" /\ view' = "login"
        /\ UNCHANGED <<busy, request>>
     \/ /\ account
        /\ view' = "campaigns"
        /\ BeginEntry("list")
        /\ UNCHANGED destination
  /\ UNCHANGED <<auth, account, restores, clientVars, screenVars>>

\* Where each other request is made from.
Screen(kind) ==
  CASE kind = "login" -> "login"            \* signIn, signUp
    [] kind = "logout" -> "landing"
    [] kind = "create" -> "new-adventure"
    [] kind \in {"delete", "continue"} -> "campaigns"
    [] kind = "join" -> "join"

Ask(kind) ==
  /\ ~client /\ ~busy
  /\ view = Screen(kind)
  /\ kind = "logout" => account
  /\ BeginEntry(kind)
  /\ UNCHANGED <<view, auth, destination, account, restores, clientVars, screenVars>>

\* attach: the entry stays busy until the session shows something.
Attach ==
  /\ client' = TRUE /\ status' = "connecting"
  /\ socketOpen' = FALSE /\ outstanding' = NothingSent
  /\ request' = NoRequest
  /\ UNCHANGED <<view, busy, destination, auth, account, restores, screenVars>>

\* authenticate goes on to what the player wanted.
Authenticated ==
  /\ request = "login"
  /\ account' = TRUE /\ auth' = "ready"
  /\ view' = destination
  /\ IF destination = "campaigns" THEN BeginEntry("list") ELSE FinishEntry
  /\ UNCHANGED <<destination, restores, clientVars, screenVars>>

SignedOut ==
  /\ request = "logout"
  /\ account' = FALSE /\ auth' = "ready" /\ destination' = "landing" /\ view' = "landing"
  /\ FinishEntry
  /\ UNCHANGED <<restores, clientVars, screenVars>>

\* The list of campaigns is there, or one of them is gone.
CampaignsAnswered ==
  /\ request \in {"list", "delete"}
  /\ FinishEntry
  /\ UNCHANGED <<view, auth, destination, account, restores, clientVars, screenVars>>

Credentialed == request \in {"create", "continue", "join"} /\ Attach

\* A request failed, in a way the player is told about.
RequestFailed ==
  /\ request # NoRequest
  /\ FinishEntry
  /\ UNCHANGED <<view, auth, destination, account, restores, clientVars, screenVars>>

\* expired: the login ran out, and the player is sent to it and back.
Expired ==
  /\ request \in {"create", "list", "delete", "continue"}
  /\ FinishEntry
  /\ account' = FALSE /\ view' = "login"
  /\ destination' = IF request = "create" THEN "new-adventure" ELSE "campaigns"
  /\ UNCHANGED <<auth, restores, clientVars, screenVars>>

\* restoreAccount, by hand after it failed.
RetryAuth ==
  /\ ~client /\ view = "landing" /\ auth = "failed"
  /\ restores < MaxRestores
  /\ restores' = restores + 1 /\ auth' = "checking"
  /\ UNCHANGED <<view, busy, destination, account, request, clientVars, screenVars>>

\* Its answer arrives whatever has happened since.
AccountRestored ==
  /\ restores > 0
  /\ restores' = restores - 1
  /\ \/ account' \in BOOLEAN /\ auth' = "ready"
     \/ auth' = "failed" /\ UNCHANGED account
  /\ UNCHANGED <<view, busy, destination, request, clientVars, screenVars>>

-----------------------------------------------------------------------------
(* The attached session *)

\* Every callback reaches the board that is there.
OnBoard(Op(_)) == IF battle = NoBoard THEN battle ELSE Op(battle)

\* renderCombat: a new board, or an update of the one on screen.
RenderCombat(b, update, connection) ==
  IF b = NoBoard THEN NewBoard(boards + 1, update, connection)
  ELSE Update([b EXCEPT !.connection = connection], update)

\* The request is settled before the awaited rendering goes on.
AfterVerdict(b, settles) ==
  IF settles /\ b # NoBoard /\ outstanding.board = b.id THEN Settled(b, TRUE) ELSE b

\* onSnapshot: the session shows something, so the entry is free again.
Shows(kind, resync, settles) ==
  /\ client /\ socketOpen
  /\ delivered < MaxSnapshots
  /\ status # "connected" => resync
  /\ settles => outstanding # NothingSent
  /\ delivered' = delivered + 1
  /\ status' = "connected"
  /\ FinishEntry
  /\ snapshot' = [id |-> delivered + 1, kind |-> kind]
  /\ outstanding' = IF settles THEN NothingSent ELSE outstanding
  /\ UNCHANGED <<view, auth, destination, account, restores, client, socketOpen>>

\* renderSnapshot of a lobby or an adventure removes the board.
TableArrives(resync, settles) ==
  /\ Shows("table", resync, settles)
  /\ battle' = NoBoard
  /\ UNCHANGED <<bundle, awaiting, boards>>

\* renderSnapshot of a combat, up to its await and, once the assets are
\* loaded, beyond it.
CombatArrives(situation, newTurn, walks, resync, settles) ==
  LET id == delivered + 1
      update == PacedUpdate(id, newTurn, situation, walks, resync)
      told == AfterVerdict(OnBoard(LAMBDA b : [b EXCEPT !.connection = "connected"]), settles)
  IN
  /\ Shows("combat", resync, settles)
  /\ battle = NoBoard => newTurn /\ ~walks \* nobody to walk, no turn shown yet
  /\ \/ /\ bundle = "loaded"
        /\ boards < MaxBoards \/ battle # NoBoard
        /\ battle' = RenderCombat(told, update, "connected")
        /\ boards' = IF battle = NoBoard THEN boards + 1 ELSE boards
        /\ UNCHANGED <<bundle, awaiting>>
     \/ /\ bundle # "loaded"
        /\ bundle' = "loading"
        /\ awaiting' = awaiting \union {update}
        /\ battle' = told
        /\ UNCHANGED boards

\* Fault: a rendering that awaited goes on with the snapshot it began with.
StillWantedAlways(update) == TRUE

\* this.snapshot !== snapshot: another snapshot, or the way out, came first.
StillWanted(update) == update.id = snapshot.id

\* The assets are loaded, and the renderings that awaited them go on.
BundleLoaded ==
  /\ bundle = "loading"
  /\ bundle' = "loaded"
  /\ awaiting' = {}
  /\ LET wanted == {update \in awaiting : StillWanted(update)} IN
     \/ wanted = {} /\ UNCHANGED <<battle, boards>>
     \/ /\ boards < MaxBoards
        /\ \E update \in wanted :
             /\ \A other \in wanted : other.id <= update.id
             /\ battle' = RenderCombat(battle, update, status)
             /\ boards' = IF battle = NoBoard THEN boards + 1 ELSE boards
  /\ UNCHANGED <<entryVars, clientVars, snapshot, delivered>>

\* The socket is open and the hello is sent.
SocketOpens ==
  /\ client /\ ~socketOpen
  /\ socketOpen' = TRUE
  /\ UNCHANGED <<entryVars, client, status, outstanding, screenVars>>

\* The connection is lost, the client notices and starts over.
ConnectionLost ==
  /\ client /\ socketOpen
  /\ socketOpen' = FALSE
  /\ status' = "reconnecting"
  /\ battle' = OnBoard(LAMBDA b : SetConnectionStatus(b, "reconnecting"))
  /\ UNCHANGED <<entryVars, client, outstanding, snapshot, bundle, awaiting, delivered, boards>>

\* A refusal, or an error that names no request, settles what is outstanding;
\* an error for another request is only reported.
Rejected(settles) ==
  /\ client /\ socketOpen
  /\ outstanding' = IF settles THEN NothingSent ELSE outstanding
  /\ battle' = OnBoard(LAMBDA b : ReportError(
                 IF settles /\ outstanding.board = b.id THEN Settled(b, FALSE) ELSE b))
  /\ UNCHANGED <<entryVars, client, status, socketOpen,
                 snapshot, bundle, awaiting, delivered, boards>>

\* returnToLanding, from a terminal error or because the player leaves.
ReturnToLanding ==
  /\ client
  /\ client' = FALSE /\ status' = "closed" /\ socketOpen' = FALSE /\ outstanding' = NothingSent
  /\ snapshot' = NoSnapshot /\ battle' = NoBoard
  /\ FinishEntry
  /\ view' = "landing" /\ auth' = "checking"
  /\ restores < MaxRestores
  /\ restores' = restores + 1
  /\ UNCHANGED <<destination, account, bundle, awaiting, delivered, boards>>

-----------------------------------------------------------------------------
(* The board *)

Touch ==
  /\ battle # NoBoard
  /\ battle' \in Touched(battle)
  /\ UNCHANGED <<entryVars, clientVars, snapshot, bundle, awaiting, delivered, boards>>

\* SessionClient.sendIntent takes one request at a time on an open socket.
ClientTakes == client /\ socketOpen /\ outstanding = NothingSent

\* sendIntent for an action, a reaction or the end of the turn.
Send ==
  /\ battle # NoBoard
  /\ MaySend(battle)
  /\ IF ClientTakes
       THEN battle' = Sent(battle) /\ outstanding' = [board |-> battle.id]
       ELSE battle' = Refused(battle) /\ UNCHANGED outstanding
  /\ UNCHANGED <<entryVars, client, status, socketOpen,
                 snapshot, bundle, awaiting, delivered, boards>>

\* submitFacing
AnswerDirection ==
  /\ battle # NoBoard
  /\ MayAnswer(battle)
  /\ IF ~Blocked(battle) /\ ClientTakes
       THEN battle' = Sent(Answered(battle)) /\ outstanding' = [board |-> battle.id]
       ELSE /\ battle' = RestoreDirection(
                 IF Blocked(battle) THEN Answered(battle) ELSE Refused(Answered(battle)))
            /\ UNCHANGED outstanding
  /\ UNCHANGED <<entryVars, client, status, socketOpen,
                 snapshot, bundle, awaiting, delivered, boards>>

WalkSettles ==
  /\ battle # NoBoard
  /\ battle.moving
  /\ battle' = WalkEnds(battle)
  /\ UNCHANGED <<entryVars, clientVars, snapshot, bundle, awaiting, delivered, boards>>

EntryStep ==
  \/ \E to \in {"landing", "login"} \union {Screen(kind) : kind \in Kinds} : Navigate(to)
  \/ ShowCampaigns
  \/ \E kind \in Kinds : Ask(kind)
  \/ Authenticated
  \/ SignedOut
  \/ CampaignsAnswered
  \/ Credentialed
  \/ RequestFailed
  \/ Expired
  \/ RetryAuth
  \/ AccountRestored

ScreensNext ==
  \/ EntryStep
  \/ SocketOpens
  \/ ConnectionLost
  \/ \E settles \in BOOLEAN : Rejected(settles)
  \/ ReturnToLanding
  \/ \E resync, settles \in BOOLEAN : TableArrives(resync, settles)
  \/ \E situation \in Situations, newTurn, walks, resync, settles \in BOOLEAN :
       CombatArrives(situation, newTurn, walks, resync, settles)
  \/ BundleLoaded
  \/ Touch
  \/ Send
  \/ AnswerDirection
  \/ WalkSettles

ScreensSpec == ScreensInit /\ [][ScreensNext]_applicationVars

-----------------------------------------------------------------------------
(* Properties *)

Interactions ==
  [kind : {"idle", "card", "ring", "direction"},
   purpose : {"none", "end-turn", "step-turn"}, on : 0 .. MaxSnapshots]

\* Type invariant of the application and of its board.
ScreensTypeOK ==
  /\ view \in Views /\ destination \in {"landing", "new-adventure", "campaigns"}
  /\ busy \in BOOLEAN /\ account \in BOOLEAN /\ client \in BOOLEAN
  /\ auth \in {"checking", "ready", "failed"}
  /\ status \in {"none", "connecting", "connected", "reconnecting", "closed"}
  /\ bundle \in {"unasked", "loading", "loaded"}
  /\ battle # NoBoard =>
       /\ battle.interaction \in Interactions /\ battle.directionReturn \in Interactions
       /\ battle.requestPending \in BOOLEAN /\ battle.moving \in BOOLEAN
       /\ Len(battle.backlog) <= MaxPaced

\* The board tells the combat in the order it happened and without a gap:
\* what was shown and what still waits are consecutive snapshots that end
\* with the newest, the state on the board is the last one shown, and
\* snapshots wait only while a standee is walking.
ToldInOrder ==
  battle # NoBoard =>
    LET told == battle.history
                  \o [i \in DOMAIN battle.backlog |-> battle.backlog[i].id]
    IN /\ \A i \in 2 .. Len(told) : told[i] = told[i - 1] + 1
       /\ snapshot.kind = "combat" /\ bundle = "loaded" => told[Len(told)] = snapshot.id
       /\ battle.history[Len(battle.history)] = battle.shown.id
       /\ battle.backlog # <<>> => battle.moving

\* What the player has chosen or is asked belongs to the state on the board,
\* also after a refusal, a lost connection or a dialog brought it back; and
\* the board waits for a verdict only when one is still to come.
TargetingIsCurrent ==
  battle # NoBoard =>
    /\ battle.interaction.kind # "idle" =>
         battle.interaction.on = battle.shown.id /\ battle.shown.at.mine
    /\ battle.pendingFacing # NoFacing => battle.pendingFacing.interaction.on = battle.shown.id
    /\ battle.requestPending => outstanding.board = battle.id

\* A board is up only in a session, and once the assets are there exactly
\* when the newest snapshot is a combat.
BoardIsLatest ==
  /\ ~client => battle = NoBoard
  /\ bundle = "loaded" =>
       (battle # NoBoard <=> client /\ snapshot # NoSnapshot /\ snapshot.kind = "combat")

\* The lock on the entry is always somebody's: a request that will be
\* answered, or an attached session that has not shown anything yet.
EntryLockIsOwned ==
  busy <=> request # NoRequest \/ (client /\ snapshot = NoSnapshot)

\* The screen is always that of one place: the board of the newest snapshot
\* of the session, nothing of a session that was left, and an entry that is
\* locked only while somebody will unlock it.
ScreenIsLatest == BoardIsLatest /\ EntryLockIsOwned
=============================================================================
