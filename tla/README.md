# CardGuild: specification and proofs

CardGuild is a co-operative tactical card game. A Node server owns every
decision; browsers send *intents* over WebSockets and show the snapshots the
server sends back; the campaign of a host account is one row of a SQLite
database. This directory holds TLA+ modules of the parts that decide something,
TLC configurations that check them on small instances, and TLAPS proofs of the
properties that matter most.

Paths below are relative to the repository (`src/src/server/session-host.ts`
is the file `src/server/session-host.ts` of the checkout).

## 1. The system and its parts

```
 browser                      server process                         disk
 ┌────────────────┐  intents  ┌──────────────────────────────────┐
 │ app controllers│──────────►│ ws-gateway ─► SessionHost (queue)│
 │ session-client │◄──────────│                 │ commit         │  compare
 └────────────────┘ snapshots │   authority ◄───┤                │  and swap ┌──────────┐
                              │   adventure     ▼                │──────────►│ campaigns│
   HTTP: create, continue,    │   combat     durability          │           │   row    │
   delete, join ─────────────►│ http-api ─► CampaignService      │           └──────────┘
                              └──────────────────────────────────┘
```

| Component | State it keeps | Operations | What is hard about it |
|---|---|---|---|
| **Adventure** (`adventure/runtime.ts`, `progression.ts`) | phase, current encounter, completed list, party with level, experience, advancements and loadouts, shared collection, pending reward | begin, start encounter, accept result, choose reward, set loadout, choose advancement | the commands are legal only in certain orders; one award may cross several levels |
| **Session authority** (`session/authority.ts`, `authorization.ts`) | lifecycle, seats, prepared party, guest claims, adventure, combat | join and nine intents of the lobby, adventure and combat; the server's own combat command; a session resumed from a save | legality depends on who asks, who is connected and who holds which character; `commit()` asserts the invariants and throws |
| **Combat engine** (`game/engine.ts` and its helpers) | turn order, actors, card zones, conditions, a pending reaction with its continuation | use action, end turn, use or pass a reaction; the AI's choice of command | reactions suspend a move and resume it in a changed world; modifiers, durations and numbers meet in any order of play |
| **Session host** (`server/session-host.ts`, `campaign-durability.ts`) | the authority's state, connections, control revision, request journal, promise queue, held campaign revision | add player, attach, detach, handle intent, retire, and the pump that plays the server's turns | operations await durable writes; sockets, joins and retries arrive meanwhile |
| **Campaign service and store** (`campaign-service.ts`, `session-store.ts`) | live session of each campaign, a queue per campaign | create, continue, delete, join | Continue retires a live session behind its queue, reads again, migrates, restores |
| **Persistence** (`persistence/sqlite-persistence.ts`) | campaigns row with revision, accounts, auth sessions | compare-and-swap commit, create, delete, load | two writers on one row; a crash between write and publication |
| **Session client** (`client/session-client.ts`) | socket, last snapshot, one outstanding envelope | connect, send intent, receive, reconnect | resends over a new socket what may already have happened |
| **WebSocket gateway** (`ws-gateway.ts`) | identity of each socket, pending message chain | hello, intents, close | a close can overtake the attach it belongs to |
| **Server lifecycle** (`server.ts`, `main.ts`) | closing flag, pending requests | ordered shutdown | writes after the database is closed; a shutdown that never ends |
| **Save format** (`campaign-save*.ts`) | none | encode, validate and restore a save | a save is judged weeks later, by rules written apart from those that made it |
| **Accounts** (`auth-service.ts`, `password.ts`, `cookies.ts`) | accounts, auth sessions with expiry | create account, log in, log out | registrations and logins overlap around the asynchronous hash; expiry against use |
| **HTTP API**, **wire validation** | none | translate requests; check message shapes | little |
| **App controllers** (`app/*.ts`) | entry view and its lock, attached client, assets, the board with its backlog and interaction | entry requests, snapshot in, input out | snapshots arriving during an animation or while the assets load |
| **Content pipeline** (`content/*.ts`) | none | compile and validate authored JSON | many cross references that nothing checks again at run time |
| **Views** (`pixi`, `dom`, `presentation`) | display objects | layout and animation | no protocol state |

### How they interact

* A browser's **intent** carries a request id and the revision it was made
  for. The gateway handles the messages of one socket in order; the session
  host puts each on a promise queue, so operations of one session never
  interleave with each other, but everything else does while one of them waits
  for the database.
* An accepted intent yields a *candidate* state. It is written first (only if
  the gameplay hash changed and an adventure exists), then published, then
  acknowledged and journalled. Afterwards the host *pumps*: while the combat
  waits for an enemy, it plays the server's commands, each with its own write.
* The durability coordinator commits with `UPDATE ... WHERE revision = ?`. A
  lost comparison retires the session: somebody else owns the campaign now.
* Continue on a campaign with a live session submits a retirement to that
  session's queue, waits until it is retired, and only then reads the row again
  and opens a session on it.
* A client that loses its socket opens another and sends its one outstanding
  envelope again; the journal decides whether it is new.

### What makes each part correct

* *Adventure*: encounters once each and in order; experience and rewards
  neither lost nor paid twice; nobody fights with an advancement open; the party
  carries only what it owns; what was accepted once is accepted again whenever it
  is derived again.
* *Authority*: the invariants asserted by `commit()` hold after every legal
  sequence; nobody is stuck in a lobby; every hero's turn has somebody to play
  it; a claim is given up only by its owner; nothing plays before the host resumes.
* *Combat*: whatever a reaction did to the move it interrupted, the combat can
  be played on or is over; turns skip nobody who lives; no card is lost or
  doubled; who is held does not arrive; the server's commands come to an end; the
  search misses no square; bonuses, durations and defeat follow the rules whatever
  the order of play; a fight can be saved and continued at any time.
* *Host*: nothing is shown that a crash would take back; a request takes
  effect at most once and its answer is true; an open socket is served; versions
  identify what is shown; retirement is final and always reached.
* *Service*: no lost update; a session opens on the latest save anybody saw;
  one writer per process; a deleted campaign stays deleted; calls are answered.
* *Client*: what the caller of `sendIntent` hears is true but for an intent open
  when the session turns the client away, the screen never goes back, an intent does not stay open for ever.
* *Browser*: the board tells the combat in order and without gaps, what the player
  has chosen belongs to the state that is shown, the entry is not locked for ever.
* *Server process*: a request acts for an account only by a login with its
  password; nothing outlives the database; a shutdown ends
  unless a client stalls in the middle of a body.
* *Content*: a pack that compiles can be played.

The full list of hazards, each at its line, is in `PROJECT.json`.

## 2. The modules

| Module | Models | Composed with |
|---|---|---|
| `Adventure` | `adventure/runtime.ts`, `progression.ts`, the party rule of `loadout.ts` | |
| `Outfits`, `Loadout`, `Characters` | kits and who may use a card (`loadout.ts`, `capabilities.ts`); growth of a character and of a class (`character/rules.ts`) | operators only |
| `Party` | level-up choices, kits and the levels a combat is built with | `EXTENDS Adventure, Loadout, Characters`; its actions refine those of `Adventure` |
| `Content` | `content/validate-semantics.ts`, `compile-content.ts`, the shapes of authored definitions | `EXTENDS Characters, Outfits`, an instance of `Loadout` over the tables of the pack |
| `SessionCore` | `session/authority.ts`, `authorization.ts` | `INSTANCE Adventure`: the intents call its commands |
| `CampaignSave` | `server/campaign-save.ts`, `campaign-save-schema.ts` | `EXTENDS SessionCore`: every state it reaches is saved and judged |
| `SessionHost` | `session-host.ts`, `campaign-durability.ts`, the gateway's hello with its deadline, message order and close | |
| `DurableSession` | nothing of the code: what a session promises | implemented by `SessionHost` (`INSTANCE ... WITH`) |
| `SessionClient` | `session-client.ts` and the wires | `EXTENDS SessionHost`: its steps are the server's |
| `Campaign` | `campaign-service.ts`, `session-store.ts`, the campaigns row | |
| `Server` | `http-api.ts`, `auth-service.ts`, `password.ts`, the gateway's sockets, `server.ts`, `main.ts` | |
| `Combat` | `game/engine.ts`: turns, reactions, cards; the AI's choices | |
| `Statistics` | `statistics.ts`, `offense.ts`, `checks.ts`, the checks of `action-plan.ts` and `knowledge.ts` | operators only |
| `Skirmish` | the executor, outcome effects and durations of `engine.ts`, the legality of actions (`queries.ts`), `off-guard.ts`, a saved fight | `EXTENDS Statistics` |
| `Pathfinding` | `grid.ts`, the movement targets of `queries.ts` | |
| `Playback` | `app/battle-controller.ts`, `battle-interaction.ts` | operators from boards to boards |
| `Screens` | `app/adventure-controller.ts` | `EXTENDS Playback` |
| `AdventureProofs` | theorems about `Adventure` | every `*Proofs` module `EXTENDS` what it is about, and `TLAPS` |
| `PlayabilityProofs` | about `Party` and `Content` | `EXTENDS` also `AdventureProofs` |
| `SessionCoreProofs` | about `SessionCore` and `CampaignSave` | |
| `SessionHostProofs` | about `SessionHost`, and that it implements `DurableSession` | |
| `ClientProofs` | about `SessionClient` | `EXTENDS` also `SessionHostProofs` |
| `ServerProofs` | about `Campaign` and `Server` | |
| `CombatProofs` | about `Combat`, and about `Playback` and `Screens` that show a combat | |
| `RulesProofs` | about `Pathfinding`, `Statistics` and `Skirmish` | |
| `MC*` | values of the constants for TLC | `EXTENDS` the modules of the run |

Definitions named in a comment `Fault:` are deliberate mistakes, each a
plausible bug of the definition that follows it. No specification uses them;
they are there to show that each property would notice the bug.

### Adventure

`phase` to `offer` are the fields of `AdventureState`. An encounter is its
position in `definition.encounterIds`, a member its party slot, and `"none"`
the `adventure: null` of a session that has not begun. `BeginAdventure` is
`createAdventureSession` together with the `start-adventure` command, which the
session dispatches at once, so the code's phase `ready` is never a state of its
own. `AcceptVictory` and `AcceptDefeat` are the two branches of
`accept-combat-result`, with the award, the reward offer and the move to the
next encounter in the same step, as in the code. Here a level-up choice is
reduced to the level it belongs to and a loadout to the items a member carries;
`Party` has what is chosen and worn.

### Party, with Characters, Loadout and Outfits

A member's `history` maps levels to the skill raised and the attributes boosted
at each, its kit is the equipment in each slot and the list of prepared cards.
A choice or a kit is judged once, when the command arrives, and its results are
derived again, from the whole history, whenever a session publishes, an
encounter is built or a save is restored; there a refusal is an exception that
nobody can answer. `PartyStaysPlayable` therefore says that everything accepted
once resolves in every later state: builds, kits of eligible cards, copies within
the shared collection, a due advancement that some choice can make, and heroes
of a running combat that have the levels of their members. Starter kits that
list one card twice are excluded by an assumption: the authored ones do not, and
the code counts such copies differently when a session is created.

### Content

A pack is a record of lists of definitions that name each other. `Accepted` is
`validateContentPackSemantics` with one predicate per category, `Compile` is
`compileContentPack`. The shapes (`ActionShape`, `ClassShape` ...) are what the
TypeScript types say and no validator repeats; the packs an author may write
(`Sources`) have them. `CompiledContentPlays` is written from the other side,
from what the runtime does with a pack without asking again: every party the
lobby can form is created, with hit points and a speed; for each size of party an
encounter has a free place for everybody and an enemy; it is paid exactly once;
every card that can come to a hand resolves to an outcome for every degree of
success; a lever opens a tile of its map; and no level makes a class worse at
anything (milestones are authored in any order and sorted when read). The
validator is weaker than the runtime in places that are not part of the property:
a placement may use an id that equals a member's generated one,
`adventure.partySize.min` may exceed what the lobby asks for (beginning is then
refused), and a level's difficulty class is bounded by the JSON schema only.

### SessionCore and CampaignSave

One action per intent of `authorizeSessionIntent`/`dispatchSessionIntent`, with
the authorization and the domain's own refusal together as its guard. `Attach`
and `Detach` are the presence the host passes in; `Controller` is
`deriveControlView`. `Continue` replaces the session by one restored from the
save of the current gameplay, which is what the service opens (the module
`Campaign` shows that it is the latest). The combat is reduced to what the
authority reads: for which encounter it was created and whom it waits for. An
accepted combat command leads to any combat of that encounter or to an outcome,
and an outcome settles the adventure and drops the combat in the same step
(`finalizeCombat`). The adventure's variables are those of an `INSTANCE
Adventure`, and `AdventureBehaviour` states that the session, seen through them,
is the adventure specification.

`CampaignSave` adds no state. `CreateCampaignSave` is what a session writes,
`RestoreCampaignSave` the verdict of Continue with its layers in the order of
the code: schema version, shape, party slots, adventure, combat, the session
invariants of the restored state, the hash. `SavesAreAccepted` puts every
reachable state through both. The registry of content migrations is empty in
this build, so migration is left to `Campaign`. The actors, cards and reactions
of a saved combat are judged where they exist: `SaveAccepts` of `Combat` and of
`Skirmish`.

### Combat

A command of the engine is a composition of functions on a draft of the state,
and so it is here: each operator maps a state to the set of states it may leave,
one for every result of the dice. Actors are numbered in initiative order.
`pending` is the suspended move with the candidates that may still react, in
the order of their ids (`IdRank`). `held` stands for prone and grabbed, which
block movement; `moved` is where positions would change. Hit points are reduced
to defeated or not, reach and sight to the choice of who reacts: positions,
facing of later candidates and the map stand still while a reaction is open, so
only who died, who is held and who still has reaction and card can change the
queue. The authored reaction (`reactive-strike`) only deals damage; as in the
executor, which is the same for all actions, the model lets its outcome hold the
mover too. Locks, flourish, sustained effects, the shield and valued conditions
make fewer commands legal or change odds; they are the matter of `Skirmish`.

`HumanCommand` is a command of whoever controls the deciding hero,
`ServerCommand` a round of the host's pump: it takes every reaction, never plays
a card on its own turn and never steps in place; which innate action, target or
square the AI prefers is left open. `streak` counts these rounds. `SessionCore`
abstracts this module to whom a combat waits for.

### Statistics and Skirmish

`Statistics` has the arithmetic: modifiers collected from equipment, conditions,
traits and context, stacked by type, the statistics built on them, Strikes,
damage and degrees of success, the preview's degrees and damage range. The
authored content is its constants. `Skirmish` plays with it: `Executed` is the
executor with its order of damage, conditions, locks and effects; `Advanced` is
`advanceTurn` with decaying conditions, unsustained effects and expiring
conditions; `LegalPlans` is `validateActionIntent`. Dice are chosen. Fighters
reach each other, and whether a target is flanked or struck from behind is chosen
anew for each Strike; one reactor at most is asked, and `Combat` has the queue.
The fighter, the goblin chief and their actions in `MCSkirmish` carry the numbers
of `content/m7`. An item's traits are those of `equipmentTraits`. `scares` and
`finished` are history, written in one place (`Set`) from how the turn moved and never
by the operators under test: with what value and in which turn each fright came, and
which turns each fighter ended. `FearLedger` compares fear with the frights less one
for each own turn ended since, so decay on another's turn, or none on one's own,
breaks it. A reaction whose requirements are not met is spent for nothing
(`Reacted`), and an action without a plan is not offered (`Resolvable`).

### Pathfinding

One step expands one node of the frontier of `findReachableTiles`, with its
pruning by the allowance, its tie-breaks and its treatment of difficult and
occupied squares. Beside the search a walker takes any legal steps;
`NoCheaperWay` compares the two when the frontier is empty: no walk reaches a
square the search missed, or for less. Lines of sight and effect are the
supercover lines of `grid.ts` with both squares of a touched corner.

### SessionHost and DurableSession

`queue` is what is chained on the promise queue, `running` the operation that
has started and awaits. An operation that does not await is one step. An intent
that is accepted sets `running` to its candidate and returns; `CommitIntent`,
`WriteFails` or `WriterRetired` is the settlement of its write, and
`NextServerStep` the pump that follows. `HelloDeadline` closes a socket whose
attach is still queued. `core` keeps the revision, whether an
adventure exists, the generation of the gameplay projection (equal generations
stand for equal hashes) and whether the server is to act; what the domain
accepts is left open, because `SessionCore` answers that. `sent` is what the
last step put on each socket; sockets are used once each, a reconnection is
another socket of the same owner.

`DurableSession` is the abstract session: a request takes effect once, what is
shown of a running adventure is stored in the same moment, and a session that is
over stays as it was. `KeepsItsPromise` states that `SessionHost`, through the
mapping `Promise` (how often each request was applied, the generation shown, the
generation stored, whether the session is retired), implements it: the queue, the
awaited writes, retries, failing writes, competing writers and retirement
disappear.

The production SQLite driver is synchronous, so an await of a write there lasts
a microtask. The `SessionDurability` port is asynchronous, and the tests inject
delays and failures through it; the model takes the port at its word.
`MaxPump` stands for the 512 commands after which the pump throws.

### SessionClient

The client's variables are `socket`, `snapshotValue`'s version,
`outstanding` and `terminallyClosed`; `up` and `down` are the messages in flight
on each socket, `answers` what each caller of `sendIntent` was told. A socket
may break at any moment with everything in flight, and either end notices in
its own time; the server may also close it because the hello came too late, with
a code the client takes for a refusal. `ServerStep` and `Arrives` are steps of
`SessionHost` whose `sent` is put on the wires. An error without a request id
settles the open intent as refused, and so do `Stop` (`stopTerminal`) and the close
codes 4001, 4003, 4004 and 4005: the gateway sends `SESSION_RETIRED`,
`UNAUTHENTICATED` or `SESSION_NOT_FOUND` before it closes a socket whose hello it
turns away (`Refusal`, `HelloTooLate`). The caller of `sendIntent` gets one boolean,
so an intent that was applied, whose socket broke before the ack and whose session
retired before the reconnection, is reported `false` like a refusal. `cutOff` is
history: the request that was open when something that did not name it turned the
client away. `VerdictsAreTrue` says exactly how far verdicts can be trusted: accepted
is always true; refused is true of every request but that one, and after it the
client is terminal. No document of the repository promises more, so this is no
finding.

### Playback and Screens

`Playback` is the board of a combat. A snapshot either is shown, waits in the
backlog while a standee walks, or, past the cap or on a resync, drops the backlog.
`interaction`, `pendingFacing` and `directionReturn` are the controller's own
fields; `history` is what was shown so far. `Screens` is the application around
it: the entry with its one request at a time and the account restored beside it,
the attached session client, and the rendering of the first combat that awaits
the encounter assets while more snapshots arrive (`awaiting`). The session client
here delivers snapshots, statuses, verdicts and terminal errors as
`SessionClient` would.

Two things the code does and the properties do not forbid: input during the
backlog is chosen on the state that is shown and sent with the newest revision
(the server decides), and a late answer of `restoreAccount` may overwrite the
account a login or logout has set meanwhile.

### Campaign

The row holds a revision, the number of the commit that wrote it and the
content it was written for; `lineage` remembers for each commit the save its
writer had in memory. A session is reduced to what its players were shown, the
revision it holds and where its queue is. `Continue` and `Delete` are records
in `ops` whose `stage` moves through the awaits of the code: ownership and
preflight, the retirement barrier, the second read, the migration commit. Two
processes may serve one file, of different builds, and each may crash, losing
everything but the row. `MigrationRegistered` asks what happens once a build
registers a migration.

### Server

A request handler runs up to its next await in one step; `requests[h].stage` is
what it waits for (body, hash, service). `Arrive...` actions are the routes with
their authentication, `Hashed` and `Verified` the continuation of registration
and login after the hash, `Grant` the token of a login. The clock ticks, rows of
`auth_sessions` expire and are swept by the next login. `phase` follows
`close()`: gateway, listener, requests, sessions, database. `chain` holds the
messages of a socket that have not settled, also after it closed; `hostQueue`
the operations that wait in session hosts. `grants` is history: logins that
handed out a token and were not logged out.

## 3. What the runs check

| Run | Instance | Shows |
|---|---|---|
| `adventure` | 320 packs, of which the one that stands is played: three encounters, awards 700, 4300 and 300, one or two of two characters, three skills | `EncounterOrder`, `ExperienceLedger`, `AdvancementOrder`, `PartyStaysPlayable`, `CompiledContentPlays` |
| `session_core` | host and three guests, three characters, two encounters | the asserted invariants (`SessionInvariants`), nobody stuck in a lobby or without a controller (`NobodyIsStuck`), claims kept, seats kept but for idle guests of a lobby (`SeatsAreSafe`), a quiet resume lobby, every save accepted (`SavesAreAccepted`), and that the session implements the adventure |
| `combat` | three actors in every split into teams, decks of one or two cards of which one is dealt | the combat stays playable and can be saved, cards conserved, nobody skipped and who is held stays (`EverybodyInTurn`), the server gives fewer than 5 commands per enemy in a row |
| `skirmish` | a fighter and a goblin chief of `content/m7` with four hands of actions, all degrees of success, four turns | numbers follow the stacking rules (`StackingIsExact`), fear and sustained effects last as long as they should (`DurationsAreExact`), every state passes the checks of a saved fight (`FightsCanBeContinued`), defeat is final for content that meets `HarmAssumption`, as this does |
| `pathfinding` | 3 x 3 squares, up to two special tiles, foes and allies, three movements | the search against all walks, sight in both directions |
| `session_host` | host with two sockets, a guest who may join, two requests, another writer | the host implements `DurableSession`, an open socket is served, retirement is final |
| `session_host_live` | host and guest with a socket each, intents that play and that remove an offline guest, fairness | a version names one state, the retirement barrier is always reached |
| `session_client` | one player, two sockets, two requests, intents that resume and that play, fairness | what a verdict says of its intent, the screen never goes back, an intent is settled |
| `campaign` | two processes of two builds, three sessions, two calls, three saves, fairness | linear history, shown is durable, one writer, opening at the latest save, every call is answered |
| `campaign_refused` | two processes | **fails**, see section 6 |
| `screens` | from the first page to the second combat, four snapshots | the board tells the combat in order (`ToldInOrder`), targets belong to what is shown (`TargetingIsCurrent`), one place on screen and no orphaned lock (`ScreenIsLatest`) |
| `server` | one contested user name, two passwords, two handlers, a socket, fairness | nothing outlives the database, identity is earned, the shutdown ends unless a client stalls in its body |

### Why the bounds are enough

* *Adventure and content*: 700 stays below a level, 4300 more crosses five
  thresholds at once and opens two advancements, 300 is paid without a reward at
  the end. Two members and three items suffice for two to compete for one copy.
  The other packs differ from the one that stands in one category, or in two
  that decide together what a character may carry; each edit is aimed at one
  condition of the validator, or at none.
* *Session core*: three guests compete for two seats, so a seat is freed and
  taken again by another; parties of one to three make the roster fit, fill and
  overflow. Guests and characters are interchangeable, hence the symmetry.
* *Combat*: three actors give two foes that react to one mover, a kill that
  leaves the combat going on, and an initiative order with somebody to skip.
  With a hand of one every other draw reshuffles; the id order is the reverse of
  the initiative order. `PumpIsShort` is tight for one enemy: it reacts, kills
  the mover before it and plays its whole turn, five commands. Authored
  encounters have at most five enemies, so the guard of 512 in the pump is out of
  reach.
* *Skirmish*: rolls of 1, 12 and 20 reach all four degrees; four turns let a
  fright of two wear off, an effect be sustained, dropped and created again, and
  a condition expire at the start of its owner's next turn. The four hands bring
  together what must meet: cover with the raised shield, a ward with prone and
  grabbed on one target, fear with a reaction in another's turn.
  The frights a fighter has had are a record the model keeps for `FearLedger`
  alone; `VIEW Relevant` tells states apart by how much of the strongest is left,
  not by those that have faded or that a stronger one outlasts.
* *Pathfinding*: on 3 x 3 squares there is a way round, a corner between two
  squares and difficult ground beside open ground; the proofs need no bound.
* *Session host*: a second socket is what a retry and a late close need; two
  requests let one be settled while the other waits; revision three allows an
  intent, a server step after it and another intent. `MaxPump = 1` reaches the
  guard. A queue of two lets one operation wait behind another that waits. What an
  intent does to the revision and the projection falls into five classes; the runs
  have `play`, `resume` and `remove-offline-guest`, which differ in what they write
  and whose sockets they close. `prepare` and `claim` publish without a write and
  are covered by the proofs, which hold for every set of classes.
* *Campaign*: the third session is the one opened after two others raced. Two
  calls race each other; three saves allow a session to write, another to
  overtake it and a migration on top.
* *Client*: with two sockets the first can break and the second settle what is
  open. More sockets repeat that.
* *Screens*: one waiting update, so that the next one overflows the backlog (the
  order inside a longer backlog is shown by `CombatIsToldInOrder` alone); four
  snapshots fit two combats with a table between them, or one told over a walk.
  `VIEW Relevant` leaves out which entry view and account state a session was
  entered from: both are set anew when it is left.
* *Server*: two handlers overlap on one name; a lifetime of one tick makes a token
  expire before or after its use; one unsettled message per socket can still be
  running when the gateway closes.

Deadlock is not checked where the system may stop: a combat has an outcome, an
adventure ends, counters reach their bounds, a closed server is done.

### Fairness

`SessionHost`: the event loop runs a ready operation, and a durable write
returns or throws (weak fairness of `RunNext` and `Settle`). Nothing obliges a
client to send or a socket to close. `Campaign`: the same for each session and
each call; a storage call may throw for ever and a process may crash.
`SessionClient`: additionally, a wire that is not broken delivers, both ends
notice a broken one (close event, heartbeat), and the reconnect timer fires; one
weak fairness condition on all of that progress, so that something happens as
long as something can. `Server`: likewise what a handler awaits of the server comes
back, the body of a client that went away ends, queued operations settle and
`close()` moves on. A body whose client stays connected is not part of it
(`AwaitsBody`): `readJsonBody` has no timeout, `httpServer.close()` (`server.ts:142`)
stops Node's own check of slow requests, and `main.ts` forces no exit, so a client
that stalls in the middle of a body keeps `close()` waiting for as long as it likes.
That no client does so is the hypothesis of `ShutdownCompletes`; without it the run
fails. Nothing makes a player act. All of it is what Node's and the browser's event
loops do; no strong fairness is used.

## 4. What is proved

The proofs hold for every number of encounters, characters, items and guests,
under the assumptions the modules state about their constants: experience
awards are naturals and `Earned` their running sum; advancement levels lie above
the starting level (they are levels gained in play); the starter sets and the
items are finite; the party maximum is at most three, as `SessionSeatNumber`
has it; the host is not a guest. For a combat: at least two actors, finite
decks, ids that sort. For the numbers: authored definitions have their types.
TLC evaluates all of them.

* **Adventure.** `ProgressInvariant` proves `ProgressInv`, the type invariant
  together with `EncounterOrder`. The order is needed for the types:
  `current` may index `Award` and `RewardChoices` only because it is the
  encounter after the completed ones. `EncountersInOrder`, `ExperienceIsEarned`
  (from division with remainder by the experience per level, and `Earned` at the
  length of the completed list), `AdvancementsAreTimely` (in order, and none open
  in a fight), `RewardsAreOffered` and `NothingCarriedUnowned` follow from it,
  each by one case per command.
* **Party.** `PartiesStayPlayable`: a kit that is legal stays legal because levels
  only rise and what a level requires of a card does not; a build that resolves
  goes on resolving because a choice is added above all earlier ones, so that each
  earlier increase is judged by the same ranks as before; and the party as a whole
  stays within its collection because rewards only add to it.
* **Content.** `CompiledPacksPlay`: for every pack of the right shape, acceptance
  implies playability. The proof follows the references as the runtime does:
  identifiers are unique, so a lookup finds the one definition that was judged;
  the deck of an actor is known because each of its three sources is; a board has
  nobody on somebody else's square, by the three kinds of pair; a milestone has
  its level to itself and lies above the rank before it, so the next level never
  lowers a rank.
* **Session core.** `SessionInvariant` proves types, the four parts of
  `SessionInvariants` and `CombatWaitsForParty` (the member a combat waits for
  is one of the party), which together are inductive. Seats need an argument by
  counting: a free seat exists whenever the roster is below capacity, because
  three distinct seat numbers fill the range. From it: `CommitNeverThrows`,
  `SessionNeverWaitsForNobody` (every hero's turn has a controller; fewer guests
  than slots 2 and 3, counted through the claims), `SeatsAreKept` (in a session nobody
  loses a character without giving it up, nor a seat but a guest of a lobby who is
  offline and holds no character; the roster is fixed while the adventure runs),
  `ResumeLobbyIsQuiet`, and `SessionPlaysTheAdventure`: every step of the
  session is a step of the adventure or leaves it alone, the refinement the run
  checks as `AdventureBehaviour`.
* **Saves.** `SavesCanBeContinued`: what each layer of the restoring code demands
  follows from the invariants of session and adventure. `CombatsCanBeContinued`
  says the same of the cards and reactions of a combat.
* **Combat.** `CombatInvariant` proves types, the partition of each deck into
  zones, the exact outcome, that the active actor of a combat that goes on is
  alive, and that every candidate of an open queue can react to a mover that may
  go on (`QueueIsOpen`; for the head alone it would not be inductive). The proof
  follows the composition: `Well` is what holds all through a command, `Good`
  what holds again at its end, with a lemma for each operator. That an attack
  leaves its own team somebody alive is what makes the outcome exact; that a
  least element of a set of naturals exists is what makes the next actor and the
  head of the queue exist. `CombatStaysPlayable`, `CardsAreConserved` and
  `TurnsAreTaken` follow.
* **Pathfinding.** `SearchInvariant` is the invariant of the search on a map of
  any size: each square reached is expanded or waits in the frontier, and no edge
  leads from an expanded square to one that is recorded as dearer. From it
  `SearchIsComplete`, with the walker beside the search in place of an induction
  over walks, and `NodesAreFinal`.
* **Lines.** `LinesOpenBothWays`: the loop of `supercoverLine` is described by a
  condition on cells (`Touches`: within half a cell of the segment, corners
  included) that is the same from either end. `RoundsTouch` is the loop invariant:
  what the line touches up to the column and row reached is what has been pushed,
  and no other cell of that column and row is touched (`RoundTouches`, about
  products of natural numbers). With only one of the two cells at a corner, as in
  the mutant, the condition would not be symmetric.
* **Fights.** `FightInv` says of a state, and `Exact` of the draft of a command, that
  fear is the strongest fright left and that no effect's owner has ended a turn
  after it was created or sustained. Every effect of an outcome keeps `Exact`
  (`EffectInTurn`), hence every list of effects does (`CourseExists` and
  `EffectsInTurn`, induction by hand over the list), every action and every
  reaction; `NextTurn` is the end of a turn. `DurationsHold` follows for any
  authored content, any fighters and any dice. The ghosts are not touched by the
  operators the lemmas are about, so that only the fighter whose turn ends calms down
  is something the proof has to show.
* **Fights a save accepts.** `FitInv` adds to `FightInv` what `Fits` says of a draft:
  hit points between 0 and the maximum, nobody defeated with hit points left, each
  condition within its bounds, a turn that names its place in the order, and, while
  the combat lasts, somebody standing on both sides. The types of all numbers are
  needed for it: `StackType` (every sum of collected modifiers is an integer; the
  joins and sums are recursive functions, argued by the least place where the claim
  would fail), `StrikeType`, `DamageIsNatural`. `AdvancedFits` passes the turn to
  somebody who stands, because the loop over the initiative order comes round to
  every place (`NextStands`, `WrapsAround`). `FightsAreAccepted` follows.
* **Defeat.** `DefeatHolds` is of content that meets `HarmAssumption` (below), which the
  validator does not demand. It is about steps, so each lemma also compares the draft
  before with the one after: `Lower` (no condition grows), `Meek` (none of whoever is
  defeated in the end does), `OnlyHarms` (nobody but the target falls). `Meek` does
  not compose in general, since a condition might come before the fatal damage; it
  does after something `Lower`, and before something that fells nobody. That damage
  comes first (`DamageFirst`) is therefore what makes a list of effects, and a Strike
  with the outcome of its degree, `Meek` (`EffectsFit`, `StrikeFits`). That the target
  is never whoever acts (`PlanFits`) keeps the turn with somebody who stands.
* **Numbers.** Lemmas about the operators of `Statistics` and `Skirmish` for all
  values: `BetterRollNeverWorse`, `BonusNeverHurts` (natural 1 and 20 included),
  `DamageWithinPreview`, `RolledIsPreviewed` (every degree a die can show was
  previewed), `HitsAlwaysHurt`, and `FearWearsOffAlone`: merging two applications
  of a condition commutes with the end of a turn. `OnlyTheBestCount` is about the
  stacking of modifiers: of every list exactly one bonus and one penalty of each type
  are taken, none that is left out is greater or worse, and everything untyped is
  taken. `selectedTypedIndices` looks at each candidate once; after each place the
  scan holds the best so far (`ScanFindsGreatest`).

* **Session host.** `HostInv` says, beside the types, what an operation that awaits
  may count on when it goes on: its candidate still follows the state that is
  shown, the player of its intent is still seated and the request not yet
  settled, the pump still plays an adventure. It relates the journal to what took
  effect, the stored generation to the shown one, the joins in the queue to the
  identities handed out, and sockets to connections. `OpenSocketsAreServed`,
  `RetirementIsFinal` and `VersionsNameStates` follow. `HostKeepsItsPromise` is the
  refinement: each step of the host, under the mapping `Promise`, is a step of
  `DurableSession` or a stutter. Only what publishes is not a stutter: a request
  applied once, a server command, a retirement; queueing, a failed write, a
  replayed acknowledgement and another writer change nothing that was promised.
* **Campaign.** What `CampaignInv` adds to the properties is that the row counts its
  commits, that a session whose compared revision still matches has shown exactly
  the save in the row, that a process maps the campaign to its one running
  session, and that a call which waits for a retirement or a migration stands at
  the head of its line, so that no other call of its process opens a session
  meanwhile. `HistoryIsLinear`, `WhatWasShownIsDurable`, `OneWriterPerProcess`,
  `SessionsOpenAtTheLatest` and `DeletionIsFinal` follow, for any number of
  processes, builds, sessions and calls, whatever crashes.
* **Server.** `ServerInv` has two halves that meet in the requests. Accounts
  (`AuthInv`): every row of `auth_sessions` has the login that earned it, and every
  login still good has its row. Shutdown (`FlowInv`): each phase of `close()` keeps
  what the phase before it waited for, because what is left can only settle and
  starts nothing new. `IdentityIsAlwaysEarned` and `NothingIsLeftToWrite` follow.
* **The pump.** `PumpInv` is a debt: every command of a running pump was paid for
  by the ready reaction of an enemy or by the turns of the enemies that the
  initiative order has put between it and the next hero. Five commands per enemy
  is what that sums up to; `PumpEnds` says so for any number of heroes and enemies.
* **Client.** `ClientInv` is about one browser, the wires and the host together.
  `HostInv` and `GateInv` (who may wait in the queue) hold of the server. Of the
  socket in use (`LinkInv`): whatever older sockets left in the queue is done before
  its attach (`OldBeforeNew`); of the open intent at most one copy is on it, going
  up, queued, running, or as its answer coming down (`OneCopy`), while copies older
  sockets left are the same envelope (`CopiesAreEqual`) and are answered before this
  one arrives; refusals and acceptances coming down are true; a terminal error is the
  last word, and the result of an intent that took effect comes before it
  (`AnswerInv`); snapshots come in the order of their versions
  (`SnapshotsInOrder`). What a step of the server can put on a socket is stated once
  (`Message`), so that the wires are not argued about for every operation.
  `VerdictsAreTruthful` and `ScreenOnlyAdvances` follow, with any number of sockets
  that break at any time: accepted means applied once and on screen, refused means
  never applied, except of the one request that was open when the session turned the
  client away.
* **Screens.** A board is `Fine` when the history of what it told is consecutive and
  ends with the state shown, and when everything chosen on it (the interaction, the
  one to return to, the question whose answer waits for its verdict) is idle or
  belongs to that state, which then is this player's to act in. One lemma for each
  operator of `Playback` shows that it keeps this. `ScreensInv` adds where the board
  stands: the backlog holds the consecutive snapshots behind the one shown, none of
  them a resync, ends with the newest snapshot of the session, and is empty unless a
  standee walks (`WaitsInLine`); while the assets are awaited there is no board, and
  the newest combat is among the renderings that wait (`AwaitingInv`), so when they go
  on exactly that one does. `ApplyAll` is a recursive function over the backlog: that
  it exists and that each of its stages is `Fine` is proved by the least stage where
  it would not be (`RunExists`, `ApplyAllIsFine`), which is an induction over data
  done by hand. `CombatIsToldInOrder`, `ChoicesAreCurrent` and `ScreenIsOfOnePlace`
  follow, for any cap of the backlog, any number of snapshots and boards, and any
  combat a server may show.

About content `Skirmish` assumes what its types and compilation establish: effects
are lists, kinds are those of the types, modifiers have integers as values, an
action's targeting is one its resolution allows (`validate-semantics.ts`), the
reaction at hand is an authored Strike, fear is a valued condition that wears off
by one and no condition grows at the end of a turn (`content/m7/conditions.json`).
Everybody is in the initiative order once, enters with hit points and has somebody
to fight. Two assumptions hold of the content although nothing in the code validates
them; `DefeatHolds` and `FightsAreAccepted` depend on them:

* `HarmAssumption`: an effect that does damage does it to an enemy, and before any
  condition of the same outcome. An action that lists a condition before the damage
  that fells its target would give a condition to the fallen, and one that harms its
  own actor would leave the turn with it. All damage of `content/m7/actions.json` is
  done to an enemy, and first.
* a `restore-hp` effect multiplies by a whole number (`times`). The type allows any
  number and nothing rounds the product, so half a healing would leave fractional hit
  points, which the schema of a save refuses. No content has a multiplier there.

Besides the assumptions above: a commit and a process exist, the server has
finitely many sockets; for the client, one player owns all sockets, and no request
has the identifier that stands for "none".

Only model-checked:

* all liveness (`RetireCompletes`, `CallsSettle`, `IntentSettles`,
  `ShutdownCompletes`): fairness and `ENABLED` are outside TLAPS;
* `StackingIsExact` of `Skirmish`: it says what the modifiers of one content pack come
  to. Of any content it is proved that of each type only the best modifiers count
  (`OnlyTheBestCount`) and that any list adds up to an integer (`StackType`).

## 5. What is not modelled

* Text, layout, logging, HTTP parsing, hashing and cookie syntax; the wire
  validation of `protocol/validate-message.ts`; the views.
* Time outside `Server`: heartbeats and reconnect delays are nondeterministic
  closes and reconnections.
* Contents of messages beyond what decides something.
* A socket that closes while its attach waits: `RunAttach` registers it as the
  code does, and the player counts as online until another socket attaches
  (`session-host.ts:143`, `ws-gateway.ts:197`). `OpenSocketIsServed` speaks of
  open sockets; that the registered socket is alive is not true of the code and
  is not claimed.
* `create` whose session fails synchronously: the row it just made is removed
  again.
* Levers and gates of a map (`executeInteract`), the scoring of the AI, the replay
  of a command log, and what the board draws as preview or target.
* Advancements an author writes into a starting character (`progression.ts:12`).
* In a content pack: the numbers of dice, ranges and fixed difficulty classes,
  the JSON schema, the fingerprint. Of a class, only its key attribute, hit points
  and proficiencies exist.
* Asset loading that fails: the rejected promise of the encounter bundle is kept
  (`??=`) and every later combat of that page fails with it; `Screens` lets the
  bundle load or stay away.

## 6. A disagreement between a comment and the code

`http-api.ts:282` says that a refused Continue leaves the stored save *and any
live session* exactly as they were. `continue()` checks the save first, retires
the live session, and then reads the save again, commits a migration and
restores. If any of these later steps refuses, the session is already gone. The
run `campaign_refused` shows the shortest such behaviour, with another process
that deletes the campaign between the two reads. The README of the game puts
several processes on one database out of its scope; within one process (the run has
that branch too, `RestoreFails`) the order is the same, but only a migration conflict or a failing restore can refuse
there, and both are unlikely. The stored save is left alone in every case.

## 7. Plan

1. *Done*: adventure and party, content, authority and saves, combat and skirmish,
   pathfinding, host with its abstract session, client, screens, campaign, server.
2. *Done*: the host implements its abstract session; campaign, server and client
   invariants; the bound on the pump.
3. *Done*: the invariants of `Screens`: what is shown, queued and told as one order.
4. *Done*: durations and lines of sight; the types of the numbers of `Statistics`,
   the saves of fights, and defeat under the conditions on content it needs.
5. Refinement of the combat that `SessionCore` sees by `Combat`; levers and gates.
6. The wire validation, as the set of messages each handler may assume.
