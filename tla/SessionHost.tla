---------------------------- MODULE SessionHost ----------------------------
(***************************************************************************)
(* One live session on the server: src/src/server/session-host.ts with the *)
(* durability coordinator it commits through.                              *)
(*                                                                         *)
(* Every operation goes through one promise queue.  An operation runs in   *)
(* one step unless it awaits: an accepted intent awaits its durable write, *)
(* then the server plays its own turns, each with a durable write of its   *)
(* own.  Between two awaits anything else may happen except another        *)
(* operation of this session.                                              *)
(*                                                                         *)
(* The core state is reduced to what the host itself looks at: its         *)
(* revision, whether an adventure exists, the generation of its gameplay   *)
(* projection (equal generations stand for equal gameplay hashes), and     *)
(* whether the server is to act.  What the domain accepts is left open     *)
(* (module SessionCore).                                                   *)
(***************************************************************************)
EXTENDS Integers, Sequences, FiniteSets

CONSTANTS
  Host, Guests,   \* player identities
  Connections,    \* socket identities
  Owner,          \* Owner[c]: the player whose credential socket c presents
  Requests,       \* request identifiers of a client
  Intents,        \* the classes of intents clients send
  NoConn,
  MaxPump,        \* server commands one intent may trigger (512 in the code)
  MaxRevision,    \* bound: no transition is accepted at this revision
  MaxRow,         \* bound: no other writer commits at this campaign revision
  MaxQueue        \* bound: operations waiting in the promise queue

Players == {Host} \union Guests

ASSUME HostAssumption ==
  /\ Host \notin Guests
  /\ NoConn \notin Connections
  /\ Owner \in [Connections -> Players]
  /\ Intents \subseteq {"prepare", "claim", "resume", "play", "remove-offline-guest"}
  /\ MaxPump \in Nat \ {0}
  /\ MaxRevision \in Nat
  /\ MaxRow \in Nat
  /\ MaxQueue \in Nat

VARIABLES
  core,         \* stateValue
  seated,       \* players owning a seat of stateValue
  digests,      \* players with an entry in reconnectDigests
  connections,  \* the connection of each player, NoConn when absent
  control,      \* controlRevisionValue
  journal,      \* journal: envelope and answer of each settled request
  retired,      \* retiredValue
  queue,        \* operations chained on the promise queue
  running,      \* the operation that awaits, and what it awaits
  held,         \* campaign revision the durability coordinator holds
  row,          \* campaign_revision of the durable row, 0 when deleted
  saved,        \* last generation this session wrote durably
  sent,         \* messages the last step put on each socket
  socket,       \* gateway state of each socket
  issued,       \* players whose credential was handed out
  applied       \* history: how often each request took effect

durableVars == <<held, row, saved>>
hostVars == <<core, seated, digests, connections, control, journal, retired>>
vars == <<hostVars, queue, running, durableVars, sent, socket, issued, applied>>

-----------------------------------------------------------------------------
(* Data *)

Envelopes == [id : Requests, intent : Intents, expected : 0..MaxRevision]
Idle == [stage |-> "idle"]
NoEntry == [accepted |-> FALSE, revision |-> -1]

Ack(id, ok, rev) == [type |-> "ack", id |-> id, accepted |-> ok, revision |-> rev]
Error(code, id) == [type |-> "error", code |-> code, id |-> id]
Close(code) == [type |-> "close", code |-> code]
Snapshot(state, ctl, conns, cause) ==
  [type |-> "snapshot", revision |-> state.revision, control |-> ctl,
   gen |-> state.gen, adventure |-> state.adventure,
   online |-> {p \in Players : conns[p] # NoConn}, cause |-> cause]

Quiet == [c \in Connections |-> <<>>]
Live(conns) == {conns[p] : p \in Players} \ {NoConn}

\* send(playerId, ...): to the player's current connection, if any.
Reply(p, messages) ==
  [c \in Connections |-> IF c = connections[p] THEN messages ELSE <<>>]

\* Every live connection gets message; player p gets first before it.
ReplyAndBroadcast(p, first, message) ==
  [c \in Connections |->
     IF c \notin Live(connections) THEN <<>>
     ELSE IF c = connections[p] THEN Append(first, message) ELSE <<message>>]

Broadcast(conns, message) ==
  [c \in Connections |-> IF c \in Live(conns) THEN <<message>> ELSE <<>>]

-----------------------------------------------------------------------------
(* Creation and the queue *)

\* A fresh session on a new campaign, or one restored from its save.
Init ==
  /\ core \in {[revision |-> 0, gen |-> 0, adventure |-> restored, server |-> FALSE] :
                 restored \in BOOLEAN}
  /\ seated = {Host}
  /\ digests = {Host}
  /\ connections = [p \in Players |-> NoConn]
  /\ control = 0
  /\ journal = [p \in Players |-> [r \in Requests |-> NoEntry]]
  /\ retired = FALSE
  /\ queue = <<>>
  /\ running = Idle
  /\ held = 1 /\ row = 1 /\ saved = 0
  /\ sent = Quiet
  /\ socket = [c \in Connections |-> "new"]
  /\ issued = {Host}
  /\ applied = [p \in Players |-> [r \in Requests |-> 0]]

\* enqueue(): a wait for the slot, not a call.
Enqueue(op) ==
  /\ Len(queue) < MaxQueue
  /\ queue' = Append(queue, op)

\* The next operation starts once the one before it has settled.
Starts(kind) ==
  /\ running = Idle
  /\ queue # <<>>
  /\ Head(queue).kind = kind
  /\ queue' = Tail(queue)

\* close(code, reason) on an open socket: its close event is still to come.
Dropped(sockets, closing) ==
  [c \in Connections |->
     IF c \in closing /\ sockets[c] = "open" THEN "closing" ELSE sockets[c]]

\* retireInQueue
RetireInQueue(farewell) ==
  /\ retired' = TRUE
  /\ connections' = [p \in Players |-> NoConn]
  /\ sent' = [c \in Connections |->
                IF c \in Live(connections)
                  THEN Append(farewell[c], Close("retired")) ELSE <<>>]
  /\ socket' = Dropped(socket, Live(connections))

-----------------------------------------------------------------------------
(* Operations that do not await *)

\* addPlayer
RunJoin ==
  /\ Starts("join")
  /\ LET p == Head(queue).player IN
     \/ /\ ~retired
        /\ core.revision < MaxRevision
        /\ core' = [core EXCEPT !.revision = @ + 1]
        /\ seated' = seated \union {p}
        /\ digests' = digests \union {p}
        /\ issued' = issued \union {p}
        /\ sent' = Broadcast(connections, Snapshot(core', control, connections, "join"))
        /\ UNCHANGED <<connections, control, journal, retired>>
     \/ sent' = Quiet /\ UNCHANGED <<hostVars, issued>>  \* retired, locked or full
  /\ UNCHANGED <<running, durableVars, socket, applied>>

\* Fault: an attach queued before the retirement is still served.
RefusedByCredential(p) == p \notin digests

\* attach turns away a retired session's clients and unknown credentials.
Refused(p) == retired \/ p \notin digests

\* What the gateway answers a refused attach; the error names no request.
Refusal ==
  IF retired THEN <<Error("SESSION_RETIRED", "none"), Close("retired")>>
             ELSE <<Error("UNAUTHENTICATED", "none"), Close("refused")>>

\* attach; a socket that closed while the operation waited is registered too.
RunAttach ==
  /\ Starts("attach")
  /\ LET c == Head(queue).conn
         p == Owner[c]
         previous == connections[p]
         joined == [connections EXCEPT ![p] = c]
         arrived == previous = NoConn
         version == IF arrived THEN control + 1 ELSE control
     IN
     \/ /\ Refused(p)
        /\ sent' = [Quiet EXCEPT ![c] = IF socket[c] = "hello" THEN Refusal ELSE <<>>]
        /\ socket' = [socket EXCEPT ![c] = "closed"]
        /\ UNCHANGED hostVars
     \/ /\ ~Refused(p)
        /\ connections' = joined
        /\ control' = version
        /\ sent' = [d \in Connections |->
             IF d = c THEN <<Snapshot(core, version, joined, "resync")>>
             ELSE IF d = previous THEN <<Close("replaced")>>
             ELSE IF arrived /\ d \in Live(joined)
               THEN <<Snapshot(core, version, joined, "control")>>
             ELSE <<>>]
        /\ socket' = [Dropped(socket, {previous}) EXCEPT
                        ![c] = CASE @ = "hello" -> "open"
                                 [] @ = "late" -> "closing"
                                 [] OTHER -> @]
        /\ UNCHANGED <<core, seated, digests, journal, retired>>
  /\ UNCHANGED <<running, durableVars, issued, applied>>

\* Fault: the late close of a replaced socket takes the player offline.
RunDetachAnyConnection ==
  /\ Starts("detach")
  /\ LET left == [connections EXCEPT ![Owner[Head(queue).conn]] = NoConn] IN
     /\ connections' = left
     /\ control' = control + 1
     /\ sent' = Broadcast(left, Snapshot(core, control + 1, left, "control"))
  /\ UNCHANGED <<core, seated, digests, journal, retired,
                 running, durableVars, socket, issued, applied>>

\* Fault: leaving is published without a new control revision.
RunDetachUnversioned ==
  /\ Starts("detach")
  /\ LET c == Head(queue).conn
         left == [connections EXCEPT ![Owner[c]] = NoConn]
     IN
     \/ connections[Owner[c]] # c /\ sent' = Quiet /\ UNCHANGED hostVars
     \/ /\ connections[Owner[c]] = c
        /\ connections' = left
        /\ sent' = Broadcast(left, Snapshot(core, control, left, "control"))
        /\ UNCHANGED <<core, seated, digests, control, journal, retired>>
  /\ UNCHANGED <<running, durableVars, socket, issued, applied>>

\* detach, ignored unless that connection is still the player's.
RunDetach ==
  /\ Starts("detach")
  /\ LET c == Head(queue).conn
         p == Owner[c]
         left == [connections EXCEPT ![p] = NoConn]
     IN
     \/ connections[p] # c /\ sent' = Quiet /\ UNCHANGED hostVars
     \/ /\ connections[p] = c
        /\ connections' = left
        /\ control' = control + 1
        /\ sent' = Broadcast(left, Snapshot(core, control + 1, left, "control"))
        /\ UNCHANGED <<core, seated, digests, journal, retired>>
  /\ UNCHANGED <<running, durableVars, socket, issued, applied>>

\* retire() from Continue or from deleting the campaign.
RunRetire ==
  /\ Starts("retire")
  /\ \/ retired /\ sent' = Quiet /\ UNCHANGED <<retired, connections, socket>>
     \/ ~retired /\ RetireInQueue(Quiet)
  /\ UNCHANGED <<core, seated, digests, control, journal,
                 running, durableVars, issued, applied>>

-----------------------------------------------------------------------------
(* handleIntent *)

Entry(p, env) == journal[p][env.id]
\* Fault: only refusals are looked up again.
KnownRefusal(p, env) == Entry(p, env) # NoEntry /\ ~Entry(p, env).accepted

Known(p, env) == Entry(p, env) # NoEntry

Remember(p, env, ok, rev) ==
  journal' = [journal EXCEPT ![p][env.id] =
                [accepted |-> ok, revision |-> rev, env |-> env]]

OfflineGuests == {g \in Guests \intersect seated : connections[g] = NoConn}

\* The domain may accept; it may always refuse as well.
MayAccept(p, intent) ==
  /\ p \in seated
  /\ core.revision < MaxRevision
  /\ intent # "play" => ~core.server
  /\ intent = "prepare" => p = Host /\ ~core.adventure
  /\ intent = "claim" => p # Host
  /\ intent = "resume" => p = Host /\ core.adventure /\ core.gen = 0
  /\ intent = "remove-offline-guest" =>
       p = Host /\ OfflineGuests # {}

\* The candidate an accepted intent produces.
Candidates(intent) ==
  {[revision |-> core.revision + 1,
    gen |-> IF intent \in {"prepare", "play"} THEN core.gen + 1 ELSE core.gen,
    adventure |-> core.adventure \/ intent = "play",
    server |-> turn] :
     turn \in IF intent \in {"play", "resume"} /\ core.revision + 1 < MaxRevision
                THEN BOOLEAN ELSE {core.server}}

\* Answers given without a state change.
DropStaleConnection(p, c) ==
  /\ retired \/ connections[p] # c
  /\ sent' = Quiet
  /\ UNCHANGED <<journal, running>>

\* Fault: the replayed answer carries the state of its own revision.
ReplayKnownAsOf(p, env) ==
  /\ Known(p, env)
  /\ sent' = Reply(p, <<Ack(env.id, Entry(p, env).accepted, Entry(p, env).revision),
               Snapshot([core EXCEPT !.revision = Entry(p, env).revision],
                        control, connections, "resync")>>)
  /\ UNCHANGED <<journal, running>>

ReplayKnown(p, env) ==
  /\ Known(p, env)
  /\ sent' = IF Entry(p, env).env # env
               THEN Reply(p, <<Error("REQUEST_ID_REUSE", env.id)>>)
               ELSE Reply(p,
                 <<Ack(env.id, Entry(p, env).accepted, Entry(p, env).revision)>>
                 \o (IF Entry(p, env).accepted THEN <<>>
                     ELSE <<Error("REJECTED", env.id)>>)
                 \o <<Snapshot(core, control, connections, "resync")>>)
  /\ UNCHANGED <<journal, running>>

\* A stale expected revision, or the domain says no: settled and journalled.
RefuseIntent(p, env) ==
  /\ ~Known(p, env)
  /\ Remember(p, env, FALSE, core.revision)
  /\ sent' = Reply(p, <<Ack(env.id, FALSE, core.revision), Error("REJECTED", env.id)>>)
  /\ UNCHANGED running

\* The candidate waits for its durable write; nothing is visible yet.
AcceptIntent(p, env) ==
  /\ ~Known(p, env)
  /\ env.expected = core.revision
  /\ MayAccept(p, env.intent)
  /\ \E candidate \in Candidates(env.intent) :
       running' = [stage |-> "intent", conn |-> connections[p], env |-> env,
                   candidate |-> candidate]
  /\ sent' = Quiet
  /\ UNCHANGED journal

RunIntent ==
  /\ Starts("intent")
  /\ LET c == Head(queue).conn
         p == Owner[c]
         env == Head(queue).env
     IN \/ DropStaleConnection(p, c)
        \/ /\ ~retired /\ connections[p] = c
           /\ ReplayKnown(p, env) \/ RefuseIntent(p, env) \/ AcceptIntent(p, env)
  /\ UNCHANGED <<core, seated, digests, connections, control, retired,
                 durableVars, socket, issued, applied>>

-----------------------------------------------------------------------------
(* commitTransition through the durability coordinator *)

Committing == running.stage \in {"intent", "pump"}

\* Same gameplay hash, or no adventure yet: the database is not touched.
NeedsWrite == running.candidate.gen # core.gen /\ running.candidate.adventure

WriteLands ==
  IF NeedsWrite
    THEN /\ row = held
         /\ row' = row + 1 /\ held' = held + 1
         /\ saved' = running.candidate.gen
    ELSE UNCHANGED durableVars

\* Publication of an accepted intent; a removed guest is one that is offline.
PublishIntent ==
  LET p == Owner[running.conn]
      env == running.env
      settled == [accepted |-> TRUE, revision |-> core'.revision, env |-> env]
  IN
  /\ core' = running.candidate
  /\ applied' = [applied EXCEPT ![p][env.id] = @ + 1]
  /\ sent' = ReplyAndBroadcast(p, <<Ack(env.id, TRUE, core'.revision)>>,
               Snapshot(core', control, connections, "intent"))
  /\ \/ /\ env.intent # "remove-offline-guest"
        /\ journal' = [journal EXCEPT ![p][env.id] = settled]
        /\ UNCHANGED <<seated, digests>>
     \/ /\ env.intent = "remove-offline-guest"
        /\ \E g \in OfflineGuests :
             /\ seated' = seated \ {g}
             /\ digests' = digests \ {g}
             /\ journal' = [journal EXCEPT ![p][env.id] = settled,
                                           ![g] = [r \in Requests |-> NoEntry]]

\* pumpServerAuthority: go on while the server is to act.  Past the guard it
\* throws, which settles the operation without publishing anything more.
NextServerStep(count) ==
  IF core'.server /\ core'.revision < MaxRevision /\ count < MaxPump
    THEN \E turn \in BOOLEAN :
           running' = [stage |-> "pump", conn |-> running.conn, count |-> count + 1,
                       candidate |-> [core' EXCEPT !.revision = @ + 1,
                                                   !.gen = @ + 1, !.server = turn]]
    ELSE running' = Idle

CommitIntent ==
  /\ running.stage = "intent"
  /\ WriteLands
  /\ PublishIntent
  /\ NextServerStep(0)
  /\ UNCHANGED <<connections, control, retired, queue, socket, issued>>

CommitServerStep ==
  /\ running.stage = "pump"
  /\ WriteLands
  /\ core' = running.candidate
  /\ sent' = Broadcast(connections, Snapshot(core', control, connections, "server"))
  /\ NextServerStep(running.count)
  /\ UNCHANGED <<seated, digests, connections, control, journal, retired,
                 queue, socket, issued, applied>>

\* The driver threw: the row is as it was.  An intent is answered but not
\* journalled, a failed server step ends the session.
WriteFails ==
  /\ Committing /\ NeedsWrite
  /\ \/ /\ running.stage = "intent"
        /\ sent' = Reply(Owner[running.conn],
             <<Ack(running.env.id, FALSE, core.revision),
               Error("PERSISTENCE_FAILED", running.env.id)>>)
        /\ UNCHANGED <<retired, connections, socket>>
     \/ /\ running.stage = "pump"
        /\ RetireInQueue([c \in Connections |-> <<Error("PERSISTENCE_FAILED", "none")>>])
  /\ running' = Idle
  /\ UNCHANGED <<core, seated, digests, control, journal, queue, durableVars,
                 issued, applied>>

\* Fault: the failed operation awaits retire(), which waits behind it.
WriterRetiredByWaiting ==
  /\ Committing /\ NeedsWrite
  /\ row # held
  /\ Enqueue([kind |-> "retire"])
  /\ running' = [stage |-> "retiring", conn |-> running.conn]
  /\ sent' = Quiet
  /\ UNCHANGED <<hostVars, durableVars, socket, issued, applied>>

\* Another writer advanced the row, or it is gone: this session is over.
WriterRetired ==
  /\ Committing /\ NeedsWrite
  /\ row # held
  /\ RetireInQueue([c \in Connections |->
       IF running.stage = "pump" THEN <<Error("SESSION_RETIRED", "none")>>
       ELSE IF c = running.conn
         THEN <<Error("SESSION_RETIRED", running.env.id)>> ELSE <<>>])
  /\ running' = Idle
  /\ UNCHANGED <<core, seated, digests, control, journal, queue, durableVars,
                 issued, applied>>

-----------------------------------------------------------------------------
(* What arrives: the gateway, the HTTP API and other writers *)

\* Where each step that only submits leaves the session.
Submitted ==
  /\ sent' = Quiet
  /\ UNCHANGED <<hostVars, running, durableVars, issued, applied>>

Queued(kind) == {i \in DOMAIN queue : queue[i].kind = kind}

\* A join request carries a player identity of its own.
RequestJoin(p) ==
  /\ ~retired
  /\ p \notin issued
  /\ \A i \in Queued("join") : queue[i].player # p
  /\ Enqueue([kind |-> "join", player |-> p])
  /\ Submitted
  /\ UNCHANGED socket

\* The first message of a socket; the gateway awaits attach.
Hello(c) ==
  /\ ~retired
  /\ socket[c] = "new"
  /\ Owner[c] \in issued
  /\ socket' = [socket EXCEPT ![c] = "hello"]
  /\ Enqueue([kind |-> "attach", conn |-> c])
  /\ Submitted

\* The hello deadline of the gateway ends a socket whose attach still waits
\* in the queue of the session.
HelloDeadline(c) ==
  /\ socket[c] = "hello"
  /\ socket' = [socket EXCEPT ![c] = "late"]
  /\ sent' = [Quiet EXCEPT ![c] = <<Close("timeout")>>]
  /\ UNCHANGED <<hostVars, queue, running, durableVars, issued, applied>>

\* Once retired, the session is no longer found.
HelloTooLate(c) ==
  /\ retired
  /\ socket[c] = "new"
  /\ socket' = [socket EXCEPT ![c] = "closed"]
  /\ sent' = [Quiet EXCEPT ![c] =
                <<Error("SESSION_NOT_FOUND", "none"), Close("not-found")>>]
  /\ UNCHANGED <<hostVars, queue, running, durableVars, issued, applied>>

\* The gateway handles the messages of one socket one after the other: a socket
\* the server is closing still delivers what the client had sent, and messages
\* chained behind a waiting hello are handled although the socket has closed.
SendIntent(c, env) ==
  /\ ~retired
  /\ \/ socket[c] \in {"open", "closing"}
     \/ socket[c] = "closed" /\ connections[Owner[c]] = c
  /\ env.expected <= core.revision
  /\ \A i \in Queued("intent") : queue[i].conn # c
  /\ running # Idle => running.conn # c
  /\ Enqueue([kind |-> "intent", conn |-> c, env |-> env])
  /\ Submitted
  /\ UNCHANGED socket

\* The close event.  The handler detaches only a socket whose attach was
\* answered, and finds no session to detach from once it retired.
SocketCloses(c) ==
  /\ socket[c] \in {"hello", "late", "open", "closing"}
  /\ socket' = [socket EXCEPT ![c] = "closed"]
  /\ IF socket[c] \in {"hello", "late"} \/ retired
       THEN UNCHANGED queue
       ELSE Enqueue([kind |-> "detach", conn |-> c])
  /\ Submitted

RequestRetire ==
  /\ ~retired
  /\ Queued("retire") = {}
  /\ Enqueue([kind |-> "retire"])
  /\ Submitted
  /\ UNCHANGED socket

\* Another process commits to the campaign or deletes it.
OtherWriter ==
  /\ row \in 1..(MaxRow - 1)
  /\ row' \in {row + 1, 0}
  /\ sent' = Quiet
  /\ UNCHANGED <<hostVars, queue, running, held, saved, socket, issued, applied>>

RunNext == RunJoin \/ RunAttach \/ RunDetach \/ RunRetire \/ RunIntent

Settle == CommitIntent \/ CommitServerStep \/ WriteFails \/ WriterRetired

Next ==
  \/ RunNext
  \/ Settle
  \/ \E p \in Guests : RequestJoin(p)
  \/ \E c \in Connections : Hello(c) \/ HelloTooLate(c) \/ HelloDeadline(c)
  \/ \E c \in Connections, env \in Envelopes : SendIntent(c, env)
  \/ \E c \in Connections : SocketCloses(c)
  \/ RequestRetire
  \/ OtherWriter

Spec == Init /\ [][Next]_vars

\* The event loop runs what is ready, and a durable write returns or throws.
Fairness == WF_vars(RunNext) /\ WF_vars(Settle)

FairSpec == Spec /\ Fairness

-----------------------------------------------------------------------------
(* Properties *)

Operations ==
  [kind : {"join"}, player : Guests]
  \union [kind : {"attach", "detach"}, conn : Connections]
  \union [kind : {"intent"}, conn : Connections, env : Envelopes]
  \union [kind : {"retire"}]

States == [revision : 0..MaxRevision, gen : 0..MaxRevision,
           adventure : BOOLEAN, server : BOOLEAN]

Entries == [accepted : BOOLEAN, revision : 0..MaxRevision, env : Envelopes]

\* Type invariant of the host, its queue and its environment.
TypeOK ==
  /\ core \in States
  /\ seated \subseteq Players /\ digests \subseteq Players /\ issued \subseteq Players
  /\ connections \in [Players -> Connections \union {NoConn}]
  /\ control \in Nat
  /\ journal \in [Players -> [Requests -> {NoEntry} \union Entries]]
  /\ retired \in BOOLEAN
  /\ queue \in Seq(Operations) /\ Len(queue) <= MaxQueue
  /\ running \in {Idle}
       \union [stage : {"intent"}, conn : Connections, env : Envelopes, candidate : States]
       \union [stage : {"pump"}, conn : Connections, count : 1..MaxPump, candidate : States]
  /\ held \in Nat /\ row \in Nat /\ saved \in 0..MaxRevision
  /\ socket \in [Connections -> {"new", "hello", "late", "open", "closing", "closed"}]
  /\ applied \in [Players -> [Requests -> Nat]]

Shown(c, type) == {i \in DOMAIN sent[c] : sent[c][i].type = type}

Promise == INSTANCE DurableSession WITH
  effects <- applied, shown <- core.gen, stored <- saved,
  begun <- core.adventure, over <- retired

\* The session implements DurableSession: queue, awaited writes, sockets,
\* retries and retirement together let a request take effect at most once,
\* show no gameplay of an adventure that is not stored, and change nothing
\* once the session is over.
KeepsItsPromise == Promise!Spec

\* A socket that completed its hello is the connection its player is served
\* over: neither a newer attach nor the late close of an older socket leaves
\* an open socket behind that nobody sends to.
OpenSocketIsServed ==
  \A c \in Connections : socket[c] = "open" => connections[Owner[c]] = c

Online == {p \in Players : connections[p] # NoConn}

\* A live session never shows two different states under one version: what
\* clients see changes only with a larger (revision, controlRevision), and
\* neither part ever goes back.
SnapshotVersionAdvances ==
  [][/\ core'.revision >= core.revision
     /\ control' >= control
     /\ core' # core => core'.revision > core.revision
     /\ Online' # Online /\ ~retired' => control' > control]_vars

\* Retirement is final whatever was queued behind it: nobody is served, no
\* state changes and nothing is written any more.
RetiredIsFinal ==
  [][retired => /\ retired'
                /\ UNCHANGED <<core, seated, connections, control, saved>>
                /\ \A c \in Connections : Shown(c, "snapshot")' = {}]_vars

\* The barrier Continue waits on is always reached: a queued retirement is
\* carried out, whatever the operation in front of it does.
RetireCompletes == Queued("retire") # {} ~> retired
=============================================================================
