---------------------------- MODULE ClientProofs ----------------------------
(***************************************************************************)
(* Proofs about one browser client and the session it talks to, over any   *)
(* number of sockets and requests.                                         *)
(*                                                                         *)
(* The first half describes what a step of the server can do to its queue, *)
(* sockets, connections and journal, and what it can say on a socket; the  *)
(* second half needs nothing else of the server.  The invariant follows an *)
(* open intent: where its copies are, which of them can still take effect, *)
(* and which answers are on their way.                                     *)
(***************************************************************************)
EXTENDS SessionClient, SessionHostProofs, SequenceTheorems

-----------------------------------------------------------------------------
(* Gateway and queue *)

Unattached == {"new", "hello", "late"}

\* An attach waits once for each socket, and only until it was answered.
AttachWaits ==
  \A i \in Queued("attach") :
    /\ socket[queue[i].conn] \in {"hello", "late", "closed"}
    /\ \A j \in Queued("attach") : queue[j].conn = queue[i].conn => i = j

\* Who is served, or has an intent waiting, was attached.
ServedAreAttached ==
  /\ \A p \in Players : connections[p] # NoConn =>
       Owner[connections[p]] = p /\ socket[connections[p]] \notin Unattached
  /\ \A i \in Queued("intent") : socket[queue[i].conn] \notin Unattached
  /\ Committing => connections[Owner[running.conn]] = running.conn

\* The gateway lets one message of a socket settle before the next.
OneAtATime ==
  \A i \in Queued("intent") :
    /\ \A j \in Queued("intent") : queue[j].conn = queue[i].conn => i = j
    /\ Committing => running.conn # queue[i].conn

\* The host keeps its credential, and what took effect is in its journal.
HostIsSettled ==
  /\ Host \in digests
  /\ \A r \in Requests :
       applied[Host][r] = IF journal[Host][r].accepted THEN 1 ELSE 0

GateInv == AttachWaits /\ ServedAreAttached /\ OneAtATime /\ HostIsSettled

-----------------------------------------------------------------------------
(* What a step of the server does *)

RunsIntent == running.stage = "intent"

\* To a socket, its close event apart.
ServedMoves(c) ==
  \/ socket'[c] = socket[c]
  \/ socket[c] = "open" /\ socket'[c] = "closing"
  \/ socket[c] = "new" /\ Hello(c) /\ socket'[c] = "hello"
  \/ socket[c] = "new" /\ retired /\ socket'[c] = "closed"
  \/ socket[c] = "hello" /\ socket'[c] = "late"
  \/ /\ Starts("attach") /\ Head(queue).conn = c
     /\ \/ (retired \/ Owner[c] \notin digests) /\ socket'[c] = "closed"
        \/ /\ connections'[Owner[c]] = c
           /\ \/ socket[c] \in {"hello", "late"} /\ socket'[c] \in {"open", "closing"}
              \/ socket[c] \notin {"hello", "late"} /\ socket'[c] = socket[c]

SocketMoves(c) ==
  ServedMoves(c) \/ (socket[c] \in {"hello", "late", "open", "closing"} /\ socket'[c] = "closed")

\* To the queue.
QueueMoves ==
  \/ queue' = queue
  \/ \E kind : Starts(kind)
  \/ \E op \in Operations :
       /\ Enqueue(op)
       /\ op.kind = "attach" => Hello(op.conn)
       /\ op.kind = "intent" => SendIntent(op.conn, op.env)

\* To what awaits.
RunningMoves ==
  \/ running' = running
  \/ running' = Idle /\ queue' = queue
  \/ /\ Starts("intent")
     /\ running'.stage = "intent"
     /\ running'.conn = Head(queue).conn /\ running'.env = Head(queue).env
     /\ ~retired
     /\ connections[Owner[running'.conn]] = running'.conn
     /\ journal[Owner[running'.conn]][running'.env.id] = NoEntry
     /\ UNCHANGED <<journal, applied, connections, retired>> /\ sent' = Quiet
  \/ /\ Committing /\ running'.stage = "pump" /\ running'.conn = running.conn
     /\ UNCHANGED <<queue, connections, retired>>

\* To who is served.
ConnectionMoves ==
  \/ connections' = connections
  \/ retired' /\ connections' = [p \in Players |-> NoConn]
  \/ /\ Starts("attach") /\ ~retired
     /\ connections' = [connections EXCEPT ![Owner[Head(queue).conn]] = Head(queue).conn]
     /\ socket'[Head(queue).conn] \notin Unattached
  \/ /\ Starts("detach")
     /\ connections[Owner[Head(queue).conn]] = Head(queue).conn
     /\ connections' = [connections EXCEPT ![Owner[Head(queue).conn]] = NoConn]

\* To a request of the host.
Settles(r, ok, revision, env) ==
  /\ journal[Host][r] = NoEntry /\ env.id = r
  /\ journal'[Host][r] = [accepted |-> ok, revision |-> revision, env |-> env]

Refuses(r) ==
  /\ Starts("intent") /\ Owner[Head(queue).conn] = Host
  /\ Settles(r, FALSE, core.revision, Head(queue).env)
  /\ applied'[Host][r] = applied[Host][r]

TakesEffect(r) ==
  /\ CommitIntent /\ Owner[running.conn] = Host
  /\ Settles(r, TRUE, core'.revision, running.env)
  /\ applied'[Host][r] = applied[Host][r] + 1

RequestMoves(r) ==
  \/ journal'[Host][r] = journal[Host][r] /\ applied'[Host][r] = applied[Host][r]
  \/ Refuses(r)
  \/ TakesEffect(r)

LEMMA StartingConnection ==
  ASSUME HostInv, NEW kind \in {"attach", "detach", "intent"}, Starts(kind)
  PROVE  /\ Head(queue).conn \in Connections /\ Owner[Head(queue).conn] \in Players
         /\ 1 \in Queued(kind) /\ Head(queue) = queue[1]
         /\ kind = "intent" => Head(queue).env \in Envelopes
BY Popped, OperationFields, HostAssumption DEF HostInv, Starts, Queued

LEMMA ServedSocket ==
  ASSUME HostInv, NEW c \in Connections,
         \/ RunNext \/ Settle \/ RequestRetire \/ OtherWriter
         \/ \E p \in Guests : RequestJoin(p)
         \/ \E d \in Connections : Hello(d) \/ HelloTooLate(d) \/ HelloDeadline(d)
         \/ \E d \in Connections, env \in Envelopes : SendIntent(d, env)
  PROVE  ServedMoves(c)
<1>1. socket \in [Connections -> SocketStages]
  BY DEF HostInv, TypeOK, SocketStages
<1>2. CASE socket' = socket
  BY <1>2 DEF ServedMoves
<1>3. CASE \E closing : socket' = Dropped(socket, closing)
  BY <1>3 DEF ServedMoves, Dropped
<1>4. CASE RunAttach
  <2>1. Starts("attach")
    BY <1>4 DEF RunAttach
  <2> DEFINE d == Head(queue).conn
  <2>2. d \in Connections /\ Owner[d] \in Players
    BY <2>1, StartingConnection
  <2>3. CASE Refused(Owner[d]) /\ socket' = [socket EXCEPT ![d] = "closed"]
    BY <1>1, <2>1, <2>2, <2>3 DEF ServedMoves, Refused
  <2>4. CASE /\ connections' = [connections EXCEPT ![Owner[d]] = d]
             /\ socket' = [Dropped(socket, {connections[Owner[d]]}) EXCEPT
                             ![d] = CASE @ = "hello" -> "open"
                                      [] @ = "late" -> "closing"
                                      [] OTHER -> @]
    <3> DEFINE left == Dropped(socket, {connections[Owner[d]]})
    <3>1. \A e \in Connections :
            left[e] = socket[e] \/ (socket[e] = "open" /\ left[e] = "closing")
      BY DEF Dropped
    <3>2. left \in [Connections -> SocketStages]
      BY <1>1, <3>1, <2>2 DEF Dropped, SocketStages
    <3> HIDE DEF left
    <3>3. c # d => socket'[c] = left[c]
      BY <2>4, <2>2, <3>2 DEF left
    <3>4. /\ left[d] = "hello" => socket'[d] = "open"
          /\ left[d] = "late" => socket'[d] = "closing"
          /\ left[d] \notin {"hello", "late"} => socket'[d] = left[d]
      BY <2>4, <2>2, <3>2 DEF left
    <3>5. connections'[Owner[d]] = d
      BY <2>2, <2>4 DEF HostInv, TypeOK
    <3> QED BY <1>1, <2>1, <2>2, <3>1, <3>3, <3>4, <3>5 DEF ServedMoves
  <2> QED BY <1>4, <2>3, <2>4 DEF RunAttach
<1>5. ASSUME NEW d \in Connections, Hello(d) \/ HelloTooLate(d) \/ HelloDeadline(d)
      PROVE  ServedMoves(c)
  <2>1. c # d => socket'[c] = socket[c]
    BY <1>1, <1>5 DEF Hello, HelloTooLate, HelloDeadline
  <2>2. /\ Hello(d) => socket[d] = "new" /\ socket'[d] = "hello"
        /\ HelloTooLate(d) => socket[d] = "new" /\ retired /\ socket'[d] = "closed"
        /\ HelloDeadline(d) => socket[d] = "hello" /\ socket'[d] = "late"
    BY <1>1 DEF Hello, HelloTooLate, HelloDeadline
  <2> QED BY <1>5, <2>1, <2>2 DEF ServedMoves
<1>6. CASE RunJoin \/ RunDetach \/ RunRetire \/ RunIntent \/ Settle
  BY <1>2, <1>3, <1>6 DEF RunJoin, RunDetach, RunRetire, RunIntent, Settle, CommitIntent,
     CommitServerStep, WriteFails, WriterRetired, RetireInQueue
<1>7. CASE \/ \E p \in Guests : RequestJoin(p)
           \/ \E d \in Connections, env \in Envelopes : SendIntent(d, env)
           \/ RequestRetire \/ OtherWriter
  BY <1>2, <1>7 DEF RequestJoin, SendIntent, RequestRetire, OtherWriter
<1> QED BY <1>4, <1>5, <1>6, <1>7 DEF RunNext

LEMMA SocketStep ==
  ASSUME HostInv, Next, NEW c \in Connections
  PROVE  SocketMoves(c)
<1>1. CASE \E d \in Connections : SocketCloses(d)
  <2>1. PICK d \in Connections : SocketCloses(d)
    BY <1>1
  <2>2. socket \in [Connections -> SocketStages]
    BY DEF HostInv, TypeOK, SocketStages
  <2> QED BY <2>1, <2>2 DEF SocketCloses, SocketMoves, ServedMoves
<1>2. CASE ~ \E d \in Connections : SocketCloses(d)
  BY <1>2, ServedSocket DEF Next, SocketMoves
<1> QED BY <1>1, <1>2

LEMMA QueueStep == HostInv /\ Next => QueueMoves
<1> SUFFICES ASSUME HostInv, Next PROVE QueueMoves
  OBVIOUS
<1>1. CASE RunNext
  BY <1>1 DEF RunNext, RunJoin, RunAttach, RunDetach, RunRetire, RunIntent, QueueMoves
<1>2. CASE Settle
  BY <1>2 DEF Settle, CommitIntent, CommitServerStep, WriteFails, WriterRetired, QueueMoves
<1>3. ASSUME NEW p \in Guests, RequestJoin(p) PROVE QueueMoves
  <2>1. Enqueue([kind |-> "join", player |-> p])
    BY <1>3 DEF RequestJoin
  <2>2. [kind |-> "join", player |-> p] \in Operations
    BY DEF Operations
  <2> QED BY <2>1, <2>2 DEF QueueMoves
<1>4. ASSUME NEW c \in Connections, Hello(c) PROVE QueueMoves
  <2>1. Enqueue([kind |-> "attach", conn |-> c])
    BY <1>4 DEF Hello
  <2>2. [kind |-> "attach", conn |-> c] \in Operations
    BY DEF Operations
  <2> QED BY <1>4, <2>1, <2>2 DEF QueueMoves
<1>5. ASSUME NEW c \in Connections, HelloTooLate(c) \/ HelloDeadline(c) PROVE QueueMoves
  BY <1>5 DEF HelloTooLate, HelloDeadline, QueueMoves
<1>6. ASSUME NEW c \in Connections, NEW env \in Envelopes, SendIntent(c, env) PROVE QueueMoves
  <2>1. Enqueue([kind |-> "intent", conn |-> c, env |-> env])
    BY <1>6 DEF SendIntent
  <2>2. [kind |-> "intent", conn |-> c, env |-> env] \in Operations
    BY DEF Operations
  <2> QED BY <1>6, <2>1, <2>2 DEF QueueMoves
<1>7. ASSUME NEW c \in Connections, SocketCloses(c) PROVE QueueMoves
  <2>1. queue' = queue \/ Enqueue([kind |-> "detach", conn |-> c])
    BY <1>7 DEF SocketCloses
  <2>2. [kind |-> "detach", conn |-> c] \in Operations
    BY DEF Operations
  <2> QED BY <2>1, <2>2 DEF QueueMoves
<1>8. CASE RequestRetire
  <2>1. Enqueue([kind |-> "retire"])
    BY <1>8 DEF RequestRetire
  <2>2. [kind |-> "retire"] \in Operations
    BY DEF Operations
  <2> QED BY <2>1, <2>2 DEF QueueMoves
<1>9. CASE OtherWriter
  BY <1>9 DEF OtherWriter, QueueMoves
<1> QED BY <1>1, <1>2, <1>3, <1>4, <1>5, <1>6, <1>7, <1>8, <1>9 DEF Next

LEMMA RunningStep == HostInv /\ Next => RunningMoves
<1> SUFFICES ASSUME HostInv, Next PROVE RunningMoves
  OBVIOUS
<1>1. CASE RunJoin \/ RunAttach \/ RunDetach \/ RunRetire
  BY <1>1 DEF RunJoin, RunAttach, RunDetach, RunRetire, RunningMoves, Starts
<1>2. CASE RunIntent
  <2> DEFINE c == Head(queue).conn
             p == Owner[c]
             env == Head(queue).env
  <2>1. Starts("intent") /\ running = Idle
    BY <1>2 DEF RunIntent, Starts
  <2>2. CASE running' = running
    BY <2>1, <2>2 DEF RunningMoves
  <2>3. CASE ~retired /\ connections[p] = c /\ AcceptIntent(p, env)
    <3>1. PICK candidate \in Candidates(env.intent) :
            running' = [stage |-> "intent", conn |-> c, env |-> env, candidate |-> candidate]
      BY <2>3 DEF AcceptIntent
    <3>2. running'.stage = "intent" /\ running'.conn = c /\ running'.env = env
      BY <3>1
    <3>3. journal[p][env.id] = NoEntry /\ sent' = Quiet /\ journal' = journal
      BY <2>3 DEF AcceptIntent, Known, Entry
    <3>4. UNCHANGED <<applied, connections, retired>>
      BY <1>2 DEF RunIntent
    <3> QED BY <2>1, <2>3, <3>2, <3>3, <3>4 DEF RunningMoves
  <2> QED BY <1>2, <2>2, <2>3
          DEF RunIntent, DropStaleConnection, ReplayKnown, RefuseIntent
<1>3. CASE CommitIntent \/ CommitServerStep
  <2>1. Committing /\ UNCHANGED <<queue, connections, retired>> /\ \E count : NextServerStep(count)
    BY <1>3 DEF CommitIntent, CommitServerStep, Committing
  <2>2. PICK count : NextServerStep(count)
    BY <2>1
  <2>3. CASE running' = Idle
    BY <2>1, <2>3 DEF RunningMoves
  <2>4. CASE running' # Idle
    <3>1. \E turn \in BOOLEAN :
            running' = [stage |-> "pump", conn |-> running.conn, count |-> count + 1,
                        candidate |-> [core' EXCEPT !.revision = @ + 1,
                                                    !.gen = @ + 1, !.server = turn]]
      BY <2>2, <2>4 DEF NextServerStep
    <3>2. running'.stage = "pump" /\ running'.conn = running.conn
      BY <3>1
    <3> QED BY <2>1, <3>2 DEF RunningMoves
  <2> QED BY <2>3, <2>4
<1>4. CASE WriteFails \/ WriterRetired
  BY <1>4 DEF WriteFails, WriterRetired, RunningMoves
<1>5. CASE ~RunNext /\ ~Settle
  <2>1. running' = running
    BY <1>5 DEF Next, RequestJoin, Hello, HelloTooLate, HelloDeadline, SendIntent, SocketCloses,
                RequestRetire, OtherWriter, Submitted
  <2> QED BY <2>1 DEF RunningMoves
<1> QED BY <1>1, <1>2, <1>3, <1>4, <1>5 DEF RunNext, Settle

LEMMA ConnectionStep == HostInv /\ AttachWaits /\ Next => ConnectionMoves
<1> SUFFICES ASSUME HostInv, AttachWaits, Next PROVE ConnectionMoves
  OBVIOUS
<1>1. CASE RunAttach
  <2>1. Starts("attach")
    BY <1>1 DEF RunAttach
  <2> DEFINE c == Head(queue).conn
             p == Owner[c]
  <2>2. c \in Connections /\ p \in Players /\ 1 \in Queued("attach") /\ Head(queue) = queue[1]
    BY <2>1, StartingConnection
  <2>3. socket[c] \in {"hello", "late", "closed"}
    BY <2>2 DEF AttachWaits
  <2>4. CASE UNCHANGED hostVars
    BY <2>4 DEF hostVars, ConnectionMoves
  <2>5. CASE ~Refused(p) /\ connections' = [connections EXCEPT ![p] = c]
    <3>1. ~retired /\ Owner[c] \in digests
      BY <2>5 DEF Refused
    <3>2. /\ socket' = [Dropped(socket, {connections[p]}) EXCEPT
                          ![c] = CASE @ = "hello" -> "open"
                                   [] @ = "late" -> "closing"
                                   [] OTHER -> @]
      BY <1>1, <3>1 DEF RunAttach, Refused
    <3>3. Dropped(socket, {connections[p]})[c] = socket[c]
      BY <2>2, <2>3 DEF Dropped
    <3>4. socket'[c] \in {"open", "closing", "closed"}
      <4> DEFINE left == Dropped(socket, {connections[p]})
      <4>1. c \in DOMAIN left
        BY <2>2 DEF Dropped
      <4>2. left[c] \in {"hello", "late", "closed"}
        BY <2>3, <3>3
      <4> HIDE DEF left
      <4>3. socket'[c] = CASE left[c] = "hello" -> "open"
                           [] left[c] = "late" -> "closing"
                           [] OTHER -> left[c]
        BY <3>2, <4>1 DEF left
      <4> QED BY <4>2, <4>3
    <3> QED BY <2>1, <2>5, <3>1, <3>4 DEF ConnectionMoves, Unattached
  <2> QED BY <1>1, <2>4, <2>5 DEF RunAttach
<1>2. CASE RunDetach
  BY <1>2 DEF RunDetach, hostVars, ConnectionMoves
<1>3. CASE RunRetire
  BY <1>3 DEF RunRetire, RetireInQueue, ConnectionMoves
<1>4. CASE WriteFails \/ WriterRetired
  BY <1>4 DEF WriteFails, WriterRetired, RetireInQueue, ConnectionMoves
<1>5. CASE RunJoin \/ RunIntent \/ CommitIntent \/ CommitServerStep
  BY <1>5 DEF RunJoin, RunIntent, CommitIntent, CommitServerStep, hostVars, ConnectionMoves
<1>6. CASE ~RunNext /\ ~Settle
  BY <1>6 DEF Next, RequestJoin, Hello, HelloTooLate, HelloDeadline, SendIntent, SocketCloses,
              RequestRetire, OtherWriter, Submitted, hostVars, ConnectionMoves
<1> QED BY <1>1, <1>2, <1>3, <1>4, <1>5, <1>6 DEF RunNext, Settle

LEMMA RequestStep ==
  ASSUME HostInv, Next, NEW r \in Requests
  PROVE  RequestMoves(r)
<1>1. CASE UNCHANGED <<journal, applied>>
  BY <1>1 DEF RequestMoves
<1>2. CASE RunIntent
  <2> DEFINE c == Head(queue).conn
             p == Owner[c]
             env == Head(queue).env
  <2>1. Starts("intent") /\ applied' = applied
    BY <1>2 DEF RunIntent
  <2>2. c \in Connections /\ p \in Players /\ env \in Envelopes /\ env.id \in Requests
    BY <2>1, StartingConnection DEF Envelopes
  <2>3. CASE journal' = journal
    BY <1>1, <2>1, <2>3
  <2>4. CASE ~Known(p, env) /\ Remember(p, env, FALSE, core.revision)
    <3> DEFINE entry == [accepted |-> FALSE, revision |-> core.revision, env |-> env]
    <3>1. journal' = [journal EXCEPT ![p][env.id] = entry] /\ journal[p][env.id] = NoEntry
      BY <2>4 DEF Remember, Known, Entry
    <3>2. /\ p = Host /\ r = env.id => journal'[Host][r] = entry
          /\ p # Host \/ r # env.id => journal'[Host][r] = journal[Host][r]
      <4>1. /\ journal \in [Players -> [Requests -> {NoEntry} \union Entries]]
            /\ Host \in Players
        BY DEF HostInv, TypeOK, Players
      <4> HIDE DEF entry, env, p
      <4> QED BY <2>2, <3>1, <4>1
    <3> QED BY <2>1, <3>1, <3>2 DEF RequestMoves, Refuses, Settles
  <2> QED BY <1>2, <2>3, <2>4
          DEF RunIntent, DropStaleConnection, ReplayKnown, RefuseIntent, AcceptIntent
<1>3. CASE CommitIntent
  <2> DEFINE p == Owner[running.conn]
             env == running.env
             entry == [accepted |-> TRUE, revision |-> core'.revision, env |-> env]
  <2>1. running.stage = "intent" /\ Committing /\ PublishIntent
    BY <1>3 DEF CommitIntent, Committing
  <2>2. p \in Players /\ env \in Envelopes /\ env.id \in Requests
    BY <2>1, AwaitFields DEF HostInv, Envelopes
  <2>3. journal[p][env.id] = NoEntry
    BY <2>1 DEF HostInv, SettledInv, IntentIsFresh
  <2>4. /\ p = Host /\ r = env.id => journal'[Host][r] = entry
        /\ p # Host \/ r # env.id => journal'[Host][r] = journal[Host][r]
    <3>1. CASE journal' = [journal EXCEPT ![p][env.id] = entry]
      <4>1. /\ journal \in [Players -> [Requests -> {NoEntry} \union Entries]]
            /\ Host \in Players
        BY DEF HostInv, TypeOK, Players
      <4> HIDE DEF entry, env, p
      <4> QED BY <2>2, <3>1, <4>1
    <3>2. CASE \E g \in OfflineGuests :
                 journal' = [journal EXCEPT ![p][env.id] = entry,
                                            ![g] = [q \in Requests |-> NoEntry]]
      <4>1. PICK g \in OfflineGuests :
                 journal' = [journal EXCEPT ![p][env.id] = entry,
                                            ![g] = [q \in Requests |-> NoEntry]]
        BY <3>2
      <4> DEFINE settled == [journal EXCEPT ![p] = [journal[p] EXCEPT ![env.id] = entry]]
      <4>2. /\ journal \in [Players -> [Requests -> {NoEntry} \union Entries]]
            /\ Host \in Players /\ g # Host
        BY HostAssumption DEF HostInv, TypeOK, Players, OfflineGuests
      <4>3. /\ p = Host /\ r = env.id => settled[Host][r] = entry
            /\ p # Host \/ r # env.id => settled[Host][r] = journal[Host][r]
            /\ DOMAIN settled = Players
        <5> HIDE DEF entry
        <5> QED BY <2>2, <4>2
      <4>4. journal' = [settled EXCEPT ![g] = [q \in Requests |-> NoEntry]]
        BY <4>1
      <4> HIDE DEF settled
      <4>5. journal'[Host] = settled[Host]
        BY <4>2, <4>3, <4>4
      <4> QED BY <4>3, <4>5
    <3> QED BY <2>1, <3>1, <3>2 DEF PublishIntent
  <2>5. applied' = [applied EXCEPT ![p] = [applied[p] EXCEPT ![env.id] = @ + 1]]
    BY <2>1 DEF PublishIntent
  <2>6. /\ p = Host /\ r = env.id => applied'[Host][r] = applied[Host][r] + 1
        /\ p # Host \/ r # env.id => applied'[Host][r] = applied[Host][r]
    <3>1. applied \in [Players -> [Requests -> Nat]] /\ Host \in Players
      BY DEF HostInv, TypeOK, Players
    <3> QED BY <2>2, <2>5, <3>1
  <2> QED BY <1>3, <2>3, <2>4, <2>6 DEF RequestMoves, TakesEffect, Settles
<1>4. CASE ~RunIntent /\ ~CommitIntent
  <2>1. CASE RunNext
    BY <1>4, <2>1 DEF RunNext, RunJoin, RunAttach, RunDetach, RunRetire, hostVars, RequestMoves
  <2>2. CASE Settle
    BY <1>4, <2>2 DEF Settle, CommitServerStep, WriteFails, WriterRetired, RequestMoves
  <2>3. CASE ~RunNext /\ ~Settle
    BY <2>3 DEF Next, RequestJoin, Hello, HelloTooLate, HelloDeadline, SendIntent, SocketCloses,
                RequestRetire, OtherWriter, Submitted, hostVars, RequestMoves
  <2> QED BY <2>1, <2>2, <2>3
<1> QED BY <1>2, <1>3, <1>4
-----------------------------------------------------------------------------
(* What the server says on a socket *)

CloseCodes == {"replaced", "refused", "not-found", "timeout", "retired"}
FatalCodes == {"SESSION_RETIRED", "PERSISTENCE_FAILED"}

\* A snapshot of the state as this step leaves it.
Picture(m) ==
  /\ m \in ServerMessages /\ m.type = "snapshot"
  /\ m.revision = core'.revision /\ m.control = control'

\* Answers to the intent at the head of the queue: known before, or refused.
Repeats(r, c) ==
  LET entry == journal[Host][r] IN
  /\ entry # NoEntry /\ UNCHANGED <<journal, applied>>
  /\ \/ entry.env # Head(queue).env /\ sent'[c] = <<Error("REQUEST_ID_REUSE", r)>>
     \/ \E m : /\ Picture(m)
               /\ \/ entry.accepted /\ sent'[c] = <<Ack(r, TRUE, entry.revision), m>>
                  \/ /\ ~entry.accepted
                     /\ sent'[c] = <<Ack(r, FALSE, entry.revision), Error("REJECTED", r), m>>

Rejects(r, c) ==
  /\ Refuses(r)
  /\ sent'[c] = <<Ack(r, FALSE, core.revision), Error("REJECTED", r)>>

AnswersHead(c) ==
  /\ Starts("intent") /\ Head(queue).conn = c /\ running' = running
  /\ Repeats(Head(queue).env.id, c) \/ Rejects(Head(queue).env.id, c)

\* Answers to the intent that awaits.
Accepts(r, c) ==
  /\ TakesEffect(r)
  /\ \E m : Picture(m) /\ sent'[c] = <<Ack(r, TRUE, core'.revision), m>>

GivesUp(r, c) ==
  /\ UNCHANGED <<journal, applied>>
  /\ \/ sent'[c] = <<Ack(r, FALSE, core.revision), Error("PERSISTENCE_FAILED", r)>>
     \/ retired' /\ sent'[c] = <<Error("SESSION_RETIRED", r), Close("retired")>>

AnswersRunning(c) ==
  /\ RunsIntent /\ running.conn = c /\ ~RunsIntent' /\ queue' = queue
  /\ Accepts(running.env.id, c) \/ GivesUp(running.env.id, c)

\* The end of a session whose server step could not be written.
Ends(c) ==
  /\ running.stage = "pump" /\ running.conn = c /\ retired'
  /\ \E code \in FatalCodes : sent'[c] = <<Error(code, "none"), Close("retired")>>

\* A socket is turned away: an error that names no request, then a close.
Refuse(c) ==
  \E error \in TerminalErrors, code \in CloseCodes :
    sent'[c] = <<Error(error, "none"), Close(code)>>

Says(c) ==
  \/ sent'[c] = <<>>
  \/ \E code \in CloseCodes : sent'[c] = <<Close(code)>>
  \/ Refuse(c) /\ socket'[c] \notin Unattached
  \/ ~retired /\ \E m : Picture(m) /\ sent'[c] = <<m>>
  \/ /\ ~retired /\ connections[Host] = c
     /\ AnswersHead(c) \/ AnswersRunning(c) \/ Ends(c)

LEMMA TwoMessages ==
  ASSUME NEW a, NEW b
  PROVE  Append(<<a>>, b) = <<a, b>> /\ <<a>> \o <<b>> = <<a, b>>
<1> DEFINE S == {a, b}
<1>1. /\ Append(<<a>>, b) \in Seq(S) /\ Len(Append(<<a>>, b)) = 2
      /\ Append(<<a>>, b)[1] = a /\ Append(<<a>>, b)[2] = b
  OBVIOUS
<1>2. /\ <<a>> \o <<b>> \in Seq(S) /\ Len(<<a>> \o <<b>>) = 2
      /\ (<<a>> \o <<b>>)[1] = a /\ (<<a>> \o <<b>>)[2] = b
  OBVIOUS
<1>3. <<a, b>> \in Seq(S) /\ Len(<<a, b>>) = 2 /\ <<a, b>>[1] = a /\ <<a, b>>[2] = b
  OBVIOUS
<1>4. \A s, t \in Seq(S) : Len(s) = 2 /\ Len(t) = 2 /\ s[1] = t[1] /\ s[2] = t[2] => s = t
  <2> HIDE DEF S
  <2> TAKE s, t \in Seq(S)
  <2> HAVE Len(s) = 2 /\ Len(t) = 2 /\ s[1] = t[1] /\ s[2] = t[2]
  <2>1. \A i \in 1..Len(s) : s[i] = t[i]
    OBVIOUS
  <2> QED BY <2>1, SeqEqual
<1> HIDE DEF S
<1> QED BY <1>1, <1>2, <1>3, <1>4

LEMMA ThreeMessages ==
  ASSUME NEW a, NEW b, NEW m
  PROVE  <<a>> \o <<>> \o <<m>> = <<a, m>> /\ <<a>> \o <<b>> \o <<m>> = <<a, b, m>>
<1> DEFINE S == {a, b, m}
           u == <<a>> \o <<b>>
<1>1. <<a>> \o <<>> = <<a>>
  <2>1. <<a>> \in Seq({a})
    OBVIOUS
  <2> QED BY <2>1, ConcatEmptySeq
<1>2. u = <<a, b>>
  BY TwoMessages
<1>3. /\ <<a, b>> \o <<m>> \in Seq(S) /\ Len(<<a, b>> \o <<m>>) = 3
      /\ (<<a, b>> \o <<m>>)[1] = a /\ (<<a, b>> \o <<m>>)[2] = b /\ (<<a, b>> \o <<m>>)[3] = m
  OBVIOUS
<1>4. <<a, b, m>> \in Seq(S) /\ Len(<<a, b, m>>) = 3
      /\ <<a, b, m>>[1] = a /\ <<a, b, m>>[2] = b /\ <<a, b, m>>[3] = m
  OBVIOUS
<1>5. \A s, t \in Seq(S) :
        Len(s) = 3 /\ Len(t) = 3 /\ s[1] = t[1] /\ s[2] = t[2] /\ s[3] = t[3] => s = t
  <2> HIDE DEF S
  <2> TAKE s, t \in Seq(S)
  <2> HAVE Len(s) = 3 /\ Len(t) = 3 /\ s[1] = t[1] /\ s[2] = t[2] /\ s[3] = t[3]
  <2>1. \A i \in 1..Len(s) : s[i] = t[i]
    OBVIOUS
  <2> QED BY <2>1, SeqEqual
<1> HIDE DEF S
<1>6. <<a, b>> \o <<m>> = <<a, b, m>>
  BY <1>3, <1>4, <1>5
<1>7. <<a>> \o <<m>> = <<a, m>>
  BY TwoMessages
<1> QED BY <1>1, <1>2, <1>6, <1>7

LEMMA PictureOfNow ==
  ASSUME TypeOK', NEW conns,
         NEW cause \in {"join", "resync", "control", "intent", "server"}
  PROVE  Picture(Snapshot(core', control', conns, cause))
<1>1. /\ core'.revision \in 0..MaxRevision /\ core'.gen \in 0..MaxRevision
      /\ core'.adventure \in BOOLEAN /\ control' \in Nat
  BY DEF TypeOK, States
<1> QED BY <1>1 DEF Picture, Snapshot, ServerMessages

\* Only the host is served by the sockets of the host.
LEMMA HostIsServed ==
  ASSUME HostInv, ServedAreAttached, NEW c \in Connections
  PROVE  /\ Owner[c] = Host /\ Host \in Players /\ c # NoConn
         /\ \A p \in Players : connections[p] # NoConn => p = Host
         /\ c \in Live(connections) <=> connections[Host] = c
<1>1. Owner[c] = Host /\ c # NoConn /\ Host \in Players
  BY ClientAssumption, HostAssumption DEF Players
<1>2. \A p \in Players : connections[p] # NoConn => p = Host
  BY ClientAssumption DEF HostInv, TypeOK, ServedAreAttached
<1> QED BY <1>1, <1>2 DEF Live

LEMMA SilentSteps ==
  ASSUME NEW c \in Connections, sent' = Quiet
  PROVE  Says(c)
BY DEF Quiet, Says

LEMMA FarewellSaid ==
  ASSUME NEW c \in Connections, NEW farewell, RetireInQueue(farewell)
  PROVE  /\ retired'
         /\ sent'[c] = IF c \in Live(connections)
                         THEN Append(farewell[c], Close("retired")) ELSE <<>>
BY DEF RetireInQueue

LEMMA QueueSpeaks ==
  ASSUME HostInv, TypeOK', ServedAreAttached, NEW c \in Connections,
         RunJoin \/ RunAttach \/ RunDetach \/ RunRetire
  PROVE  Says(c)
<1>1. CASE RunJoin
  <2>1. CASE sent' = Quiet
    BY <2>1, SilentSteps
  <2>2. CASE /\ ~retired /\ control' = control
             /\ sent' = Broadcast(connections, Snapshot(core', control, connections, "join"))
    <3>1. Picture(Snapshot(core', control, connections, "join"))
      BY <2>2, PictureOfNow
    <3> QED BY <2>2, <3>1 DEF Broadcast, Says
  <2> QED BY <1>1, <2>1, <2>2 DEF RunJoin
<1>2. CASE RunAttach
  <2> DEFINE d == Head(queue).conn
             p == Owner[d]
             joined == [connections EXCEPT ![p] = d]
             version == IF connections[p] = NoConn THEN control + 1 ELSE control
  <2>1. d \in Connections /\ p = Host
    <3>1. Starts("attach")
      BY <1>2 DEF RunAttach
    <3> QED BY <3>1, StartingConnection, HostIsServed
  <2>2. CASE /\ sent' = [Quiet EXCEPT ![d] = IF socket[d] = "hello" THEN Refusal ELSE <<>>]
             /\ socket' = [socket EXCEPT ![d] = "closed"]
    <3>1. /\ sent'[c] = <<>> \/ (c = d /\ sent'[c] = Refusal)
          /\ c = d => socket'[c] = "closed"
      BY <2>1, <2>2 DEF Quiet, HostInv, TypeOK
    <3>2. CASE c = d /\ sent'[c] = Refusal
      BY <3>1, <3>2 DEF Refusal, Refuse, TerminalErrors, CloseCodes, Says, Unattached
    <3> QED BY <3>1, <3>2 DEF Says
  <2>3. CASE ~Refused(p)
    <3>1. /\ ~retired /\ core' = core /\ control' = version
          /\ sent'[c] = IF c = d THEN <<Snapshot(core, version, joined, "resync")>>
                        ELSE IF c = connections[p] THEN <<Close("replaced")>>
                        ELSE IF connections[p] = NoConn /\ c \in Live(joined)
                          THEN <<Snapshot(core, version, joined, "control")>>
                        ELSE <<>>
      BY <1>2, <2>3 DEF RunAttach, Refused
    <3>2. Picture(Snapshot(core, version, joined, "resync"))
      BY <3>1, PictureOfNow
    <3>3. Picture(Snapshot(core, version, joined, "control"))
      BY <3>1, PictureOfNow
    <3> QED BY <3>1, <3>2, <3>3 DEF Says, CloseCodes
  <2> QED BY <1>2, <2>2, <2>3 DEF RunAttach
<1>3. CASE RunDetach
  <2> DEFINE left == [connections EXCEPT ![Owner[Head(queue).conn]] = NoConn]
  <2>1. CASE sent' = Quiet
    BY <2>1, SilentSteps
  <2>2. CASE /\ core' = core /\ control' = control + 1
             /\ connections[Owner[Head(queue).conn]] = Head(queue).conn
             /\ sent' = Broadcast(left, Snapshot(core, control + 1, left, "control"))
    <3>1. Picture(Snapshot(core, control + 1, left, "control"))
      BY <2>2, PictureOfNow
    <3>2. ~retired
      <4>1. Head(queue).conn \in Connections /\ Owner[Head(queue).conn] \in Players
        BY <1>3, StartingConnection DEF RunDetach
      <4> QED BY <2>2, <4>1, HostAssumption DEF HostInv, SocketsAreServed, RetiredIsEmpty
    <3> QED BY <2>2, <3>1, <3>2 DEF Broadcast, Says
  <2> QED BY <1>3, <2>1, <2>2 DEF RunDetach
<1>4. CASE RunRetire
  <2>1. CASE sent' = Quiet
    BY <2>1, SilentSteps
  <2>2. CASE RetireInQueue(Quiet)
    <3>1. sent'[c] = IF c \in Live(connections)
                       THEN Append(Quiet[c], Close("retired")) ELSE <<>>
      BY <2>2, FarewellSaid
    <3>2. Append(Quiet[c], Close("retired")) = <<Close("retired")>>
      BY DEF Quiet
    <3> QED BY <3>1, <3>2 DEF Says, CloseCodes
  <2> QED BY <1>4, <2>1, <2>2 DEF RunRetire
<1> QED BY <1>1, <1>2, <1>3, <1>4

LEMMA IntentSpeaks ==
  ASSUME HostInv, TypeOK', ServedAreAttached, NEW c \in Connections, RunIntent
  PROVE  Says(c)
<1> DEFINE d == Head(queue).conn
           p == Owner[d]
           env == Head(queue).env
           r == env.id
           entry == journal[Host][r]
<1>1. Starts("intent") /\ UNCHANGED <<core, control, applied>>
  BY DEF RunIntent
<1>2. d \in Connections /\ p = Host /\ Host \in Players /\ c # NoConn /\ r \in Requests
  BY <1>1, StartingConnection, HostIsServed DEF Envelopes
<1>3. CASE sent' = Quiet
  BY <1>3, SilentSteps
<1>4. CASE ~retired /\ connections[p] = d /\ ReplayKnown(p, env)
  <2>1. CASE c # d
    BY <1>2, <1>4, <2>1 DEF ReplayKnown, Reply, Says
  <2>2. CASE c = d
    <3>1. /\ ~retired /\ connections[Host] = c /\ running' = running /\ entry # NoEntry
          /\ UNCHANGED <<journal, applied>>
      BY <1>1, <1>2, <1>4, <2>2 DEF ReplayKnown, Known, Entry
    <3> DEFINE m == Snapshot(core, control, connections, "resync")
    <3>2. Picture(m)
      BY <1>1, PictureOfNow
    <3>3. sent'[c] = IF entry.env # env THEN <<Error("REQUEST_ID_REUSE", r)>>
                     ELSE <<Ack(r, entry.accepted, entry.revision)>>
                          \o (IF entry.accepted THEN <<>> ELSE <<Error("REJECTED", r)>>)
                          \o <<m>>
      BY <1>2, <1>4, <2>2 DEF ReplayKnown, Reply, Entry
    <3>4. entry \in Entries
      BY <1>2, <3>1 DEF HostInv, TypeOK
    <3>5. entry.accepted \in BOOLEAN
      BY <3>4 DEF Entries
    <3> HIDE DEF m, entry
    <3>6. Repeats(r, c)
      <4>1. CASE entry.env # env
        BY <3>1, <3>3, <4>1 DEF Repeats, entry
      <4>2. CASE entry.env = env /\ entry.accepted
        <5>1. sent'[c] = <<Ack(r, TRUE, entry.revision)>> \o <<>> \o <<m>>
          <6>1. entry.accepted = TRUE
            BY <3>5, <4>2
          <6> QED BY <3>3, <4>2, <6>1
        <5>2. sent'[c] = <<Ack(r, TRUE, entry.revision), m>>
          BY <5>1, ThreeMessages
        <5> QED BY <3>1, <3>2, <4>2, <5>2 DEF Repeats, entry
      <4>3. CASE entry.env = env /\ ~entry.accepted
        <5>1. sent'[c] = <<Ack(r, FALSE, entry.revision)>> \o <<Error("REJECTED", r)>> \o <<m>>
          <6>1. entry.accepted = FALSE
            BY <3>5, <4>3
          <6> QED BY <3>3, <4>3, <6>1
        <5>2. sent'[c] = <<Ack(r, FALSE, entry.revision), Error("REJECTED", r), m>>
          BY <5>1, ThreeMessages
        <5> QED BY <3>1, <3>2, <4>3, <5>2 DEF Repeats, entry
      <4> QED BY <4>1, <4>2, <4>3
    <3> QED BY <1>1, <2>2, <3>1, <3>6 DEF Says, AnswersHead
  <2> QED BY <2>1, <2>2
<1>5. CASE ~retired /\ connections[p] = d /\ RefuseIntent(p, env)
  <2>1. CASE c # d
    BY <1>2, <1>5, <2>1 DEF RefuseIntent, Reply, Says
  <2>2. CASE c = d
    <3>1. ~retired /\ connections[Host] = c /\ running' = running /\ entry = NoEntry
      BY <1>2, <1>5, <2>2 DEF RefuseIntent, Known, Entry
    <3>2. sent'[c] = <<Ack(r, FALSE, core.revision), Error("REJECTED", r)>>
      BY <1>2, <1>5, <2>2 DEF RefuseIntent, Reply
    <3>3. journal'[Host][r] = [accepted |-> FALSE, revision |-> core.revision, env |-> env]
      <4>1. /\ journal \in [Players -> [Requests -> {NoEntry} \union Entries]]
            /\ journal' = [journal EXCEPT ![Host][r] =
                 [accepted |-> FALSE, revision |-> core.revision, env |-> env]]
        BY <1>2, <1>5 DEF HostInv, TypeOK, RefuseIntent, Remember
      <4> HIDE DEF env
      <4> QED BY <1>2, <4>1
    <3>4. Refuses(r)
      BY <1>1, <1>2, <3>1, <3>3 DEF Refuses, Settles
    <3> QED BY <1>1, <2>2, <3>1, <3>2, <3>4 DEF Says, AnswersHead, Rejects
  <2> QED BY <2>1, <2>2
<1> QED BY <1>3, <1>4, <1>5 DEF RunIntent, DropStaleConnection, AcceptIntent

\* An intent that takes effect is answered, with its result.
LEMMA CommitSpeaks ==
  ASSUME HostInv, TypeOK', ServedAreAttached, CommitIntent
  PROVE  /\ connections[Host] = running.conn
         /\ AnswersRunning(running.conn)
         /\ Accepts(running.env.id, running.conn)
<1> DEFINE c == running.conn
           p == Owner[c]
           r == running.env.id
           m == Snapshot(core', control, connections, "intent")
<1>1. /\ RunsIntent /\ Committing /\ queue' = queue /\ control' = control
      /\ sent' = ReplyAndBroadcast(p, <<Ack(r, TRUE, core'.revision)>>, m)
  BY DEF CommitIntent, PublishIntent, RunsIntent, Committing
<1>2. c \in Connections /\ p = Host /\ Host \in Players /\ c # NoConn /\ r \in Requests
  BY <1>1, AwaitFields, HostIsServed DEF HostInv, RunsIntent, Envelopes
<1>3. connections[Host] = c
  BY <1>1, <1>2 DEF ServedAreAttached
<1>4. sent'[c] = <<Ack(r, TRUE, core'.revision), m>>
  <2>1. c \in Live(connections)
    BY <1>2, <1>3, HostIsServed
  <2>2. sent'[c] = Append(<<Ack(r, TRUE, core'.revision)>>, m)
    <3> HIDE DEF m
    <3> QED BY <1>1, <1>2, <1>3, <2>1 DEF ReplyAndBroadcast
  <2> HIDE DEF m
  <2> QED BY <2>2, TwoMessages
<1>5. Picture(m)
  BY <1>1, PictureOfNow
<1>6. TakesEffect(r)
  <2>1. RequestMoves(r)
    BY <1>2, RequestStep DEF Next, Settle
  <2>2. applied'[Host][r] # applied[Host][r]
    <3>1. applied \in [Players -> [Requests -> Nat]]
      BY DEF HostInv, TypeOK
    <3>2. applied' = [applied EXCEPT ![Host] = [applied[Host] EXCEPT ![r] = @ + 1]]
      BY <1>2 DEF CommitIntent, PublishIntent
    <3> QED BY <1>2, <3>1, <3>2
  <2> QED BY <2>1, <2>2 DEF RequestMoves, Refuses
<1>7. ~RunsIntent'
  <2>1. NextServerStep(0)
    BY DEF CommitIntent
  <2>2. CASE running' = Idle
    BY <2>2 DEF Idle, RunsIntent
  <2>3. CASE running' # Idle
    <3>1. \E turn \in BOOLEAN :
            running' = [stage |-> "pump", conn |-> running.conn, count |-> 0 + 1,
                        candidate |-> [core' EXCEPT !.revision = @ + 1,
                                                    !.gen = @ + 1, !.server = turn]]
      BY <2>1, <2>3 DEF NextServerStep
    <3> QED BY <3>1 DEF RunsIntent
  <2> QED BY <2>2, <2>3
<1> HIDE DEF m
<1>8. Accepts(r, c)
  BY <1>4, <1>5, <1>6 DEF Accepts
<1> QED BY <1>1, <1>3, <1>7, <1>8 DEF AnswersRunning

LEMMA SettleSpeaks ==
  ASSUME HostInv, TypeOK', ServedAreAttached, NEW c \in Connections, Settle
  PROVE  Says(c)
<1> DEFINE d == running.conn
           p == Owner[d]
           r == running.env.id
<1>1. Committing /\ ~retired
  <2>1. Committing
    BY DEF Settle, CommitIntent, CommitServerStep, WriteFails, WriterRetired, Committing
  <2> QED BY <2>1 DEF HostInv, SettledInv, CandidateFollows
<1>2. d \in Connections /\ p = Host /\ Host \in Players /\ c # NoConn
  BY <1>1, AwaitFields, HostIsServed DEF HostInv
<1>3. connections[Host] = d
  BY <1>1, <1>2 DEF ServedAreAttached
<1>4. c \in Live(connections) <=> c = d
  BY <1>3, HostIsServed
<1>5. CASE CommitIntent
  <2>1. /\ RunsIntent /\ queue' = queue /\ control' = control
        /\ sent' = ReplyAndBroadcast(p, <<Ack(r, TRUE, core'.revision)>>,
                     Snapshot(core', control, connections, "intent"))
    BY <1>5 DEF CommitIntent, PublishIntent, RunsIntent
  <2>2. CASE c # d
    BY <1>4, <2>1, <2>2 DEF ReplyAndBroadcast, Says
  <2>3. CASE c = d
    BY <1>1, <1>5, <2>3, CommitSpeaks DEF Says
  <2> QED BY <2>2, <2>3
<1>6. CASE CommitServerStep
  <2>1. /\ control' = control
        /\ sent' = Broadcast(connections, Snapshot(core', control, connections, "server"))
    BY <1>6 DEF CommitServerStep
  <2>2. Picture(Snapshot(core', control, connections, "server"))
    BY <2>1, PictureOfNow
  <2> QED BY <1>1, <2>1, <2>2 DEF Broadcast, Says
<1>7. CASE WriteFails /\ RunsIntent
  <2>1. /\ sent' = Reply(p, <<Ack(r, FALSE, core.revision), Error("PERSISTENCE_FAILED", r)>>)
        /\ UNCHANGED <<queue, journal, applied>> /\ running' = Idle
    BY <1>7 DEF WriteFails, RunsIntent
  <2>2. ~RunsIntent'
    BY <2>1 DEF RunsIntent, Idle
  <2> QED BY <1>1, <1>2, <1>3, <1>7, <2>1, <2>2 DEF Reply, Says, AnswersRunning, GivesUp
<1>8. CASE WriteFails /\ ~RunsIntent
  <2>1. /\ running.stage = "pump"
        /\ RetireInQueue([e \in Connections |-> <<Error("PERSISTENCE_FAILED", "none")>>])
    BY <1>8 DEF WriteFails, RunsIntent
  <2>2. /\ retired'
        /\ sent'[c] = IF c = d THEN Append(<<Error("PERSISTENCE_FAILED", "none")>>, Close("retired"))
                      ELSE <<>>
    BY <1>4, <2>1, FarewellSaid
  <2>3. sent'[c] = <<>> \/ (c = d /\ sent'[c] = <<Error("PERSISTENCE_FAILED", "none"), Close("retired")>>)
    BY <2>2, TwoMessages
  <2> QED BY <1>1, <1>3, <2>1, <2>2, <2>3 DEF Says, Ends, FatalCodes
<1>9. CASE WriterRetired
  <2> DEFINE farewell == [e \in Connections |->
                            IF running.stage = "pump" THEN <<Error("SESSION_RETIRED", "none")>>
                            ELSE IF e = d THEN <<Error("SESSION_RETIRED", r)>> ELSE <<>>]
  <2>1. RetireInQueue(farewell) /\ UNCHANGED <<queue, journal, applied>> /\ running' = Idle
    BY <1>9 DEF WriterRetired
  <2>2. /\ retired'
        /\ sent'[c] = IF c = d THEN Append(farewell[c], Close("retired")) ELSE <<>>
    <3> HIDE DEF farewell
    <3> QED BY <1>4, <2>1, FarewellSaid
  <2>3. CASE c # d
    BY <2>2, <2>3 DEF Says
  <2>4. CASE c = d /\ running.stage = "pump"
    <3>1. farewell[c] = <<Error("SESSION_RETIRED", "none")>>
      BY <2>4
    <3>2. sent'[c] = <<Error("SESSION_RETIRED", "none"), Close("retired")>>
      BY <2>2, <2>4, <3>1, TwoMessages
    <3> QED BY <1>1, <1>3, <2>2, <2>4, <3>2 DEF Says, Ends, FatalCodes
  <2>5. CASE c = d /\ running.stage = "intent"
    <3>1. farewell[c] = <<Error("SESSION_RETIRED", r)>>
      BY <2>5
    <3>2. sent'[c] = <<Error("SESSION_RETIRED", r), Close("retired")>>
      BY <2>2, <2>5, <3>1, TwoMessages
    <3>3. ~RunsIntent'
      BY <2>1 DEF RunsIntent, Idle
    <3> QED BY <1>1, <1>3, <2>1, <2>2, <2>5, <3>2, <3>3
            DEF Says, AnswersRunning, GivesUp, RunsIntent
  <2> QED BY <1>1, <2>3, <2>4, <2>5 DEF Committing
<1> QED BY <1>5, <1>6, <1>7, <1>8, <1>9 DEF Settle

LEMMA Speaks ==
  ASSUME HostInv, TypeOK', ServedAreAttached, Next, NEW c \in Connections
  PROVE  Says(c)
<1>1. CASE RunNext
  BY <1>1, QueueSpeaks, IntentSpeaks DEF RunNext
<1>2. CASE Settle
  BY <1>2, SettleSpeaks
<1>3. ASSUME NEW d \in Connections, HelloTooLate(d) \/ HelloDeadline(d)
      PROVE  Says(c)
  <2>1. CASE HelloDeadline(d)
    BY <2>1 DEF HelloDeadline, Quiet, Says, CloseCodes
  <2>2. CASE HelloTooLate(d)
    <3>1. /\ c # d => sent'[c] = <<>>
          /\ c = d => /\ sent'[c] = <<Error("SESSION_NOT_FOUND", "none"), Close("not-found")>>
                      /\ socket'[c] = "closed"
      BY <2>2 DEF HelloTooLate, Quiet, HostInv, TypeOK
    <3> QED BY <3>1 DEF Says, Refuse, TerminalErrors, CloseCodes, Unattached
  <2> QED BY <1>3, <2>1, <2>2
<1>4. CASE \/ \E p \in Guests : RequestJoin(p)
           \/ \E d \in Connections : Hello(d) \/ SocketCloses(d)
           \/ \E d \in Connections, env \in Envelopes : SendIntent(d, env)
           \/ RequestRetire \/ OtherWriter
  <2>1. sent' = Quiet
    BY <1>4 DEF RequestJoin, Hello, SocketCloses, SendIntent, RequestRetire, OtherWriter, Submitted
  <2> QED BY <2>1, SilentSteps
<1> QED BY <1>1, <1>2, <1>3, <1>4 DEF Next

-----------------------------------------------------------------------------
(* Each message by itself *)

\* An error that turns the client away without naming a request.
LastWord(m) == m.type = "error" /\ m.id = "none" /\ m.code \in TerminalErrors

IsAnswer(m, r) == m.type \in {"ack", "error"} /\ m.id = r /\ ~LastWord(m)
Negative(m) == \/ m.type = "ack" /\ ~m.accepted
               \/ m.type = "error"
Positive(m) == m.type = "ack" /\ m.accepted

\* The answer to the intent at the head of the queue.
AboutHead(m, c) ==
  LET r == m.id IN
  /\ Starts("intent") /\ Head(queue).conn = c /\ running' = running
  /\ r = Head(queue).env.id
  /\ Positive(m) => journal'[Host][r].accepted /\ journal'[Host][r].revision = m.revision
  /\ Negative(m) => \/ journal[Host][r] # NoEntry /\ journal[Host][r].env # Head(queue).env
                    \/ applied'[Host][r] = 0

\* The answer to the intent that awaits.
AboutRunning(m, c) ==
  LET r == m.id IN
  /\ RunsIntent /\ running.conn = c /\ ~RunsIntent' /\ queue' = queue
  /\ r = running.env.id
  /\ Positive(m) => journal'[Host][r].accepted /\ journal'[Host][r].revision = m.revision
  /\ Negative(m) => applied'[Host][r] = 0

Farewell(m, c) ==
  m.id = "none" /\ m.type = "error" /\ retired' /\ running.stage = "pump" /\ running.conn = c

AnswerSaid(m, c) ==
  /\ ~retired /\ connections[Host] = c
  /\ AboutHead(m, c) \/ AboutRunning(m, c) \/ Farewell(m, c)

PictureSaid(m) == ~retired /\ m.revision = core'.revision /\ m.control = control'

\* What a step says on a socket: one snapshot at most, of the state it leaves,
\* answers to what it handled, and nothing but a close after the end.  Only an
\* attached socket, or one turned away, is told anything but a close.
Message(c, k) ==
  LET m == sent'[c][k] IN
  /\ m \in ServerMessages
  /\ m.type = "snapshot" =>
       PictureSaid(m) /\ \A l \in DOMAIN sent'[c] : sent'[c][l].type = "snapshot" => k = l
  /\ m.type \in {"ack", "error"} => AnswerSaid(m, c) \/ (LastWord(m) /\ socket'[c] \notin Unattached)
  /\ IsAnswer(m, "none") => \A l \in DOMAIN sent'[c] : l > k => sent'[c][l].type = "close"

LEMMA AnswersHeadMessages ==
  ASSUME HostInv, GateInv, NEW c \in Connections,
         ~retired, connections[Host] = c, AnswersHead(c)
  PROVE  sent'[c] \in Seq(ServerMessages) /\ \A k \in DOMAIN sent'[c] : Message(c, k)
<1> DEFINE r == Head(queue).env.id
           entry == journal[Host][r]
<1>1. /\ Starts("intent") /\ Head(queue).conn = c /\ running' = running
      /\ Repeats(r, c) \/ Rejects(r, c)
  BY DEF AnswersHead
<1>2. r \in Requests /\ r # "none" /\ Host \in Players
  BY <1>1, StartingConnection, ClientAssumption DEF Envelopes, Players
<1>3. /\ entry \in {NoEntry} \union Entries
      /\ applied[Host][r] = IF entry.accepted THEN 1 ELSE 0
      /\ core.revision \in 0..MaxRevision
  BY <1>2 DEF HostInv, TypeOK, States, GateInv, HostIsSettled
<1>4. CASE Repeats(r, c) /\ entry.env # Head(queue).env /\ sent'[c] = <<Error("REQUEST_ID_REUSE", r)>>
  <2> DEFINE e == Error("REQUEST_ID_REUSE", r)
  <2>1. /\ e \in ServerMessages /\ e.type = "error" /\ e.id = r
    BY <1>2 DEF Error, ServerMessages
  <2>2. AboutHead(e, c)
    BY <1>1, <1>4, <2>1 DEF AboutHead, Positive, Negative, Repeats
  <2> HIDE DEF e
  <2>3. sent'[c] = <<e>>
    BY <1>4 DEF e
  <2>4. AnswerSaid(e, c) /\ ~IsAnswer(e, "none")
    BY <2>1, <2>2, <1>2 DEF AnswerSaid, IsAnswer
  <2> QED BY <2>1, <2>3, <2>4 DEF Message
<1>5. ASSUME NEW m, Picture(m), entry # NoEntry, UNCHANGED <<journal, applied>>, entry.accepted,
             sent'[c] = <<Ack(r, TRUE, entry.revision), m>>
      PROVE  sent'[c] \in Seq(ServerMessages) /\ \A k \in DOMAIN sent'[c] : Message(c, k)
  <2> DEFINE a == Ack(r, TRUE, entry.revision)
  <2>1. /\ a \in ServerMessages /\ a.type = "ack" /\ a.id = r /\ a.accepted
        /\ a.revision = entry.revision
    BY <1>2, <1>3, <1>5 DEF Ack, ServerMessages, Entries
  <2>2. AboutHead(a, c)
    BY <1>1, <1>5, <2>1 DEF AboutHead, Positive, Negative
  <2> HIDE DEF a
  <2>3. sent'[c] = <<a, m>>
    BY <1>5 DEF a
  <2>4. AnswerSaid(a, c) /\ ~IsAnswer(a, "none") /\ ~IsAnswer(m, "none")
    BY <1>5, <2>1, <2>2, <1>2 DEF AnswerSaid, IsAnswer, Picture
  <2>5. m \in ServerMessages /\ m.type = "snapshot" /\ PictureSaid(m)
    BY <1>5 DEF Picture, PictureSaid
  <2> QED BY <2>1, <2>3, <2>4, <2>5 DEF Message
<1>6. ASSUME NEW revision \in 0..MaxRevision, applied'[Host][r] = 0
      PROVE  LET a == Ack(r, FALSE, revision)
                 e == Error("REJECTED", r)
             IN /\ a \in ServerMessages /\ a.type = "ack" /\ AnswerSaid(a, c) /\ ~IsAnswer(a, "none")
                /\ e \in ServerMessages /\ e.type = "error" /\ AnswerSaid(e, c) /\ ~IsAnswer(e, "none")
  <2> DEFINE a == Ack(r, FALSE, revision)
             e == Error("REJECTED", r)
  <2>1. /\ a \in ServerMessages /\ a.type = "ack" /\ a.id = r /\ ~a.accepted
    BY <1>2, <1>6 DEF Ack, ServerMessages
  <2>2. e \in ServerMessages /\ e.type = "error" /\ e.id = r
    BY <1>2, <1>6 DEF Error, ServerMessages
  <2> HIDE DEF a, e
  <2>3. AboutHead(a, c)
    BY <1>1, <1>6, <2>1 DEF AboutHead, Positive, Negative
  <2>4. AboutHead(e, c)
    BY <1>1, <1>6, <2>2 DEF AboutHead, Positive, Negative
  <2>5. /\ a \in ServerMessages /\ a.type = "ack" /\ AnswerSaid(a, c) /\ ~IsAnswer(a, "none")
        /\ e \in ServerMessages /\ e.type = "error" /\ AnswerSaid(e, c) /\ ~IsAnswer(e, "none")
    BY <1>1, <1>2, <2>1, <2>2, <2>3, <2>4 DEF AnswerSaid, IsAnswer
  <2> QED BY <2>5 DEF a, e
<1>7. ASSUME NEW m, Picture(m), entry # NoEntry, UNCHANGED <<journal, applied>>, ~entry.accepted,
             sent'[c] = <<Ack(r, FALSE, entry.revision), Error("REJECTED", r), m>>
      PROVE  sent'[c] \in Seq(ServerMessages) /\ \A k \in DOMAIN sent'[c] : Message(c, k)
  <2> DEFINE a == Ack(r, FALSE, entry.revision)
             e == Error("REJECTED", r)
  <2>1. entry.revision \in 0..MaxRevision
    BY <1>3, <1>7 DEF Entries
  <2>2. applied'[Host][r] = 0
    BY <1>3, <1>7
  <2>3. /\ a \in ServerMessages /\ a.type = "ack" /\ AnswerSaid(a, c) /\ ~IsAnswer(a, "none")
        /\ e \in ServerMessages /\ e.type = "error" /\ AnswerSaid(e, c) /\ ~IsAnswer(e, "none")
    BY <1>6, <2>1, <2>2
  <2> HIDE DEF a, e
  <2>4. sent'[c] = <<a, e, m>>
    BY <1>7 DEF a, e
  <2>5. m \in ServerMessages /\ m.type = "snapshot" /\ PictureSaid(m) /\ ~IsAnswer(m, "none")
    BY <1>7 DEF Picture, PictureSaid, IsAnswer
  <2> QED BY <2>3, <2>4, <2>5 DEF Message
<1>8. CASE Rejects(r, c)
  <2> DEFINE a == Ack(r, FALSE, core.revision)
             e == Error("REJECTED", r)
  <2>2. applied'[Host][r] = 0
    BY <1>3, <1>8 DEF Rejects, Refuses, Settles, NoEntry
  <2>3. /\ a \in ServerMessages /\ a.type = "ack" /\ AnswerSaid(a, c) /\ ~IsAnswer(a, "none")
        /\ e \in ServerMessages /\ e.type = "error" /\ AnswerSaid(e, c) /\ ~IsAnswer(e, "none")
    BY <1>3, <1>6, <2>2
  <2> HIDE DEF a, e
  <2>4. sent'[c] = <<a, e>>
    BY <1>8 DEF a, e, Rejects
  <2> QED BY <2>3, <2>4 DEF Message
<1> QED BY <1>1, <1>4, <1>5, <1>7, <1>8 DEF Repeats

LEMMA AnswersRunningMessages ==
  ASSUME HostInv, TypeOK', GateInv, NEW c \in Connections,
         ~retired, connections[Host] = c, AnswersRunning(c)
  PROVE  sent'[c] \in Seq(ServerMessages) /\ \A k \in DOMAIN sent'[c] : Message(c, k)
<1> DEFINE r == running.env.id
           entry == journal[Host][r]
<1>1. /\ RunsIntent /\ running.conn = c /\ ~RunsIntent' /\ queue' = queue
      /\ Accepts(r, c) \/ GivesUp(r, c)
  BY DEF AnswersRunning
<1>2. r \in Requests /\ r # "none" /\ Owner[c] = Host /\ Host \in Players
  BY <1>1, AwaitFields, ClientAssumption
     DEF HostInv, RunsIntent, Committing, Envelopes, Players
<1>3. /\ entry = NoEntry /\ applied[Host][r] = 0
      /\ core.revision \in 0..MaxRevision /\ core'.revision \in 0..MaxRevision
  BY <1>1, <1>2 DEF HostInv, TypeOK, States, GateInv, HostIsSettled, SettledInv,
                    IntentIsFresh, RunsIntent, NoEntry
<1>4. CASE Accepts(r, c)
  <2>1. PICK m : Picture(m) /\ sent'[c] = <<Ack(r, TRUE, core'.revision), m>>
    BY <1>4 DEF Accepts
  <2> DEFINE a == Ack(r, TRUE, core'.revision)
  <2>2. /\ a \in ServerMessages /\ a.type = "ack" /\ a.id = r /\ a.accepted
        /\ a.revision = core'.revision
    BY <1>2, <1>3 DEF Ack, ServerMessages
  <2>3. journal'[Host][r].accepted /\ journal'[Host][r].revision = core'.revision
    BY <1>4 DEF Accepts, TakesEffect, Settles
  <2>4. AboutRunning(a, c)
    BY <1>1, <2>2, <2>3 DEF AboutRunning, Positive, Negative
  <2> HIDE DEF a
  <2>5. sent'[c] = <<a, m>>
    BY <2>1 DEF a
  <2>6. AnswerSaid(a, c) /\ ~IsAnswer(a, "none") /\ ~IsAnswer(m, "none")
    BY <1>2, <2>1, <2>2, <2>4 DEF AnswerSaid, IsAnswer, Picture
  <2>7. m \in ServerMessages /\ m.type = "snapshot" /\ PictureSaid(m)
    BY <2>1 DEF Picture, PictureSaid
  <2> QED BY <2>2, <2>5, <2>6, <2>7 DEF Message
<1>5. ASSUME NEW m \in ServerMessages, m.type \in {"ack", "error"}, m.id = r, Negative(m),
             ~Positive(m), GivesUp(r, c)
      PROVE  AnswerSaid(m, c) /\ ~IsAnswer(m, "none")
  <2>1. AboutRunning(m, c)
    BY <1>1, <1>3, <1>5 DEF AboutRunning, GivesUp
  <2> QED BY <1>2, <1>5, <2>1 DEF AnswerSaid, IsAnswer
<1>6. CASE /\ GivesUp(r, c)
           /\ sent'[c] = <<Ack(r, FALSE, core.revision), Error("PERSISTENCE_FAILED", r)>>
  <2> DEFINE a == Ack(r, FALSE, core.revision)
             e == Error("PERSISTENCE_FAILED", r)
  <2>1. /\ a \in ServerMessages /\ a.type = "ack" /\ a.id = r /\ ~a.accepted
        /\ e \in ServerMessages /\ e.type = "error" /\ e.id = r
    BY <1>2, <1>3 DEF Ack, Error, ServerMessages
  <2> HIDE DEF a, e
  <2>2. /\ AnswerSaid(a, c) /\ ~IsAnswer(a, "none")
        /\ AnswerSaid(e, c) /\ ~IsAnswer(e, "none")
    BY <1>5, <1>6, <2>1 DEF Negative, Positive
  <2>3. sent'[c] = <<a, e>>
    BY <1>6 DEF a, e
  <2> QED BY <2>1, <2>2, <2>3 DEF Message
<1>7. CASE /\ GivesUp(r, c)
           /\ sent'[c] = <<Error("SESSION_RETIRED", r), Close("retired")>>
  <2> DEFINE e == Error("SESSION_RETIRED", r)
             q == Close("retired")
  <2>1. /\ e \in ServerMessages /\ e.type = "error" /\ e.id = r
        /\ q \in ServerMessages /\ q.type = "close"
    BY <1>2 DEF Close, Error, ServerMessages, TerminalErrors
  <2> HIDE DEF e, q
  <2>2. /\ AnswerSaid(e, c) /\ ~IsAnswer(e, "none") /\ ~IsAnswer(q, "none")
    BY <1>5, <1>7, <2>1 DEF Negative, Positive, IsAnswer
  <2>3. sent'[c] = <<e, q>>
    BY <1>7 DEF e, q
  <2> QED BY <2>1, <2>2, <2>3 DEF Message
<1> QED BY <1>1, <1>4, <1>6, <1>7 DEF GivesUp

LEMMA EndsMessages ==
  ASSUME NEW c \in Connections, ~retired, connections[Host] = c, Ends(c)
  PROVE  sent'[c] \in Seq(ServerMessages) /\ \A k \in DOMAIN sent'[c] : Message(c, k)
<1>1. PICK code \in FatalCodes : sent'[c] = <<Error(code, "none"), Close("retired")>>
  BY DEF Ends
<1> DEFINE e == Error(code, "none")
           q == Close("retired")
<1>2. /\ e \in ServerMessages /\ e.type = "error" /\ e.id = "none"
      /\ q \in ServerMessages /\ q.type = "close"
  BY DEF Close, Error, ServerMessages, FatalCodes, TerminalErrors
<1>3. AnswerSaid(e, c)
  BY <1>2 DEF AnswerSaid, Farewell, Ends
<1> HIDE DEF e, q
<1>4. sent'[c] = <<e, q>>
  BY <1>1 DEF e, q
<1> QED BY <1>2, <1>3, <1>4 DEF Message, IsAnswer

LEMMA Messages ==
  ASSUME HostInv, TypeOK', GateInv, Next, NEW c \in Connections
  PROVE  sent'[c] \in Seq(ServerMessages) /\ \A k \in DOMAIN sent'[c] : Message(c, k)
<1>1. Says(c)
  BY Speaks DEF GateInv
<1>2. CASE sent'[c] = <<>>
  BY <1>2
<1>3. ASSUME NEW code \in CloseCodes, sent'[c] = <<Close(code)>>
      PROVE  sent'[c] \in Seq(ServerMessages) /\ \A k \in DOMAIN sent'[c] : Message(c, k)
  <2> DEFINE q == Close(code)
  <2>1. q \in ServerMessages /\ q.type = "close"
    BY DEF Close, ServerMessages, CloseCodes
  <2> HIDE DEF q
  <2>2. sent'[c] = <<q>>
    BY <1>3 DEF q
  <2> QED BY <2>1, <2>2 DEF Message, IsAnswer
<1>4. ASSUME ~retired, NEW m, Picture(m), sent'[c] = <<m>>
      PROVE  sent'[c] \in Seq(ServerMessages) /\ \A k \in DOMAIN sent'[c] : Message(c, k)
  BY <1>4 DEF Message, IsAnswer, Picture, PictureSaid
<1>5. ASSUME NEW error \in TerminalErrors, NEW code \in CloseCodes,
             sent'[c] = <<Error(error, "none"), Close(code)>>, socket'[c] \notin Unattached
      PROVE  sent'[c] \in Seq(ServerMessages) /\ \A k \in DOMAIN sent'[c] : Message(c, k)
  <2> DEFINE e == Error(error, "none")
             q == Close(code)
  <2>1. /\ e \in ServerMessages /\ e.type = "error" /\ LastWord(e)
        /\ q \in ServerMessages /\ q.type = "close"
    BY DEF Close, Error, ServerMessages, CloseCodes, LastWord
  <2> HIDE DEF e, q
  <2>2. sent'[c] = <<e, q>>
    BY <1>5 DEF e, q
  <2> QED BY <1>5, <2>1, <2>2 DEF Message, IsAnswer
<1> QED BY <1>1, <1>2, <1>3, <1>4, <1>5, AnswersHeadMessages, AnswersRunningMessages,
           EndsMessages DEF Says, Refuse

\* Once a session is over it only turns sockets away.
LEMMA AfterTheEnd ==
  ASSUME HostInv, TypeOK', GateInv, Next, NEW c \in Connections, retired, NEW k \in DOMAIN sent'[c]
  PROVE  sent'[c][k].type = "close" \/ LastWord(sent'[c][k])
<1>1. Message(c, k)
  BY Messages
<1> QED BY <1>1 DEF Message, PictureSaid, AnswerSaid, ServerMessages

-----------------------------------------------------------------------------
(* The gateway invariant *)

LEMMA QueueMovesOnce ==
  ASSUME HostInv
  PROVE  /\ queue' = queue => \A kind : ~Starts(kind)
         /\ \A op : Enqueue(op) => \A kind : ~Starts(kind)
<1>1. queue \in Seq(Operations) /\ Len(queue) \in Nat
  BY DEF HostInv, TypeOK
<1>2. \A kind : Starts(kind) => Len(queue') = Len(queue) - 1
  BY <1>1 DEF Starts
<1>3. \A op : Enqueue(op) => Len(queue') = Len(queue) + 1
  BY <1>1 DEF Enqueue
<1> QED BY <1>1, <1>2, <1>3

LEMMA AttachedStays ==
  ASSUME HostInv, Next, NEW c \in Connections, socket[c] \notin Unattached
  PROVE  socket'[c] \notin Unattached
<1>1. SocketMoves(c)
  BY SocketStep
<1> QED BY <1>1 DEF SocketMoves, ServedMoves, Unattached

LEMMA QueuedConnections ==
  ASSUME HostInv, NEW i \in Queued("attach") \union Queued("intent")
  PROVE  /\ i \in DOMAIN queue /\ queue[i] \in Operations /\ queue[i].conn \in Connections
         /\ queue[i].kind = "intent" => queue[i].env \in Envelopes
<1>1. i \in DOMAIN queue /\ queue[i] \in Operations /\ queue[i].kind \in {"attach", "intent"}
  BY DEF HostInv, TypeOK, Queued
<1> QED BY <1>1, OperationFields

\* Where each waiting operation was before the step.
LEMMA QueueBefore ==
  ASSUME HostInv, NEW kind \in {"attach", "intent"}, NEW i \in (Queued(kind))'
  PROVE  /\ queue' = queue => i \in Queued(kind) /\ queue'[i] = queue[i]
         /\ \A k : Starts(k) => i + 1 \in Queued(kind) /\ queue'[i] = queue[i + 1]
         /\ \A op \in Operations : Enqueue(op) =>
              \/ i \in Queued(kind) /\ queue'[i] = queue[i]
              \/ i = Len(queue) + 1 /\ queue'[i] = op /\ op.kind = kind
<1>1. i \in DOMAIN queue' /\ queue'[i].kind = kind
  BY DEF Queued
<1>2. TypeOK
  BY DEF HostInv
<1>3. queue' = queue => i \in Queued(kind) /\ queue'[i] = queue[i]
  BY <1>1 DEF Queued
<1>4. ASSUME NEW k, Starts(k) PROVE i + 1 \in Queued(kind) /\ queue'[i] = queue[i + 1]
  BY <1>1, <1>2, <1>4, Popped DEF Queued
<1>5. ASSUME NEW op \in Operations, Enqueue(op)
      PROVE  \/ i \in Queued(kind) /\ queue'[i] = queue[i]
             \/ i = Len(queue) + 1 /\ queue'[i] = op /\ op.kind = kind
  BY <1>1, <1>2, <1>5, Pushed DEF Queued
<1> QED BY <1>3, <1>4, <1>5

LEMMA AttachWaitsKept == HostInv /\ GateInv /\ Next => AttachWaits'
<1> SUFFICES ASSUME HostInv, GateInv, Next, NEW i \in (Queued("attach"))'
             PROVE  /\ socket'[queue'[i].conn] \in {"hello", "late", "closed"}
                    /\ \A j \in (Queued("attach"))' : queue'[j].conn = queue'[i].conn => i = j
  BY DEF AttachWaits
<1> DEFINE Still(c) == socket'[c] \in {"hello", "late", "closed"}
<1>1. /\ \A k \in Queued("attach") : socket[queue[k].conn] \in {"hello", "late", "closed"}
      /\ \A k, l \in Queued("attach") : queue[k].conn = queue[l].conn => k = l
      /\ \A k \in Queued("attach") : queue[k].conn \in Connections
  BY QueuedConnections DEF GateInv, AttachWaits
<1>2. \A k \in Queued("attach") :
        Still(queue[k].conn) \/ (Starts("attach") /\ Head(queue).conn = queue[k].conn)
  BY <1>1, SocketStep DEF SocketMoves, ServedMoves
<1>3. CASE queue' = queue
  <2>1. \A j \in (Queued("attach"))' : j \in Queued("attach") /\ queue'[j] = queue[j]
    BY <1>3, QueueBefore
  <2> QED BY <1>1, <1>2, <1>3, <2>1, QueueMovesOnce
<1>4. ASSUME NEW kind, Starts(kind)
      PROVE  /\ Still(queue'[i].conn)
             /\ \A j \in (Queued("attach"))' : queue'[j].conn = queue'[i].conn => i = j
  <2>1. \A j \in (Queued("attach"))' : j + 1 \in Queued("attach") /\ queue'[j] = queue[j + 1]
    BY <1>4, QueueBefore
  <2>2. \A j \in (Queued("attach"))' : j \in Nat \ {0}
    BY <1>4, Popped DEF Queued, HostInv
  <2>3. Starts("attach") => 1 \in Queued("attach") /\ Head(queue) = queue[1]
    BY StartingConnection
  <2>4. Still(queue'[i].conn)
    <3>1. CASE Starts("attach") /\ Head(queue).conn = queue[i + 1].conn
      <4>1. i + 1 = 1
        BY <1>1, <2>1, <2>3, <3>1
      <4> QED BY <2>2, <4>1
    <3> QED BY <1>2, <2>1, <3>1
  <2>5. ASSUME NEW j \in (Queued("attach"))', queue'[j].conn = queue'[i].conn PROVE i = j
    <3>1. i + 1 = j + 1
      BY <1>1, <2>1, <2>5
    <3> QED BY <2>2, <3>1
  <2> QED BY <2>4, <2>5
<1>5. ASSUME NEW op \in Operations, Enqueue(op), op.kind = "attach" => Hello(op.conn)
      PROVE  /\ Still(queue'[i].conn)
             /\ \A j \in (Queued("attach"))' : queue'[j].conn = queue'[i].conn => i = j
  <2>1. \A j \in (Queued("attach"))' :
          \/ j \in Queued("attach") /\ queue'[j] = queue[j]
          \/ j = Len(queue) + 1 /\ queue'[j] = op /\ op.kind = "attach"
    BY <1>5, QueueBefore
  <2>2. op.kind = "attach" => /\ op.conn \in Connections
                              /\ socket[op.conn] = "new" /\ socket'[op.conn] = "hello"
    BY <1>5, OperationFields DEF Hello, HostInv, TypeOK
  <2>3. \A j \in Queued("attach") : Still(queue[j].conn) /\ socket[queue[j].conn] # "new"
    BY <1>1, <1>2, <1>5, QueueMovesOnce
  <2> QED BY <1>1, <2>1, <2>2, <2>3
<1> QED BY <1>3, <1>4, <1>5, QueueStep DEF QueueMoves

LEMMA ServedAreAttachedKept == HostInv /\ GateInv /\ Next /\ HostInv' => ServedAreAttached'
<1> SUFFICES ASSUME HostInv, GateInv, Next, HostInv' PROVE ServedAreAttached'
  OBVIOUS
<1>1. ASSUME NEW p \in Players, connections'[p] # NoConn
      PROVE  Owner[connections'[p]] = p /\ socket'[connections'[p]] \notin Unattached
  <2>1. connections \in [Players -> Connections \union {NoConn}]
    BY DEF HostInv, TypeOK
  <2>2. CASE connections'[p] = connections[p]
    BY <1>1, <2>1, <2>2, AttachedStays DEF GateInv, ServedAreAttached
  <2>3. CASE connections'[p] # connections[p]
    <3>1. /\ Starts("attach")
          /\ connections' = [connections EXCEPT ![Owner[Head(queue).conn]] = Head(queue).conn]
          /\ socket'[Head(queue).conn] \notin Unattached
      BY <1>1, <2>1, <2>3, ConnectionStep DEF ConnectionMoves, GateInv
    <3>2. p = Owner[Head(queue).conn] /\ connections'[p] = Head(queue).conn
      BY <2>1, <2>3, <3>1
    <3> QED BY <3>1, <3>2
  <2> QED BY <2>2, <2>3
<1>2. ASSUME NEW i \in (Queued("intent"))' PROVE socket'[queue'[i].conn] \notin Unattached
  <2>1. \A k \in Queued("intent") : socket'[queue[k].conn] \notin Unattached
    BY QueuedConnections, AttachedStays DEF GateInv, ServedAreAttached
  <2>2. CASE queue' = queue \/ \E kind : Starts(kind)
    BY <2>1, <2>2, QueueBefore
  <2>3. ASSUME NEW op \in Operations, Enqueue(op),
               op.kind = "intent" => SendIntent(op.conn, op.env)
        PROVE  socket'[queue'[i].conn] \notin Unattached
    <3>1. op.kind = "intent" => socket'[op.conn] \notin Unattached
      BY <2>3 DEF SendIntent, Unattached
    <3> QED BY <2>1, <2>3, <3>1, QueueBefore
  <2> QED BY <2>2, <2>3, QueueStep DEF QueueMoves
<1>3. ASSUME Committing' PROVE connections'[Owner[running'.conn]] = running'.conn
  <2>1. running' # Idle /\ ~retired'
    BY <1>3 DEF Committing, Idle, HostInv, SettledInv, CandidateFollows
  <2>2. CASE running' = running
    <3>1. Committing /\ running # Idle
      BY <1>3, <2>1, <2>2 DEF Committing
    <3>2. connections' = connections
      BY <2>1, <3>1, ConnectionStep DEF ConnectionMoves, Starts, GateInv
    <3> QED BY <2>2, <3>1, <3>2 DEF GateInv, ServedAreAttached
  <2> QED BY <2>1, <2>2, RunningStep DEF RunningMoves, GateInv, ServedAreAttached
<1> QED BY <1>1, <1>2, <1>3 DEF ServedAreAttached

LEMMA OneAtATimeKept == HostInv /\ GateInv /\ Next => OneAtATime'
<1> SUFFICES ASSUME HostInv, GateInv, Next, NEW i \in (Queued("intent"))'
             PROVE  /\ \A j \in (Queued("intent"))' : queue'[j].conn = queue'[i].conn => i = j
                    /\ Committing' => running'.conn # queue'[i].conn
  BY DEF OneAtATime
<1>1. /\ \A k, l \in Queued("intent") : queue[k].conn = queue[l].conn => k = l
      /\ \A k \in Queued("intent") : Committing => running.conn # queue[k].conn
  BY DEF GateInv, OneAtATime
<1>2. CASE queue' = queue
  <2>1. \A j \in (Queued("intent"))' : j \in Queued("intent") /\ queue'[j] = queue[j]
    BY <1>2, QueueBefore
  <2>2. Committing' => Committing /\ running'.conn = running.conn
    BY <1>2, RunningStep, QueueMovesOnce DEF RunningMoves, Committing, Idle
  <2> QED BY <1>1, <2>1, <2>2
<1>3. ASSUME NEW kind, Starts(kind)
      PROVE  /\ \A j \in (Queued("intent"))' : queue'[j].conn = queue'[i].conn => i = j
             /\ Committing' => running'.conn # queue'[i].conn
  <2>1. \A j \in (Queued("intent"))' : j + 1 \in Queued("intent") /\ queue'[j] = queue[j + 1]
    BY <1>3, QueueBefore
  <2>2. \A j \in (Queued("intent"))' : j \in Nat \ {0}
    BY <1>3, Popped DEF Queued, HostInv
  <2>3. ASSUME NEW j \in (Queued("intent"))', queue'[j].conn = queue'[i].conn PROVE i = j
    <3>1. i + 1 = j + 1
      BY <1>1, <2>1, <2>3
    <3> QED BY <2>2, <3>1
  <2>4. ASSUME Committing' PROVE running'.conn # queue'[i].conn
    <3>1. Starts("intent") /\ running'.conn = Head(queue).conn
      BY <1>3, <2>4, RunningStep, QueueMovesOnce DEF RunningMoves, Committing, Idle, Starts
    <3>2. 1 \in Queued("intent") /\ Head(queue) = queue[1]
      BY <3>1, StartingConnection
    <3>3. i + 1 # 1
      BY <2>2
    <3> QED BY <1>1, <2>1, <3>1, <3>2, <3>3
  <2> QED BY <2>3, <2>4
<1>4. ASSUME NEW op \in Operations, Enqueue(op),
             op.kind = "intent" => SendIntent(op.conn, op.env)
      PROVE  /\ \A j \in (Queued("intent"))' : queue'[j].conn = queue'[i].conn => i = j
             /\ Committing' => running'.conn # queue'[i].conn
  <2>1. \A j \in (Queued("intent"))' :
          \/ j \in Queued("intent") /\ queue'[j] = queue[j]
          \/ j = Len(queue) + 1 /\ queue'[j] = op /\ op.kind = "intent"
    BY <1>4, QueueBefore
  <2>2. op.kind = "intent" =>
          /\ \A k \in Queued("intent") : queue[k].conn # op.conn
          /\ running # Idle => running.conn # op.conn
    BY <1>4 DEF SendIntent
  <2>3. Committing' => Committing /\ running'.conn = running.conn
    BY <1>4, RunningStep, QueueMovesOnce DEF RunningMoves, Committing, Idle
  <2>4. Committing => running # Idle
    BY DEF Committing, Idle
  <2> QED BY <1>1, <2>1, <2>2, <2>3, <2>4
<1> QED BY <1>2, <1>3, <1>4, QueueStep DEF QueueMoves

LEMMA HostIsSettledKept == HostInv /\ GateInv /\ Next => HostIsSettled'
<1> SUFFICES ASSUME HostInv, GateInv, Next PROVE HostIsSettled'
  OBVIOUS
<1>1. Host \in digests' 
  <2>1. Host \in digests
    BY DEF GateInv, HostIsSettled
  <2>2. CASE RunNext
    BY <2>1, <2>2 DEF RunNext, RunJoin, RunAttach, RunDetach, RunRetire, RunIntent, hostVars
  <2>3. CASE Settle
    <3>1. CASE CommitIntent
      BY <2>1, <3>1, HostAssumption DEF CommitIntent, PublishIntent, OfflineGuests
    <3> QED BY <2>1, <2>3, <3>1 DEF Settle, CommitServerStep, WriteFails, WriterRetired
  <2>4. CASE ~RunNext /\ ~Settle
    BY <2>1, <2>4 DEF Next, RequestJoin, Hello, HelloTooLate, HelloDeadline, SendIntent,
       SocketCloses, RequestRetire, OtherWriter, Submitted, hostVars
  <2> QED BY <2>2, <2>3, <2>4
<1>2. ASSUME NEW r \in Requests
      PROVE  applied'[Host][r] = IF journal'[Host][r].accepted THEN 1 ELSE 0
  <2>1. applied[Host][r] = IF journal[Host][r].accepted THEN 1 ELSE 0
    BY DEF GateInv, HostIsSettled
  <2> QED BY <2>1, RequestStep DEF RequestMoves, Refuses, TakesEffect, Settles, NoEntry
<1> QED BY <1>1, <1>2 DEF HostIsSettled

LEMMA GateStarts == Init => GateInv
BY HostAssumption DEF Init, GateInv, AttachWaits, ServedAreAttached, OneAtATime, HostIsSettled,
   Queued, Committing, Idle, NoEntry, Players

LEMMA GateStep == HostInv /\ GateInv /\ [Next]_vars => GateInv'
<1> SUFFICES ASSUME HostInv, GateInv, [Next]_vars PROVE GateInv'
  OBVIOUS
<1>1. CASE Next
  <2>1. HostInv'
    BY HostStep
  <2> QED BY <1>1, <2>1, AttachWaitsKept, ServedAreAttachedKept, OneAtATimeKept, HostIsSettledKept
          DEF GateInv
<1>2. CASE UNCHANGED vars
  BY <1>2 DEF vars, hostVars, durableVars, GateInv, AttachWaits, ServedAreAttached, OneAtATime,
     HostIsSettled, Queued, Committing
<1> QED BY <1>1, <1>2

-----------------------------------------------------------------------------
(* The inductive invariant *)

\* The socket the client uses carries messages.
Linked == conn \in Connections \ broken

\* The request the client waits for.
Awaited == outstanding.env.id

\* A socket is used once: one the client does not use yet, and no other that
\* is not broken, is as new.
OneSocket ==
  \A c \in Connections \ (broken \union {conn}) :
    socket[c] = "new" /\ up[c] = <<>> /\ down[c] = <<>>

\* A socket that still carries messages was closed by the server.
ClosedIsRetired == socket[conn] = "closed" => retired

\* Whatever older sockets left in the queue is done before the client's
\* attach, and what awaits for them too.
AttachComes == \E j \in Queued("attach") : queue[j].conn = conn
OldBeforeNew ==
  ~retired /\ socket[conn] # "new" =>
    /\ \A i \in Queued("attach") \union Queued("intent") :
         queue[i].conn # conn => \E j \in Queued("attach") : j > i /\ queue[j].conn = conn
    /\ Committing /\ running.conn # conn => AttachComes
AttachedIsServed ==
  ~retired /\ socket[conn] \in {"open", "closing"} => connections[Host] = conn

SocketInv == ClosedIsRetired /\ OldBeforeNew /\ AttachedIsServed

\* The intents on their way to the server, in its queue, and what the server
\* has put on the client's socket.
GoingUp == {up[conn][k].env : k \in {j \in DOMAIN up[conn] : up[conn][j] # HelloMessage}}
Waiting == {queue[i] : i \in Queued("intent")}
ComingDown == {down[conn][k] : k \in DOMAIN down[conn]}

\* What the client sends on its socket is the open intent or one that took
\* effect.
Meant(env) == \/ Pending /\ env = outstanding.env
              \/ answers[env.id] = "accepted"
CopiesAreMeant ==
  ~retired =>
    /\ \A env \in GoingUp : Meant(env)
    /\ \A op \in Waiting : op.conn = conn => Meant(op.env)
    /\ RunsIntent /\ running.conn = conn => Meant(running.env)

\* A request identifier names one intent, wherever a copy of it is.
SameEnvelope(env) == Pending /\ env.id = Awaited => env = outstanding.env
CopiesAreEqual ==
  /\ \A op \in Waiting : SameEnvelope(op.env)
  /\ RunsIntent => SameEnvelope(running.env)
  /\ Pending /\ journal[Host][Awaited] # NoEntry =>
       journal[Host][Awaited].env = outstanding.env

\* An intent not sent yet is unknown to the server, and so are its answers.
NotYetSent ==
  \A r \in Requests : answers[r] = "unsent" =>
    /\ \A op \in Waiting : op.env.id # r
    /\ RunsIntent => running.env.id # r
    /\ journal[Host][r] = NoEntry
NotYetOnTheWire ==
  \A r \in Requests : answers[r] = "unsent" =>
    /\ \A env \in GoingUp : env.id # r
    /\ \A m \in ComingDown : ~IsAnswer(m, r)

\* One copy of the open intent, or its answer, is on the client's socket.
CopyGoesUp == \E env \in GoingUp : env.id = Awaited
CopyWaits == \E op \in Waiting : op.conn = conn /\ op.env.id = Awaited
CopyRuns == RunsIntent /\ running.conn = conn /\ running.env.id = Awaited
AnswerComes == \E m \in ComingDown : IsAnswer(m, Awaited)
OneCopy ==
  Pending =>
    /\ \A k, l \in DOMAIN up[conn] :
         /\ up[conn][k] # HelloMessage /\ up[conn][k].env.id = Awaited
         /\ up[conn][l] # HelloMessage /\ up[conn][l].env.id = Awaited
         => k = l
    /\ CopyGoesUp => ~CopyWaits /\ ~CopyRuns /\ ~AnswerComes
    /\ CopyWaits \/ CopyRuns => ~AnswerComes

CopyInv == CopiesAreMeant /\ NotYetOnTheWire /\ OneCopy

\* Only an attached socket is answered.
AnswersToAttached ==
  \A m \in ComingDown : m.type \in {"ack", "error"} => socket[conn] \notin Unattached

\* A refusal on its way is true of the open intent, an acceptance of any.
RefusalsAreTrue ==
  Pending => \A m \in ComingDown :
    IsAnswer(m, Awaited) /\ Negative(m) => applied[Host][Awaited] = 0
AcksAreTrue ==
  \A m \in ComingDown : Positive(m) =>
    /\ journal[Host][m.id].accepted
    /\ journal[Host][m.id].revision = m.revision

\* After the error that ends a session nothing more is said but that it is over.
Parting(m) == m.type = "close" \/ LastWord(m)
FarewellIsLast ==
  \A k \in DOMAIN down[conn] : IsAnswer(down[conn][k], "none") =>
    retired /\ \A l \in DOMAIN down[conn] : l > k => Parting(down[conn][l])

\* The result of an open intent that took effect comes before such an error.
ResultComes ==
  \E l \in DOMAIN down[conn] :
    /\ down[conn][l].type = "snapshot"
    /\ down[conn][l].revision >= journal[Host][Awaited].revision
    /\ \/ outstanding.committed >= 0
       \/ \E k \in DOMAIN down[conn] :
            k < l /\ IsAnswer(down[conn][k], Awaited) /\ Positive(down[conn][k])
ResultFollows ==
  Pending /\ applied[Host][Awaited] # 0 =>
    \/ /\ ~(Committing /\ running.conn = conn)
       /\ \A m \in ComingDown : ~IsAnswer(m, "none")
    \/ ResultComes

AnswerInv == AnswersToAttached /\ RefusalsAreTrue /\ AcksAreTrue /\ FarewellIsLast /\ ResultFollows

\* What the client was told to have been accepted is what it waits to see.
CommittedIsJournalled ==
  Pending /\ outstanding.committed >= 0 =>
    /\ journal[Host][Awaited].accepted
    /\ journal[Host][Awaited].revision = outstanding.committed
    /\ seen.revision < outstanding.committed

\* An intent that can no longer take effect.
Dead(r) ==
  /\ applied[Host][r] = 0
  /\ \/ retired
     \/ journal[Host][r] # NoEntry
     \/ /\ \A op \in Waiting : op.env.id # r
        /\ RunsIntent => running.env.id # r
VerdictsAreKept ==
  /\ cutOff # "none" => terminal
  /\ Pending => answers[Awaited] = "waiting"
  /\ \A r \in Requests :
       /\ answers[r] = "accepted" =>
            journal[Host][r].accepted /\ seen.revision >= journal[Host][r].revision
       /\ answers[r] = "refused" => Dead(r) \/ r = cutOff

VerdictInv == CopiesAreEqual /\ NotYetSent /\ CommittedIsJournalled /\ VerdictsAreKept

\* Snapshots come in the order of their versions, none older than the screen
\* and none newer than the session.
Older(m, n) == m.revision <= n.revision /\ m.control <= n.control
Current == [revision |-> core.revision, control |-> control]
ScreenIsOlder == Older(seen, Current)
SnapshotsInOrder ==
  \A k \in DOMAIN down[conn] : down[conn][k].type = "snapshot" =>
    /\ Older(down[conn][k], Current) /\ Older(seen, down[conn][k])
    /\ \A l \in DOMAIN down[conn] :
         l > k /\ down[conn][l].type = "snapshot" => Older(down[conn][k], down[conn][l])

LinkInv == Linked => SocketInv /\ CopyInv /\ AnswerInv /\ SnapshotsInOrder

ClientInv ==
  /\ HostInv /\ GateInv /\ ClientTypeOK
  /\ OneSocket /\ VerdictInv /\ ScreenIsOlder
  /\ LinkInv

-----------------------------------------------------------------------------
(* Wires *)

LEMMA WireTypes ==
  ASSUME ClientTypeOK, NEW c \in Connections
  PROVE  /\ up[c] \in Seq(ClientMessages) /\ down[c] \in Seq(ServerMessages)
         /\ \A k \in DOMAIN up[c] :
              up[c][k] = HelloMessage \/ (up[c][k] # HelloMessage /\ up[c][k].env \in Envelopes)
         /\ \A k \in DOMAIN down[c] : down[c][k] \in ServerMessages
<1>1. up[c] \in Seq(ClientMessages) /\ down[c] \in Seq(ServerMessages)
  BY DEF ClientTypeOK
<1>2. \A m \in ClientMessages : m = HelloMessage \/ m.env \in Envelopes
  BY DEF ClientMessages
<1> QED BY <1>1, <1>2

\* A message leaves the front of a wire.
LEMMA Taken ==
  ASSUME NEW S, NEW s \in Seq(S), s # <<>>
  PROVE  /\ Tail(s) \in Seq(S) /\ 1 \in DOMAIN s /\ Head(s) = s[1] /\ Head(s) \in S
         /\ \A k \in DOMAIN Tail(s) :
              k \in Nat \ {0} /\ k + 1 \in DOMAIN s /\ Tail(s)[k] = s[k + 1]
         /\ \A k \in DOMAIN s : k # 1 => k - 1 \in DOMAIN Tail(s) /\ Tail(s)[k - 1] = s[k]
OBVIOUS

\* Messages join the end of a wire.
LEMMA Joined ==
  ASSUME NEW S, NEW s \in Seq(S), NEW t \in Seq(S)
  PROVE  /\ s \o t \in Seq(S) /\ Len(s) \in Nat
         /\ \A k \in DOMAIN s : k \in 1..Len(s) /\ k \in DOMAIN (s \o t) /\ (s \o t)[k] = s[k]
         /\ \A k \in DOMAIN t :
              k \in Nat \ {0} /\ Len(s) + k \in DOMAIN (s \o t) /\ (s \o t)[Len(s) + k] = t[k]
         /\ \A k \in DOMAIN (s \o t) :
              k \in DOMAIN s \/ (k \in Nat /\ k > Len(s) /\ k - Len(s) \in DOMAIN t)
<1>1. /\ s \o t \in Seq(S) /\ Len(s \o t) = Len(s) + Len(t)
      /\ \A i \in 1 .. Len(s) + Len(t) : (s \o t)[i] =
                     IF i <= Len(s) THEN s[i] ELSE t[i - Len(s)]
  BY ConcatProperties
<1>2. /\ Len(s) \in Nat /\ Len(t) \in Nat /\ DOMAIN s = 1..Len(s) /\ DOMAIN t = 1..Len(t)
      /\ DOMAIN (s \o t) = 1..(Len(s) + Len(t))
  BY <1>1
<1> DEFINE u == s \o t
<1> HIDE DEF u
<1>3. /\ \A k \in DOMAIN s : k \in 1..Len(s) /\ k \in DOMAIN u /\ u[k] = s[k]
      /\ \A k \in DOMAIN t : k \in Nat \ {0} /\ Len(s) + k \in DOMAIN u /\ u[Len(s) + k] = t[k]
      /\ \A k \in DOMAIN u :
           k \in DOMAIN s \/ (k \in Nat /\ k > Len(s) /\ k - Len(s) \in DOMAIN t)
  BY <1>1, <1>2 DEF u
<1> QED BY <1>1, <1>2, <1>3 DEF u

-----------------------------------------------------------------------------
(* Steps of the server, with the wires *)

Serves == ServerStep \/ \E c \in Connections : Arrives(c) \/ ServerNotices(c)

LEMMA ServesNext == ClientTypeOK /\ Serves => Next
<1> SUFFICES ASSUME ClientTypeOK, Serves PROVE Next
  OBVIOUS
<1>1. CASE ServerStep
  BY <1>1 DEF ServerStep, Next
<1>2. ASSUME NEW c \in Connections, Arrives(c) PROVE Next
  <2>1. CASE Hello(c) \/ HelloTooLate(c)
    BY <2>1 DEF Next
  <2>2. CASE Head(up[c]) # HelloMessage /\ SendIntent(c, Head(up[c]).env)
    <3>1. Head(up[c]).env \in Envelopes
      <4>1. up[c] \in Seq(ClientMessages) /\ up[c] # <<>>
        BY <1>2, WireTypes DEF Arrives
      <4>2. 1 \in DOMAIN up[c] /\ Head(up[c]) = up[c][1]
        BY <4>1, Taken
      <4> QED BY <2>2, <4>2, WireTypes
    <3> QED BY <2>2, <3>1 DEF Next
  <2> QED BY <1>2, <2>1, <2>2 DEF Arrives
<1>3. ASSUME NEW c \in Connections, ServerNotices(c) PROVE Next
  BY <1>3 DEF ServerNotices, Next
<1> QED BY <1>1, <1>2, <1>3 DEF Serves

\* What the server reads of the client, and what becomes of its queue.
ReadsNothing ==
  /\ up' = up
  /\ \/ queue' = queue
     \/ \E kind : Starts(kind)
     \/ \E op \in Operations : Enqueue(op) /\ op.kind \notin {"attach", "intent"}

Reads == Linked /\ up[conn] # <<>> /\ up' = [up EXCEPT ![conn] = Tail(@)]
ReadsHello == Reads /\ Head(up[conn]) = HelloMessage /\ (Hello(conn) \/ HelloTooLate(conn))
ReadsIntent == Reads /\ Head(up[conn]) # HelloMessage /\ SendIntent(conn, Head(up[conn]).env)

LEMMA Reading ==
  ASSUME HostInv, OneSocket, Serves
  PROVE  /\ UNCHANGED <<clientVars, broken>>
         /\ ReadsNothing \/ ReadsHello \/ ReadsIntent
<1>1. CASE ServerStep
  <2>1. UNCHANGED <<clientVars, broken, up>>
    BY <1>1 DEF ServerStep
  <2>2. CASE RunNext
    BY <2>1, <2>2 DEF RunNext, RunJoin, RunAttach, RunDetach, RunRetire, RunIntent, ReadsNothing
  <2>3. CASE Settle
    BY <2>1, <2>3 DEF Settle, CommitIntent, CommitServerStep, WriteFails, WriterRetired, ReadsNothing
  <2>4. CASE RequestRetire
    <3>1. Enqueue([kind |-> "retire"]) /\ [kind |-> "retire"] \in Operations
      BY <2>4 DEF RequestRetire, Operations
    <3> QED BY <2>1, <3>1 DEF ReadsNothing
  <2>5. CASE OtherWriter \/ \E c \in Connections : HelloDeadline(c)
    BY <2>1, <2>5 DEF OtherWriter, HelloDeadline, ReadsNothing
  <2> QED BY <1>1, <2>1, <2>2, <2>3, <2>4, <2>5 DEF ServerStep
<1>2. ASSUME NEW c \in Connections, Arrives(c)
      PROVE  UNCHANGED <<clientVars, broken>> /\ (ReadsHello \/ ReadsIntent)
  <2>1. c = conn /\ Linked
    BY <1>2 DEF Arrives, OneSocket, Linked
  <2> QED BY <1>2, <2>1 DEF Arrives, Reads, ReadsHello, ReadsIntent
<1>3. ASSUME NEW c \in Connections, ServerNotices(c)
      PROVE  UNCHANGED <<clientVars, broken>> /\ ReadsNothing
  <2>1. UNCHANGED <<clientVars, broken, up>>
    BY <1>3 DEF ServerNotices, wireVars
  <2>2. queue' = queue \/ Enqueue([kind |-> "detach", conn |-> c])
    BY <1>3 DEF ServerNotices, SocketCloses
  <2>3. [kind |-> "detach", conn |-> c] \in Operations
    BY DEF Operations
  <2> QED BY <2>1, <2>2, <2>3 DEF ReadsNothing
<1> QED BY <1>1, <1>2, <1>3 DEF Serves

\* What is said on a socket travels.
LEMMA Delivered ==
  ASSUME ClientTypeOK, Serves, NEW c \in Connections \ broken
  PROVE  down'[c] = down[c] \o sent'[c]
<1>1. CASE Deliver
  BY <1>1 DEF Deliver
<1>2. ASSUME NEW d \in Connections, ServerNotices(d) PROVE down'[c] = down[c] \o sent'[c]
  <2>1. sent'[c] = <<>> /\ down' = down
    BY <1>2 DEF ServerNotices, SocketCloses, Submitted, Quiet, wireVars
  <2>2. down[c] \in Seq(ServerMessages)
    BY WireTypes
  <2> QED BY <2>1, <2>2, ConcatEmptySeq
<1> QED BY <1>1, <1>2 DEF Serves, ServerStep, Arrives

\* Nothing happens to a socket nobody used.
LEMMA UnusedRests ==
  ASSUME HostInv, GateInv, NEW c \in Connections, socket[c] = "new",
         \/ RunNext \/ Settle \/ RequestRetire \/ OtherWriter
         \/ \E d \in Connections : HelloDeadline(d) \/ SocketCloses(d)
         \/ \E d \in Connections \ {c} : Hello(d) \/ HelloTooLate(d) \/ \E env : SendIntent(d, env)
  PROVE  socket'[c] = "new" /\ sent'[c] = <<>>
<1>0. socket \in [Connections -> SocketStages]
  BY DEF HostInv, TypeOK, SocketStages
<1>1. c \notin Live(connections) /\ \A p \in Players : connections[p] # c
  BY HostAssumption DEF Live, GateInv, ServedAreAttached, Unattached
<1>2. \A closing : Dropped(socket, closing)[c] = "new"
  BY DEF Dropped
<1>3. \A message : Broadcast(connections, message)[c] = <<>>
  BY <1>1 DEF Broadcast
<1>4. Quiet[c] = <<>>
  BY DEF Quiet
<1>5. \A farewell : RetireInQueue(farewell) => socket'[c] = "new" /\ sent'[c] = <<>>
  BY <1>1, <1>2 DEF RetireInQueue
<1>6. CASE RunJoin
  BY <1>3, <1>4, <1>6 DEF RunJoin
<1>7. CASE RunAttach
  <2> DEFINE d == Head(queue).conn
             p == Owner[d]
             joined == [connections EXCEPT ![p] = d]
  <2>1. Starts("attach") 
    BY <1>7 DEF RunAttach
  <2>2. d \in Connections /\ p = Host /\ Host \in Players /\ 1 \in Queued("attach") /\ Head(queue) = queue[1]
    BY <2>1, StartingConnection, HostIsServed DEF GateInv
  <2>3. d # c
    BY <2>2 DEF GateInv, AttachWaits
  <2>4. CASE /\ sent' = [Quiet EXCEPT ![d] = IF socket[d] = "hello" THEN Refusal ELSE <<>>]
             /\ socket' = [socket EXCEPT ![d] = "closed"]
    BY <1>0, <2>2, <2>3, <2>4 DEF Quiet
  <2>5. CASE ~Refused(p)
    <3>1. c \notin Live(joined)
      <4>1. connections \in [Players -> Connections \union {NoConn}]
        BY DEF HostInv, TypeOK
      <4>2. \A q \in Players : joined[q] # c
        BY <1>1, <2>3, <4>1
      <4> QED BY <4>2 DEF Live
    <3>2. sent'[c] = <<>>
      BY <1>1, <1>7, <2>2, <2>3, <2>5, <3>1 DEF RunAttach
    <3>3. socket'[c] = Dropped(socket, {connections[p]})[c]
      <4> DEFINE left == Dropped(socket, {connections[p]})
      <4>1. socket' = [left EXCEPT ![d] = CASE @ = "hello" -> "open"
                                            [] @ = "late" -> "closing"
                                            [] OTHER -> @]
        BY <1>7, <2>5 DEF RunAttach
      <4>2. c \in DOMAIN left
        BY DEF Dropped
      <4> HIDE DEF left
      <4> QED BY <2>3, <4>1, <4>2 DEF left
    <3> QED BY <1>2, <3>2, <3>3
  <2> QED BY <1>7, <2>4, <2>5 DEF RunAttach
<1>8. CASE RunDetach
  <2> DEFINE left == [connections EXCEPT ![Owner[Head(queue).conn]] = NoConn]
  <2>1. c \notin Live(left)
    <3>1. connections \in [Players -> Connections \union {NoConn}] /\ c # NoConn
      BY HostAssumption DEF HostInv, TypeOK
    <3>2. \A q \in Players : left[q] # c
      BY <1>1, <3>1
    <3> QED BY <3>2 DEF Live
  <2>2. \A message : Broadcast(left, message)[c] = <<>>
    BY <2>1 DEF Broadcast
  <2> QED BY <1>4, <1>8, <2>2 DEF RunDetach
<1>9. CASE RunRetire
  BY <1>4, <1>5, <1>9 DEF RunRetire
<1>10. CASE RunIntent
  <2> DEFINE p == Owner[Head(queue).conn]
  <2>1. p \in Players
    BY <1>10, StartingConnection DEF RunIntent
  <2>2. \A messages : Reply(p, messages)[c] = <<>>
    BY <1>1, <2>1 DEF Reply
  <2> QED BY <1>4, <1>10, <2>2
          DEF RunIntent, DropStaleConnection, ReplayKnown, RefuseIntent, AcceptIntent
<1>11. CASE Settle
  <2>1. Committing
    BY <1>11 DEF Settle, CommitIntent, CommitServerStep, WriteFails, WriterRetired, Committing
  <2> DEFINE p == Owner[running.conn]
  <2>2. p \in Players
    BY <2>1, AwaitFields DEF HostInv
  <2>3. \A messages : Reply(p, messages)[c] = <<>>
    BY <1>1, <2>2 DEF Reply
  <2>4. \A first, message : ReplyAndBroadcast(p, first, message)[c] = <<>>
    BY <1>1 DEF ReplyAndBroadcast
  <2>5. CASE CommitIntent
    BY <2>4, <2>5 DEF CommitIntent, PublishIntent
  <2>6. CASE CommitServerStep
    BY <1>3, <2>6 DEF CommitServerStep
  <2>7. CASE WriteFails
    BY <1>5, <2>3, <2>7 DEF WriteFails
  <2>8. CASE WriterRetired
    BY <1>5, <2>8 DEF WriterRetired
  <2> QED BY <1>11, <2>5, <2>6, <2>7, <2>8 DEF Settle
<1>12. CASE RequestRetire \/ OtherWriter
  BY <1>4, <1>12 DEF RequestRetire, OtherWriter, Submitted
<1>13. ASSUME NEW d \in Connections, HelloDeadline(d) \/ SocketCloses(d)
       PROVE  socket'[c] = "new" /\ sent'[c] = <<>>
  BY <1>0, <1>13 DEF HelloDeadline, SocketCloses, Submitted, Quiet
<1>14. ASSUME NEW d \in Connections \ {c},
              Hello(d) \/ HelloTooLate(d) \/ \E env : SendIntent(d, env)
       PROVE  socket'[c] = "new" /\ sent'[c] = <<>>
  BY <1>0, <1>14 DEF Hello, HelloTooLate, SendIntent, Submitted, Quiet
<1> QED BY <1>6, <1>7, <1>8, <1>9, <1>10, <1>11, <1>12, <1>13, <1>14 DEF RunNext

LEMMA OneSocketServes == HostInv /\ GateInv /\ ClientTypeOK /\ OneSocket /\ Serves => OneSocket'
<1> SUFFICES ASSUME HostInv, GateInv, ClientTypeOK, OneSocket, Serves,
                    NEW c \in (Connections \ (broken \union {conn}))'
             PROVE  socket'[c] = "new" /\ up'[c] = <<>> /\ down'[c] = <<>>
  BY DEF OneSocket
<1>1. UNCHANGED <<conn, broken>>
  BY Reading DEF clientVars
<1>2. c \in Connections \ broken /\ c # conn /\ socket[c] = "new" /\ up[c] = <<>> /\ down[c] = <<>>
  BY <1>1 DEF OneSocket
<1>3. up'[c] = <<>>
  BY <1>2, Reading DEF ReadsNothing, ReadsHello, ReadsIntent, Reads, ClientTypeOK
<1>4. socket'[c] = "new" /\ sent'[c] = <<>>
  <2>1. CASE ServerStep
    BY <1>2, <2>1, UnusedRests DEF ServerStep
  <2>2. ASSUME NEW d \in Connections, Arrives(d) PROVE socket'[c] = "new" /\ sent'[c] = <<>>
    <3>1. d # c
      BY <1>2, <2>2 DEF Arrives
    <3> QED BY <1>2, <2>2, <3>1, UnusedRests DEF Arrives
  <2>3. ASSUME NEW d \in Connections, ServerNotices(d) PROVE socket'[c] = "new" /\ sent'[c] = <<>>
    BY <1>2, <2>3, UnusedRests DEF ServerNotices
  <2> QED BY <2>1, <2>2, <2>3 DEF Serves
<1>5. down'[c] = <<>>
  <2>1. down'[c] = <<>> \o <<>>
    BY <1>2, <1>4, Delivered
  <2> QED BY <2>1
<1> QED BY <1>3, <1>4, <1>5

LEMMA ServeFacts ==
  ASSUME ClientInv, Serves
  PROVE  /\ HostInv /\ GateInv /\ ClientTypeOK /\ OneSocket /\ Next
         /\ HostInv' /\ GateInv' /\ TypeOK'
         /\ UNCHANGED <<conn, seen, outstanding, terminal, answers, cutOff, broken>>
         /\ Linked' <=> Linked
         /\ retired => retired'
<1>1. HostInv /\ GateInv /\ ClientTypeOK /\ OneSocket
  BY DEF ClientInv
<1>2. Next
  BY <1>1, ServesNext
<1>3. HostInv' /\ GateInv'
  BY <1>1, <1>2, HostStep, GateStep
<1>4. UNCHANGED <<conn, seen, outstanding, terminal, answers, cutOff, broken>>
  BY <1>1, Reading DEF clientVars
<1>5. retired => retired'
  <2>1. [Final]_vars
    BY <1>1, <1>2, RetiredStays
  <2> QED BY <2>1 DEF Final, vars, hostVars
<1> QED BY <1>1, <1>2, <1>3, <1>4, <1>5 DEF Linked, HostInv

LEMMA ServedHere ==
  ASSUME ClientInv, Serves, Linked
  PROVE  ServedMoves(conn)
<1>1. HostInv /\ ClientTypeOK /\ conn \in Connections
  BY DEF ClientInv, Linked
<1>2. CASE ServerStep
  BY <1>1, <1>2, ServedSocket DEF ServerStep
<1>3. ASSUME NEW c \in Connections, ServerNotices(c) PROVE ServedMoves(conn)
  BY <1>1, <1>3 DEF ServerNotices, SocketCloses, Linked, ServedMoves, HostInv, TypeOK
<1>4. CASE ReadsHello
  BY <1>1, <1>4, ServedSocket DEF ReadsHello
<1>5. CASE ReadsIntent
  BY <1>5 DEF ReadsIntent, SendIntent, ServedMoves
<1>6. ASSUME NEW c \in Connections, Arrives(c) PROVE ServedMoves(conn)
  <2>1. c = conn
    BY <1>6 DEF Arrives, ClientInv, OneSocket
  <2> QED BY <1>1, <1>5, <1>6, <2>1, ServedSocket
          DEF Arrives, ReadsIntent, Reads, Linked, SendIntent, ServedMoves
<1> QED BY <1>2, <1>3, <1>6 DEF Serves

LEMMA WaitingMoves ==
  ASSUME HostInv, ClientTypeOK, OneSocket, Serves
  PROVE  /\ \A op \in Waiting' :
              \/ op \in Waiting
              \/ /\ ReadsIntent /\ op.conn = conn
                 /\ op.env = Head(up[conn]).env /\ op.env \in GoingUp
         /\ Starts("intent") =>
              /\ Head(queue) \in Waiting /\ Head(queue).conn \in Connections
              /\ Owner[Head(queue).conn] = Host
<1>1. Starts("intent") => /\ Head(queue) \in Waiting /\ Head(queue).conn \in Connections
                          /\ Owner[Head(queue).conn] = Host
  BY StartingConnection, ClientAssumption DEF Waiting
<1>2. ASSUME NEW i \in (Queued("intent"))'
      PROVE  \/ queue'[i] \in Waiting
             \/ /\ ReadsIntent /\ queue'[i].conn = conn
                /\ queue'[i].env = Head(up[conn]).env /\ queue'[i].env \in GoingUp
  <2>1. CASE queue' = queue \/ \E kind : Starts(kind)
    BY <2>1, QueueBefore DEF Waiting
  <2>2. ASSUME NEW op \in Operations, Enqueue(op), op.kind # "intent"
        PROVE  queue'[i] \in Waiting
    BY <2>2, QueueBefore DEF Waiting
  <2>3. CASE ReadsIntent
    <3> DEFINE op == [kind |-> "intent", conn |-> conn, env |-> Head(up[conn]).env]
    <3>1. /\ up[conn] \in Seq(ClientMessages) /\ up[conn] # <<>> /\ Head(up[conn]) # HelloMessage
          /\ conn \in Connections /\ Enqueue(op)
      BY <2>3, WireTypes DEF ReadsIntent, Reads, Linked, SendIntent
    <3>2. 1 \in DOMAIN up[conn] /\ Head(up[conn]) = up[conn][1]
      BY <3>1, Taken
    <3>3. op.env \in GoingUp /\ op.env \in Envelopes
      BY <3>1, <3>2, WireTypes DEF GoingUp
    <3>4. op \in Operations /\ op.conn = conn /\ op.env = Head(up[conn]).env
      BY <3>1, <3>3 DEF Operations
    <3> HIDE DEF op
    <3>5. queue'[i] \in Waiting \/ queue'[i] = op
      BY <3>1, <3>4, QueueBefore DEF Waiting
    <3> QED BY <2>3, <3>3, <3>4, <3>5
  <2>4. CASE ReadsHello
    <3>1. queue' = queue \/ Enqueue([kind |-> "attach", conn |-> conn])
      BY <2>4 DEF ReadsHello, Hello, HelloTooLate
    <3>2. [kind |-> "attach", conn |-> conn] \in Operations
      BY <2>4 DEF Operations, ReadsHello, Reads, Linked
    <3> QED BY <2>1, <2>2, <3>1, <3>2
  <2> QED BY <2>1, <2>2, <2>3, <2>4, Reading DEF ReadsNothing
<1> QED BY <1>1, <1>2 DEF Waiting

\* An intent that awaits did so before, or was the head of the queue.
LEMMA RunningIntentMoves ==
  ASSUME HostInv, Next, RunsIntent'
  PROVE  \/ RunsIntent /\ running' = running
         \/ /\ Starts("intent") /\ ~retired /\ sent' = Quiet
            /\ running'.conn = Head(queue).conn /\ running'.env = Head(queue).env
            /\ journal[Owner[running'.conn]][running'.env.id] = NoEntry
BY RunningStep DEF RunningMoves, RunsIntent, Idle

\* What the server reads leaves the wire.
LEMMA UpMoves ==
  ASSUME ClientTypeOK, OneSocket, HostInv, Serves, Linked
  PROVE  \/ up'[conn] = up[conn]
         \/ up[conn] # <<>> /\ up'[conn] = Tail(up[conn])
BY Reading DEF ReadsNothing, ReadsHello, ReadsIntent, Reads, Linked, ClientTypeOK

LEMMA UpTaken ==
  ASSUME ClientTypeOK, conn \in Connections, conn' = conn,
         \/ up'[conn] = up[conn]
         \/ up[conn] # <<>> /\ up'[conn] = Tail(up[conn])
  PROVE  /\ up'[conn] \in Seq(ClientMessages)
         /\ GoingUp' \subseteq GoingUp
         /\ \A k \in DOMAIN up'[conn] :
              \/ up'[conn] = up[conn] /\ k \in DOMAIN up[conn]
              \/ /\ up'[conn] = Tail(up[conn]) /\ k \in Nat \ {0} /\ k + 1 \in DOMAIN up[conn]
                 /\ up'[conn][k] = up[conn][k + 1]
<1>1. up[conn] \in Seq(ClientMessages)
  BY WireTypes
<1>2. CASE up'[conn] = up[conn]
  BY <1>1, <1>2 DEF GoingUp
<1>3. CASE up[conn] # <<>> /\ up'[conn] = Tail(up[conn])
  <2>1. /\ Tail(up[conn]) \in Seq(ClientMessages)
        /\ \A k \in DOMAIN Tail(up[conn]) :
             k \in Nat \ {0} /\ k + 1 \in DOMAIN up[conn] /\ Tail(up[conn])[k] = up[conn][k + 1]
    BY <1>1, <1>3, Taken
  <2>2. GoingUp' \subseteq GoingUp
    BY <1>3, <2>1 DEF GoingUp
  <2> QED BY <1>3, <2>1, <2>2
<1> QED BY <1>2, <1>3

\* What the server says joins the wire.
LEMMA DownMoves ==
  ASSUME ClientInv, Serves, Linked
  PROVE  /\ conn \in Connections /\ conn' = conn
         /\ down[conn] \in Seq(ServerMessages) /\ sent'[conn] \in Seq(ServerMessages)
         /\ down'[conn] = down[conn] \o sent'[conn] /\ down'[conn] \in Seq(ServerMessages)
         /\ \A k \in DOMAIN sent'[conn] : Message(conn, k)
<1>1. /\ conn \in Connections \ broken /\ conn' = conn /\ HostInv /\ GateInv /\ ClientTypeOK
      /\ Next /\ TypeOK'
  BY ServeFacts DEF Linked
<1>2. down[conn] \in Seq(ServerMessages) /\ down'[conn] = down[conn] \o sent'[conn]
  BY <1>1, WireTypes, Delivered
<1>3. sent'[conn] \in Seq(ServerMessages) /\ \A k \in DOMAIN sent'[conn] : Message(conn, k)
  BY <1>1, Messages
<1> QED BY <1>1, <1>2, <1>3

\* Where each message of the wire was before.
LEMMA DownGrows ==
  ASSUME ClientInv, Serves, Linked
  PROVE  /\ Len(down[conn]) \in Nat
         /\ \A k \in DOMAIN down[conn] :
              /\ k \in 1..Len(down[conn]) /\ k \in DOMAIN down'[conn]
              /\ down'[conn][k] = down[conn][k]
         /\ \A k \in DOMAIN down'[conn] :
              \/ k \in DOMAIN down[conn]
              \/ \E j \in DOMAIN sent'[conn] :
                   /\ j \in Nat \ {0} /\ k = Len(down[conn]) + j
                   /\ down'[conn][k] = sent'[conn][j]
         /\ \A j \in DOMAIN sent'[conn] :
              /\ j \in Nat \ {0} /\ Len(down[conn]) + j \in DOMAIN down'[conn]
              /\ down'[conn][Len(down[conn]) + j] = sent'[conn][j]
<1> DEFINE s == down[conn]
           t == sent'[conn]
           u == down'[conn]
<1>1. s \in Seq(ServerMessages) /\ t \in Seq(ServerMessages) /\ u = s \o t
  BY DownMoves
<1> HIDE DEF s, t, u
<1>2. /\ s \o t \in Seq(ServerMessages) /\ Len(s) \in Nat
      /\ \A k \in DOMAIN s : k \in 1..Len(s) /\ k \in DOMAIN (s \o t) /\ (s \o t)[k] = s[k]
      /\ \A k \in DOMAIN t :
           k \in Nat \ {0} /\ Len(s) + k \in DOMAIN (s \o t) /\ (s \o t)[Len(s) + k] = t[k]
      /\ \A k \in DOMAIN (s \o t) :
           k \in DOMAIN s \/ (k \in Nat /\ k > Len(s) /\ k - Len(s) \in DOMAIN t)
  BY <1>1, Joined
<1>3. ASSUME NEW k \in DOMAIN u, k \notin DOMAIN s
      PROVE  \E j \in DOMAIN t : j \in Nat \ {0} /\ k = Len(s) + j /\ u[k] = t[j]
  <2>1. k \in Nat /\ k > Len(s) /\ k - Len(s) \in DOMAIN t
    BY <1>1, <1>2, <1>3
  <2> DEFINE j == k - Len(s)
  <2>2. j \in Nat \ {0} /\ k = Len(s) + j
    BY <1>2, <2>1
  <2>3. j \in DOMAIN t
    BY <2>1
  <2> HIDE DEF j
  <2>4. u[k] = t[j]
    BY <1>1, <1>2, <2>2, <2>3
  <2> QED BY <2>2, <2>3, <2>4
<1>4. \A k \in DOMAIN s : k \in 1..Len(s) /\ k \in DOMAIN u /\ u[k] = s[k]
  BY <1>1, <1>2
<1>5. \A j \in DOMAIN t : j \in Nat \ {0} /\ Len(s) + j \in DOMAIN u /\ u[Len(s) + j] = t[j]
  BY <1>1, <1>2
<1>6. \A k \in DOMAIN u :
        \/ k \in DOMAIN s
        \/ \E j \in DOMAIN t : j \in Nat \ {0} /\ k = Len(s) + j /\ u[k] = t[j]
  BY <1>3
<1> QED BY <1>2, <1>4, <1>5, <1>6 DEF s, t, u

LEMMA Heard ==
  ASSUME ClientInv, Serves, Linked, NEW m \in ComingDown'
  PROVE  \/ m \in ComingDown
         \/ m.type \in {"ack", "error"} =>
              AnswerSaid(m, conn) \/ (LastWord(m) /\ socket'[conn] \notin Unattached)
<1>1. conn' = conn /\ \A k \in DOMAIN sent'[conn] : Message(conn, k)
  BY DownMoves
<1>2. PICK k \in DOMAIN down'[conn] : m = down'[conn][k]
  BY <1>1 DEF ComingDown
<1> QED BY <1>1, <1>2, DownGrows DEF ComingDown, Message

-----------------------------------------------------------------------------
(* The server keeps the sockets in order *)

LEMMA ServesSockets == ClientInv /\ Serves /\ Linked => SocketInv'
<1> SUFFICES ASSUME ClientInv, Serves, Linked PROVE SocketInv'
  OBVIOUS
<1> USE ServeFacts
<1>1. SocketInv /\ conn \in Connections /\ Owner[conn] = Host /\ conn' = conn
  BY ClientAssumption DEF ClientInv, LinkInv, Linked
<1>2. ServedMoves(conn) /\ ConnectionMoves /\ RunningMoves
  BY ServedHere, ConnectionStep, RunningStep DEF GateInv
\* An attach at the head of the queue finds its socket waiting.
<1>3. Starts("attach") =>
        /\ 1 \in Queued("attach") /\ Head(queue) = queue[1]
        /\ Head(queue).conn = conn => socket[conn] \in {"hello", "late", "closed"}
  <2> SUFFICES ASSUME Starts("attach")
               PROVE  /\ 1 \in Queued("attach") /\ Head(queue) = queue[1]
                      /\ Head(queue).conn = conn => socket[conn] \in {"hello", "late", "closed"}
    OBVIOUS
  <2>1. 1 \in Queued("attach") /\ Head(queue) = queue[1]
    BY StartingConnection
  <2> QED BY <2>1 DEF GateInv, AttachWaits
<1>4. ClosedIsRetired'
  BY <1>1, <1>2 DEF ServedMoves, SocketInv, ClosedIsRetired, GateInv, HostIsSettled
<1>5. ASSUME ~retired', socket'[conn] # "new"
      PROVE  /\ \A i \in (Queued("attach") \union Queued("intent"))' : queue'[i].conn # conn =>
                  \E j \in (Queued("attach"))' : j > i /\ queue'[j].conn = conn
             /\ Committing' /\ running'.conn # conn => AttachComes'
  <2>0. ~retired
    BY <1>5
  <2>1. CASE socket[conn] = "new"
    <3>1. Hello(conn)
      BY <1>2, <1>3, <1>5, <2>0, <2>1 DEF ServedMoves
    <3> DEFINE op == [kind |-> "attach", conn |-> conn]
               last == Len(queue) + 1
    <3>2. Enqueue(op) /\ op \in Operations /\ op.kind = "attach" /\ op.conn = conn
      BY <1>1, <3>1 DEF Hello, Operations
    <3> HIDE DEF op
    <3>3. /\ Len(queue) \in Nat /\ DOMAIN queue' = 1..last
          /\ queue'[last] = op
      <4>1. /\ DOMAIN queue' = DOMAIN queue \union {last} /\ queue'[last] = op
            /\ queue' \in Seq(Operations) /\ queue \in Seq(Operations)
        BY <3>2, Pushed DEF HostInv, TypeOK
      <4> QED BY <4>1
    <3>4. last \in (Queued("attach"))' /\ queue'[last].conn = conn
      BY <3>2, <3>3 DEF Queued
    <3>5. ASSUME NEW i \in (Queued("attach") \union Queued("intent"))', queue'[i].conn # conn
          PROVE  last > i
      <4>1. i \in 1..last /\ i # last
        BY <3>3, <3>4, <3>5 DEF Queued
      <4> QED BY <3>3, <4>1
    <3> QED BY <1>1, <3>4, <3>5 DEF AttachComes
  <2>2. CASE socket[conn] # "new"
    <3>1. /\ \A i \in Queued("attach") \union Queued("intent") : queue[i].conn # conn =>
               \E j \in Queued("attach") : j > i /\ queue[j].conn = conn
          /\ Committing /\ running.conn # conn => AttachComes
      BY <1>1, <2>0, <2>2 DEF SocketInv, OldBeforeNew
    <3>2. CASE queue' = queue
      <4>1. \A kind : ~Starts(kind)
        BY <3>2, QueueMovesOnce
      <4>2. Committing' => Committing /\ running'.conn = running.conn
        BY <1>2, <4>1 DEF RunningMoves, Committing, Idle
      <4> QED BY <1>1, <3>1, <3>2, <4>2 DEF Queued, AttachComes
    <3>3. ASSUME NEW kind, Starts(kind)
          PROVE  /\ \A i \in (Queued("attach") \union Queued("intent"))' : queue'[i].conn # conn =>
                      \E j \in (Queued("attach"))' : j > i /\ queue'[j].conn = conn
                 /\ Committing' /\ running'.conn # conn => AttachComes'
      <4>0. /\ queue \in Seq(Operations) /\ queue' = Tail(queue) /\ queue # <<>>
            /\ running = Idle
        BY <3>3 DEF Starts, HostInv, TypeOK
      <4>1. \A i \in (Queued("attach") \union Queued("intent"))' :
              /\ i \in Nat \ {0} /\ i + 1 \in Queued("attach") \union Queued("intent")
              /\ queue'[i] = queue[i + 1]
        BY <4>0, Taken DEF Queued
      <4>2. \A j \in Queued("attach") : j # 1 =>
              j \in Int /\ j - 1 \in (Queued("attach"))' /\ queue'[j - 1] = queue[j]
        BY <4>0, Taken DEF Queued
      <4>3. ASSUME NEW i \in (Queued("attach") \union Queued("intent"))', queue'[i].conn # conn
            PROVE  \E j \in (Queued("attach"))' : j > i /\ queue'[j].conn = conn
        <5>1. PICK j \in Queued("attach") : j > i + 1 /\ queue[j].conn = conn
          BY <3>1, <4>1, <4>3
        <5>2. j # 1 /\ j - 1 > i
          BY <4>1, <4>2, <5>1
        <5> QED BY <4>2, <5>1, <5>2
      <4>4. ASSUME Committing', running'.conn # conn PROVE AttachComes'
        <5>1. Starts("intent") /\ running'.conn = Head(queue).conn
          BY <1>2, <4>0, <4>4 DEF RunningMoves, Committing, Idle
        <5>2. 1 \in Queued("intent") /\ Head(queue) = queue[1]
          BY <5>1, StartingConnection
        <5>3. PICK j \in Queued("attach") : j > 1 /\ queue[j].conn = conn
          BY <3>1, <4>4, <5>1, <5>2
        <5>4. j # 1
          BY <5>3, <4>0 DEF Queued
        <5> QED BY <1>1, <4>2, <5>3, <5>4 DEF AttachComes
      <4> QED BY <4>3, <4>4
    <3>4. ASSUME NEW op \in Operations, Enqueue(op), op.kind = "attach" => op.conn = conn,
                 op.kind = "intent" => op.conn = conn
          PROVE  /\ \A i \in (Queued("attach") \union Queued("intent"))' : queue'[i].conn # conn =>
                      \E j \in (Queued("attach"))' : j > i /\ queue'[j].conn = conn
                 /\ Committing' /\ running'.conn # conn => AttachComes'
      <4>1. \A i \in DOMAIN queue : i \in DOMAIN queue' /\ queue'[i] = queue[i]
        BY <3>4, Pushed DEF HostInv
      <4>2. \A j \in Queued("attach") : j \in (Queued("attach"))' /\ queue'[j] = queue[j]
        BY <4>1 DEF Queued
      <4>3. \A i \in (Queued("attach") \union Queued("intent"))' : queue'[i].conn # conn =>
              i \in Queued("attach") \union Queued("intent") /\ queue'[i] = queue[i]
        BY <3>4, QueueBefore
      <4>4. Committing' => Committing /\ running'.conn = running.conn
        <5>1. \A kind : ~Starts(kind)
          BY <3>4, QueueMovesOnce
        <5> QED BY <1>2, <5>1 DEF RunningMoves, Committing, Idle
      <4> QED BY <1>1, <3>1, <4>2, <4>3, <4>4 DEF AttachComes
    <3>5. CASE ReadsIntent
      <4>1. /\ Enqueue([kind |-> "intent", conn |-> conn, env |-> Head(up[conn]).env])
            /\ up[conn] \in Seq(ClientMessages) /\ up[conn] # <<>> /\ Head(up[conn]) # HelloMessage
        BY <1>1, <3>5, WireTypes DEF ReadsIntent, Reads, SendIntent
      <4>2. Head(up[conn]).env \in Envelopes
        <5>1. 1 \in DOMAIN up[conn] /\ Head(up[conn]) = up[conn][1]
          BY <4>1, Taken
        <5> QED BY <1>1, <4>1, <5>1, WireTypes
      <4>3. [kind |-> "intent", conn |-> conn, env |-> Head(up[conn]).env] \in Operations
        BY <1>1, <4>2 DEF Operations
      <4> QED BY <3>4, <4>1, <4>3
    <3>6. CASE ReadsHello
      BY <2>0, <2>2, <3>6 DEF ReadsHello, Hello, HelloTooLate
    <3> QED BY <3>2, <3>3, <3>4, <3>5, <3>6, Reading DEF ReadsNothing
  <2> QED BY <2>1, <2>2
<1>6. OldBeforeNew'
  BY <1>1, <1>5 DEF OldBeforeNew
<1>7. ASSUME ~retired', socket'[conn] \in {"open", "closing"} PROVE connections'[Host] = conn
  <2>0. ~retired
    BY <1>7
  <2>1. CASE /\ Starts("attach") /\ Head(queue).conn = conn
             /\ connections'[Owner[conn]] = conn
    BY <1>1, <2>1
  <2>2. CASE socket[conn] \in {"open", "closing"}
    <3>1. connections[Host] = conn
      BY <1>1, <2>0, <2>2 DEF SocketInv, AttachedIsServed
    <3>2. CASE connections' = connections
      BY <3>1, <3>2
    <3>3. CASE /\ Starts("attach")
               /\ connections' = [connections EXCEPT ![Owner[Head(queue).conn]] = Head(queue).conn]
      <4>1. Head(queue).conn = conn
        <5>1. SUFFICES ASSUME Head(queue).conn # conn PROVE FALSE
          OBVIOUS
        <5>2. PICK j \in Queued("attach") : queue[j].conn = conn
          BY <1>1, <1>3, <2>0, <2>2, <3>3, <5>1 DEF SocketInv, OldBeforeNew
        <5> QED BY <2>2, <5>2 DEF GateInv, AttachWaits
      <4> QED BY <1>3, <2>2, <3>3, <4>1
    <3>4. CASE Starts("detach") /\ connections[Owner[Head(queue).conn]] = Head(queue).conn
               /\ connections' = [connections EXCEPT ![Owner[Head(queue).conn]] = NoConn]
      <4>1. /\ Head(queue).conn \in Connections /\ 1 \in Queued("detach") /\ Head(queue) = queue[1]
            /\ Owner[Head(queue).conn] = Host
        BY <3>4, StartingConnection, ClientAssumption
      <4>2. socket[Head(queue).conn] = "closed"
        BY <4>1 DEF HostInv, SocketsAreServed, DetachedAreClosed
      <4> QED BY <2>2, <3>1, <3>4, <4>1, <4>2
    <3> QED BY <1>2, <1>7, <3>2, <3>3, <3>4 DEF ConnectionMoves
  <2> QED BY <1>2, <1>7, <2>0, <2>1, <2>2 DEF ServedMoves
<1>8. AttachedIsServed'
  BY <1>1, <1>7 DEF AttachedIsServed
<1> QED BY <1>4, <1>6, <1>8 DEF SocketInv

-----------------------------------------------------------------------------
(* The server follows the copies of an intent *)

\* What the client sent on its socket under the open identifier is the open
\* intent; none of it is unsent.
LEMMA SentHere ==
  ASSUME ClientInv, ReadsIntent, NEW env \in GoingUp
  PROVE  /\ Meant(env) /\ SameEnvelope(env)
         /\ answers[env.id] \notin {"unsent", "refused"}
<1>1. Linked /\ ~retired /\ conn \in Connections
  BY DEF ReadsIntent, Reads, SendIntent, Linked
<1>2. Meant(env)
  BY <1>1 DEF ClientInv, LinkInv, CopyInv, CopiesAreMeant
<1>3. Pending => answers[Awaited] = "waiting"
  BY DEF ClientInv, VerdictInv, VerdictsAreKept
<1> QED BY <1>2, <1>3 DEF Meant, SameEnvelope, Awaited

LEMMA ServesMeant == ClientInv /\ Serves /\ Linked => CopiesAreMeant'
<1> SUFFICES ASSUME ClientInv, Serves, Linked, ~retired' PROVE CopiesAreMeant'
  BY DEF CopiesAreMeant
<1> USE ServeFacts
<1>1. /\ ~retired /\ CopiesAreMeant /\ conn \in Connections
      /\ conn' = conn /\ outstanding' = outstanding /\ answers' = answers
  BY DEF ClientInv, LinkInv, CopyInv, Linked
<1>2. \A env \in GoingUp' : Meant(env)
  BY <1>1, UpMoves, UpTaken DEF CopiesAreMeant
<1>3. \A op \in Waiting' : op.conn = conn => Meant(op.env)
  BY <1>1, WaitingMoves DEF CopiesAreMeant
<1>4. RunsIntent' /\ running'.conn = conn => Meant(running'.env)
  BY <1>1, WaitingMoves, RunningIntentMoves DEF CopiesAreMeant
<1> QED BY <1>1, <1>2, <1>3, <1>4 DEF CopiesAreMeant, Meant, Pending

\* A settled request keeps its entry; a new entry is of the intent at the
\* head of the queue or of the one that awaits.
LEMMA EntryMoves ==
  ASSUME ClientInv, Serves, NEW r \in Requests
  PROVE  /\ journal[Host][r] # NoEntry =>
              journal'[Host][r] = journal[Host][r] /\ applied'[Host][r] = applied[Host][r]
         /\ journal'[Host][r] # journal[Host][r] =>
              \/ \E op \in Waiting : op.env.id = r /\ journal'[Host][r].env = op.env
              \/ RunsIntent /\ running.env.id = r /\ journal'[Host][r].env = running.env
         /\ applied'[Host][r] # applied[Host][r] =>
              CommitIntent /\ RunsIntent /\ Committing /\ ~retired /\ running.env.id = r
<1> USE ServeFacts
<1>1. RequestMoves(r)
  BY RequestStep
<1>2. CASE Refuses(r)
  BY <1>2, WaitingMoves DEF Refuses, Settles
<1>3. CASE TakesEffect(r)
  <2>1. RunsIntent /\ Committing /\ CommitIntent
    BY <1>3 DEF TakesEffect, CommitIntent, RunsIntent, Committing
  <2>2. ~retired
    BY <2>1 DEF HostInv, SettledInv, CandidateFollows
  <2> QED BY <1>3, <2>1, <2>2 DEF TakesEffect, Settles
<1> QED BY <1>1, <1>2, <1>3 DEF RequestMoves

LEMMA ServesEqual == ClientInv /\ Serves => CopiesAreEqual'
<1> SUFFICES ASSUME ClientInv, Serves PROVE CopiesAreEqual'
  OBVIOUS
<1> USE ServeFacts
<1>1. CopiesAreEqual /\ outstanding' = outstanding
  BY DEF ClientInv, VerdictInv
<1>3. \A op \in Waiting' : SameEnvelope(op.env)
  BY <1>1, WaitingMoves, SentHere DEF CopiesAreEqual
<1>4. RunsIntent' => SameEnvelope(running'.env)
  BY <1>1, WaitingMoves, RunningIntentMoves DEF CopiesAreEqual
<1>5. ASSUME Pending, journal'[Host][Awaited] # NoEntry
      PROVE  journal'[Host][Awaited].env = outstanding.env
  <2>1. Awaited \in Requests
    BY <1>5 DEF ClientTypeOK, Pending, Awaited, Envelopes
  <2> QED BY <1>1, <1>5, <2>1, EntryMoves DEF CopiesAreEqual, SameEnvelope
<1> QED BY <1>1, <1>3, <1>4, <1>5 DEF CopiesAreEqual, SameEnvelope, Pending, Awaited

LEMMA ServesUnsent == ClientInv /\ Serves => NotYetSent'
<1> SUFFICES ASSUME ClientInv, Serves, NEW r \in Requests, answers'[r] = "unsent"
             PROVE  /\ \A op \in Waiting' : op.env.id # r
                    /\ RunsIntent' => running'.env.id # r
                    /\ journal'[Host][r] = NoEntry
  BY DEF NotYetSent
<1> USE ServeFacts
<1>1. /\ answers[r] = "unsent"
      /\ \A op \in Waiting : op.env.id # r
      /\ RunsIntent => running.env.id # r
      /\ journal[Host][r] = NoEntry
  BY DEF ClientInv, VerdictInv, NotYetSent
<1>2. \A op \in Waiting' : op.env.id # r
  BY <1>1, WaitingMoves, SentHere
<1>3. RunsIntent' => running'.env.id # r
  BY <1>1, WaitingMoves, RunningIntentMoves
<1>4. journal'[Host][r] = NoEntry
  BY <1>1, EntryMoves
<1> QED BY <1>2, <1>3, <1>4

\* An answer of this step is about an intent the queue or the host had.
LEMMA AnswersWhatCame ==
  ASSUME ClientInv, Serves, Linked, NEW m, AnswerSaid(m, conn), NEW r \in Requests, m.id = r
  PROVE  /\ ~retired /\ connections[Host] = conn
         /\ \/ /\ AboutHead(m, conn) /\ Starts("intent") /\ Head(queue) \in Waiting
               /\ Head(queue).conn = conn /\ Head(queue).env.id = r
            \/ AboutRunning(m, conn) /\ RunsIntent /\ running.conn = conn /\ running.env.id = r
BY ServeFacts, WaitingMoves, ClientAssumption DEF AnswerSaid, AboutHead, AboutRunning, Farewell

LEMMA ServesUnsentWire == ClientInv /\ Serves /\ Linked => NotYetOnTheWire'
<1> SUFFICES ASSUME ClientInv, Serves, Linked, NEW r \in Requests, answers'[r] = "unsent"
             PROVE  /\ \A env \in GoingUp' : env.id # r
                    /\ \A m \in ComingDown' : ~IsAnswer(m, r)
  BY DEF NotYetOnTheWire
<1> USE ServeFacts
<1>1. /\ answers[r] = "unsent" /\ conn \in Connections /\ conn' = conn
      /\ \A op \in Waiting : op.env.id # r
      /\ RunsIntent => running.env.id # r
      /\ \A env \in GoingUp : env.id # r
      /\ \A m \in ComingDown : ~IsAnswer(m, r)
  BY DEF ClientInv, VerdictInv, NotYetSent, LinkInv, CopyInv, NotYetOnTheWire, Linked
<1>2. \A env \in GoingUp' : env.id # r
  BY <1>1, UpMoves, UpTaken
<1>3. ASSUME NEW m \in ComingDown', IsAnswer(m, r) PROVE FALSE
  <2>1. AnswerSaid(m, conn) /\ m.id = r
    BY <1>1, <1>3, Heard DEF IsAnswer
  <2> QED BY <1>1, <2>1, AnswersWhatCame
<1> QED BY <1>2, <1>3

LEMMA ServesOneCopy == ClientInv /\ Serves /\ Linked => OneCopy'
<1> SUFFICES ASSUME ClientInv, Serves, Linked, Pending
             PROVE  /\ \A k, l \in DOMAIN up'[conn] :
                         /\ up'[conn][k] # HelloMessage /\ up'[conn][k].env.id = Awaited
                         /\ up'[conn][l] # HelloMessage /\ up'[conn][l].env.id = Awaited
                         => k = l
                    /\ CopyGoesUp' => ~CopyWaits' /\ ~CopyRuns' /\ ~AnswerComes'
                    /\ CopyWaits' \/ CopyRuns' => ~AnswerComes'
  BY ServeFacts DEF OneCopy, Pending, Awaited
<1> USE ServeFacts
<1>1. /\ \A k, l \in DOMAIN up[conn] :
           /\ up[conn][k] # HelloMessage /\ up[conn][k].env.id = Awaited
           /\ up[conn][l] # HelloMessage /\ up[conn][l].env.id = Awaited
           => k = l
      /\ CopyGoesUp => ~CopyWaits /\ ~CopyRuns /\ ~AnswerComes
      /\ CopyWaits \/ CopyRuns => ~AnswerComes
  BY DEF ClientInv, LinkInv, CopyInv, OneCopy
<1>2. conn \in Connections /\ conn' = conn /\ Awaited' = Awaited /\ Awaited \in Requests
  BY DEF Linked, Awaited, Pending, ClientTypeOK, Envelopes
<1>3. ASSUME NEW k \in DOMAIN up'[conn], up'[conn][k] # HelloMessage, up'[conn][k].env.id = Awaited,
             NEW l \in DOMAIN up'[conn], up'[conn][l] # HelloMessage, up'[conn][l].env.id = Awaited
      PROVE  k = l
  <2>1. CASE up'[conn] = up[conn]
    BY <1>1, <1>3, <2>1
  <2>2. CASE up'[conn] # up[conn]
    <3>1. /\ k \in Nat /\ k + 1 \in DOMAIN up[conn] /\ up'[conn][k] = up[conn][k + 1]
          /\ l \in Nat /\ l + 1 \in DOMAIN up[conn] /\ up'[conn][l] = up[conn][l + 1]
      BY <1>2, <1>3, <2>2, UpMoves, UpTaken
    <3>2. k + 1 = l + 1
      BY <1>1, <1>3, <3>1
    <3> QED BY <3>1, <3>2
  <2> QED BY <2>1, <2>2
<1>4. CopyGoesUp' => CopyGoesUp
  BY <1>2, UpMoves, UpTaken DEF CopyGoesUp
\* A copy that waits did so before or is the one just read.
<1>5. ASSUME CopyWaits', ~CopyWaits PROVE CopyGoesUp /\ ~CopyGoesUp' /\ ReadsIntent
  <2>1. PICK op \in Waiting' : op.conn = conn /\ op.env.id = Awaited
    BY <1>2, <1>5 DEF CopyWaits
  <2>2. ReadsIntent /\ op.env = Head(up[conn]).env /\ op.env \in GoingUp
    BY <1>5, <2>1, WaitingMoves DEF CopyWaits
  <2>3. CopyGoesUp
    BY <2>1, <2>2 DEF CopyGoesUp
  <2>4. ASSUME CopyGoesUp' PROVE FALSE
    <3>1. PICK k \in DOMAIN up'[conn] : up'[conn][k] # HelloMessage /\ up'[conn][k].env.id = Awaited
      BY <1>2, <2>4 DEF CopyGoesUp, GoingUp
    <3>2. /\ up[conn] \in Seq(ClientMessages) /\ up[conn] # <<>> /\ Head(up[conn]) # HelloMessage
          /\ up'[conn] = Tail(up[conn])
      BY <1>2, <2>2, WireTypes DEF ReadsIntent, Reads, ClientTypeOK
    <3>3. /\ 1 \in DOMAIN up[conn] /\ Head(up[conn]) = up[conn][1]
          /\ k \in Nat \ {0} /\ k + 1 \in DOMAIN up[conn] /\ up'[conn][k] = up[conn][k + 1]
      BY <3>1, <3>2, Taken
    <3>4. k + 1 = 1
      BY <1>1, <2>1, <2>2, <3>1, <3>2, <3>3
    <3> QED BY <3>3, <3>4
  <2> QED BY <2>2, <2>3, <2>4
\* A copy that runs did so before or waited first.
<1>6. ASSUME CopyRuns', ~CopyRuns PROVE CopyWaits /\ Starts("intent") /\ sent' = Quiet
  BY <1>2, <1>6, RunningIntentMoves, WaitingMoves DEF CopyRuns, CopyWaits
\* An answer that comes did so before or ends a copy.
<1>7. ASSUME AnswerComes', ~AnswerComes
      PROVE  \/ CopyWaits /\ Starts("intent") /\ running' = running /\ ~CopyWaits'
             \/ CopyRuns /\ ~RunsIntent' /\ queue' = queue /\ ~CopyWaits'
  <2>1. PICK m \in ComingDown' : IsAnswer(m, Awaited)
    BY <1>2, <1>7 DEF AnswerComes
  <2>2. AnswerSaid(m, conn) /\ m.id = Awaited
    BY <1>7, <2>1, Heard DEF AnswerComes, IsAnswer
  <2>3. CASE /\ AboutHead(m, conn) /\ Starts("intent") /\ Head(queue) \in Waiting
             /\ Head(queue).conn = conn /\ Head(queue).env.id = Awaited
    <3>1. CopyWaits
      BY <2>3 DEF CopyWaits
    <3>2. ASSUME NEW i \in (Queued("intent"))', queue'[i].conn = conn PROVE FALSE
      <4>1. i + 1 \in Queued("intent") /\ queue'[i] = queue[i + 1]
        BY <2>3, QueueBefore
      <4>2. i \in Nat \ {0}
        BY <2>3, Popped DEF HostInv, Queued
      <4>3. 1 \in Queued("intent") /\ Head(queue) = queue[1]
        BY <2>3, StartingConnection
      <4>4. i + 1 = 1
        BY <2>3, <3>2, <4>1, <4>3 DEF GateInv, OneAtATime
      <4> QED BY <4>2, <4>4
    <3>3. ~CopyWaits'
      BY <1>2, <3>2 DEF CopyWaits, Waiting
    <3> QED BY <2>3, <3>1, <3>3 DEF AboutHead
  <2>4. CASE AboutRunning(m, conn) /\ RunsIntent /\ running.conn = conn /\ running.env.id = Awaited
    <3>1. CopyRuns /\ ~RunsIntent' /\ queue' = queue
      BY <2>4 DEF CopyRuns, AboutRunning
    <3>2. \A i \in Queued("intent") : queue[i].conn # conn
      BY <2>4 DEF GateInv, OneAtATime, RunsIntent, Committing
    <3>3. ~CopyWaits'
      BY <1>2, <3>1, <3>2 DEF CopyWaits, Waiting, Queued
    <3> QED BY <3>1, <3>3
  <2> QED BY <1>2, <2>2, <2>3, <2>4, AnswersWhatCame
<1>8. CopyGoesUp' => ~CopyWaits' /\ ~CopyRuns' /\ ~AnswerComes'
  BY <1>1, <1>4, <1>5, <1>6, <1>7
<1>9. CopyWaits' => ~AnswerComes'
  BY <1>1, <1>5, <1>7
<1>10. ASSUME CopyRuns' PROVE ~AnswerComes'
  <2>1. CASE CopyRuns
    BY <1>1, <1>7, <1>10, <2>1 DEF CopyRuns, Starts, RunsIntent, Idle
  <2>2. CASE ~CopyRuns
    <3>1. CopyWaits /\ ~AnswerComes /\ running = Idle /\ RunsIntent'
      BY <1>1, <1>6, <1>10, <2>2 DEF CopyRuns, Starts
    <3> QED BY <1>7, <2>2, <3>1 DEF RunsIntent, Idle
  <2> QED BY <2>1, <2>2
<1> QED BY <1>3, <1>8, <1>9, <1>10

-----------------------------------------------------------------------------
(* The server answers truly *)

LEMMA AwaitedRequest ==
  ASSUME ClientTypeOK, Pending
  PROVE  Awaited \in Requests /\ outstanding.env \in Envelopes /\ Awaited # "none"
BY ClientAssumption DEF ClientTypeOK, Pending, Awaited, Envelopes

\* An intent takes effect on the client's socket once that is attached.
LEMMA EffectIsHere ==
  ASSUME ClientInv, Linked, ~retired, RunsIntent, socket[conn] \notin Unattached
  PROVE  running.conn = conn
<1> SUFFICES ASSUME running.conn # conn PROVE FALSE
  OBVIOUS
<1>1. SocketInv /\ GateInv
  BY DEF ClientInv, LinkInv
<1>2. PICK j \in Queued("attach") : queue[j].conn = conn
  BY <1>1 DEF SocketInv, OldBeforeNew, AttachComes, RunsIntent, Committing, Unattached
<1> QED BY <1>1, <1>2 DEF GateInv, AttachWaits, SocketInv, ClosedIsRetired, Unattached

LEMMA ServesAttached == ClientInv /\ Serves /\ Linked => AnswersToAttached'
<1> SUFFICES ASSUME ClientInv, Serves, Linked,
                    NEW m \in ComingDown', m.type \in {"ack", "error"}
             PROVE  socket'[conn] \notin Unattached
  BY ServeFacts DEF AnswersToAttached
<1> USE ServeFacts
<1>1. conn \in Connections /\ conn # NoConn /\ Host \in Players
  BY HostAssumption DEF Linked, Players
<1>2. CASE m \in ComingDown
  BY <1>1, <1>2, AttachedStays DEF ClientInv, LinkInv, AnswerInv, AnswersToAttached
<1>3. CASE AnswerSaid(m, conn)
  <2>1. socket[conn] \notin Unattached
    BY <1>1, <1>3 DEF AnswerSaid, GateInv, ServedAreAttached
  <2> QED BY <1>1, <2>1, AttachedStays
<1>4. CASE socket'[conn] \notin Unattached
  BY <1>4
<1> QED BY <1>2, <1>3, <1>4, Heard

LEMMA ServesRefusals == ClientInv /\ Serves /\ Linked => RefusalsAreTrue'
<1> SUFFICES ASSUME ClientInv, Serves, Linked, Pending,
                    NEW m \in ComingDown', IsAnswer(m, Awaited), Negative(m)
             PROVE  applied'[Host][Awaited] = 0
  BY ServeFacts DEF RefusalsAreTrue, Pending, Awaited
<1> USE ServeFacts
<1>1. Awaited \in Requests
  BY AwaitedRequest
<1>2. CASE m \in ComingDown
  <2>1. applied[Host][Awaited] = 0 /\ socket[conn] \notin Unattached
    BY <1>2 DEF ClientInv, LinkInv, AnswerInv, RefusalsAreTrue, AnswersToAttached, IsAnswer
  <2>2. ASSUME applied'[Host][Awaited] # applied[Host][Awaited] PROVE FALSE
    <3>1. RunsIntent /\ ~retired /\ running.env.id = Awaited
      BY <1>1, <2>2, EntryMoves
    <3>2. CopyRuns
      BY <2>1, <3>1, EffectIsHere DEF CopyRuns
    <3>3. AnswerComes
      BY <1>2 DEF AnswerComes
    <3> QED BY <3>2, <3>3 DEF ClientInv, LinkInv, CopyInv, OneCopy
  <2> QED BY <2>1, <2>2
<1>3. CASE AnswerSaid(m, conn)
  <2>1. m.id = Awaited
    BY DEF IsAnswer
  <2>2. CASE AboutHead(m, conn) /\ Head(queue) \in Waiting /\ Head(queue).env.id = Awaited
    <3>1. journal[Host][Awaited] # NoEntry => journal[Host][Awaited].env = Head(queue).env
      BY <2>2 DEF ClientInv, VerdictInv, CopiesAreEqual, SameEnvelope
    <3> QED BY <2>1, <2>2, <3>1 DEF AboutHead
  <2>3. CASE AboutRunning(m, conn)
    BY <2>1, <2>3 DEF AboutRunning
  <2> QED BY <1>1, <1>3, <2>1, <2>2, <2>3, AnswersWhatCame
<1> QED BY <1>2, <1>3, Heard DEF IsAnswer

LEMMA ServesAcks == ClientInv /\ Serves /\ Linked => AcksAreTrue'
<1> SUFFICES ASSUME ClientInv, Serves, Linked, NEW m \in ComingDown', Positive(m)
             PROVE  journal'[Host][m.id].accepted /\ journal'[Host][m.id].revision = m.revision
  BY DEF AcksAreTrue
<1> USE ServeFacts
<1>1. m.type = "ack"
  BY DEF Positive
<1>2. CASE m \in ComingDown
  <2>1. journal[Host][m.id].accepted /\ journal[Host][m.id].revision = m.revision
    BY <1>2 DEF ClientInv, LinkInv, AnswerInv, AcksAreTrue
  <2>2. m \in ServerMessages
    BY <1>2, WireTypes DEF ComingDown, Linked
  <2>3. m.id \in Requests
    BY <1>1, <2>2 DEF ServerMessages
  <2>4. journal[Host][m.id] # NoEntry
    BY <2>1 DEF NoEntry
  <2> QED BY <2>1, <2>3, <2>4, EntryMoves
<1>3. CASE AnswerSaid(m, conn)
  BY <1>1, <1>3 DEF AnswerSaid, AboutHead, AboutRunning, Farewell
<1> QED BY <1>1, <1>2, <1>3, Heard DEF LastWord

\* The error that ends a session is said while its server plays.
LEMMA FarewellSays ==
  ASSUME ClientInv, Serves, Linked, NEW m, AnswerSaid(m, conn), m.id = "none"
  PROVE  Farewell(m, conn)
<1> USE ServeFacts
<1>1. ~AboutHead(m, conn)
  BY StartingConnection, ClientAssumption DEF AboutHead, Envelopes
<1>2. ~AboutRunning(m, conn)
  BY AwaitFields, ClientAssumption
     DEF AboutRunning, RunsIntent, Committing, HostInv, Envelopes
<1> QED BY <1>1, <1>2 DEF AnswerSaid

LEMMA ServesFarewell == ClientInv /\ Serves /\ Linked => FarewellIsLast'
<1> SUFFICES ASSUME ClientInv, Serves, Linked,
                    NEW k \in DOMAIN down'[conn], IsAnswer(down'[conn][k], "none")
             PROVE  /\ retired'
                    /\ \A l \in DOMAIN down'[conn] : l > k => Parting(down'[conn][l])
  BY ServeFacts DEF FarewellIsLast
<1> USE ServeFacts
<1>1. conn \in Connections /\ FarewellIsLast
  BY DEF Linked, ClientInv, LinkInv, AnswerInv
<1>2. CASE k \in DOMAIN down[conn]
  <2>1. retired /\ \A l \in DOMAIN down[conn] : l > k => Parting(down[conn][l])
    BY <1>1, <1>2, DownGrows DEF FarewellIsLast
  <2>2. \A j \in DOMAIN sent'[conn] : Parting(sent'[conn][j])
    BY <1>1, <2>1, AfterTheEnd DEF Parting
  <2> QED BY <2>1, <2>2, DownGrows
<1>3. CASE k \notin DOMAIN down[conn]
  <2>1. PICK j \in DOMAIN sent'[conn] :
               j \in Nat /\ k = Len(down[conn]) + j /\ down'[conn][k] = sent'[conn][j]
    BY <1>3, DownGrows
  <2>2. Message(conn, j)
    BY <2>1, DownMoves
  <2>3. retired'
    BY <2>1, <2>2, FarewellSays DEF Message, IsAnswer, Farewell
  <2>4. ASSUME NEW l \in DOMAIN down'[conn], l > k PROVE Parting(down'[conn][l])
    <3>1. l \notin DOMAIN down[conn]
      BY <2>1, <2>4, DownGrows
    <3>2. PICK i \in DOMAIN sent'[conn] :
                 i \in Nat /\ l = Len(down[conn]) + i /\ down'[conn][l] = sent'[conn][i]
      BY <2>4, <3>1, DownGrows
    <3>3. i > j
      BY <2>1, <2>4, <3>2, DownGrows
    <3> QED BY <2>1, <2>2, <3>2, <3>3 DEF Message, Parting
  <2> QED BY <2>3, <2>4
<1> QED BY <1>2, <1>3

\* A result that comes, comes also after a step that only says more.
LEMMA ResultStays ==
  ASSUME ClientInv, Serves, Linked, Pending, ResultComes,
         journal'[Host][Awaited] = journal[Host][Awaited]
  PROVE  ResultComes'
<1> USE ServeFacts
<1>1. PICK l \in DOMAIN down[conn] :
        /\ down[conn][l].type = "snapshot"
        /\ down[conn][l].revision >= journal[Host][Awaited].revision
        /\ \/ outstanding.committed >= 0
           \/ \E k \in DOMAIN down[conn] :
                k < l /\ IsAnswer(down[conn][k], Awaited) /\ Positive(down[conn][k])
  BY DEF ResultComes
<1>2. l \in DOMAIN down'[conn] /\ down'[conn][l] = down[conn][l]
  BY DownGrows
<1>3. ASSUME NEW k \in DOMAIN down[conn]
      PROVE  k \in DOMAIN down'[conn] /\ down'[conn][k] = down[conn][k]
  BY DownGrows
<1>4. conn' = conn /\ outstanding' = outstanding /\ Awaited' = Awaited
  BY DEF Awaited
<1> QED BY <1>1, <1>2, <1>3, <1>4 DEF ResultComes, IsAnswer, Positive

\* An intent that takes effect on the client's socket is followed by its result.
LEMMA ResultIsSaid ==
  ASSUME ClientInv, Serves, Linked, Pending, CommitIntent,
         running.conn = conn, running.env.id = Awaited
  PROVE  ResultComes'
<1> USE ServeFacts
<1>1. Accepts(Awaited, conn)
  BY CommitSpeaks DEF GateInv
<1>2. PICK m : Picture(m) /\ sent'[conn] = <<Ack(Awaited, TRUE, core'.revision), m>>
  BY <1>1 DEF Accepts
<1> DEFINE a == Ack(Awaited, TRUE, core'.revision)
<1>3. IsAnswer(a, Awaited) /\ Positive(a)
  BY DEF Ack, IsAnswer, LastWord, Positive
<1> HIDE DEF a
<1>4. sent'[conn] = <<a, m>>
  BY <1>2 DEF a
<1>5. /\ 1 \in DOMAIN sent'[conn] /\ 2 \in DOMAIN sent'[conn]
      /\ sent'[conn][1] = a /\ sent'[conn][2] = m
  BY <1>4
<1> DEFINE n == Len(down[conn])
<1>6. /\ n \in Nat /\ n + 1 \in DOMAIN down'[conn] /\ n + 2 \in DOMAIN down'[conn]
      /\ down'[conn][n + 1] = a /\ down'[conn][n + 2] = m
  BY <1>5, DownGrows
<1> HIDE DEF n
<1>7. journal'[Host][Awaited].revision = core'.revision
  BY <1>1 DEF Accepts, TakesEffect, Settles
<1>8. m.type = "snapshot" /\ m.revision = core'.revision /\ m.revision \in Int
  BY <1>2 DEF Picture, TypeOK, States
<1>9. conn' = conn /\ Awaited' = Awaited
  BY DEF Awaited
<1>10. n + 1 < n + 2
  BY <1>6
<1>11. m.revision >= journal'[Host][Awaited].revision
  BY <1>7, <1>8
<1> QED BY <1>3, <1>6, <1>8, <1>9, <1>10, <1>11 DEF ResultComes, IsAnswer, Positive

LEMMA ServesResult == ClientInv /\ Serves /\ Linked => ResultFollows'
<1> SUFFICES ASSUME ClientInv, Serves, Linked, Pending, applied'[Host][Awaited] # 0, ~ResultComes'
             PROVE  /\ ~(Committing' /\ running'.conn = conn)
                    /\ \A m \in ComingDown' : ~IsAnswer(m, "none")
  BY ServeFacts DEF ResultFollows, Pending, Awaited
<1> USE ServeFacts
<1>1. Awaited \in Requests /\ conn \in Connections /\ Owner[conn] = Host
  BY AwaitedRequest, ClientAssumption DEF Linked
<1>2. RunningMoves
  BY RunningStep
<1>3. FarewellIsLast /\ ResultFollows
  BY DEF ClientInv, LinkInv, AnswerInv
<1>4. CASE applied'[Host][Awaited] # applied[Host][Awaited]
  <2>1. CommitIntent /\ RunsIntent /\ Committing /\ ~retired /\ running.env.id = Awaited
    BY <1>1, <1>4, EntryMoves
  <2>2. running.conn # conn
    BY <2>1, ResultIsSaid
  <2>3. ~(Committing' /\ running'.conn = conn)
    BY <1>2, <2>1, <2>2 DEF RunningMoves, Starts, Committing, Idle, RunsIntent
  <2>4. ASSUME NEW m \in ComingDown', IsAnswer(m, "none") PROVE FALSE
    <3>1. m \notin ComingDown
      BY <1>3, <2>1, <2>4 DEF ComingDown, FarewellIsLast
    <3>2. Farewell(m, conn)
      BY <2>4, <3>1, Heard, FarewellSays DEF IsAnswer
    <3> QED BY <2>1, <3>2 DEF Farewell, RunsIntent
  <2> QED BY <2>3, <2>4
<1>5. CASE applied'[Host][Awaited] = applied[Host][Awaited]
  <2>1. journal[Host][Awaited] # NoEntry
    BY <1>1, <1>5 DEF GateInv, HostIsSettled, NoEntry
  <2>2. ~ResultComes
    BY <1>1, <2>1, EntryMoves, ResultStays
  <2>3. /\ ~(Committing /\ running.conn = conn)
        /\ \A m \in ComingDown : ~IsAnswer(m, "none")
    BY <1>3, <1>5, <2>2 DEF ResultFollows
  <2>4. ASSUME Committing', running'.conn = conn PROVE FALSE
    <3>1. /\ Starts("intent") /\ ~retired /\ Head(queue).conn = conn
          /\ journal[Host][Head(queue).env.id] = NoEntry
      BY <1>1, <1>2, <2>3, <2>4 DEF RunningMoves, Committing, Idle
    <3>2. Meant(Head(queue).env) /\ Head(queue).env.id \in Requests
      BY <3>1, WaitingMoves, StartingConnection
         DEF ClientInv, LinkInv, CopyInv, CopiesAreMeant, Envelopes
    <3>3. answers[Head(queue).env.id] = "accepted"
      BY <2>1, <3>1, <3>2 DEF Meant, Awaited
    <3> QED BY <3>1, <3>2, <3>3 DEF ClientInv, VerdictInv, VerdictsAreKept, NoEntry
  <2>5. ASSUME NEW m \in ComingDown', IsAnswer(m, "none") PROVE FALSE
    <3>1. Farewell(m, conn)
      BY <2>3, <2>5, Heard, FarewellSays DEF IsAnswer
    <3> QED BY <2>3, <3>1 DEF Farewell, Committing
  <2> QED BY <2>4, <2>5
<1> QED BY <1>4, <1>5

LEMMA ServesCommitted == ClientInv /\ Serves => CommittedIsJournalled'
<1> SUFFICES ASSUME ClientInv, Serves, Pending, outstanding.committed >= 0
             PROVE  /\ journal'[Host][Awaited].accepted
                    /\ journal'[Host][Awaited].revision = outstanding.committed
                    /\ seen.revision < outstanding.committed
  BY ServeFacts DEF CommittedIsJournalled, Pending, Awaited
<1> USE ServeFacts
<1>1. /\ journal[Host][Awaited].accepted
      /\ journal[Host][Awaited].revision = outstanding.committed
      /\ seen.revision < outstanding.committed
  BY DEF ClientInv, VerdictInv, CommittedIsJournalled
<1> QED BY <1>1, AwaitedRequest, EntryMoves DEF NoEntry

LEMMA ServesVerdicts == ClientInv /\ Serves => VerdictsAreKept'
<1> SUFFICES ASSUME ClientInv, Serves PROVE VerdictsAreKept'
  OBVIOUS
<1> USE ServeFacts
<1>1. VerdictsAreKept
  BY DEF ClientInv, VerdictInv
<1>2. Pending' => answers'[Awaited'] = "waiting"
  BY <1>1 DEF VerdictsAreKept, Pending, Awaited
<1>3. ASSUME NEW r \in Requests, answers'[r] = "accepted"
      PROVE  journal'[Host][r].accepted /\ seen'.revision >= journal'[Host][r].revision
  BY <1>1, <1>3, EntryMoves DEF VerdictsAreKept, NoEntry
<1>4. ASSUME NEW r \in Requests, answers'[r] = "refused", r # cutOff'
      PROVE  Dead(r)'
  <2>1. Dead(r) /\ answers[r] = "refused"
    BY <1>1, <1>4 DEF VerdictsAreKept
  <2>2. applied'[Host][r] = 0
    BY <2>1, EntryMoves DEF Dead
  <2>3. CASE retired
    BY <2>2, <2>3 DEF Dead
  <2>4. CASE journal[Host][r] # NoEntry
    BY <2>2, <2>4, EntryMoves DEF Dead
  <2>5. CASE (\A op \in Waiting : op.env.id # r) /\ (RunsIntent => running.env.id # r)
    <3>1. \A op \in Waiting' : op.env.id # r
      BY <2>1, <2>5, WaitingMoves, SentHere
    <3>2. RunsIntent' => running'.env.id # r
      BY <2>5, WaitingMoves, RunningIntentMoves
    <3> QED BY <2>2, <3>1, <3>2 DEF Dead
  <2> QED BY <2>1, <2>3, <2>4, <2>5 DEF Dead
<1>5. cutOff' # "none" => terminal'
  BY <1>1 DEF VerdictsAreKept
<1> QED BY <1>2, <1>3, <1>4, <1>5 DEF VerdictsAreKept

-----------------------------------------------------------------------------
(* Versions on the wire *)

\* The numbers of a version.
LEMMA VersionsAreNumbers ==
  ASSUME HostInv, ClientTypeOK
  PROVE  /\ core.revision \in Int /\ control \in Int
         /\ seen.revision \in Int /\ seen.control \in Int
         /\ \A m \in ServerMessages : m.type = "snapshot" => m.revision \in Int /\ m.control \in Int
<1>1. core.revision \in Int /\ control \in Int
  BY HostAssumption DEF HostInv, TypeOK, States
<1>2. seen.revision \in Int /\ seen.control \in Int
  BY HostAssumption DEF ClientTypeOK, NoVersion
<1>3. \A m \in ServerMessages : m.type = "snapshot" => m.revision \in Int /\ m.control \in Int
  BY HostAssumption DEF ServerMessages
<1> QED BY <1>1, <1>2, <1>3

LEMMA CurrentGrows ==
  ASSUME ClientInv, Serves
  PROVE  /\ core.revision <= core'.revision /\ control <= control'
         /\ core.revision \in Int /\ control \in Int /\ core'.revision \in Int /\ control' \in Int
<1> USE ServeFacts
<1>1. [Advances]_vars
  BY VersionsAdvance
<1>2. core.revision \in Int /\ control \in Int /\ core'.revision \in Int /\ control' \in Int
  BY HostAssumption DEF HostInv, TypeOK, States
<1> QED BY <1>1, <1>2 DEF Advances, vars, hostVars

LEMMA ServesScreen == ClientInv /\ Serves => ScreenIsOlder'
<1> SUFFICES ASSUME ClientInv, Serves PROVE ScreenIsOlder'
  OBVIOUS
<1> USE ServeFacts
<1>1. seen.revision <= core.revision /\ seen.control <= control /\ seen' = seen
  BY DEF ClientInv, ScreenIsOlder, Older, Current
<1>2. seen.revision <= core'.revision /\ seen.control <= control'
  BY <1>1, CurrentGrows, VersionsAreNumbers
<1> QED BY <1>1, <1>2 DEF ScreenIsOlder, Older, Current

LEMMA ServesInOrder == ClientInv /\ Serves /\ Linked => SnapshotsInOrder'
<1> SUFFICES ASSUME ClientInv, Serves, Linked PROVE SnapshotsInOrder'
  OBVIOUS
<1> USE ServeFacts
<1> DEFINE old == down[conn]
           said == sent'[conn]
           all == down'[conn]
<1>1. SnapshotsInOrder /\ conn' = conn /\ seen' = seen
  BY DEF ClientInv, LinkInv
<1>2. /\ \A k \in DOMAIN old : old[k] \in ServerMessages
      /\ \A j \in DOMAIN said : said[j] \in ServerMessages /\ Message(conn, j)
  BY DownMoves
<1>3. /\ \A k \in DOMAIN old : k \in DOMAIN all /\ all[k] = old[k]
      /\ \A k \in DOMAIN all : k \notin DOMAIN old =>
           \E j \in DOMAIN said : j \in Nat \ {0} /\ k = Len(old) + j /\ all[k] = said[j]
      /\ Len(old) \in Nat /\ \A k \in DOMAIN old : k \in 1..Len(old)
  BY DownGrows
<1>4. ASSUME NEW k \in DOMAIN old, old[k].type = "snapshot"
      PROVE  /\ old[k].revision <= core'.revision /\ old[k].control <= control'
             /\ Older(seen, old[k])
             /\ \A l \in DOMAIN old : l > k /\ old[l].type = "snapshot" => Older(old[k], old[l])
  <2>1. /\ Older(old[k], Current) /\ Older(seen, old[k])
        /\ \A l \in DOMAIN old : l > k /\ old[l].type = "snapshot" => Older(old[k], old[l])
    BY <1>1, <1>4 DEF SnapshotsInOrder
  <2>2. old[k].revision \in Int /\ old[k].control \in Int
    BY <1>2, <1>4, VersionsAreNumbers
  <2> QED BY <2>1, <2>2, CurrentGrows DEF Older, Current
<1>5. ASSUME NEW j \in DOMAIN said, said[j].type = "snapshot"
      PROVE  /\ said[j].revision = core'.revision /\ said[j].control = control'
             /\ \A i \in DOMAIN said : said[i].type = "snapshot" => j = i
  BY <1>2, <1>5 DEF Message, PictureSaid
<1>6. seen.revision <= core'.revision /\ seen.control <= control'
  BY ServesScreen DEF ScreenIsOlder, Older, Current
<1> HIDE DEF old, said, all
<1>7. ASSUME NEW k \in DOMAIN all, all[k].type = "snapshot"
      PROVE  /\ all[k].revision <= core'.revision /\ all[k].control <= control'
             /\ Older(seen, all[k])
             /\ \A l \in DOMAIN all : l > k /\ all[l].type = "snapshot" => Older(all[k], all[l])
  <2>1. CASE k \in DOMAIN old
    <3>1. all[k] = old[k]
      BY <1>3, <2>1
    <3>2. ASSUME NEW l \in DOMAIN all, l > k, all[l].type = "snapshot"
          PROVE  Older(all[k], all[l])
      <4>1. CASE l \in DOMAIN old
        BY <1>3, <1>4, <1>7, <2>1, <3>1, <3>2, <4>1
      <4>2. CASE l \notin DOMAIN old
        <5>1. all[l].revision = core'.revision /\ all[l].control = control'
          BY <1>3, <1>5, <3>2, <4>2
        <5> QED BY <1>4, <1>7, <2>1, <3>1, <5>1 DEF Older
      <4> QED BY <4>1, <4>2
    <3> QED BY <1>4, <1>7, <2>1, <3>1, <3>2
  <2>2. CASE k \notin DOMAIN old
    <3>1. PICK j \in DOMAIN said : j \in Nat \ {0} /\ k = Len(old) + j /\ all[k] = said[j]
      BY <1>3, <2>2
    <3>2. all[k].revision = core'.revision /\ all[k].control = control'
      BY <1>5, <1>7, <3>1
    <3>3. ASSUME NEW l \in DOMAIN all, l > k, all[l].type = "snapshot"
          PROVE  FALSE
      <4>1. l \notin DOMAIN old
        BY <1>3, <3>1, <3>3
      <4>2. PICK i \in DOMAIN said : i \in Nat \ {0} /\ l = Len(old) + i /\ all[l] = said[i]
        BY <1>3, <3>3, <4>1
      <4>3. i = j
        BY <1>5, <1>7, <3>1, <3>3, <4>2
      <4> QED BY <1>3, <3>1, <3>3, <4>2, <4>3
    <3> QED BY <1>6, <3>2, <3>3, CurrentGrows DEF Older
  <2> QED BY <2>1, <2>2
<1> QED BY <1>1, <1>7 DEF SnapshotsInOrder, Older, Current, all

LEMMA ServesTypes == ClientInv /\ Serves => ClientTypeOK'
<1> SUFFICES ASSUME ClientInv, Serves PROVE ClientTypeOK'
  OBVIOUS
<1> USE ServeFacts
<1>1. up' \in [Connections -> Seq(ClientMessages)]
  <2>1. CASE up' = up
    BY <2>1 DEF ClientTypeOK
  <2>2. CASE Reads
    <3>1. Tail(up[conn]) \in Seq(ClientMessages)
      BY <2>2, WireTypes, Taken DEF Reads, Linked
    <3> QED BY <2>2, <3>1 DEF Reads, Linked, ClientTypeOK
  <2> QED BY <2>1, <2>2, Reading DEF ReadsNothing, ReadsHello, ReadsIntent
<1>2. down' \in [Connections -> Seq(ServerMessages)]
  <2>1. CASE Deliver
    <3>1. ASSUME NEW c \in Connections
          PROVE  down[c] \o sent'[c] \in Seq(ServerMessages) /\ <<>> \in Seq(ServerMessages)
      <4>1. down[c] \in Seq(ServerMessages) /\ sent'[c] \in Seq(ServerMessages)
        BY WireTypes, Messages
      <4> QED BY <4>1, Joined
    <3> QED BY <2>1, <3>1 DEF Deliver
  <2>2. CASE down' = down
    BY <2>2 DEF ClientTypeOK
  <2> QED BY <2>1, <2>2 DEF Serves, ServerStep, Arrives, ServerNotices, wireVars
<1> QED BY <1>1, <1>2 DEF ClientTypeOK

LEMMA ServesClient == ClientInv /\ Serves => ClientInv'
<1> SUFFICES ASSUME ClientInv, Serves PROVE ClientInv'
  OBVIOUS
<1> USE ServeFacts
<1>1. OneSocket' /\ ClientTypeOK'
  BY OneSocketServes, ServesTypes
<1>2. VerdictInv'
  BY ServesEqual, ServesUnsent, ServesCommitted, ServesVerdicts DEF VerdictInv
<1>3. ASSUME Linked
      PROVE  SocketInv' /\ CopyInv' /\ AnswerInv' /\ SnapshotsInOrder'
  <2>1. CopyInv'
    BY <1>3, ServesMeant, ServesUnsentWire, ServesOneCopy DEF CopyInv
  <2>2. AnswerInv'
    BY <1>3, ServesAttached, ServesRefusals, ServesAcks, ServesFarewell, ServesResult
       DEF AnswerInv
  <2> QED BY <1>3, <2>1, <2>2, ServesSockets, ServesInOrder
<1> QED BY <1>1, <1>2, <1>3, ServesScreen DEF ClientInv, LinkInv

-----------------------------------------------------------------------------
(* Steps of the client and of the wires *)

LEMMA HostRests ==
  ASSUME ClientInv, UNCHANGED vars
  PROVE  /\ HostInv /\ GateInv /\ ClientTypeOK /\ OneSocket
         /\ HostInv' /\ GateInv'
         /\ UNCHANGED <<core, connections, control, journal, retired, queue, running, socket, applied>>
         /\ Waiting' = Waiting
BY HostStep, GateStep DEF ClientInv, vars, hostVars, Waiting, Queued

\* Verdicts do not depend on the wires.
LEMMA VerdictsRest ==
  ASSUME ClientInv, UNCHANGED vars, UNCHANGED <<seen, outstanding, answers, terminal, cutOff>>
  PROVE  VerdictInv' /\ ScreenIsOlder'
<1> USE HostRests
<1>1. VerdictInv /\ ScreenIsOlder
  BY DEF ClientInv
<1>2. CopiesAreEqual' /\ NotYetSent'
  BY <1>1 DEF VerdictInv, CopiesAreEqual, NotYetSent, SameEnvelope, Pending, Awaited, RunsIntent
<1>3. CommittedIsJournalled' /\ VerdictsAreKept'
  BY <1>1 DEF VerdictInv, CommittedIsJournalled, VerdictsAreKept, Dead, Pending, Awaited, RunsIntent
<1>4. ScreenIsOlder'
  BY <1>1 DEF ScreenIsOlder, Older, Current
<1> QED BY <1>2, <1>3, <1>4 DEF VerdictInv

\* Without a socket that carries messages nothing more is promised.
LEMMA LinkLost ==
  ASSUME ClientInv, (\E c \in Connections : Break(c)) \/ ClientNotices
  PROVE  ClientInv'
<1>1. UNCHANGED vars /\ UNCHANGED <<seen, outstanding, terminal, answers, cutOff>>
  BY DEF Break, ClientNotices, clientVars
<1> USE HostRests
<1>2. VerdictInv' /\ ScreenIsOlder'
  BY <1>1, VerdictsRest
<1>3. CASE ClientNotices
  <2>1. conn' = NoConn /\ conn \in broken /\ UNCHANGED <<up, down, broken>>
    BY <1>3 DEF ClientNotices, wireVars
  <2>2. ClientTypeOK' /\ OneSocket' /\ ~Linked'
    BY <1>1, <2>1, HostAssumption DEF ClientTypeOK, OneSocket, Linked
  <2> QED BY <1>1, <1>2, <2>2 DEF ClientInv, LinkInv
<1>4. ASSUME NEW c \in Connections, Break(c) PROVE ClientInv'
  <2>1. /\ conn = c /\ conn' = conn /\ broken' = broken \union {c}
        /\ up' = [up EXCEPT ![c] = <<>>] /\ down' = [down EXCEPT ![c] = <<>>]
    BY <1>4 DEF Break, clientVars
  <2>2. <<>> \in Seq(ClientMessages) /\ <<>> \in Seq(ServerMessages)
    OBVIOUS
  <2>3. ClientTypeOK'
    BY <1>1, <2>1, <2>2 DEF ClientTypeOK
  <2>4. OneSocket' /\ ~Linked'
    BY <1>1, <2>1 DEF ClientTypeOK, OneSocket, Linked
  <2> QED BY <1>1, <1>2, <2>3, <2>4 DEF ClientInv, LinkInv
<1> QED BY <1>3, <1>4

\* What comes too late only leaves the wire.
LEMMA LateArrival ==
  ASSUME ClientInv, NEW c \in Connections, ArrivesTooLate(c)
  PROVE  ClientInv'
<1>1. /\ UNCHANGED vars /\ UNCHANGED <<conn, seen, outstanding, terminal, answers, cutOff, down, broken>>
      /\ c \notin broken /\ up[c] # <<>> /\ up' = [up EXCEPT ![c] = Tail(@)]
  BY DEF ArrivesTooLate, clientVars
<1> USE HostRests
<1>2. c = conn /\ Linked /\ conn \in Connections
  BY <1>1 DEF OneSocket, Linked
<1>3. up'[conn] = Tail(up[conn]) /\ up[conn] # <<>>
  BY <1>1, <1>2 DEF ClientTypeOK
<1>4. /\ up'[conn] \in Seq(ClientMessages) /\ GoingUp' \subseteq GoingUp
  <2>1. /\ up[conn] \in Seq(ClientMessages)
    BY <1>1, <1>2, WireTypes
  <2>2. /\ Tail(up[conn]) \in Seq(ClientMessages)
        /\ \A k \in DOMAIN Tail(up[conn]) :
             k + 1 \in DOMAIN up[conn] /\ Tail(up[conn])[k] = up[conn][k + 1]
    BY <1>3, <2>1, Taken
  <2>3. GoingUp' \subseteq GoingUp
    BY <1>1, <1>3, <2>2 DEF GoingUp
  <2> QED BY <1>3, <2>2, <2>3
<1>5. ClientTypeOK' /\ OneSocket'
  <2>1. ClientTypeOK'
    BY <1>1, <1>2, <1>3, <1>4 DEF ClientTypeOK
  <2>2. OneSocket'
    BY <1>1, <1>2 DEF OneSocket, ClientTypeOK
  <2> QED BY <2>1, <2>2
<1>6. SocketInv /\ CopyInv /\ AnswerInv /\ SnapshotsInOrder
  BY <1>2 DEF ClientInv, LinkInv
<1>7. SocketInv'
  BY <1>1, <1>6 DEF SocketInv, ClosedIsRetired, OldBeforeNew, AttachedIsServed, AttachComes,
     Queued, Committing
<1>8. CopiesAreMeant'
  BY <1>1, <1>4, <1>6 DEF CopyInv, CopiesAreMeant, Meant, Pending, RunsIntent
<1>9. ComingDown' = ComingDown /\ Awaited' = Awaited /\ Pending' = Pending
  BY <1>1 DEF ComingDown, Awaited, Pending
<1>10. NotYetOnTheWire'
  BY <1>1, <1>4, <1>6, <1>9 DEF CopyInv, NotYetOnTheWire, IsAnswer
<1>11. OneCopy'
  <2>1. CopyGoesUp' => CopyGoesUp
    BY <1>4, <1>9 DEF CopyGoesUp
  <2>2. CopyWaits' = CopyWaits /\ CopyRuns' = CopyRuns /\ AnswerComes' = AnswerComes
    BY <1>1, <1>9 DEF CopyWaits, CopyRuns, AnswerComes, RunsIntent, IsAnswer
  <2>3. ASSUME Pending,
               NEW k \in DOMAIN up'[conn], up'[conn][k] # HelloMessage, up'[conn][k].env.id = Awaited,
               NEW l \in DOMAIN up'[conn], up'[conn][l] # HelloMessage, up'[conn][l].env.id = Awaited
        PROVE  k = l
    <3>1. up[conn] \in Seq(ClientMessages)
      BY <1>1, <1>2, WireTypes
    <3>2. /\ k \in Nat /\ k + 1 \in DOMAIN up[conn] /\ up'[conn][k] = up[conn][k + 1]
          /\ l \in Nat /\ l + 1 \in DOMAIN up[conn] /\ up'[conn][l] = up[conn][l + 1]
      BY <1>3, <2>3, <3>1, Taken
    <3>3. k + 1 = l + 1
      BY <1>6, <2>3, <3>2 DEF CopyInv, OneCopy
    <3> QED BY <3>2, <3>3
  <2> QED BY <1>1, <1>6, <1>9, <2>1, <2>2, <2>3 DEF CopyInv, OneCopy
<1>12. AnswerInv'
  <2>1. AnswersToAttached' /\ RefusalsAreTrue' /\ AcksAreTrue' /\ FarewellIsLast'
    BY <1>1, <1>6, <1>9 DEF AnswerInv, AnswersToAttached, RefusalsAreTrue, AcksAreTrue,
       FarewellIsLast, IsAnswer, Negative, Positive
  <2>2. ResultFollows'
    BY <1>1, <1>6, <1>9 DEF AnswerInv, ResultFollows, ResultComes, Committing, IsAnswer, Positive
  <2> QED BY <2>1, <2>2 DEF AnswerInv
<1>13. SnapshotsInOrder'
  BY <1>1, <1>6 DEF SnapshotsInOrder, Older, Current
<1> QED BY <1>1, <1>5, <1>7, <1>8, <1>10, <1>11, <1>12, <1>13, VerdictsRest
        DEF ClientInv, LinkInv, CopyInv

\* Nothing was ever said or asked on a fresh socket.
LEMMA FreshSocket ==
  ASSUME ClientInv, conn = NoConn, NEW c \in Connections \ broken, socket[c] = "new"
  PROVE  /\ down[c] = <<>>
         /\ \A op \in Waiting : op.conn # c
         /\ ~(Committing /\ running.conn = c)
<1>1. HostInv /\ GateInv /\ OneSocket
  BY DEF ClientInv
<1>2. down[c] = <<>>
  BY <1>1, HostAssumption DEF OneSocket
<1>3. \A op \in Waiting : op.conn # c
  BY <1>1 DEF GateInv, ServedAreAttached, Waiting, Unattached
<1>4. ASSUME Committing, running.conn = c PROVE FALSE
  <2>1. Owner[c] \in Players /\ connections[Owner[c]] = c /\ c # NoConn
    BY <1>1, <1>4, HostAssumption DEF GateInv, ServedAreAttached
  <2> QED BY <1>1, <2>1 DEF GateInv, ServedAreAttached, Unattached
<1> QED BY <1>2, <1>3, <1>4

LEMMA NewSocket ==
  ASSUME ClientInv, NEW c \in Connections, Connect(c)
  PROVE  ClientInv'
<1> DEFINE again == [type |-> "intent", env |-> outstanding.env]
           first == IF Pending THEN <<HelloMessage, again>> ELSE <<HelloMessage>>
<1>1. /\ UNCHANGED vars /\ UNCHANGED <<seen, outstanding, terminal, answers, cutOff, down, broken>>
      /\ conn = NoConn /\ socket[c] = "new" /\ c \notin broken /\ conn' = c
      /\ up' = [up EXCEPT ![c] = first]
  BY DEF Connect
<1> USE HostRests
<1>2. /\ down'[c] = <<>> /\ \A op \in Waiting : op.conn # c
      /\ ~(Committing /\ running.conn = c)
  BY <1>1, FreshSocket
<1>3. Pending => again \in ClientMessages /\ again # HelloMessage /\ again.env = outstanding.env
  BY <1>1, AwaitedRequest DEF ClientMessages, HelloMessage
<1>4. HelloMessage \in ClientMessages
  BY DEF ClientMessages
<1> HIDE DEF again
<1>5. /\ first \in Seq(ClientMessages)
      /\ \A k \in DOMAIN first : first[k] # HelloMessage =>
           Pending /\ k = 2 /\ first[k].env = outstanding.env
  BY <1>3, <1>4
<1> HIDE DEF first
<1>6. up'[c] = first
  BY <1>1 DEF ClientTypeOK
<1>7. ClientTypeOK' /\ OneSocket'
  <2>1. ClientTypeOK'
    BY <1>1, <1>5 DEF ClientTypeOK
  <2>2. OneSocket'
    BY <1>1, HostAssumption DEF OneSocket, ClientTypeOK
  <2> QED BY <2>1, <2>2
<1>8. SocketInv'
  BY <1>1 DEF SocketInv, ClosedIsRetired, OldBeforeNew, AttachedIsServed
<1>9. /\ \A env \in GoingUp' : Pending /\ env = outstanding.env
      /\ ComingDown' = {} /\ ~AnswerComes'
  BY <1>1, <1>2, <1>5, <1>6 DEF GoingUp, ComingDown, AnswerComes
<1>10. Pending' = Pending /\ Awaited' = Awaited
  BY <1>1 DEF Pending, Awaited
<1>11. ~CopyWaits' /\ ~CopyRuns'
  BY <1>1, <1>2 DEF CopyWaits, CopyRuns, RunsIntent, Committing
<1>12. CopiesAreMeant'
  BY <1>1, <1>2, <1>9 DEF CopiesAreMeant, Meant, Pending, RunsIntent, Committing
<1>13. NotYetOnTheWire'
  BY <1>1, <1>9 DEF NotYetOnTheWire, ClientInv, VerdictInv, VerdictsAreKept, Awaited
<1>14. OneCopy'
  BY <1>1, <1>5, <1>6, <1>9, <1>11 DEF OneCopy
<1>15. AnswerInv'
  BY <1>1, <1>2, <1>9 DEF AnswerInv, AnswersToAttached, RefusalsAreTrue, AcksAreTrue,
     FarewellIsLast, ResultFollows, ResultComes, Committing
<1>16. SnapshotsInOrder'
  BY <1>1, <1>2 DEF SnapshotsInOrder
<1> QED BY <1>1, <1>7, <1>8, <1>12, <1>13, <1>14, <1>15, <1>16, VerdictsRest
        DEF ClientInv, LinkInv, CopyInv

\* A new intent is unknown to everybody else.
LEMMA NewIntent ==
  ASSUME ClientInv, NEW r \in Requests, NEW intent \in Intents, ClientSendIntent(r, intent)
  PROVE  ClientInv'
<1> DEFINE env == [id |-> r, intent |-> intent, expected |-> seen.revision]
           asked == [type |-> "intent", env |-> env]
<1>1. /\ UNCHANGED vars /\ UNCHANGED <<conn, seen, terminal, cutOff, down, broken>>
      /\ conn # NoConn /\ seen # NoVersion /\ ~Pending /\ answers[r] = "unsent"
      /\ outstanding' = [env |-> env, committed |-> -1]
      /\ answers' = [answers EXCEPT ![r] = "waiting"]
      /\ up' = IF conn \in broken THEN up ELSE [up EXCEPT ![conn] = Append(@, asked)]
  BY DEF ClientSendIntent
<1> USE HostRests
<1>2. conn \in Connections
  BY <1>1 DEF ClientTypeOK
<1>3. env \in Envelopes /\ env.id = r
  BY <1>1 DEF ClientTypeOK, Envelopes
<1>4. asked \in ClientMessages /\ asked # HelloMessage /\ asked.env = env
  BY <1>3 DEF ClientMessages, HelloMessage
<1>5. /\ outstanding' \in [env : Envelopes, committed : -1..MaxRevision]
      /\ outstanding'.env = env /\ outstanding'.committed = -1 /\ outstanding' # Nothing
  <2>1. /\ outstanding' \in [env : Envelopes, committed : -1..MaxRevision]
        /\ outstanding'.env = env /\ outstanding'.committed = -1
    BY <1>1, <1>3, HostAssumption
  <2>2. env.id # Nothing.env.id
    BY <1>3, ClientAssumption DEF Nothing
  <2> QED BY <2>1, <2>2
<1> HIDE DEF env, asked
<1>6. Pending' /\ Awaited' = r
  BY <1>3, <1>5 DEF Pending, Awaited
<1>7. /\ \A q \in Requests : q # r => answers'[q] = answers[q]
      /\ answers'[r] = "waiting"
  BY <1>1 DEF ClientTypeOK
<1>8. /\ \A op \in Waiting : op.env.id # r
      /\ RunsIntent => running.env.id # r
      /\ journal[Host][r] = NoEntry
  BY <1>1 DEF ClientInv, VerdictInv, NotYetSent
<1>9. ClientTypeOK' /\ OneSocket'
  <2>1. up[conn] \in Seq(ClientMessages) /\ Append(up[conn], asked) \in Seq(ClientMessages)
    BY <1>1, <1>2, <1>4, WireTypes
  <2>2. ClientTypeOK'
    BY <1>1, <1>5, <2>1 DEF ClientTypeOK
  <2>3. OneSocket'
    BY <1>1 DEF OneSocket, ClientTypeOK
  <2> QED BY <2>2, <2>3
<1>10. VerdictInv'
  <2>1. CopiesAreEqual'
    BY <1>1, <1>6, <1>8 DEF CopiesAreEqual, SameEnvelope, RunsIntent
  <2>2. NotYetSent'
    BY <1>1, <1>7 DEF ClientInv, VerdictInv, NotYetSent, RunsIntent
  <2>3. CommittedIsJournalled'
    BY <1>5 DEF CommittedIsJournalled
  <2>4. VerdictsAreKept'
    BY <1>1, <1>6, <1>7 DEF ClientInv, VerdictInv, VerdictsAreKept, Dead, RunsIntent
  <2> QED BY <2>1, <2>2, <2>3, <2>4 DEF VerdictInv
<1>11. ScreenIsOlder'
  BY <1>1 DEF ClientInv, ScreenIsOlder, Older, Current
<1>12. ASSUME Linked
       PROVE  SocketInv' /\ CopyInv' /\ AnswerInv' /\ SnapshotsInOrder'
  <2>1. SocketInv /\ CopyInv /\ AnswerInv /\ SnapshotsInOrder
    BY <1>12 DEF ClientInv, LinkInv
  <2>2. up'[conn] = Append(up[conn], asked)
    BY <1>1, <1>2, <1>12 DEF ClientTypeOK, Linked
  <2>3. /\ up[conn] \in Seq(ClientMessages)
        /\ \A k \in DOMAIN up'[conn] :
             \/ k \in DOMAIN up[conn] /\ up'[conn][k] = up[conn][k]
             \/ k = Len(up[conn]) + 1 /\ up'[conn][k] = asked
    BY <1>1, <1>2, <2>2, WireTypes
  <2>4. \A e \in GoingUp' : e \in GoingUp \/ e = env
    BY <1>1, <1>4, <2>3 DEF GoingUp
  <2>5. /\ \A e \in GoingUp : e.id # r
        /\ \A m \in ComingDown : ~IsAnswer(m, r)
    BY <1>1, <2>1 DEF CopyInv, NotYetOnTheWire
  <2>6. ComingDown' = ComingDown
    BY <1>1 DEF ComingDown
  <2>7. SocketInv'
    BY <1>1, <2>1 DEF SocketInv, ClosedIsRetired, OldBeforeNew, AttachedIsServed, AttachComes,
       Queued, Committing
  <2>8. CopiesAreMeant'
    <3>1. \A e \in Envelopes : Meant(e) => answers'[e.id] = "accepted"
      BY <1>1, <1>7 DEF Meant, Envelopes
    <3>2. \A e \in GoingUp : e \in Envelopes
      BY <1>1, <1>2, WireTypes DEF GoingUp
    <3>3. \A op \in Waiting : op.env \in Envelopes
      BY <1>1, QueuedConnections DEF Waiting, Queued
    <3>4. RunsIntent => running.env \in Envelopes
      BY <1>1, AwaitFields DEF RunsIntent, Committing, HostInv
    <3> QED BY <1>1, <1>5, <1>6, <2>1, <2>4, <3>1, <3>2, <3>3, <3>4
            DEF CopyInv, CopiesAreMeant, Meant, RunsIntent
  <2>9. NotYetOnTheWire'
    BY <1>1, <1>3, <1>7, <2>1, <2>4, <2>6 DEF CopyInv, NotYetOnTheWire, IsAnswer
  <2>10. OneCopy'
    <3>1. ~CopyWaits' /\ ~CopyRuns' /\ ~AnswerComes'
      BY <1>1, <1>6, <1>8, <2>5, <2>6 DEF CopyWaits, CopyRuns, AnswerComes, RunsIntent, IsAnswer
    <3>2. ASSUME NEW k \in DOMAIN up'[conn], up'[conn][k] # HelloMessage, up'[conn][k].env.id = r
          PROVE  k = Len(up[conn]) + 1
      BY <2>3, <2>5, <3>2 DEF GoingUp
    <3> QED BY <1>1, <1>6, <3>1, <3>2 DEF OneCopy
  <2>11. AnswerInv'
    <3>1. RefusalsAreTrue'
      BY <1>6, <2>5, <2>6 DEF RefusalsAreTrue, IsAnswer
    <3>2. ResultFollows'
      <4>1. applied'[Host][r] = 0
        BY <1>1, <1>8 DEF GateInv, HostIsSettled, NoEntry
      <4> QED BY <1>6, <4>1 DEF ResultFollows
    <3>3. AnswersToAttached' /\ AcksAreTrue' /\ FarewellIsLast'
      BY <1>1, <2>1, <2>6 DEF AnswerInv, AnswersToAttached, AcksAreTrue, FarewellIsLast,
         IsAnswer, Positive
    <3> QED BY <3>1, <3>2, <3>3 DEF AnswerInv
  <2>12. SnapshotsInOrder'
    BY <1>1, <2>1 DEF SnapshotsInOrder, Older, Current
  <2> QED BY <2>7, <2>8, <2>9, <2>10, <2>11, <2>12 DEF CopyInv
<1>13. Linked' => Linked
  BY <1>1 DEF Linked
<1> QED BY <1>1, <1>9, <1>10, <1>11, <1>12, <1>13 DEF ClientInv, LinkInv

-----------------------------------------------------------------------------
(* The client receives *)

\* What a message does to the open intent.
HearsEnd(m) ==
  \E named : Stop(named) /\ (Concerns(named) => IsAnswer(m, Awaited) /\ Negative(m))
HearsNo(m) ==
  /\ Tell("refused") /\ seen' = seen
  /\ m.type \in {"ack", "error"} /\ Negative(m)
  /\ Concerns(m.id) \/ IsAnswer(m, "none")
HearsYes(m) ==
  /\ Concerns(m.id) /\ Positive(m) /\ seen' = seen
  /\ \/ seen.revision >= m.revision /\ Tell("accepted")
     \/ /\ ~(seen.revision >= m.revision)
        /\ outstanding' = [outstanding EXCEPT !.committed = m.revision] /\ answers' = answers
Sees(m) ==
  /\ m.type = "snapshot" /\ Newer(m)
  /\ seen' = [revision |-> m.revision, control |-> m.control]
  /\ IF Pending /\ outstanding.committed >= 0 /\ m.revision >= outstanding.committed
       THEN Tell("accepted") ELSE UNCHANGED <<outstanding, answers>>
Ignores(m) ==
  /\ UNCHANGED <<seen, outstanding, answers>>
  /\ m.type = "snapshot" => ~Newer(m)
  /\ m.type \in {"ack", "error"} => ~Concerns(m.id)
GoesOn(m) ==
  /\ HearsNo(m) \/ HearsYes(m) \/ Sees(m) \/ Ignores(m)
  /\ UNCHANGED <<conn, terminal, cutOff, broken>>

LEMMA Received ==
  ASSUME ClientInv, Receive
  PROVE  LET m == Head(down[conn]) IN
         /\ Linked /\ conn \in Connections /\ UNCHANGED vars /\ up' = up
         /\ m \in ServerMessages /\ m \in ComingDown
         /\ 1 \in DOMAIN down[conn] /\ m = down[conn][1]
         /\ down' = [down EXCEPT ![conn] = Tail(@)]
         /\ down'[conn] = Tail(down[conn]) /\ down'[conn] \in Seq(ServerMessages)
         /\ ComingDown' \subseteq ComingDown \/ conn' # conn
         /\ \A k \in DOMAIN down'[conn] :
              k \in Nat \ {0} /\ k + 1 \in DOMAIN down[conn] /\ down'[conn][k] = down[conn][k + 1]
         /\ \A k \in DOMAIN down[conn] :
              k # 1 => k - 1 \in DOMAIN down'[conn] /\ down'[conn][k - 1] = down[conn][k]
         /\ \/ HearsEnd(m) /\ broken' = broken \union {conn}
            \/ GoesOn(m)
<1> DEFINE m == Head(down[conn])
<1>1. /\ conn \in Connections \ broken /\ ~terminal /\ down[conn] # <<>>
      /\ UNCHANGED vars /\ up' = up /\ down' = [down EXCEPT ![conn] = Tail(@)]
      /\ broken' = IF terminal' THEN broken \union {conn} ELSE broken
      /\ \/ m.type = "close" /\ OnClose
         \/ m.type = "error" /\ OnError(m)
         \/ m.type = "ack" /\ OnAck(m)
         \/ m.type = "snapshot" /\ OnSnapshot(m)
  BY DEF Receive
<1>2. ClientTypeOK
  BY DEF ClientInv
<1>3. down[conn] \in Seq(ServerMessages)
  BY <1>1, <1>2, WireTypes
<1>4. /\ Tail(down[conn]) \in Seq(ServerMessages) /\ 1 \in DOMAIN down[conn]
      /\ m = down[conn][1] /\ m \in ServerMessages
      /\ \A k \in DOMAIN Tail(down[conn]) :
           k \in Nat \ {0} /\ k + 1 \in DOMAIN down[conn] /\ Tail(down[conn])[k] = down[conn][k + 1]
      /\ \A k \in DOMAIN down[conn] :
           k # 1 => k - 1 \in DOMAIN Tail(down[conn]) /\ Tail(down[conn])[k - 1] = down[conn][k]
  BY <1>1, <1>3, Taken
<1>5. down'[conn] = Tail(down[conn])
  BY <1>1, <1>2 DEF ClientTypeOK
<1>6. m \in ComingDown
  BY <1>4 DEF ComingDown
<1>7. ComingDown' \subseteq ComingDown \/ conn' # conn
  <2>1. \A k \in DOMAIN down'[conn] : k + 1 \in DOMAIN down[conn] /\ down'[conn][k] = down[conn][k + 1]
    BY <1>4, <1>5
  <2>2. ASSUME conn' = conn, NEW x \in ComingDown' PROVE x \in ComingDown
    <3>1. PICK k \in DOMAIN down'[conn] : x = down'[conn][k]
      BY <2>2 DEF ComingDown
    <3> QED BY <2>1, <3>1 DEF ComingDown
  <2> QED BY <2>2
<1>8. Linked
  BY <1>1 DEF Linked
<1> HIDE DEF m
<1>9. \/ HearsEnd(m) /\ terminal'
      \/ /\ HearsNo(m) \/ HearsYes(m) \/ Sees(m) \/ Ignores(m)
         /\ UNCHANGED <<conn, terminal, cutOff>>
  <2>1. CASE m.type = "close" /\ OnClose
    <3>1. ~Concerns("none")
      BY AwaitedRequest, ClientAssumption DEF ClientInv, Concerns, Awaited
    <3> QED BY <2>1, <3>1 DEF OnClose, HearsEnd, Stop
  <2>2. CASE m.type = "error" /\ OnError(m)
    <3>1. CASE Stop(m.id)
      <4>1. Concerns(m.id) => IsAnswer(m, Awaited) /\ Negative(m)
        BY <2>2, AwaitedRequest, ClientAssumption
           DEF ClientInv, Concerns, Awaited, IsAnswer, LastWord, Negative
      <4> QED BY <3>1, <4>1 DEF HearsEnd, Stop
    <3>2. CASE /\ m.code \notin TerminalErrors
               /\ IF m.id = "none" \/ Concerns(m.id) THEN Tell("refused")
                  ELSE UNCHANGED <<outstanding, answers>>
               /\ UNCHANGED <<conn, seen, terminal, cutOff>>
      BY <2>2, <3>2 DEF HearsNo, Ignores, Negative, IsAnswer, LastWord
    <3> QED BY <2>2, <3>1, <3>2 DEF OnError
  <2>3. CASE m.type = "ack" /\ OnAck(m)
    <3>1. UNCHANGED <<conn, seen, terminal, cutOff>>
      BY <2>3 DEF OnAck
    <3>2. CASE ~Concerns(m.id) /\ UNCHANGED <<outstanding, answers>>
      BY <2>3, <3>1, <3>2 DEF Ignores
    <3>3. CASE Concerns(m.id) /\ ~m.accepted /\ Tell("refused")
      BY <2>3, <3>1, <3>3 DEF HearsNo, Negative
    <3>4. CASE /\ Concerns(m.id) /\ m.accepted
               /\ IF seen.revision >= m.revision
                    THEN Tell("accepted")
                    ELSE /\ outstanding' = [outstanding EXCEPT !.committed = m.revision]
                         /\ UNCHANGED answers
      BY <2>3, <3>1, <3>4 DEF HearsYes, Positive
    <3> QED BY <2>3, <3>2, <3>3, <3>4 DEF OnAck
  <2>4. CASE m.type = "snapshot" /\ OnSnapshot(m)
    <3>1. UNCHANGED <<conn, terminal, cutOff>>
      BY <2>4 DEF OnSnapshot
    <3>2. CASE ~Newer(m) /\ UNCHANGED <<seen, outstanding, answers>>
      BY <2>4, <3>1, <3>2 DEF Ignores
    <3>3. CASE Newer(m)
      BY <2>4, <3>1, <3>3 DEF OnSnapshot, Sees
    <3> QED BY <2>4, <3>2, <3>3 DEF OnSnapshot
  <2> QED BY <1>1, <2>1, <2>2, <2>3, <2>4 DEF m
<1>10. \/ HearsEnd(m) /\ broken' = broken \union {conn}
       \/ GoesOn(m)
  BY <1>1, <1>9 DEF GoesOn
<1> QED BY <1>1, <1>4, <1>5, <1>6, <1>7, <1>8, <1>10 DEF m

\* No copy of an answered intent is left.
LEMMA AnsweredIsGone ==
  ASSUME ClientInv, Linked, Pending, NEW m \in ComingDown, IsAnswer(m, Awaited), ~retired
  PROVE  /\ ~CopyGoesUp /\ ~CopyWaits /\ ~CopyRuns
         /\ \A op \in Waiting : op.env.id # Awaited
         /\ RunsIntent => running.env.id # Awaited
<1>1. SocketInv /\ CopyInv /\ AnswerInv /\ GateInv /\ HostInv
  BY DEF ClientInv, LinkInv
<1>2. AnswerComes
  BY DEF AnswerComes
<1>3. ~CopyGoesUp /\ ~CopyWaits /\ ~CopyRuns
  BY <1>1, <1>2 DEF CopyInv, OneCopy
<1>4. socket[conn] \notin Unattached
  BY <1>1 DEF AnswerInv, AnswersToAttached, IsAnswer
<1>5. ASSUME NEW i \in Queued("intent"), queue[i].conn # conn PROVE FALSE
  <2>1. PICK j \in Queued("attach") : queue[j].conn = conn
    BY <1>1, <1>4, <1>5 DEF SocketInv, OldBeforeNew, Unattached
  <2> QED BY <1>1, <1>4, <2>1 DEF GateInv, AttachWaits, SocketInv, ClosedIsRetired, Unattached
<1>6. \A op \in Waiting : op.env.id # Awaited
  BY <1>3, <1>5 DEF Waiting, CopyWaits
<1>7. RunsIntent => running.env.id # Awaited
  BY <1>3, <1>4, EffectIsHere DEF CopyRuns
<1> QED BY <1>3, <1>6, <1>7

\* What the client takes for a refusal is one.
LEMMA RefusedIsDead ==
  ASSUME ClientInv, Linked, Pending, 1 \in DOMAIN down[conn],
         NEW m, m = down[conn][1], m \in ComingDown, Negative(m),
         IsAnswer(m, Awaited) \/ IsAnswer(m, "none")
  PROVE  Dead(Awaited)
<1>1. CASE IsAnswer(m, Awaited)
  <2>1. applied[Host][Awaited] = 0
    BY <1>1 DEF ClientInv, LinkInv, AnswerInv, RefusalsAreTrue
  <2> QED BY <1>1, <2>1, AnsweredIsGone DEF Dead
<1>2. CASE IsAnswer(m, "none")
  <2>1. FarewellIsLast /\ ResultFollows
    BY DEF ClientInv, LinkInv, AnswerInv
  <2>2. /\ retired
        /\ \A l \in DOMAIN down[conn] : l > 1 => Parting(down[conn][l])
    BY <1>2, <2>1 DEF FarewellIsLast
  <2>3. ASSUME applied[Host][Awaited] # 0 PROVE FALSE
    <3>1. ResultComes
      BY <1>2, <2>1, <2>3 DEF ResultFollows
    <3>2. PICK l \in DOMAIN down[conn] : down[conn][l].type = "snapshot"
      BY <3>1 DEF ResultComes
    <3>3. down[conn] \in Seq(ServerMessages)
      BY WireTypes DEF ClientInv, Linked
    <3>4. l = 1 \/ l > 1
      BY <3>3
    <3> QED BY <1>2, <2>2, <3>2, <3>4 DEF IsAnswer, Parting, LastWord
  <2> QED BY <2>2, <2>3 DEF Dead
<1> QED BY <1>1, <1>2

LEMMA ToldOnce ==
  ASSUME ClientTypeOK, NEW verdict, Tell(verdict)
  PROVE  /\ ~Pending' /\ outstanding' = Nothing
         /\ \A r \in Requests :
              answers'[r] = IF Pending /\ r = Awaited THEN verdict ELSE answers[r]
BY DEF ClientTypeOK, Tell, Pending, Awaited

\* A verdict that is true when it is told, or the end of the client.
LEMMA TellKeeps ==
  ASSUME ClientInv, UNCHANGED vars, NEW verdict, Tell(verdict),
         verdict \in {"refused", "accepted"},
         cutOff = "none" \/ cutOff' = cutOff, cutOff' # "none" => terminal',
         seen'.revision \in Int, seen'.revision >= seen.revision,
         Pending /\ verdict = "refused" => Dead(Awaited) \/ Awaited = cutOff',
         Pending /\ verdict = "accepted" =>
           /\ journal[Host][Awaited].accepted
           /\ seen'.revision >= journal[Host][Awaited].revision
  PROVE  VerdictInv'
<1> USE HostRests
<1>1. /\ ~Pending'
      /\ \A r \in Requests :
           answers'[r] = IF Pending /\ r = Awaited THEN verdict ELSE answers[r]
  BY ToldOnce
<1>2. CopiesAreEqual' /\ CommittedIsJournalled'
  BY <1>1 DEF CopiesAreEqual, SameEnvelope, CommittedIsJournalled
<1>3. NotYetSent'
  BY <1>1 DEF ClientInv, VerdictInv, NotYetSent, RunsIntent
<1>4. VerdictsAreKept'
  <2>1. VerdictsAreKept
    BY DEF ClientInv, VerdictInv
  <2>2. ASSUME NEW r \in Requests, answers'[r] = "accepted"
        PROVE  journal'[Host][r].accepted /\ seen'.revision >= journal'[Host][r].revision
    <3>1. CASE Pending /\ r = Awaited
      BY <1>1, <2>2, <3>1
    <3>2. CASE ~(Pending /\ r = Awaited)
      <4>1. journal[Host][r].accepted /\ seen.revision >= journal[Host][r].revision
        BY <1>1, <2>1, <2>2, <3>2 DEF VerdictsAreKept
      <4>2. seen.revision \in Int
        BY VersionsAreNumbers
      <4>3. journal[Host][r] \in {NoEntry} \union Entries /\ Host \in Players
        BY DEF HostInv, TypeOK, Players
      <4>4. journal[Host][r].revision \in Int
        BY <4>3, HostAssumption DEF NoEntry, Entries
      <4> QED BY <4>1, <4>2, <4>4
    <3> QED BY <3>1, <3>2
  <2>3. ASSUME NEW r \in Requests, answers'[r] = "refused", r # cutOff' PROVE Dead(r)'
    <3>1. r # "none"
      BY ClientAssumption
    <3>2. Dead(r)
      BY <1>1, <2>1, <2>3, <3>1 DEF VerdictsAreKept
    <3> QED BY <3>2 DEF Dead, RunsIntent
  <2> QED BY <1>1, <2>2, <2>3 DEF VerdictsAreKept
<1> QED BY <1>2, <1>3, <1>4 DEF VerdictInv

\* The screen follows the snapshots.
LEMMA SeesForward ==
  ASSUME ClientInv, Linked, 1 \in DOMAIN down[conn],
         NEW m, m = down[conn][1], m \in ServerMessages, m.type = "snapshot"
  PROVE  /\ m.revision \in Int /\ m.control \in Int
         /\ Older(m, Current) /\ Older(seen, m)
         /\ \A l \in DOMAIN down[conn] :
              l > 1 /\ down[conn][l].type = "snapshot" => Older(m, down[conn][l])
BY VersionsAreNumbers DEF ClientInv, LinkInv, SnapshotsInOrder

LEMMA ReceivedScreen ==
  ASSUME ClientInv, Receive
  PROVE  /\ seen'.revision \in Int /\ seen'.control \in Int
         /\ Older(seen, seen') /\ Older(seen', Current)
<1> DEFINE m == Head(down[conn])
<1>1. /\ Linked /\ 1 \in DOMAIN down[conn] /\ m = down[conn][1] /\ m \in ServerMessages
      /\ HearsEnd(m) \/ GoesOn(m)
  BY Received
<1> HIDE DEF m
<1>2. CASE seen' = seen
  <2>1. seen.revision \in Int /\ seen.control \in Int /\ ScreenIsOlder
    BY VersionsAreNumbers DEF ClientInv
  <2> QED BY <1>2, <2>1 DEF ScreenIsOlder, Older
<1>3. CASE Sees(m)
  <2>1. /\ m.revision \in Int /\ m.control \in Int
        /\ Older(m, Current) /\ Older(seen, m)
    BY <1>1, <1>3, SeesForward DEF Sees
  <2>2. seen'.revision = m.revision /\ seen'.control = m.control
    BY <1>3 DEF Sees
  <2> QED BY <2>1, <2>2 DEF Older
<1> QED BY <1>1, <1>2, <1>3 DEF HearsEnd, Stop, GoesOn, HearsNo, HearsYes, Ignores

LEMMA ReceivedVerdicts == ClientInv /\ Receive => VerdictInv' /\ ScreenIsOlder'
<1> SUFFICES ASSUME ClientInv, Receive PROVE VerdictInv' /\ ScreenIsOlder'
  OBVIOUS
<1> DEFINE m == Head(down[conn])
<1>1. /\ Linked /\ UNCHANGED vars
      /\ m \in ServerMessages /\ m \in ComingDown
      /\ 1 \in DOMAIN down[conn] /\ m = down[conn][1]
      /\ HearsEnd(m) \/ GoesOn(m)
  BY Received
<1> HIDE DEF m
<1> USE HostRests
<1>2. seen'.revision \in Int /\ Older(seen, seen') /\ Older(seen', Current)
  BY ReceivedScreen
<1>3. ScreenIsOlder'
  BY <1>1, <1>2 DEF ScreenIsOlder, Older, Current
<1>4. seen'.revision >= seen.revision
  BY <1>1, <1>2, VersionsAreNumbers DEF Older
<1>5. VerdictsAreKept /\ VerdictInv
  BY DEF ClientInv, VerdictInv
<1>6. UNCHANGED <<terminal, cutOff>> => (cutOff' # "none" => terminal')
  BY <1>5 DEF VerdictsAreKept
<1>7. CASE HearsEnd(m)
  <2>1. PICK named : Stop(named) /\ (Concerns(named) => IsAnswer(m, Awaited) /\ Negative(m))
    BY <1>7 DEF HearsEnd
  <2>2. Pending => Dead(Awaited) \/ Awaited = cutOff'
    <3>1. CASE Pending /\ Concerns(named)
      BY <1>1, <2>1, <3>1, RefusedIsDead
    <3>2. CASE Pending /\ ~Concerns(named)
      BY <2>1, <3>2 DEF Stop, Awaited
    <3> QED BY <3>1, <3>2
  <2>3. Tell("refused") /\ terminal' /\ cutOff = "none"
    BY <1>5, <2>1 DEF Stop, Receive, VerdictsAreKept
  <2> QED BY <1>1, <1>2, <1>3, <1>4, <2>2, <2>3, TellKeeps
<1>8. CASE HearsNo(m) /\ UNCHANGED <<terminal, cutOff>>
  <2>1. Pending => Dead(Awaited)
    BY <1>1, <1>8, RefusedIsDead, AwaitedRequest, ClientAssumption
       DEF HearsNo, IsAnswer, LastWord, Concerns, Awaited, ClientInv
  <2>2. Tell("refused")
    BY <1>8 DEF HearsNo
  <2> QED BY <1>1, <1>2, <1>3, <1>4, <1>8, <1>6, <2>1, <2>2, TellKeeps
<1>9. CASE HearsYes(m) /\ UNCHANGED <<terminal, cutOff>>
  <2>1. /\ journal[Host][Awaited].accepted /\ journal[Host][Awaited].revision = m.revision
        /\ Pending /\ seen' = seen /\ m.id = Awaited /\ m.type = "ack"
    BY <1>1, <1>9 DEF HearsYes, Concerns, Awaited, Positive, ClientInv, LinkInv, AnswerInv, AcksAreTrue
  <2>2. CASE seen.revision >= m.revision /\ Tell("accepted")
    <3>1. seen'.revision >= journal[Host][Awaited].revision
      BY <2>1, <2>2
    <3> QED BY <1>1, <1>2, <1>3, <1>4, <1>9, <1>6, <2>1, <2>2, <3>1, TellKeeps
  <2>3. CASE /\ ~(seen.revision >= m.revision)
             /\ outstanding' = [outstanding EXCEPT !.committed = m.revision] /\ answers' = answers
    <3>1. m.revision \in 0..MaxRevision /\ seen.revision \in Int
      BY <1>1, <2>1, VersionsAreNumbers DEF ServerMessages
    <3>2. outstanding \in [env : Envelopes, committed : -1..MaxRevision]
      BY <1>1, <2>1 DEF ClientTypeOK, Pending
    <3>3. outstanding'.env = outstanding.env /\ outstanding'.committed = m.revision
      BY <2>3, <3>2
    <3>4. Pending' /\ Awaited' = Awaited
      BY <3>2, <3>3, ClientAssumption DEF Pending, Awaited, Nothing, Envelopes
    <3>5. CopiesAreEqual' /\ NotYetSent'
      BY <1>1, <1>5, <2>1, <2>3, <3>3, <3>4
         DEF VerdictInv, CopiesAreEqual, SameEnvelope, NotYetSent, RunsIntent
    <3>6. CommittedIsJournalled'
      BY <1>1, <2>1, <2>3, <3>1, <3>3, <3>4, HostAssumption DEF CommittedIsJournalled
    <3>7. VerdictsAreKept'
      BY <1>1, <1>5, <1>9, <2>1, <2>3, <3>4 DEF VerdictsAreKept, Dead, RunsIntent
    <3> QED BY <1>3, <3>5, <3>6, <3>7 DEF VerdictInv
  <2> QED BY <1>9, <2>2, <2>3 DEF HearsYes
<1>10. CASE Sees(m) /\ UNCHANGED <<terminal, cutOff>>
  <2>1. seen'.revision = m.revision
    BY <1>10 DEF Sees
  <2>2. CASE /\ Pending /\ outstanding.committed >= 0 /\ m.revision >= outstanding.committed
             /\ Tell("accepted")
    <3>1. journal[Host][Awaited].accepted /\ journal[Host][Awaited].revision = outstanding.committed
      BY <1>5, <2>2 DEF VerdictInv, CommittedIsJournalled
    <3>2. seen'.revision >= journal[Host][Awaited].revision
      BY <2>1, <2>2, <3>1
    <3> QED BY <1>1, <1>2, <1>3, <1>4, <1>10, <1>6, <2>2, <3>1, <3>2, TellKeeps
  <2>3. CASE /\ ~(Pending /\ outstanding.committed >= 0 /\ m.revision >= outstanding.committed)
             /\ UNCHANGED <<outstanding, answers>>
    <3>1. CopiesAreEqual' /\ NotYetSent'
      BY <1>1, <1>5, <2>3 DEF VerdictInv, CopiesAreEqual, SameEnvelope, NotYetSent,
         RunsIntent, Pending, Awaited
    <3>2. ASSUME Pending, outstanding.committed >= 0
          PROVE  /\ journal[Host][Awaited].accepted
                 /\ journal[Host][Awaited].revision = outstanding.committed
                 /\ m.revision < outstanding.committed
      <4>1. /\ journal[Host][Awaited].accepted
            /\ journal[Host][Awaited].revision = outstanding.committed
        BY <1>5, <3>2 DEF VerdictInv, CommittedIsJournalled
      <4>2. outstanding.committed \in Int /\ m.revision \in Int
        BY <1>1, <1>2, <2>1, <3>2, HostAssumption DEF ClientTypeOK, Pending
      <4> QED BY <2>3, <3>2, <4>1, <4>2
    <3>3. CommittedIsJournalled'
      BY <1>1, <2>1, <2>3, <3>2 DEF CommittedIsJournalled, Pending, Awaited
    <3>4. VerdictsAreKept'
      <4>1. ASSUME NEW r \in Requests, answers[r] = "accepted"
            PROVE  journal[Host][r].accepted /\ seen'.revision >= journal[Host][r].revision
        <5>1. journal[Host][r].accepted /\ seen.revision >= journal[Host][r].revision
          BY <1>5, <4>1 DEF VerdictsAreKept
        <5>2. journal[Host][r] \in {NoEntry} \union Entries /\ Host \in Players
          BY <1>1 DEF HostInv, TypeOK, Players
        <5>3. journal[Host][r].revision \in Int /\ seen.revision \in Int
          BY <1>1, <5>2, VersionsAreNumbers, HostAssumption DEF NoEntry, Entries
        <5> QED BY <1>2, <1>4, <5>1, <5>3
      <4> QED BY <1>1, <1>5, <1>10, <2>3, <4>1 DEF VerdictsAreKept, Dead, RunsIntent, Pending, Awaited
    <3> QED BY <1>3, <3>1, <3>3, <3>4 DEF VerdictInv
  <2> QED BY <1>10, <2>2, <2>3 DEF Sees
<1>11. CASE Ignores(m) /\ GoesOn(m)
  BY <1>1, <1>3, <1>11, VerdictsRest DEF Ignores, GoesOn
<1> QED BY <1>1, <1>7, <1>8, <1>9, <1>10, <1>11 DEF GoesOn

\* What the client goes on with: the open intent is the same, or it is settled.
LEMMA GoingOn ==
  ASSUME ClientInv, NEW m, m \in ServerMessages, GoesOn(m)
  PROVE  /\ Pending' => /\ Pending /\ Awaited' = Awaited /\ outstanding'.env = outstanding.env
                        /\ answers' = answers
                        /\ outstanding.committed >= 0 => outstanding'.committed >= 0
                        /\ Positive(m) /\ m.id = Awaited => outstanding'.committed >= 0
         /\ \A r \in Requests : answers'[r] = "unsent" => answers[r] = "unsent"
         /\ \A r \in Requests : answers[r] = "accepted" => answers'[r] = "accepted"
         /\ Pending /\ ~Pending' => answers'[Awaited] = "accepted" \/ HearsNo(m)
<1>1. ClientTypeOK /\ VerdictsAreKept
  BY DEF ClientInv, VerdictInv
<1>2. Pending => answers[Awaited] = "waiting" /\ Awaited \in Requests
  BY <1>1, AwaitedRequest DEF VerdictsAreKept
<1>3. ASSUME NEW verdict \in {"refused", "accepted"}, Tell(verdict)
      PROVE  /\ ~Pending'
             /\ \A r \in Requests : answers'[r] = "unsent" => answers[r] = "unsent"
             /\ \A r \in Requests : answers[r] = "accepted" => answers'[r] = "accepted"
             /\ Pending => answers'[Awaited] = verdict
  <2>1. /\ ~Pending'
        /\ \A r \in Requests :
             answers'[r] = IF Pending /\ r = Awaited THEN verdict ELSE answers[r]
    BY <1>1, <1>3, ToldOnce
  <2> QED BY <1>2, <2>1
<1>4. CASE HearsNo(m)
  BY <1>3, <1>4 DEF HearsNo
<1>5. CASE HearsYes(m)
  <2>1. CASE Tell("accepted")
    BY <1>3, <2>1
  <2>2. CASE outstanding' = [outstanding EXCEPT !.committed = m.revision] /\ answers' = answers
    <3>1. Pending /\ outstanding \in [env : Envelopes, committed : -1..MaxRevision]
      BY <1>1, <1>5 DEF ClientTypeOK, Pending, HearsYes, Concerns
    <3>2. m.revision >= 0
      BY <1>5, HostAssumption DEF HearsYes, Positive, ServerMessages
    <3>3. outstanding'.env = outstanding.env /\ outstanding'.committed >= 0
      BY <2>2, <3>1, <3>2
    <3> QED BY <2>2, <3>1, <3>3, ClientAssumption DEF Pending, Awaited, Nothing, Envelopes
  <2> QED BY <1>5, <2>1, <2>2 DEF HearsYes
<1>6. CASE Sees(m)
  <2>1. CASE Tell("accepted")
    BY <1>3, <2>1
  <2>2. CASE UNCHANGED <<outstanding, answers>>
    BY <1>6, <2>2 DEF Sees, Pending, Awaited, Positive
  <2> QED BY <1>6, <2>1, <2>2 DEF Sees
<1>7. CASE Ignores(m)
  BY <1>7 DEF Ignores, Pending, Awaited, Positive, Concerns
<1> QED BY <1>4, <1>5, <1>6, <1>7 DEF GoesOn

LEMMA ReceivedCopies ==
  ASSUME ClientInv, Receive, GoesOn(Head(down[conn]))
  PROVE  CopyInv'
<1> DEFINE m == Head(down[conn])
<1>1. /\ Linked /\ conn \in Connections /\ UNCHANGED vars /\ up' = up /\ conn' = conn
      /\ m \in ServerMessages /\ m \in ComingDown /\ ComingDown' \subseteq ComingDown
  BY Received DEF GoesOn
<1> HIDE DEF m
<1> USE HostRests
<1>2. /\ Pending' => Pending /\ Awaited' = Awaited /\ outstanding'.env = outstanding.env
      /\ \A r \in Requests : answers'[r] = "unsent" => answers[r] = "unsent"
      /\ \A r \in Requests : answers[r] = "accepted" => answers'[r] = "accepted"
      /\ Pending /\ ~Pending' => answers'[Awaited] = "accepted" \/ HearsNo(m)
  BY <1>1, GoingOn DEF m
<1>3. CopyInv
  BY <1>1 DEF ClientInv, LinkInv
<1>4. GoingUp' = GoingUp
  BY <1>1 DEF GoingUp
<1>5. ASSUME ~retired' PROVE CopiesAreMeant'
  <2>1. /\ \A env \in GoingUp : Meant(env) /\ env \in Envelopes
        /\ \A op \in Waiting : op.env \in Envelopes /\ (op.conn = conn => Meant(op.env))
        /\ RunsIntent => running.env \in Envelopes /\ (running.conn = conn => Meant(running.env))
    <3>1. \A env \in GoingUp : env \in Envelopes
      BY <1>1, WireTypes DEF GoingUp
    <3>2. \A op \in Waiting : op.env \in Envelopes
      BY <1>1, QueuedConnections DEF Waiting, Queued
    <3>3. RunsIntent => running.env \in Envelopes
      BY <1>1, AwaitFields DEF RunsIntent, Committing, HostInv
    <3> QED BY <1>1, <1>3, <1>5, <3>1, <3>2, <3>3 DEF CopyInv, CopiesAreMeant
  <2>2. ASSUME Pending, ~Pending', HearsNo(m)
        PROVE  /\ \A env \in GoingUp : env # outstanding.env
               /\ \A op \in Waiting : op.env # outstanding.env
               /\ RunsIntent => running.env # outstanding.env
    <3>1. IsAnswer(m, Awaited)
      <4>1. ~IsAnswer(m, "none")
        BY <1>1, <1>5 DEF ClientInv, LinkInv, AnswerInv, FarewellIsLast, ComingDown, IsAnswer
      <4> QED BY <2>2, <4>1, AwaitedRequest, ClientAssumption
             DEF HearsNo, IsAnswer, LastWord, Concerns, Awaited, ClientInv
    <3>2. /\ ~CopyGoesUp /\ \A op \in Waiting : op.env.id # Awaited
          /\ RunsIntent => running.env.id # Awaited
      BY <1>1, <1>5, <2>2, <3>1, AnsweredIsGone
    <3> QED BY <3>2 DEF CopyGoesUp, Awaited
  <2>3. ASSUME NEW env \in Envelopes, Meant(env), Pending /\ ~Pending' /\ HearsNo(m) => env # outstanding.env
        PROVE  (Pending' /\ env = outstanding'.env) \/ answers'[env.id] = "accepted"
    BY <1>2, <2>3 DEF Meant, Envelopes, Awaited
  <2> QED BY <1>1, <1>4, <2>1, <2>2, <2>3 DEF CopiesAreMeant, Meant, RunsIntent
<1>6. NotYetOnTheWire'
  BY <1>1, <1>2, <1>3, <1>4 DEF CopyInv, NotYetOnTheWire, IsAnswer
<1>7. OneCopy'
  <2>1. Pending' => Pending /\ Awaited' = Awaited
    BY <1>2
  <2>2. ASSUME Pending'
        PROVE  /\ CopyGoesUp' = CopyGoesUp /\ CopyWaits' = CopyWaits /\ CopyRuns' = CopyRuns
               /\ AnswerComes' => AnswerComes
    BY <1>1, <1>4, <2>1, <2>2 DEF CopyGoesUp, CopyWaits, CopyRuns, AnswerComes, RunsIntent, IsAnswer
  <2> QED BY <1>1, <1>3, <2>1, <2>2 DEF CopyInv, OneCopy
<1> QED BY <1>5, <1>6, <1>7 DEF CopyInv, CopiesAreMeant

LEMMA ReceivedAnswers ==
  ASSUME ClientInv, Receive, GoesOn(Head(down[conn]))
  PROVE  AnswerInv'
<1> DEFINE m == Head(down[conn])
<1>1. /\ Linked /\ conn \in Connections /\ UNCHANGED vars /\ conn' = conn
      /\ m \in ServerMessages /\ m \in ComingDown /\ ComingDown' \subseteq ComingDown
      /\ 1 \in DOMAIN down[conn] /\ m = down[conn][1]
  BY Received DEF GoesOn
<1>2. /\ \A k \in DOMAIN down'[conn] :
           k \in Nat \ {0} /\ k + 1 \in DOMAIN down[conn] /\ down'[conn][k] = down[conn][k + 1]
      /\ \A k \in DOMAIN down[conn] :
           k # 1 => k - 1 \in DOMAIN down'[conn] /\ down'[conn][k - 1] = down[conn][k]
  BY Received
<1>3. GoesOn(m)
  OBVIOUS
<1> HIDE DEF m
<1> USE HostRests
<1>4. Pending' => /\ Pending /\ Awaited' = Awaited /\ outstanding'.env = outstanding.env
                  /\ outstanding.committed >= 0 => outstanding'.committed >= 0
                  /\ Positive(m) /\ m.id = Awaited => outstanding'.committed >= 0
  BY <1>1, <1>3, GoingOn
<1>5. AnswerInv /\ VerdictInv
  BY <1>1 DEF ClientInv, LinkInv
<1>6. AnswersToAttached' /\ RefusalsAreTrue' /\ AcksAreTrue'
  BY <1>1, <1>4, <1>5 DEF AnswerInv, AnswersToAttached, RefusalsAreTrue, AcksAreTrue,
     IsAnswer, Negative, Positive
<1>7. FarewellIsLast'
  <2>1. ASSUME NEW k \in DOMAIN down'[conn], IsAnswer(down'[conn][k], "none")
        PROVE  /\ retired
               /\ \A l \in DOMAIN down'[conn] : l > k => Parting(down'[conn][l])
    <3>1. /\ k \in Nat /\ k + 1 \in DOMAIN down[conn] /\ IsAnswer(down[conn][k + 1], "none")
      BY <1>2, <2>1
    <3>2. /\ retired
          /\ \A l \in DOMAIN down[conn] : l > k + 1 => Parting(down[conn][l])
      BY <1>5, <3>1 DEF AnswerInv, FarewellIsLast
    <3>3. ASSUME NEW l \in DOMAIN down'[conn], l > k PROVE Parting(down'[conn][l])
      <4>1. l \in Nat /\ l + 1 \in DOMAIN down[conn] /\ down'[conn][l] = down[conn][l + 1]
        BY <1>2
      <4>2. l + 1 > k + 1
        BY <3>1, <3>3, <4>1
      <4> QED BY <3>2, <4>1, <4>2
    <3> QED BY <3>2, <3>3
  <2> QED BY <1>1, <2>1 DEF FarewellIsLast, IsAnswer
<1>8. ResultFollows'
  <2> SUFFICES ASSUME Pending', applied'[Host][Awaited'] # 0
               PROVE  \/ /\ ~(Committing' /\ running'.conn = conn')
                         /\ \A n \in ComingDown' : ~IsAnswer(n, "none")
                      \/ ResultComes'
    BY DEF ResultFollows, IsAnswer
  <2>1. Pending /\ applied[Host][Awaited] # 0
    BY <1>1, <1>4
  <2>2. CASE /\ ~(Committing /\ running.conn = conn)
             /\ \A n \in ComingDown : ~IsAnswer(n, "none")
    BY <1>1, <2>2 DEF Committing
  <2>3. CASE ResultComes
    <3>1. PICK l \in DOMAIN down[conn] :
            /\ down[conn][l].type = "snapshot"
            /\ down[conn][l].revision >= journal[Host][Awaited].revision
            /\ \/ outstanding.committed >= 0
               \/ \E k \in DOMAIN down[conn] :
                    k < l /\ IsAnswer(down[conn][k], Awaited) /\ Positive(down[conn][k])
      BY <2>3 DEF ResultComes
    <3>2. down[conn] \in Seq(ServerMessages)
      BY <1>1, WireTypes
    <3>3. l \in Nat \ {0} /\ \A k \in DOMAIN down[conn] : k \in Nat \ {0}
      BY <3>2
    \* The result does not arrive unnoticed.
    <3>4. ASSUME l = 1 PROVE FALSE
      <4>1. outstanding.committed >= 0
        BY <3>1, <3>3, <3>4
      <4>2. /\ journal[Host][Awaited].revision = outstanding.committed
            /\ seen.revision < outstanding.committed
        BY <1>5, <2>1, <4>1 DEF VerdictInv, CommittedIsJournalled
      <4>3. m.type = "snapshot" /\ m.revision >= outstanding.committed
        BY <1>1, <3>1, <3>4, <4>2
      <4>4. m.revision \in Int /\ seen.revision \in Int /\ outstanding.committed \in Int
        BY <1>1, <2>1, <4>3, VersionsAreNumbers, HostAssumption DEF ClientTypeOK, Pending
      <4>5. Newer(m)
        BY <4>2, <4>3, <4>4 DEF Newer
      <4>6. Sees(m)
        BY <1>3, <4>3, <4>5 DEF GoesOn, HearsNo, HearsYes, Ignores, Positive
      <4>7. Tell("accepted")
        BY <2>1, <4>1, <4>3, <4>6 DEF Sees
      <4> QED BY <1>1, <4>7, ToldOnce
    <3>5. /\ l - 1 \in DOMAIN down'[conn] /\ down'[conn][l - 1] = down[conn][l]
      BY <1>2, <3>4
    <3>6. ASSUME ~(outstanding'.committed >= 0)
          PROVE  \E k \in DOMAIN down'[conn] :
                   k < l - 1 /\ IsAnswer(down'[conn][k], Awaited) /\ Positive(down'[conn][k])
      <4>1. PICK k \in DOMAIN down[conn] :
                    k < l /\ IsAnswer(down[conn][k], Awaited) /\ Positive(down[conn][k])
        BY <1>4, <3>1, <3>6
      <4>2. k # 1
        BY <1>1, <1>4, <3>6, <4>1 DEF IsAnswer
      <4>3. k - 1 \in DOMAIN down'[conn] /\ down'[conn][k - 1] = down[conn][k]
        BY <1>2, <4>2
      <4>4. k - 1 < l - 1
        BY <3>3, <4>1
      <4> DEFINE j == k - 1
      <4>5. j \in DOMAIN down'[conn] /\ j < l - 1 /\ down'[conn][j] = down[conn][k]
        BY <4>3, <4>4
      <4> HIDE DEF j
      <4> QED BY <4>1, <4>5
    <3> DEFINE i == l - 1
    <3>7. /\ i \in DOMAIN down'[conn] /\ down'[conn][i] = down[conn][l]
          /\ ~(outstanding'.committed >= 0) => \E k \in DOMAIN down'[conn] :
                k < i /\ IsAnswer(down'[conn][k], Awaited) /\ Positive(down'[conn][k])
      BY <3>5, <3>6
    <3> HIDE DEF i
    <3>8. /\ down'[conn][i].type = "snapshot"
          /\ down'[conn][i].revision >= journal'[Host][Awaited'].revision
      BY <1>1, <1>4, <3>1, <3>7
    <3>9. Awaited' = Awaited /\ conn' = conn
      BY <1>1, <1>4
    <3> QED BY <3>7, <3>8, <3>9 DEF ResultComes, IsAnswer, Positive
  <2> QED BY <1>5, <2>1, <2>2, <2>3 DEF AnswerInv, ResultFollows
<1> QED BY <1>6, <1>7, <1>8 DEF AnswerInv

LEMMA ReceivedInOrder ==
  ASSUME ClientInv, Receive, GoesOn(Head(down[conn]))
  PROVE  SnapshotsInOrder'
<1> DEFINE m == Head(down[conn])
<1>1. /\ Linked /\ UNCHANGED vars /\ conn' = conn /\ m \in ServerMessages
      /\ 1 \in DOMAIN down[conn] /\ m = down[conn][1]
  BY Received DEF GoesOn
<1>2. \A k \in DOMAIN down'[conn] :
        k \in Nat \ {0} /\ k + 1 \in DOMAIN down[conn] /\ down'[conn][k] = down[conn][k + 1]
  BY Received
<1>3. GoesOn(m)
  OBVIOUS
<1> HIDE DEF m
<1>4. SnapshotsInOrder
  BY <1>1 DEF ClientInv, LinkInv
<1>5. \A k \in DOMAIN down[conn] : k > 1 /\ down[conn][k].type = "snapshot" => Older(seen', down[conn][k])
  <2>1. CASE seen' = seen
    BY <1>4, <2>1 DEF SnapshotsInOrder
  <2>2. CASE Sees(m)
    <3>1. \A l \in DOMAIN down[conn] :
            l > 1 /\ down[conn][l].type = "snapshot" => Older(m, down[conn][l])
      BY <1>1, <2>2, SeesForward DEF Sees
    <3>2. seen'.revision = m.revision /\ seen'.control = m.control
      BY <2>2 DEF Sees
    <3> QED BY <3>1, <3>2 DEF Older
  <2> QED BY <1>3, <2>1, <2>2 DEF GoesOn, HearsNo, HearsYes, Ignores
<1>6. ASSUME NEW k \in DOMAIN down'[conn], down'[conn][k].type = "snapshot"
      PROVE  /\ Older(down'[conn][k], Current) /\ Older(seen', down'[conn][k])
             /\ \A l \in DOMAIN down'[conn] :
                  l > k /\ down'[conn][l].type = "snapshot" => Older(down'[conn][k], down'[conn][l])
  <2> DEFINE i == k + 1
  <2>1. /\ k \in Nat \ {0} /\ i \in DOMAIN down[conn] /\ down'[conn][k] = down[conn][i]
        /\ down[conn][i].type = "snapshot" /\ i > 1
    BY <1>2, <1>6
  <2>2. Older(down[conn][i], Current) /\ Older(seen', down[conn][i])
    BY <1>4, <1>5, <2>1 DEF SnapshotsInOrder
  <2>3. ASSUME NEW l \in DOMAIN down'[conn], l > k, down'[conn][l].type = "snapshot"
        PROVE  Older(down'[conn][k], down'[conn][l])
    <3> DEFINE j == l + 1
    <3>1. /\ j \in DOMAIN down[conn] /\ down'[conn][l] = down[conn][j]
          /\ down[conn][j].type = "snapshot" /\ j > i
      BY <1>2, <2>1, <2>3
    <3> HIDE DEF i, j
    <3> QED BY <1>4, <2>1, <3>1 DEF SnapshotsInOrder
  <2> QED BY <2>1, <2>2, <2>3
<1>7. Current' = Current
  BY <1>1 DEF Current, vars, hostVars
<1> QED BY <1>1, <1>6, <1>7 DEF SnapshotsInOrder, Older

LEMMA ReceivedTypes ==
  ASSUME ClientInv, Receive
  PROVE  ClientTypeOK' /\ OneSocket'
<1> DEFINE m == Head(down[conn])
<1>1. /\ conn \in Connections /\ UNCHANGED vars /\ up' = up /\ m \in ServerMessages
      /\ down' = [down EXCEPT ![conn] = Tail(@)] /\ Tail(down[conn]) \in Seq(ServerMessages)
      /\ (HearsEnd(m) /\ broken' = broken \union {conn}) \/ GoesOn(m)
  BY Received
<1> HIDE DEF m
<1> USE HostRests
<1>2. down' \in [Connections -> Seq(ServerMessages)]
  BY <1>1 DEF ClientTypeOK
<1>3. ASSUME NEW verdict \in {"refused", "accepted"}, Tell(verdict)
      PROVE  /\ outstanding' = Nothing
             /\ answers' \in [Requests -> {"unsent", "waiting", "accepted", "refused"}]
  BY <1>1, <1>3 DEF Tell, ClientTypeOK
<1>4. CASE HearsEnd(m) /\ broken' = broken \union {conn}
  <2>1. PICK named : Stop(named)
    BY <1>4 DEF HearsEnd
  <2>2. Tell("refused") /\ terminal' = TRUE /\ conn' = NoConn /\ seen' = seen
    BY <2>1 DEF Stop
  <2>3. cutOff' = cutOff \/ (Pending /\ cutOff' = Awaited)
    BY <2>1 DEF Stop, Awaited
  <2>4. cutOff' \in Requests \union {"none"}
    BY <1>1, <2>3, AwaitedRequest DEF ClientTypeOK
  <2>5. ClientTypeOK'
    BY <1>1, <1>2, <1>3, <1>4, <2>2, <2>4 DEF ClientTypeOK
  <2>6. OneSocket'
    BY <1>1, <1>4, <2>2 DEF OneSocket, ClientTypeOK
  <2> QED BY <2>5, <2>6
<1>5. CASE GoesOn(m)
  <2>1. UNCHANGED <<conn, terminal, cutOff, broken>>
    BY <1>5 DEF GoesOn
  <2>2. seen' \in {NoVersion} \union [revision : 0..MaxRevision, control : Nat]
    BY <1>1, <1>5 DEF GoesOn, HearsNo, HearsYes, Sees, Ignores, ClientTypeOK, ServerMessages
  <2>3. /\ outstanding' \in {Nothing} \union [env : Envelopes, committed : -1..MaxRevision]
        /\ answers' \in [Requests -> {"unsent", "waiting", "accepted", "refused"}]
    <3>1. CASE Tell("refused") \/ Tell("accepted")
      BY <1>3, <3>1
    <3>2. CASE UNCHANGED <<outstanding, answers>>
      BY <1>1, <3>2 DEF ClientTypeOK
    <3>3. CASE /\ Concerns(m.id) /\ Positive(m)
               /\ outstanding' = [outstanding EXCEPT !.committed = m.revision] /\ answers' = answers
      <4>1. outstanding \in [env : Envelopes, committed : -1..MaxRevision]
        BY <1>1, <3>3 DEF ClientTypeOK, Concerns, Pending
      <4>2. m.revision \in -1..MaxRevision
        BY <1>1, <3>3, HostAssumption DEF Positive, ServerMessages
      <4> QED BY <1>1, <3>3, <4>1, <4>2 DEF ClientTypeOK
    <3> QED BY <1>5, <3>1, <3>2, <3>3 DEF GoesOn, HearsNo, HearsYes, Sees, Ignores
  <2>4. ClientTypeOK'
    BY <1>1, <1>2, <2>1, <2>2, <2>3 DEF ClientTypeOK
  <2>5. OneSocket'
    BY <1>1, <2>1 DEF OneSocket, ClientTypeOK
  <2> QED BY <2>4, <2>5
<1> QED BY <1>1, <1>4, <1>5

LEMMA Receives == ClientInv /\ Receive => ClientInv'
<1> SUFFICES ASSUME ClientInv, Receive PROVE ClientInv'
  OBVIOUS
<1>1. /\ conn \in Connections /\ UNCHANGED vars /\ up' = up
      /\ Linked
      /\ HearsEnd(Head(down[conn])) \/ GoesOn(Head(down[conn]))
  BY Received
<1>2. HostInv' /\ GateInv'
  BY <1>1, HostRests
<1>3. CASE HearsEnd(Head(down[conn]))
  <2>1. ~Linked'
    BY <1>3, HostAssumption DEF HearsEnd, Stop, Linked
  <2> QED BY <1>2, <2>1, ReceivedTypes, ReceivedVerdicts DEF ClientInv, LinkInv
<1>4. CASE GoesOn(Head(down[conn]))
  <2>1. SocketInv'
    <3>1. SocketInv /\ conn' = conn
      BY <1>1, <1>4 DEF ClientInv, LinkInv, GoesOn
    <3> QED BY <1>1, <3>1, HostRests DEF SocketInv, ClosedIsRetired, OldBeforeNew,
               AttachedIsServed, AttachComes, Queued, Committing
  <2> QED BY <1>2, <1>4, <2>1, ReceivedTypes, ReceivedVerdicts, ReceivedCopies,
             ReceivedAnswers, ReceivedInOrder DEF ClientInv, LinkInv
<1> QED BY <1>1, <1>3, <1>4

-----------------------------------------------------------------------------
(* Theorems *)

LEMMA ClientStarts == ClientInit => ClientInv
<1> SUFFICES ASSUME ClientInit PROVE ClientInv
  OBVIOUS
<1>1. HostInv /\ GateInv
  BY HostStarts, GateStarts DEF ClientInit
<1>2. Init /\ Host \in Players /\ conn = NoConn /\ ~Linked /\ ~Pending
  BY HostAssumption DEF ClientInit, Linked, Pending, Players
<1>3. ClientTypeOK
  <2>1. <<>> \in Seq(ClientMessages) /\ <<>> \in Seq(ServerMessages)
    OBVIOUS
  <2> QED BY <2>1 DEF ClientInit, ClientTypeOK
<1>4. OneSocket
  BY DEF ClientInit, Init, OneSocket
<1>5. Waiting = {} /\ ~RunsIntent
  BY <1>2 DEF Init, Waiting, Queued, RunsIntent, Idle
<1>6. VerdictInv
  BY <1>2, <1>5 DEF ClientInit, Init, VerdictInv, CopiesAreEqual, SameEnvelope, NotYetSent,
     CommittedIsJournalled, VerdictsAreKept
<1>7. ScreenIsOlder
  BY <1>2 DEF ClientInit, Init, ScreenIsOlder, Older, Current, NoVersion
<1> QED BY <1>1, <1>2, <1>3, <1>4, <1>6, <1>7 DEF ClientInv, LinkInv

LEMMA ClientRests == ClientInv /\ UNCHANGED systemVars => ClientInv'
<1> SUFFICES ASSUME ClientInv, UNCHANGED systemVars PROVE ClientInv'
  OBVIOUS
<1>1. /\ UNCHANGED vars
      /\ UNCHANGED <<conn, seen, outstanding, terminal, answers, cutOff, up, down, broken>>
  BY DEF systemVars, clientVars, wireVars
<1> USE HostRests
<1>2. ClientTypeOK' /\ OneSocket'
  BY <1>1 DEF ClientTypeOK, OneSocket
<1>3. ASSUME Linked PROVE SocketInv' /\ CopyInv' /\ AnswerInv' /\ SnapshotsInOrder'
  <2>1. SocketInv /\ CopyInv /\ AnswerInv /\ SnapshotsInOrder
    BY <1>3 DEF ClientInv, LinkInv
  <2>2. /\ GoingUp' = GoingUp /\ ComingDown' = ComingDown
        /\ Awaited' = Awaited /\ Pending' = Pending
    BY <1>1 DEF GoingUp, ComingDown, Awaited, Pending
  <2>3. SocketInv'
    BY <1>1, <2>1 DEF SocketInv, ClosedIsRetired, OldBeforeNew, AttachedIsServed, AttachComes,
       Queued, Committing
  <2>4. CopyInv'
    BY <1>1, <2>1, <2>2 DEF CopyInv, CopiesAreMeant, Meant, NotYetOnTheWire, OneCopy,
       CopyGoesUp, CopyWaits, CopyRuns, AnswerComes, RunsIntent, IsAnswer
  <2>5. AnswersToAttached' /\ RefusalsAreTrue' /\ AcksAreTrue' /\ FarewellIsLast'
    BY <1>1, <2>1, <2>2 DEF AnswerInv, AnswersToAttached, RefusalsAreTrue, AcksAreTrue,
       FarewellIsLast, IsAnswer, Negative, Positive
  <2>6. ResultFollows'
    BY <1>1, <2>1, <2>2 DEF AnswerInv, ResultFollows, ResultComes, Committing, IsAnswer, Positive
  <2>7. SnapshotsInOrder'
    BY <1>1, <2>1 DEF SnapshotsInOrder, Older, Current
  <2> QED BY <2>3, <2>4, <2>5, <2>6, <2>7 DEF AnswerInv
<1>4. Linked' = Linked
  BY <1>1 DEF Linked
<1> QED BY <1>1, <1>2, <1>3, <1>4, VerdictsRest DEF ClientInv, LinkInv

LEMMA ClientStep == ClientInv /\ [ClientNext]_systemVars => ClientInv'
<1> SUFFICES ASSUME ClientInv, [ClientNext]_systemVars PROVE ClientInv'
  OBVIOUS
<1>1. CASE Serves
  BY <1>1, ServesClient
<1>2. ASSUME NEW c \in Connections, ArrivesTooLate(c) PROVE ClientInv'
  BY <1>2, LateArrival
<1>3. CASE (\E c \in Connections : Break(c)) \/ ClientNotices
  BY <1>3, LinkLost
<1>4. ASSUME NEW c \in Connections, Connect(c) PROVE ClientInv'
  BY <1>4, NewSocket
<1>5. ASSUME NEW r \in Requests, NEW intent \in Intents, ClientSendIntent(r, intent)
      PROVE  ClientInv'
  BY <1>5, NewIntent
<1>6. CASE Receive
  BY <1>6, Receives
<1>7. CASE UNCHANGED systemVars
  BY <1>7, ClientRests
<1> QED BY <1>1, <1>2, <1>3, <1>4, <1>5, <1>6, <1>7 DEF ClientNext, Serves

\* However sockets break and requests are sent again, what the client waits
\* for, what travels and what the server holds of its intent fit together.
THEOREM ClientInvariant == ClientSpec => []ClientInv
<1> QED BY ClientStarts, ClientStep, PTL DEF ClientSpec

\* The client, its wires and its history keep their types.
THEOREM ClientTypeCorrect == ClientSpec => []ClientTypeOK
<1>1. ClientInv => ClientTypeOK
  BY DEF ClientInv
<1> QED BY <1>1, ClientInvariant, PTL

\* What sendIntent's caller is told: accepted means that the intent took effect
\* exactly once and its result is on the screen; refused that it never takes
\* effect, however often either was sent again over broken sockets, with one
\* exception: of the request that was open when the session turned the client
\* away for good the caller hears "refused" whether it took effect or not.
THEOREM VerdictsAreTruthful == ClientSpec => []VerdictsAreTrue
<1>1. ClientInv => VerdictsAreTrue
  BY ClientAssumption DEF ClientInv, VerdictInv, VerdictsAreKept, Dead, GateInv, HostIsSettled, VerdictsAreTrue
<1> QED BY <1>1, ClientInvariant, PTL

\* The step of ScreenNeverGoesBack.
Forward ==
  \/ seen'.revision > seen.revision
  \/ seen'.revision = seen.revision /\ seen'.control >= seen.control

LEMMA ScreenMoves == ClientInv /\ [ClientNext]_systemVars => [Forward]_seen
<1> SUFFICES ASSUME ClientInv, [ClientNext]_systemVars, seen' # seen PROVE Forward
  OBVIOUS
<1>1. Receive
  BY DEF ClientNext, ServerStep, Arrives, ArrivesTooLate, Break, ServerNotices, Connect,
     ClientNotices, ClientSendIntent, clientVars, systemVars
<1>2. seen'.revision \in Int /\ seen'.control \in Int /\ Older(seen, seen')
  BY <1>1, ReceivedScreen
<1>3. seen.revision \in Int /\ seen.control \in Int
  BY VersionsAreNumbers DEF ClientInv
<1> QED BY <1>2, <1>3 DEF Forward, Older

\* No snapshot takes the screen back to an older version, not even after a
\* reconnect.
THEOREM ScreenOnlyAdvances == ClientSpec => ScreenNeverGoesBack
<1>1. []ClientInv /\ [][ClientNext]_systemVars => [][Forward]_seen
  BY ScreenMoves, PTL
<1>2. [][Forward]_seen => ScreenNeverGoesBack
  BY PTL DEF ScreenNeverGoesBack, Forward
<1> QED BY <1>1, <1>2, ClientInvariant, PTL DEF ClientSpec
=============================================================================
