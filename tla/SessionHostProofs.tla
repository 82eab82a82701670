------------------------- MODULE SessionHostProofs -------------------------
(***************************************************************************)
(* Proofs about a live session on the server, for any number of guests,    *)
(* sockets and requests, any queue and any guard of the pump.              *)
(*                                                                         *)
(* HostInv is inductive.  Besides the types it says what an operation that *)
(* awaits may count on when it goes on (nothing it read can have changed   *)
(* but the row), how journal, seats and effects of requests belong         *)
(* together, and how sockets and connections do.                           *)
(***************************************************************************)
EXTENDS SessionHost, TLAPS

-----------------------------------------------------------------------------
(* The inductive invariant *)

\* What is shown of a running adventure is stored; the server acts in an
\* adventure only.
ShownIsStored ==
  /\ core.gen <= core.revision
  /\ core.server => core.adventure
  /\ core.adventure => saved = core.gen

\* A transition that waits for its write starts from the state still shown.
CandidateFollows ==
  Committing =>
    LET next == running.candidate IN
    /\ ~retired
    /\ next.revision = core.revision + 1
    /\ next.gen \in {core.gen, core.gen + 1}
    /\ core.adventure => next.adventure
    /\ next.server => next.adventure
    /\ next.adventure /\ next.gen = core.gen => core.adventure

\* An intent that waits for its write is one of a seated player that was not
\* settled before; only the host removes guests.
IntentIsFresh ==
  running.stage = "intent" =>
    LET p == Owner[running.conn] IN
    /\ p \in seated
    /\ journal[p][running.env.id] = NoEntry
    /\ running.env.intent = "remove-offline-guest" => p = Host

\* The server plays on in an adventure, and each of its steps is gameplay.
PumpPlays ==
  running.stage = "pump" =>
    core.adventure /\ running.candidate.gen = core.gen + 1

\* What took effect is in the journal, unless its player was removed; whoever
\* was removed does not come back under the same identity.
EffectsAreJournalled ==
  /\ seated \subseteq issued
  /\ \A p \in Players, r \in Requests :
       /\ p \in seated /\ journal[p][r] = NoEntry => applied[p][r] = 0
       /\ p \notin issued => applied[p][r] = 0

\* A join waits once for each identity, before that was handed out.
JoinsAreNew ==
  \A i \in Queued("join") :
    /\ queue[i].player \notin issued
    /\ \A j \in Queued("join") : queue[j].player = queue[i].player => i = j

\* Only a closed socket is left.
DetachedAreClosed == \A i \in Queued("detach") : socket[queue[i].conn] = "closed"

RetiredIsEmpty == retired => \A p \in Players : connections[p] = NoConn

SocketsAreServed == OpenSocketIsServed /\ DetachedAreClosed /\ RetiredIsEmpty

SettledInv ==
  ShownIsStored /\ CandidateFollows /\ IntentIsFresh /\ PumpPlays /\ EffectsAreJournalled

HostInv == TypeOK /\ SettledInv /\ JoinsAreNew /\ SocketsAreServed

-----------------------------------------------------------------------------
(* The queue *)

\* The next operation leaves the queue; the others move up.
LEMMA Popped ==
  ASSUME TypeOK, NEW kind, Starts(kind)
  PROVE  /\ running = Idle
         /\ queue' \in Seq(Operations) /\ Len(queue') <= MaxQueue
         /\ 1 \in DOMAIN queue /\ Head(queue) = queue[1]
         /\ Head(queue) \in Operations /\ Head(queue).kind = kind
         /\ \A i \in DOMAIN queue' : i + 1 \in DOMAIN queue /\ queue'[i] = queue[i + 1]
<1>1. queue \in Seq(Operations) /\ Len(queue) <= MaxQueue /\ MaxQueue \in Nat
  BY HostAssumption DEF TypeOK
<1>2. queue # <<>> /\ queue' = Tail(queue) /\ Head(queue).kind = kind /\ running = Idle
  BY DEF Starts
<1>3. Len(queue) \in Nat \ {0}
  BY <1>1, <1>2
<1>4. queue' \in Seq(Operations) /\ Len(queue') = Len(queue) - 1
  BY <1>1, <1>2
<1>5. \A i \in DOMAIN queue' : i + 1 \in DOMAIN queue /\ queue'[i] = queue[i + 1]
  BY <1>1, <1>2, <1>3, <1>4
<1>6. 1 \in DOMAIN queue /\ Head(queue) = queue[1] /\ Head(queue) \in Operations
  BY <1>1, <1>3
<1> QED BY <1>1, <1>2, <1>3, <1>4, <1>5, <1>6

\* An operation joins the end of the queue.
LEMMA Pushed ==
  ASSUME TypeOK, NEW op \in Operations, Enqueue(op)
  PROVE  /\ queue' \in Seq(Operations) /\ Len(queue') <= MaxQueue
         /\ DOMAIN queue' = DOMAIN queue \union {Len(queue) + 1}
         /\ \A i \in DOMAIN queue : i # Len(queue) + 1 /\ queue'[i] = queue[i]
         /\ queue'[Len(queue) + 1] = op
<1>1. queue \in Seq(Operations) /\ MaxQueue \in Nat
  BY HostAssumption DEF TypeOK
<1>2. Len(queue) < MaxQueue /\ queue' = Append(queue, op)
  BY DEF Enqueue
<1>3. queue' \in Seq(Operations) /\ Len(queue') = Len(queue) + 1
  BY <1>1, <1>2
<1> QED BY <1>1, <1>2, <1>3

\* What an operation of each kind carries.
LEMMA OperationFields ==
  ASSUME NEW op \in Operations
  PROVE  /\ op.kind = "join" => op.player \in Guests
         /\ op.kind \in {"attach", "detach", "intent"} => op.conn \in Connections
         /\ op.kind = "intent" => op.env \in Envelopes
BY DEF Operations

\* What an operation that awaits knows.
LEMMA AwaitFields ==
  ASSUME TypeOK, Committing
  PROVE  /\ running.candidate \in States
         /\ running.conn \in Connections /\ Owner[running.conn] \in Players
         /\ running.stage = "intent" => running.env \in Envelopes
         /\ running.stage = "pump" => running.count \in 1..MaxPump
BY HostAssumption DEF TypeOK, Committing, Idle

-----------------------------------------------------------------------------
(* What most steps leave alone *)

LEMMA SettledUntouched ==
  ASSUME SettledInv,
         UNCHANGED <<core, running, saved, retired, journal, seated, issued, applied>>
  PROVE  SettledInv'
BY DEF SettledInv, ShownIsStored, CandidateFollows, IntentIsFresh, PumpPlays,
       EffectsAreJournalled, Committing

LEMMA JoinsPopped ==
  ASSUME TypeOK, JoinsAreNew, NEW kind, Starts(kind),
         issued' \subseteq issued \union
           (IF kind = "join" THEN {Head(queue).player} ELSE {})
  PROVE  JoinsAreNew'
<1>1. SUFFICES ASSUME NEW i \in DOMAIN queue', queue'[i].kind = "join"
               PROVE  /\ queue'[i].player \notin issued'
                      /\ \A j \in DOMAIN queue' :
                           queue'[j].kind = "join" /\ queue'[j].player = queue'[i].player
                             => i = j
  BY DEF JoinsAreNew, Queued
<1>2. DOMAIN queue' \subseteq Int
  BY Popped
<1>3. /\ i + 1 \in Queued("join") /\ queue'[i] = queue[i + 1]
      /\ \A j \in DOMAIN queue' : queue'[j].kind = "join" =>
           j + 1 \in Queued("join") /\ queue'[j] = queue[j + 1]
  BY <1>1, Popped DEF Queued
<1>4. queue'[i].player \notin issued
  BY <1>3 DEF JoinsAreNew
<1>5. ASSUME kind = "join" PROVE queue'[i].player # Head(queue).player
  <2>1. 1 \in Queued("join") /\ Head(queue) = queue[1]
    BY <1>5, Popped DEF Queued
  <2>2. i + 1 # 1
    BY Popped
  <2> QED BY <2>1, <2>2, <1>3 DEF JoinsAreNew
<1>6. ASSUME NEW j \in DOMAIN queue', queue'[j].kind = "join",
             queue'[j].player = queue'[i].player
      PROVE  i = j
  <2>1. i + 1 = j + 1
    BY <1>3, <1>6 DEF JoinsAreNew
  <2> QED BY <2>1, <1>2
<1> QED BY <1>4, <1>5, <1>6

LEMMA JoinsPushed ==
  ASSUME TypeOK, JoinsAreNew, NEW op \in Operations, Enqueue(op), issued' = issued,
         op.kind = "join" => /\ op.player \notin issued
                             /\ \A i \in Queued("join") : queue[i].player # op.player
  PROVE  JoinsAreNew'
BY Pushed DEF JoinsAreNew, Queued

LEMMA JoinsUntouched ==
  ASSUME JoinsAreNew, UNCHANGED <<queue, issued>>
  PROVE  JoinsAreNew'
BY DEF JoinsAreNew, Queued

LEMMA DetachedPopped ==
  ASSUME TypeOK, DetachedAreClosed, NEW kind, Starts(kind),
         \A c \in Connections : socket[c] = "closed" => socket'[c] = "closed"
  PROVE  DetachedAreClosed'
<1>1. SUFFICES ASSUME NEW i \in DOMAIN queue', queue'[i].kind = "detach"
               PROVE  socket'[queue'[i].conn] = "closed"
  BY DEF DetachedAreClosed, Queued
<1>2. i + 1 \in Queued("detach") /\ queue'[i] = queue[i + 1]
  BY <1>1, Popped DEF Queued
<1>3. queue[i + 1] \in Operations
  BY <1>2 DEF TypeOK, Queued
<1>4. queue'[i].conn \in Connections
  BY <1>1, <1>2, <1>3, OperationFields
<1> QED BY <1>2, <1>4 DEF DetachedAreClosed

LEMMA DetachedPushed ==
  ASSUME TypeOK, DetachedAreClosed, NEW op \in Operations, Enqueue(op),
         \A c \in Connections : socket[c] = "closed" => socket'[c] = "closed",
         op.kind = "detach" => socket'[op.conn] = "closed"
  PROVE  DetachedAreClosed'
<1>1. SUFFICES ASSUME NEW i \in DOMAIN queue', queue'[i].kind = "detach"
               PROVE  socket'[queue'[i].conn] = "closed"
  BY DEF DetachedAreClosed, Queued
<1>2. CASE i \in DOMAIN queue
  <2>1. i \in Queued("detach") /\ queue'[i] = queue[i] /\ queue[i] \in Operations
    BY <1>1, <1>2, Pushed DEF Queued, TypeOK
  <2>2. queue[i].conn \in Connections
    BY <1>1, <2>1, OperationFields
  <2> QED BY <2>1, <2>2 DEF DetachedAreClosed
<1>3. CASE i \notin DOMAIN queue
  BY <1>1, <1>3, Pushed
<1> QED BY <1>2, <1>3

LEMMA DetachedUntouched ==
  ASSUME TypeOK, DetachedAreClosed, queue' = queue,
         \A c \in Connections : socket[c] = "closed" => socket'[c] = "closed"
  PROVE  DetachedAreClosed'
<1>1. SUFFICES ASSUME NEW i \in Queued("detach")
               PROVE  socket'[queue[i].conn] = "closed"
  BY DEF DetachedAreClosed, Queued
<1>2. queue[i] \in Operations /\ queue[i].kind = "detach"
  BY DEF Queued, TypeOK
<1> QED BY <1>2, OperationFields DEF DetachedAreClosed

SocketStages == {"new", "hello", "late", "open", "closing", "closed"}

LEMMA DroppedValues ==
  ASSUME socket \in [Connections -> SocketStages], NEW closing,
         NEW c \in Connections
  PROVE  /\ Dropped(socket, closing) \in [Connections -> SocketStages]
         /\ socket[c] = "closed" => Dropped(socket, closing)[c] = "closed"
         /\ Dropped(socket, closing)[c] = "open" => socket[c] = "open" /\ c \notin closing
BY DEF Dropped, SocketStages

\* A retirement drops every socket that was served.
LEMMA RetirementIsClean ==
  ASSUME TypeOK, OpenSocketIsServed, NEW farewell, RetireInQueue(farewell)
  PROVE  /\ retired' = TRUE
         /\ connections' \in [Players -> Connections \union {NoConn}]
         /\ socket' \in [Connections -> SocketStages]
         /\ \A c \in Connections : socket[c] = "closed" => socket'[c] = "closed"
         /\ OpenSocketIsServed' /\ RetiredIsEmpty'
<1>1. /\ retired' = TRUE /\ connections' = [p \in Players |-> NoConn]
      /\ socket' = Dropped(socket, Live(connections))
  BY DEF RetireInQueue
<1>2. socket \in [Connections -> SocketStages]
  BY DEF TypeOK, SocketStages
<1>3. ASSUME NEW c \in Connections PROVE socket'[c] # "open"
  <2>1. SUFFICES ASSUME socket'[c] = "open" PROVE FALSE
    OBVIOUS
  <2>2. socket[c] = "open" /\ c \notin Live(connections)
    BY <1>1, <1>2, <2>1, DroppedValues
  <2>3. connections[Owner[c]] = c /\ Owner[c] \in Players /\ c # NoConn
    BY <2>2, HostAssumption DEF OpenSocketIsServed
  <2> QED BY <2>2, <2>3 DEF Live
<1>4. /\ socket' \in [Connections -> SocketStages]
      /\ \A c \in Connections : socket[c] = "closed" => socket'[c] = "closed"
  <2>1. CASE Connections = {}
    BY <2>1, <1>1 DEF Dropped
  <2>2. CASE Connections # {}
    BY <2>2, <1>1, <1>2, DroppedValues
  <2> QED BY <2>1, <2>2
<1> QED BY <1>1, <1>3, <1>4 DEF OpenSocketIsServed, RetiredIsEmpty

-----------------------------------------------------------------------------
(* Each step keeps the invariant *)

LEMMA HostStarts == Init => HostInv
<1> SUFFICES ASSUME Init PROVE HostInv
  OBVIOUS
<1> USE HostAssumption DEF Init
<1>1. TypeOK
  <2>1. PICK restored \in BOOLEAN :
          core = [revision |-> 0, gen |-> 0, adventure |-> restored, server |-> FALSE]
    OBVIOUS
  <2>0. core \in States
    <3> HIDE DEF Init
    <3> QED BY <2>1 DEF States
  <2>2. /\ journal \in [Players -> [Requests -> {NoEntry} \union Entries]]
        /\ connections \in [Players -> Connections \union {NoConn}]
        /\ applied \in [Players -> [Requests -> Nat]]
    OBVIOUS
  <2>3. queue \in Seq(Operations) /\ Len(queue) <= MaxQueue
    OBVIOUS
  <2>4. seated \subseteq Players /\ digests \subseteq Players /\ issued \subseteq Players
    BY DEF Players
  <2>6. retired \in BOOLEAN /\ running = Idle
    OBVIOUS
  <2>7. control = 0 /\ held = 1 /\ row = 1 /\ saved = 0 /\ MaxRevision \in Nat
    OBVIOUS
  <2>5. socket \in [Connections -> {"new", "hello", "late", "open", "closing", "closed"}]
    OBVIOUS
  <2> HIDE DEF Init
  <2> QED BY <2>0, <2>2, <2>3, <2>4, <2>5, <2>6, <2>7 DEF TypeOK
<1>2. SettledInv
  BY DEF SettledInv, ShownIsStored, CandidateFollows, IntentIsFresh, PumpPlays,
         EffectsAreJournalled, Committing, Idle
<1>3. JoinsAreNew /\ SocketsAreServed
  BY DEF JoinsAreNew, SocketsAreServed, OpenSocketIsServed, DetachedAreClosed,
         RetiredIsEmpty, Queued
<1> QED BY <1>1, <1>2, <1>3 DEF HostInv

LEMMA JoinKeeps == HostInv /\ RunJoin => HostInv'
<1> SUFFICES ASSUME HostInv, RunJoin PROVE HostInv'
  OBVIOUS
<1> USE DEF HostInv
<1>1. Starts("join")
  BY DEF RunJoin
<1> DEFINE p == Head(queue).player
<1>2. p \in Guests /\ p \in Players /\ p \notin issued
  <2>1. Head(queue) \in Operations /\ 1 \in Queued("join") /\ Head(queue) = queue[1]
    BY <1>1, Popped DEF Queued
  <2> QED BY <2>1, <1>1, OperationFields DEF JoinsAreNew, Players, Starts
<1>3. UNCHANGED <<running, held, row, saved, socket, applied, connections, control,
                  journal, retired>>
  BY DEF RunJoin, durableVars, hostVars
<1>4. CASE UNCHANGED <<core, seated, digests, issued>>
  <2>1. TypeOK'
    BY <1>1, <1>3, <1>4, Popped DEF TypeOK
  <2>2. SettledInv'
    BY <1>3, <1>4, SettledUntouched
  <2>3. JoinsAreNew' /\ DetachedAreClosed'
    BY <1>1, <1>3, <1>4, JoinsPopped, DetachedPopped DEF SocketsAreServed
  <2>4. OpenSocketIsServed' /\ RetiredIsEmpty'
    BY <1>3 DEF SocketsAreServed, OpenSocketIsServed, RetiredIsEmpty
  <2> QED BY <2>1, <2>2, <2>3, <2>4 DEF SocketsAreServed
<1>5. CASE /\ core.revision < MaxRevision
           /\ core' = [core EXCEPT !.revision = @ + 1]
           /\ seated' = seated \union {p} /\ digests' = digests \union {p}
           /\ issued' = issued \union {p}
  <2>1. core' \in States /\ core'.gen = core.gen /\ core'.adventure = core.adventure
        /\ core'.server = core.server /\ core'.revision = core.revision + 1
    <3>1. core \in States /\ MaxRevision \in Nat
      BY HostAssumption DEF TypeOK
    <3>2. core' = [core EXCEPT !.revision = @ + 1] /\ core.revision < MaxRevision
      BY <1>5
    <3> QED BY ONLY <3>1, <3>2 DEF States
  <2>2. TypeOK'
    BY <1>1, <1>2, <1>3, <1>5, <2>1, Popped DEF TypeOK
  <2>3. running = Idle /\ running' = Idle
    BY <1>1, <1>3, Popped
  <2>4. ShownIsStored' /\ CandidateFollows' /\ IntentIsFresh' /\ PumpPlays'
    BY <1>3, <2>1, <2>3 DEF SettledInv, ShownIsStored, CandidateFollows, IntentIsFresh,
         PumpPlays, Committing, Idle, TypeOK, States
  <2>5. EffectsAreJournalled'
    BY <1>2, <1>3, <1>5 DEF SettledInv, EffectsAreJournalled
  <2>6. JoinsAreNew' /\ DetachedAreClosed'
    BY <1>1, <1>3, <1>5, JoinsPopped, DetachedPopped DEF SocketsAreServed
  <2>7. OpenSocketIsServed' /\ RetiredIsEmpty'
    BY <1>3 DEF SocketsAreServed, OpenSocketIsServed, RetiredIsEmpty
  <2> QED BY <2>2, <2>4, <2>5, <2>6, <2>7 DEF SettledInv, SocketsAreServed
<1> QED BY <1>4, <1>5 DEF RunJoin, hostVars

LEMMA AttachKeeps == HostInv /\ RunAttach => HostInv'
<1> SUFFICES ASSUME HostInv, RunAttach PROVE HostInv'
  OBVIOUS
<1> USE DEF HostInv
<1> DEFINE c == Head(queue).conn
           p == Owner[c]
<1>1. Starts("attach")
  BY DEF RunAttach
<1>2. c \in Connections /\ p \in Players /\ c # NoConn
  BY <1>1, Popped, OperationFields, HostAssumption DEF Starts
<1>3. UNCHANGED <<core, seated, digests, journal, retired, running, held, row, saved,
                  issued, applied>>
  BY DEF RunAttach, hostVars, durableVars
<1>4. SettledInv' /\ JoinsAreNew'
  BY <1>1, <1>3, SettledUntouched, JoinsPopped
<1>5. socket \in [Connections -> SocketStages]
  BY DEF TypeOK, SocketStages
<1>6. CASE Refused(p) /\ socket' = [socket EXCEPT ![c] = "closed"] /\ UNCHANGED hostVars
  <2>1. socket' \in [Connections -> SocketStages]
    BY <1>5, <1>6 DEF SocketStages
  <2>2. \A d \in Connections :
          /\ socket[d] = "closed" => socket'[d] = "closed"
          /\ socket'[d] = "open" => socket[d] = "open"
    BY <1>5, <1>6
  <2>3. UNCHANGED <<connections, control>>
    BY <1>6 DEF hostVars
  <2>4. TypeOK'
    BY <1>1, <1>3, <2>1, <2>3, Popped DEF TypeOK, SocketStages
  <2>5. SocketsAreServed'
    BY <1>1, <1>3, <2>2, <2>3, DetachedPopped
       DEF SocketsAreServed, OpenSocketIsServed, RetiredIsEmpty
  <2> QED BY <1>4, <2>4, <2>5
<1>7. CASE /\ ~Refused(p)
           /\ connections' = [connections EXCEPT ![p] = c]
           /\ control' = IF connections[p] = NoConn THEN control + 1 ELSE control
           /\ socket' = [Dropped(socket, {connections[p]}) EXCEPT
                           ![c] = CASE @ = "hello" -> "open"
                                    [] @ = "late" -> "closing"
                                    [] OTHER -> @]
  <2> DEFINE dropped == Dropped(socket, {connections[p]})
  <2>1. dropped \in [Connections -> SocketStages]
    BY <1>2, <1>5, DroppedValues
  <2>2. ASSUME NEW d \in Connections
        PROVE  /\ d # c => socket'[d] = dropped[d]
               /\ socket'[c] \in SocketStages
               /\ dropped[c] = "closed" => socket'[c] = "closed"
    <3> HIDE DEF dropped
    <3> QED BY <1>2, <1>7, <2>1 DEF SocketStages, dropped
  <2>3. socket' \in [Connections -> SocketStages]
    <3> HIDE DEF dropped
    <3> QED BY <1>2, <1>7, <2>1, <2>2 DEF dropped
  <2>4. \A d \in Connections : socket[d] = "closed" => socket'[d] = "closed"
    BY <1>2, <1>5, <2>2, DroppedValues
  <2>5. TypeOK'
    <3>1. connections' \in [Players -> Connections \union {NoConn}] /\ control' \in Nat
      BY <1>2, <1>7 DEF TypeOK
    <3> QED BY <1>1, <1>3, <2>3, <3>1, Popped DEF TypeOK, SocketStages
  <2>6. OpenSocketIsServed'
    <3> SUFFICES ASSUME NEW d \in Connections, socket'[d] = "open"
                 PROVE  connections'[Owner[d]] = d
      BY DEF OpenSocketIsServed
    <3>1. CASE d = c
      BY <1>2, <1>7, <3>1 DEF TypeOK
    <3>2. CASE d # c
      <4>1. socket[d] = "open" /\ d # connections[p]
        BY <1>5, <2>2, <3>2, DroppedValues
      <4>2. connections[Owner[d]] = d
        BY <4>1 DEF SocketsAreServed, OpenSocketIsServed
      <4>3. Owner[d] # p
        BY <4>1, <4>2
      <4> QED BY <1>7, <4>2, <4>3, HostAssumption DEF TypeOK
    <3> QED BY <3>1, <3>2
  <2>7. DetachedAreClosed' /\ RetiredIsEmpty'
    BY <1>1, <1>3, <1>7, <2>4, DetachedPopped DEF SocketsAreServed, RetiredIsEmpty, Refused
  <2> QED BY <1>4, <2>5, <2>6, <2>7 DEF SocketsAreServed
<1> QED BY <1>6, <1>7 DEF RunAttach

LEMMA DetachKeeps == HostInv /\ RunDetach => HostInv'
<1> SUFFICES ASSUME HostInv, RunDetach PROVE HostInv'
  OBVIOUS
<1> USE DEF HostInv
<1> DEFINE c == Head(queue).conn
           p == Owner[c]
<1>1. Starts("detach")
  BY DEF RunDetach
<1>2. c \in Connections /\ p \in Players /\ socket[c] = "closed"
  <2>1. 1 \in Queued("detach") /\ Head(queue) = queue[1]
    BY <1>1, Popped DEF Queued
  <2> QED BY <1>1, <2>1, Popped, OperationFields, HostAssumption
          DEF Starts, SocketsAreServed, DetachedAreClosed
<1>3. UNCHANGED <<core, seated, digests, journal, retired, running, held, row, saved,
                  socket, issued, applied>>
  BY DEF RunDetach, hostVars, durableVars
<1>4. SettledInv' /\ JoinsAreNew' /\ DetachedAreClosed'
  BY <1>1, <1>3, SettledUntouched, JoinsPopped, DetachedPopped DEF SocketsAreServed
<1>5. CASE UNCHANGED hostVars
  <2>1. UNCHANGED <<connections, control>>
    BY <1>5 DEF hostVars
  <2>2. TypeOK'
    BY <1>1, <1>3, <2>1, Popped DEF TypeOK
  <2> QED BY <1>3, <1>4, <2>1, <2>2 DEF SocketsAreServed, OpenSocketIsServed, RetiredIsEmpty
<1>6. CASE /\ connections[p] = c
           /\ connections' = [connections EXCEPT ![p] = NoConn]
           /\ control' = control + 1
  <2>1. TypeOK'
    <3>1. connections' \in [Players -> Connections \union {NoConn}] /\ control' \in Nat
      BY <1>2, <1>6 DEF TypeOK
    <3> QED BY <1>1, <1>3, <3>1, Popped DEF TypeOK
  <2>2. OpenSocketIsServed'
    <3> SUFFICES ASSUME NEW d \in Connections, socket[d] = "open"
                 PROVE  connections'[Owner[d]] = d
      BY <1>3 DEF OpenSocketIsServed
    <3>1. connections[Owner[d]] = d /\ d # c
      BY <1>2 DEF SocketsAreServed, OpenSocketIsServed
    <3> QED BY <1>6, <3>1, HostAssumption DEF TypeOK
  <2>3. RetiredIsEmpty'
    BY <1>3, <1>6 DEF SocketsAreServed, RetiredIsEmpty, TypeOK
  <2> QED BY <1>4, <2>1, <2>2, <2>3 DEF SocketsAreServed
<1> QED BY <1>5, <1>6 DEF RunDetach

LEMMA RetireKeeps == HostInv /\ RunRetire => HostInv'
<1> SUFFICES ASSUME HostInv, RunRetire PROVE HostInv'
  OBVIOUS
<1> USE DEF HostInv
<1>1. Starts("retire") /\ running = Idle
  BY DEF RunRetire, Starts
<1>2. UNCHANGED <<core, seated, digests, control, journal, running, held, row, saved,
                  issued, applied>>
  BY DEF RunRetire, durableVars
<1>3. JoinsAreNew'
  BY <1>1, <1>2, JoinsPopped
<1>4. CASE UNCHANGED <<retired, connections, socket>>
  <2>1. TypeOK'
    BY <1>1, <1>2, <1>4, Popped DEF TypeOK
  <2>2. SettledInv' /\ DetachedAreClosed'
    BY <1>1, <1>2, <1>4, SettledUntouched, DetachedPopped DEF SocketsAreServed
  <2> QED BY <1>3, <1>4, <2>1, <2>2 DEF SocketsAreServed, OpenSocketIsServed, RetiredIsEmpty
<1>5. CASE RetireInQueue(Quiet)
  <2>1. /\ retired' = TRUE
        /\ connections' \in [Players -> Connections \union {NoConn}]
        /\ socket' \in [Connections -> SocketStages]
        /\ \A c \in Connections : socket[c] = "closed" => socket'[c] = "closed"
        /\ OpenSocketIsServed' /\ RetiredIsEmpty'
    BY <1>5, RetirementIsClean DEF SocketsAreServed
  <2>2. TypeOK'
    BY <1>1, <1>2, <2>1, Popped DEF TypeOK, SocketStages
  <2>3. SettledInv'
    BY <1>1, <1>2 DEF SettledInv, ShownIsStored, CandidateFollows, IntentIsFresh, PumpPlays,
       EffectsAreJournalled, Committing, Idle
  <2>4. DetachedAreClosed'
    BY <1>1, <2>1, DetachedPopped DEF SocketsAreServed
  <2> QED BY <1>3, <2>1, <2>2, <2>3, <2>4 DEF SocketsAreServed
<1> QED BY <1>4, <1>5 DEF RunRetire

\* The candidate of an accepted intent is one transition further.
LEMMA CandidateFields ==
  ASSUME TypeOK, ShownIsStored, NEW p, NEW intent, MayAccept(p, intent),
         NEW next \in Candidates(intent)
  PROVE  /\ next \in States
         /\ next.revision = core.revision + 1
         /\ next.gen \in {core.gen, core.gen + 1} /\ next.gen <= next.revision
         /\ core.adventure => next.adventure
         /\ next.server => next.adventure
         /\ next.adventure /\ next.gen = core.gen => core.adventure
<1>1. PICK turn \in IF intent \in {"play", "resume"} /\ core.revision + 1 < MaxRevision
                      THEN BOOLEAN ELSE {core.server} :
        next = [revision |-> core.revision + 1,
                gen |-> IF intent \in {"prepare", "play"} THEN core.gen + 1 ELSE core.gen,
                adventure |-> core.adventure \/ intent = "play",
                server |-> turn]
  BY DEF Candidates
<1>2. /\ core.revision \in 0..MaxRevision /\ core.gen \in 0..MaxRevision
      /\ core.adventure \in BOOLEAN /\ core.server \in BOOLEAN
      /\ MaxRevision \in Nat
  BY HostAssumption DEF TypeOK, States
<1>3. /\ core.revision < MaxRevision /\ (intent # "play" => ~core.server)
      /\ intent = "resume" => core.adventure
  BY DEF MayAccept
<1>4. turn \in BOOLEAN /\ (turn => core.server \/ intent \in {"play", "resume"})
  BY <1>1, <1>2
<1>5. core.gen <= core.revision /\ (core.server => core.adventure)
  BY DEF ShownIsStored
<1>6. /\ next.revision = core.revision + 1 /\ next.server = turn
      /\ next.gen = IF intent \in {"prepare", "play"} THEN core.gen + 1 ELSE core.gen
      /\ next.adventure = (core.adventure \/ intent = "play")
  BY <1>1
<1>7. next \in States
  <2>1. core.revision + 1 \in 0..MaxRevision
    BY <1>2, <1>3
  <2>2. (IF intent \in {"prepare", "play"} THEN core.gen + 1 ELSE core.gen) \in 0..MaxRevision
    BY <1>2, <1>3, <1>5
  <2>3. (core.adventure \/ intent = "play") \in BOOLEAN
    OBVIOUS
  <2> QED BY <1>1, <1>4, <2>1, <2>2, <2>3 DEF States
<1>8. next.gen \in {core.gen, core.gen + 1} /\ next.gen <= next.revision
  BY <1>2, <1>5, <1>6
<1>9. next.adventure /\ next.gen = core.gen => core.adventure
  BY <1>2, <1>6
<1> QED BY <1>3, <1>4, <1>5, <1>6, <1>7, <1>8, <1>9

LEMMA IntentKeeps == HostInv /\ RunIntent => HostInv'
<1> SUFFICES ASSUME HostInv, RunIntent PROVE HostInv'
  OBVIOUS
<1> USE DEF HostInv
<1> DEFINE c == Head(queue).conn
           p == Owner[c]
           env == Head(queue).env
<1>1. Starts("intent") /\ running = Idle
  BY DEF RunIntent, Starts
<1>2. c \in Connections /\ p \in Players /\ env \in Envelopes
  BY <1>1, Popped, OperationFields, HostAssumption DEF Starts
<1>3. UNCHANGED <<core, seated, digests, connections, control, retired, held, row, saved,
                  socket, issued, applied>>
  BY DEF RunIntent, durableVars
<1>4. JoinsAreNew' /\ SocketsAreServed'
  BY <1>1, <1>3, JoinsPopped, DetachedPopped
     DEF SocketsAreServed, OpenSocketIsServed, RetiredIsEmpty
<1>5. CASE UNCHANGED <<journal, running>>
  <2>1. TypeOK'
    BY <1>1, <1>3, <1>5, Popped DEF TypeOK
  <2>2. SettledInv'
    BY <1>3, <1>5, SettledUntouched
  <2> QED BY <1>4, <2>1, <2>2
<1>6. CASE ~Known(p, env) /\ Remember(p, env, FALSE, core.revision) /\ UNCHANGED running
  <2> DEFINE entry == [accepted |-> FALSE, revision |-> core.revision, env |-> env]
  <2>1. entry \in Entries /\ entry # NoEntry /\ env.id \in Requests
    <3>1. core.revision \in 0..MaxRevision
      BY DEF TypeOK, States
    <3>2. entry \in Entries
      BY <1>2, <3>1 DEF Entries
    <3>3. entry.revision = core.revision /\ NoEntry.revision = -1
      BY DEF NoEntry
    <3>4. MaxRevision \in Nat
      BY HostAssumption
    <3> QED BY <1>2, <3>1, <3>2, <3>3, <3>4 DEF Envelopes
  <2>2. journal' = [journal EXCEPT ![p] = [journal[p] EXCEPT ![env.id] = entry]]
    BY <1>6 DEF Remember
  <2> HIDE DEF entry
  <2>3. journal' \in [Players -> [Requests -> {NoEntry} \union Entries]]
    BY <1>2, <2>1, <2>2 DEF TypeOK
  <2>4. TypeOK'
    BY <1>1, <1>3, <1>6, <2>3, Popped DEF TypeOK
  <2>5. \A q \in Players, r \in Requests :
          journal'[q][r] = NoEntry => journal[q][r] = NoEntry
    BY <1>2, <2>1, <2>2 DEF TypeOK
  <2>6. EffectsAreJournalled'
    BY <1>3, <2>5 DEF SettledInv, EffectsAreJournalled
  <2>7. ShownIsStored' /\ CandidateFollows' /\ IntentIsFresh' /\ PumpPlays'
    BY <1>1, <1>3, <1>6 DEF SettledInv, ShownIsStored, CandidateFollows, IntentIsFresh,
         PumpPlays, Committing, Idle
  <2> QED BY <1>4, <2>4, <2>6, <2>7 DEF SettledInv
<1>7. CASE ~retired /\ connections[p] = c /\ AcceptIntent(p, env)
  <2>1. MayAccept(p, env.intent) /\ ~Known(p, env) /\ journal' = journal
    BY <1>7 DEF AcceptIntent
  <2>2. PICK next \in Candidates(env.intent) :
          running' = [stage |-> "intent", conn |-> c, env |-> env, candidate |-> next]
    BY <1>7 DEF AcceptIntent
  <2>3. /\ next \in States
        /\ next.revision = core.revision + 1
        /\ next.gen \in {core.gen, core.gen + 1} /\ next.gen <= next.revision
        /\ core.adventure => next.adventure
        /\ next.server => next.adventure
        /\ next.adventure /\ next.gen = core.gen => core.adventure
    BY <2>1, <2>2, CandidateFields DEF SettledInv
  <2>4. /\ running'.stage = "intent" /\ running'.conn = c /\ running'.env = env
        /\ running'.candidate = next
    BY <2>2
  <2>5. TypeOK'
    <3>1. running' \in [stage : {"intent"}, conn : Connections, env : Envelopes,
                        candidate : States]
      BY <1>2, <2>2, <2>3
    <3> QED BY <1>1, <1>3, <2>1, <3>1, Popped DEF TypeOK
  <2>6. ShownIsStored' /\ CandidateFollows' /\ PumpPlays'
    BY <1>3, <1>7, <2>3, <2>4
       DEF SettledInv, ShownIsStored, CandidateFollows, PumpPlays, Committing
  <2>7. IntentIsFresh'
    BY <1>3, <2>1, <2>4 DEF IntentIsFresh, MayAccept, Known, Entry
  <2>8. EffectsAreJournalled'
    BY <1>3, <2>1 DEF SettledInv, EffectsAreJournalled
  <2> QED BY <1>4, <2>5, <2>6, <2>7, <2>8 DEF SettledInv
<1>8. \/ DropStaleConnection(p, c)
      \/ ReplayKnown(p, env) \/ RefuseIntent(p, env)
      \/ ~retired /\ connections[p] = c /\ AcceptIntent(p, env)
  BY DEF RunIntent
<1>9. DropStaleConnection(p, c) \/ ReplayKnown(p, env) => UNCHANGED <<journal, running>>
  BY DEF DropStaleConnection, ReplayKnown
<1>10. RefuseIntent(p, env) =>
         ~Known(p, env) /\ Remember(p, env, FALSE, core.revision) /\ UNCHANGED running
  BY DEF RefuseIntent
<1> QED BY <1>5, <1>6, <1>7, <1>8, <1>9, <1>10

\* A write that lands stores the candidate; none is needed where nothing that
\* is kept has changed.
LEMMA LandingStores ==
  ASSUME TypeOK, SettledInv, Committing, WriteLands
  PROVE  /\ held' \in Nat /\ row' \in Nat /\ saved' \in 0..MaxRevision
         /\ saved' = IF running.candidate.adventure THEN running.candidate.gen ELSE saved
<1>1. running.candidate \in States
  BY AwaitFields
<1>2. core.adventure => saved = core.gen
  BY DEF SettledInv, ShownIsStored
<1>3. running.candidate.adventure /\ running.candidate.gen = core.gen => core.adventure
  BY DEF SettledInv, CandidateFollows
<1>4. held \in Nat /\ row \in Nat /\ saved \in 0..MaxRevision
  BY DEF TypeOK
<1>5. CASE NeedsWrite
  BY <1>1, <1>4, <1>5 DEF WriteLands, NeedsWrite, States
<1>6. CASE ~NeedsWrite
  BY <1>1, <1>2, <1>3, <1>4, <1>6 DEF WriteLands, NeedsWrite, durableVars
<1> QED BY <1>5, <1>6

\* The fields of the state after a step of the server.
LEMMA ServerStepFields ==
  ASSUME NEW s \in States, NEW turn \in BOOLEAN
  PROVE  [s EXCEPT !.revision = @ + 1, !.gen = @ + 1, !.server = turn] =
           [revision |-> s.revision + 1, gen |-> s.gen + 1,
            adventure |-> s.adventure, server |-> turn]
<1> DEFINE a == [s EXCEPT !.revision = @ + 1]
           b == [a EXCEPT !.gen = @ + 1]
<1>1. s = [revision |-> s.revision, gen |-> s.gen, adventure |-> s.adventure,
           server |-> s.server]
  BY DEF States
<1>2. a = [revision |-> s.revision + 1, gen |-> s.gen, adventure |-> s.adventure,
           server |-> s.server]
  BY <1>1
<1>3. b = [revision |-> s.revision + 1, gen |-> s.gen + 1, adventure |-> s.adventure,
           server |-> s.server]
  <2> HIDE DEF a
  <2> QED BY <1>2
<1>4. [b EXCEPT !.server = turn] =
        [revision |-> s.revision + 1, gen |-> s.gen + 1,
         adventure |-> s.adventure, server |-> turn]
  <2> HIDE DEF b
  <2> QED BY <1>3
<1> QED BY <1>4

\* What the server does next follows the state just published.
LEMMA NextStepFollows ==
  ASSUME NEW count \in 0..MaxPump, NextServerStep(count), core' \in States,
         core'.gen <= core'.revision, core'.server => core'.adventure,
         running.conn \in Connections, retired' = FALSE
  PROVE  /\ running' \in {Idle} \union
              [stage : {"pump"}, conn : Connections, count : 1..MaxPump, candidate : States]
         /\ CandidateFollows' /\ IntentIsFresh' /\ PumpPlays'
<1>1. CASE running' = Idle
  BY <1>1 DEF CandidateFollows, IntentIsFresh, PumpPlays, Committing, Idle
<1>2. CASE core'.server /\ core'.revision < MaxRevision /\ count < MaxPump
  <2>1. PICK turn \in BOOLEAN :
          running' = [stage |-> "pump", conn |-> running.conn, count |-> count + 1,
                      candidate |-> [core' EXCEPT !.revision = @ + 1,
                                                  !.gen = @ + 1, !.server = turn]]
    BY <1>2 DEF NextServerStep
  <2> DEFINE next == [core' EXCEPT !.revision = @ + 1, !.gen = @ + 1, !.server = turn]
  <2>2. /\ next \in States
        /\ next.revision = core'.revision + 1 /\ next.gen = core'.gen + 1
        /\ next.adventure = core'.adventure /\ next.server = turn
    <3>1. core' \in States /\ MaxRevision \in Nat
      BY HostAssumption
    <3>2. core'.revision < MaxRevision /\ core'.gen <= core'.revision
      BY <1>2
    <3>3. next = [revision |-> core'.revision + 1, gen |-> core'.gen + 1,
                  adventure |-> core'.adventure, server |-> turn]
      BY ServerStepFields
    <3>4. /\ core'.revision \in 0..MaxRevision /\ core'.gen \in 0..MaxRevision
          /\ core'.adventure \in BOOLEAN
      BY ONLY <3>1 DEF States
    <3>5. core'.revision + 1 \in 0..MaxRevision /\ core'.gen + 1 \in 0..MaxRevision
      BY ONLY <3>1, <3>2, <3>4
    <3> HIDE DEF next
    <3> QED BY <2>1, <3>3, <3>4, <3>5 DEF States
  <2>3. /\ running'.stage = "pump" /\ running'.candidate = next
    BY <2>1
  <2> HIDE DEF next
  <2>4. running' \in [stage : {"pump"}, conn : Connections, count : 1..MaxPump,
                      candidate : States]
    <3>1. count + 1 \in 1..MaxPump
      BY <1>2, HostAssumption
    <3> QED BY <2>1, <2>2, <3>1 DEF next
  <2>5. core'.gen \in Int /\ core'.revision \in Int
    BY DEF States
  <2>6. CandidateFollows' /\ IntentIsFresh' /\ PumpPlays'
    BY <1>2, <2>2, <2>3, <2>5 DEF CandidateFollows, IntentIsFresh, PumpPlays, Committing
  <2> QED BY <2>4, <2>6
<1> QED BY <1>1, <1>2 DEF NextServerStep

\* What the publication of an accepted intent does to journal and seats: the
\* request is settled and, when a guest is removed, that guest forgotten.
LEMMA PublishedJournal ==
  ASSUME TypeOK, SettledInv, running.stage = "intent", PublishIntent,
         core' \in States
  PROVE  /\ journal' \in [Players -> [Requests -> {NoEntry} \union Entries]]
         /\ seated' \subseteq seated /\ digests' \subseteq digests
         /\ \A q \in seated' : q # Owner[running.conn] => journal'[q] = journal[q]
         /\ \A r \in Requests :
              journal'[Owner[running.conn]][r] = NoEntry
                => r # running.env.id /\ journal[Owner[running.conn]][r] = NoEntry
<1> DEFINE p == Owner[running.conn]
           env == running.env
           entry == [accepted |-> TRUE, revision |-> core'.revision, env |-> env]
<1>1. p \in Players /\ env \in Envelopes /\ env.id \in Requests
  <2>1. Committing
    BY DEF Committing
  <2> QED BY <2>1, AwaitFields DEF Envelopes
<1>2. entry \in Entries /\ entry # NoEntry
  <2>1. core'.revision \in 0..MaxRevision /\ MaxRevision \in Nat
    BY HostAssumption DEF States
  <2>2. entry \in Entries
    BY <1>1, <2>1 DEF Entries
  <2>3. entry.revision = core'.revision /\ NoEntry.revision = -1
    BY DEF NoEntry
  <2> QED BY <2>1, <2>2, <2>3
<1>3. journal \in [Players -> [Requests -> {NoEntry} \union Entries]]
  BY DEF TypeOK
<1>4. CASE /\ journal' = [journal EXCEPT ![p][env.id] = entry]
           /\ UNCHANGED <<seated, digests>>
  <2> HIDE DEF entry
  <2>1. journal' = [journal EXCEPT ![p] = [journal[p] EXCEPT ![env.id] = entry]]
    BY <1>4
  <2> QED BY <1>1, <1>2, <1>3, <1>4, <2>1
<1>5. CASE env.intent = "remove-offline-guest" /\
           \E g \in OfflineGuests :
             /\ seated' = seated \ {g}
             /\ digests' = digests \ {g}
             /\ journal' = [journal EXCEPT ![p][env.id] = entry,
                                           ![g] = [r \in Requests |-> NoEntry]]
  <2> HIDE DEF entry
  <2>1. PICK g \in OfflineGuests :
             /\ seated' = seated \ {g}
             /\ digests' = digests \ {g}
             /\ journal' = [journal EXCEPT ![p][env.id] = entry,
                                           ![g] = [r \in Requests |-> NoEntry]]
    BY <1>5
  <2>2. g \in Guests /\ p = Host /\ g # p /\ g \in Players
    BY <1>5, HostAssumption DEF OfflineGuests, SettledInv, IntentIsFresh, Players
  <2> DEFINE settled == [journal EXCEPT ![p] = [journal[p] EXCEPT ![env.id] = entry]]
  <2>3. /\ settled \in [Players -> [Requests -> {NoEntry} \union Entries]]
        /\ \A q \in Players : q # p => settled[q] = journal[q]
        /\ settled[p] = [journal[p] EXCEPT ![env.id] = entry]
    BY <1>1, <1>2, <1>3
  <2>4. journal' = [settled EXCEPT ![g] = [r \in Requests |-> NoEntry]]
    BY <2>1
  <2> HIDE DEF settled
  <2>5. /\ journal' \in [Players -> [Requests -> {NoEntry} \union Entries]]
        /\ \A q \in Players : q # g => journal'[q] = settled[q]
    BY <2>2, <2>3, <2>4
  <2>6. seated \subseteq Players
    BY DEF TypeOK
  <2>7. \A r \in Requests : settled[p][r] = NoEntry => r # env.id /\ journal[p][r] = NoEntry
    BY <1>1, <1>2, <1>3, <2>3
  <2> QED BY <1>1, <2>1, <2>2, <2>3, <2>5, <2>6, <2>7
<1> QED BY <1>4, <1>5 DEF PublishIntent

LEMMA CommitIntentKeeps == HostInv /\ CommitIntent => HostInv'
<1> SUFFICES ASSUME HostInv, CommitIntent PROVE HostInv'
  OBVIOUS
<1> USE DEF HostInv
<1> DEFINE p == Owner[running.conn]
           env == running.env
           next == running.candidate
<1>1. running.stage = "intent" /\ Committing /\ WriteLands /\ PublishIntent /\ NextServerStep(0)
  BY DEF CommitIntent, Committing
<1>2. UNCHANGED <<connections, control, retired, queue, socket, issued>>
  BY DEF CommitIntent
<1>3. /\ next \in States /\ core' = next
      /\ running.conn \in Connections /\ p \in Players /\ env.id \in Requests
  BY <1>1, AwaitFields DEF PublishIntent, Envelopes
<1>4. /\ held' \in Nat /\ row' \in Nat /\ saved' \in 0..MaxRevision
      /\ saved' = IF next.adventure THEN next.gen ELSE saved
  BY <1>1, LandingStores
<1>5. ShownIsStored' /\ retired' = FALSE
  <2>1. /\ retired = FALSE
        /\ next.revision = core.revision + 1 /\ next.gen \in {core.gen, core.gen + 1}
        /\ next.server => next.adventure
    BY <1>1 DEF SettledInv, CandidateFollows, TypeOK
  <2>2. core.gen <= core.revision /\ core.gen \in Int /\ core.revision \in Int
    BY DEF SettledInv, ShownIsStored, TypeOK, States
  <2> QED BY <1>2, <1>3, <1>4, <2>1, <2>2 DEF ShownIsStored
<1>6. /\ running' \in {Idle} \union
            [stage : {"pump"}, conn : Connections, count : 1..MaxPump, candidate : States]
      /\ CandidateFollows' /\ IntentIsFresh' /\ PumpPlays'
  <2>1. 0 \in 0..MaxPump
    BY HostAssumption
  <2> QED BY <1>1, <1>3, <1>5, <2>1, NextStepFollows DEF ShownIsStored
<1>7. /\ journal' \in [Players -> [Requests -> {NoEntry} \union Entries]]
      /\ seated' \subseteq seated /\ digests' \subseteq digests
      /\ \A q \in seated' : q # p => journal'[q] = journal[q]
      /\ \A r \in Requests :
           journal'[p][r] = NoEntry => r # env.id /\ journal[p][r] = NoEntry
  BY <1>1, <1>3, PublishedJournal
<1>8. applied' = [applied EXCEPT ![p] = [applied[p] EXCEPT ![env.id] = @ + 1]]
  BY <1>1 DEF PublishIntent
<1>9. applied \in [Players -> [Requests -> Nat]]
  BY DEF TypeOK
<1>10. /\ applied' \in [Players -> [Requests -> Nat]]
       /\ \A q \in Players, r \in Requests :
            q # p \/ r # env.id => applied'[q][r] = applied[q][r]
  BY <1>3, <1>8, <1>9
<1>11. TypeOK'
  BY <1>2, <1>3, <1>4, <1>6, <1>7, <1>10 DEF TypeOK
<1>12. EffectsAreJournalled'
  <2>1. p \in seated /\ seated \subseteq issued
    BY <1>1 DEF SettledInv, IntentIsFresh, EffectsAreJournalled
  <2>2. ASSUME NEW q \in Players, NEW r \in Requests, q \in seated',
               journal'[q][r] = NoEntry
        PROVE  applied'[q][r] = 0
    <3>1. journal[q][r] = NoEntry /\ (q # p \/ r # env.id)
      BY <1>7, <2>2
    <3> QED BY <1>7, <1>10, <2>2, <3>1 DEF SettledInv, EffectsAreJournalled
  <2>3. ASSUME NEW q \in Players, NEW r \in Requests, q \notin issued'
        PROVE  applied'[q][r] = 0
    BY <1>2, <1>10, <2>1, <2>3 DEF SettledInv, EffectsAreJournalled
  <2> QED BY <1>2, <1>7, <2>1, <2>2, <2>3 DEF EffectsAreJournalled
<1>13. JoinsAreNew' /\ SocketsAreServed'
  BY <1>2, JoinsUntouched, DetachedUntouched
     DEF SocketsAreServed, OpenSocketIsServed, RetiredIsEmpty
<1> QED BY <1>5, <1>6, <1>11, <1>12, <1>13 DEF SettledInv

LEMMA CommitServerStepKeeps == HostInv /\ CommitServerStep => HostInv'
<1> SUFFICES ASSUME HostInv, CommitServerStep PROVE HostInv'
  OBVIOUS
<1> USE DEF HostInv
<1> DEFINE next == running.candidate
<1>1. /\ running.stage = "pump" /\ Committing /\ WriteLands /\ core' = next
      /\ NextServerStep(running.count)
  BY DEF CommitServerStep, Committing
<1>2. UNCHANGED <<seated, digests, connections, control, journal, retired, queue, socket,
                  issued, applied>>
  BY DEF CommitServerStep
<1>3. next \in States /\ running.conn \in Connections /\ running.count \in 0..MaxPump
  BY <1>1, AwaitFields, HostAssumption
<1>4. /\ held' \in Nat /\ row' \in Nat /\ saved' \in 0..MaxRevision
      /\ saved' = IF next.adventure THEN next.gen ELSE saved
  BY <1>1, LandingStores
<1>5. ShownIsStored' /\ retired' = FALSE
  <2>1. /\ retired = FALSE
        /\ next.revision = core.revision + 1 /\ next.gen \in {core.gen, core.gen + 1}
        /\ next.server => next.adventure
    BY <1>1 DEF SettledInv, CandidateFollows, TypeOK
  <2>2. core.gen <= core.revision /\ core.gen \in Int /\ core.revision \in Int
    BY DEF SettledInv, ShownIsStored, TypeOK, States
  <2> QED BY <1>1, <1>2, <1>4, <2>1, <2>2 DEF ShownIsStored
<1>6. /\ running' \in {Idle} \union
            [stage : {"pump"}, conn : Connections, count : 1..MaxPump, candidate : States]
      /\ CandidateFollows' /\ IntentIsFresh' /\ PumpPlays'
  BY <1>1, <1>3, <1>5, NextStepFollows DEF ShownIsStored
<1>7. TypeOK'
  BY <1>1, <1>2, <1>3, <1>4, <1>6 DEF TypeOK
<1>8. EffectsAreJournalled'
  BY <1>2 DEF SettledInv, EffectsAreJournalled
<1>9. JoinsAreNew' /\ SocketsAreServed'
  BY <1>2, JoinsUntouched, DetachedUntouched
     DEF SocketsAreServed, OpenSocketIsServed, RetiredIsEmpty
<1> QED BY <1>5, <1>6, <1>7, <1>8, <1>9 DEF SettledInv

\* A write that fails or loses its comparison settles the operation.
LEMMA SettlementKeeps == HostInv /\ (WriteFails \/ WriterRetired) => HostInv'
<1> SUFFICES ASSUME HostInv, WriteFails \/ WriterRetired PROVE HostInv'
  OBVIOUS
<1> USE DEF HostInv
<1>1. /\ running' = Idle
      /\ UNCHANGED <<core, seated, digests, control, journal, queue, held, row, saved,
                     issued, applied>>
  BY DEF WriteFails, WriterRetired, durableVars
<1>2. \/ UNCHANGED <<retired, connections, socket>>
      \/ \E farewell : RetireInQueue(farewell)
  BY DEF WriteFails, WriterRetired
<1>3. SettledInv'
  BY <1>1 DEF SettledInv, ShownIsStored, CandidateFollows, IntentIsFresh, PumpPlays,
     EffectsAreJournalled, Committing, Idle
<1>4. CASE UNCHANGED <<retired, connections, socket>>
  <2>1. TypeOK'
    BY <1>1, <1>4 DEF TypeOK
  <2>2. JoinsAreNew' /\ SocketsAreServed'
    BY <1>1, <1>4, JoinsUntouched, DetachedUntouched
       DEF SocketsAreServed, OpenSocketIsServed, RetiredIsEmpty
  <2> QED BY <1>3, <2>1, <2>2
<1>5. ASSUME NEW farewell, RetireInQueue(farewell) PROVE HostInv'
  <2>1. /\ retired' = TRUE
        /\ connections' \in [Players -> Connections \union {NoConn}]
        /\ socket' \in [Connections -> SocketStages]
        /\ \A c \in Connections : socket[c] = "closed" => socket'[c] = "closed"
        /\ OpenSocketIsServed' /\ RetiredIsEmpty'
    BY <1>5, RetirementIsClean DEF SocketsAreServed
  <2>2. TypeOK'
    BY <1>1, <2>1 DEF TypeOK, SocketStages
  <2>3. JoinsAreNew' /\ DetachedAreClosed'
    BY <1>1, <2>1, JoinsUntouched, DetachedUntouched DEF SocketsAreServed
  <2> QED BY <1>3, <2>1, <2>2, <2>3 DEF SocketsAreServed
<1> QED BY <1>2, <1>4, <1>5

-----------------------------------------------------------------------------
(* What arrives *)

\* A step that only submits an operation, or none, for sockets that leave
\* what they were for nothing but closing or waiting.
LEMMA ArrivalKeeps ==
  ASSUME HostInv,
         UNCHANGED <<hostVars, running, held, saved, issued, applied>>,
         row' \in Nat,
         socket' \in [Connections -> SocketStages],
         \A c \in Connections : /\ socket[c] = "closed" => socket'[c] = "closed"
                                /\ socket'[c] = "open" => socket[c] = "open",
         \/ queue' = queue
         \/ \E op \in Operations :
              /\ Enqueue(op)
              /\ op.kind = "join" => /\ op.player \notin issued
                                     /\ \A i \in Queued("join") : queue[i].player # op.player
              /\ op.kind = "detach" => socket'[op.conn] = "closed"
  PROVE  HostInv'
<1> USE DEF HostInv
<1>1. UNCHANGED <<core, seated, digests, connections, control, journal, retired>>
  BY DEF hostVars
<1>2. queue' \in Seq(Operations) /\ Len(queue') <= MaxQueue
  BY Pushed DEF TypeOK
<1>3. TypeOK'
  BY <1>1, <1>2 DEF TypeOK, SocketStages
<1>4. SettledInv'
  BY <1>1, SettledUntouched
<1>5. JoinsAreNew' /\ DetachedAreClosed'
  BY <1>1, JoinsUntouched, JoinsPushed, DetachedUntouched, DetachedPushed
     DEF SocketsAreServed
<1>6. OpenSocketIsServed' /\ RetiredIsEmpty'
  BY <1>1 DEF SocketsAreServed, OpenSocketIsServed, RetiredIsEmpty
<1> QED BY <1>3, <1>4, <1>5, <1>6 DEF SocketsAreServed

LEMMA RequestKeeps ==
  ASSUME HostInv,
         \/ \E p \in Guests : RequestJoin(p)
         \/ \E c \in Connections, env \in Envelopes : SendIntent(c, env)
         \/ RequestRetire \/ OtherWriter
  PROVE  HostInv'
<1>1. socket \in [Connections -> SocketStages] /\ row \in Nat
  BY DEF HostInv, TypeOK, SocketStages
<1>2. ASSUME NEW p \in Guests, RequestJoin(p) PROVE HostInv'
  <2>1. /\ UNCHANGED <<hostVars, running, held, row, saved, issued, applied, socket>>
        /\ p \notin issued /\ \A i \in Queued("join") : queue[i].player # p
        /\ Enqueue([kind |-> "join", player |-> p])
    BY <1>2 DEF RequestJoin, Submitted, durableVars
  <2>2. [kind |-> "join", player |-> p] \in Operations
    BY DEF Operations
  <2> QED BY <1>1, <2>1, <2>2, ArrivalKeeps
<1>3. ASSUME NEW c \in Connections, NEW env \in Envelopes, SendIntent(c, env)
      PROVE  HostInv'
  <2>1. /\ UNCHANGED <<hostVars, running, held, row, saved, issued, applied, socket>>
        /\ Enqueue([kind |-> "intent", conn |-> c, env |-> env])
    BY <1>3 DEF SendIntent, Submitted, durableVars
  <2>2. [kind |-> "intent", conn |-> c, env |-> env] \in Operations
    BY DEF Operations
  <2> QED BY <1>1, <2>1, <2>2, ArrivalKeeps
<1>4. ASSUME RequestRetire PROVE HostInv'
  <2>1. /\ UNCHANGED <<hostVars, running, held, row, saved, issued, applied, socket>>
        /\ Enqueue([kind |-> "retire"])
    BY <1>4 DEF RequestRetire, Submitted, durableVars
  <2>2. [kind |-> "retire"] \in Operations
    BY DEF Operations
  <2> QED BY <1>1, <2>1, <2>2, ArrivalKeeps
<1>5. ASSUME OtherWriter PROVE HostInv'
  <2>1. UNCHANGED <<hostVars, queue, running, held, saved, issued, applied, socket>>
    BY <1>5 DEF OtherWriter
  <2>2. row' \in Nat
    BY <1>1, <1>5 DEF OtherWriter
  <2> QED BY <1>1, <2>1, <2>2, ArrivalKeeps
<1> QED BY <1>2, <1>3, <1>4, <1>5

LEMMA SocketKeeps ==
  ASSUME HostInv, NEW c \in Connections,
         Hello(c) \/ HelloTooLate(c) \/ HelloDeadline(c) \/ SocketCloses(c)
  PROVE  HostInv'
<1>1. socket \in [Connections -> SocketStages] /\ row \in Nat
  BY DEF HostInv, TypeOK, SocketStages
<1>2. UNCHANGED <<hostVars, running, held, row, saved, issued, applied>>
  BY DEF Hello, HelloTooLate, HelloDeadline, SocketCloses, Submitted, durableVars
<1>3. PICK stage \in {"hello", "late", "closed"} : socket' = [socket EXCEPT ![c] = stage]
  BY DEF Hello, HelloTooLate, HelloDeadline, SocketCloses
<1>4. socket[c] = "closed" => FALSE
  BY DEF Hello, HelloTooLate, HelloDeadline, SocketCloses
<1>5. /\ socket' \in [Connections -> SocketStages]
      /\ \A d \in Connections : /\ socket[d] = "closed" => socket'[d] = "closed"
                                /\ socket'[d] = "open" => socket[d] = "open"
  BY <1>1, <1>3, <1>4 DEF SocketStages
<1>6. \/ queue' = queue
      \/ Enqueue([kind |-> "attach", conn |-> c])
      \/ Enqueue([kind |-> "detach", conn |-> c]) /\ socket'[c] = "closed"
  BY <1>1 DEF Hello, HelloTooLate, HelloDeadline, SocketCloses
<1>7. [kind |-> "attach", conn |-> c] \in Operations /\ [kind |-> "detach", conn |-> c] \in Operations
  BY DEF Operations
<1> QED BY <1>1, <1>2, <1>5, <1>6, <1>7, ArrivalKeeps

LEMMA HostStep == HostInv /\ [Next]_vars => HostInv'
<1> SUFFICES ASSUME HostInv, [Next]_vars PROVE HostInv'
  OBVIOUS
<1>1. CASE RunNext
  BY <1>1, JoinKeeps, AttachKeeps, DetachKeeps, RetireKeeps, IntentKeeps DEF RunNext
<1>2. CASE Settle
  BY <1>2, CommitIntentKeeps, CommitServerStepKeeps, SettlementKeeps DEF Settle
<1>3. CASE \/ \E p \in Guests : RequestJoin(p)
           \/ \E c \in Connections, env \in Envelopes : SendIntent(c, env)
           \/ RequestRetire \/ OtherWriter
  BY <1>3, RequestKeeps
<1>4. CASE \E c \in Connections :
             Hello(c) \/ HelloTooLate(c) \/ HelloDeadline(c) \/ SocketCloses(c)
  BY <1>4, SocketKeeps
<1>5. CASE UNCHANGED vars
  <2>1. UNCHANGED <<hostVars, queue, running, held, row, saved, socket, issued, applied>>
    BY <1>5 DEF vars, durableVars
  <2>2. socket' \in [Connections -> SocketStages] /\ row' \in Nat
    BY <2>1 DEF HostInv, TypeOK, SocketStages
  <2> QED BY <2>1, <2>2, ArrivalKeeps
<1> QED BY <1>1, <1>2, <1>3, <1>4, <1>5 DEF Next

-----------------------------------------------------------------------------
(* Theorems *)

\* The inductive invariant of a live session: types, what an operation that
\* awaits its write may count on, the journal against the effects, sockets
\* against connections.
THEOREM HostInvariant == Spec => []HostInv
BY HostStarts, HostStep, PTL DEF Spec

\* Every state of the host, its queue and its sockets is well typed.
THEOREM HostTypeCorrect == Spec => []TypeOK
<1>1. HostInv => TypeOK
  BY DEF HostInv
<1> QED BY <1>1, HostInvariant, PTL

\* A socket that completed its hello is the one its player is served over,
\* however hellos, closes, replacements and retirement overlap.
THEOREM OpenSocketsAreServed == Spec => []OpenSocketIsServed
<1>1. HostInv => OpenSocketIsServed
  BY DEF HostInv, SocketsAreServed
<1> QED BY <1>1, HostInvariant, PTL

-----------------------------------------------------------------------------
(* Retirement *)

\* What turns one socket away: its closing, after an error or without one.
TurnsAway(messages) ==
  \/ messages = <<>>
  \/ \E code : messages = <<Close(code)>>
  \/ \E code, error : messages = <<Error(error, "none"), Close(code)>>

\* Nothing, or the turning away of one socket: no snapshot.
LEMMA NoSnapshotIn ==
  ASSUME NEW c \in Connections, NEW messages, TurnsAway(messages),
         sent' = Quiet \/ sent' = [Quiet EXCEPT ![c] = messages],
         NEW d \in Connections
  PROVE  Shown(d, "snapshot")' = {}
<1>1. sent'[d] = <<>> \/ sent'[d] = messages
  BY DEF Quiet
<1>2. \A i \in DOMAIN sent'[d] : sent'[d][i].type # "snapshot"
  <2>1. CASE sent'[d] = <<>>
    BY <2>1
  <2>2. CASE \E code : sent'[d] = <<Close(code)>>
    BY <2>2 DEF Close
  <2>3. CASE \E code, error : sent'[d] = <<Error(error, "none"), Close(code)>>
    BY <2>3 DEF Close, Error
  <2> QED BY <1>1, <2>1, <2>2, <2>3 DEF TurnsAway
<1> QED BY <1>2 DEF Shown

\* The step of RetiredIsFinal.
Final ==
  retired => /\ retired'
             /\ UNCHANGED <<core, seated, connections, control, saved>>
             /\ \A c \in Connections : Shown(c, "snapshot")' = {}

LEMMA RetiredStays == HostInv /\ [Next]_vars => [Final]_vars
<1> SUFFICES ASSUME HostInv, Next, retired
             PROVE  /\ retired'
                    /\ UNCHANGED <<core, seated, connections, control, saved>>
                    /\ \A c \in Connections : Shown(c, "snapshot")' = {}
  BY DEF Final
<1>1. ~Committing /\ \A p \in Players : connections[p] = NoConn
  BY DEF HostInv, SettledInv, CandidateFollows, SocketsAreServed, RetiredIsEmpty
<1>2. /\ retired' /\ UNCHANGED <<core, seated, connections, control, saved>>
      /\ \/ sent' = Quiet
         \/ \E c \in Connections : \E messages :
              TurnsAway(messages) /\ sent' = [Quiet EXCEPT ![c] = messages]
  <2>1. CASE RunJoin
    BY <2>1 DEF RunJoin, hostVars, durableVars
  <2>2. CASE RunAttach
    <3>1. Starts("attach")
      BY <2>2 DEF RunAttach
    <3> DEFINE c == Head(queue).conn
    <3>2. c \in Connections
      BY <3>1, Popped, OperationFields DEF HostInv, Starts
    <3> DEFINE answer == IF socket[c] = "hello" THEN Refusal ELSE <<>>
    <3>3. /\ sent' = [Quiet EXCEPT ![c] = answer]
          /\ UNCHANGED <<hostVars, saved>>
      BY <2>2 DEF RunAttach, Refused, durableVars
    <3>4. TurnsAway(answer)
      BY DEF TurnsAway, Refusal
    <3> HIDE DEF answer
    <3> QED BY <3>2, <3>3, <3>4 DEF hostVars
  <2>3. CASE RunDetach
    <3>1. Starts("detach")
      BY <2>3 DEF RunDetach
    <3> DEFINE c == Head(queue).conn
    <3>2. c \in Connections /\ Owner[c] \in Players
      BY <3>1, Popped, OperationFields, HostAssumption DEF HostInv, Starts
    <3>3. connections[Owner[c]] # c
      BY <1>1, <3>2, HostAssumption
    <3>4. sent' = Quiet /\ UNCHANGED <<hostVars, saved>>
      BY <2>3, <3>3 DEF RunDetach, durableVars
    <3> QED BY <3>4 DEF hostVars
  <2>4. CASE RunRetire
    BY <2>4 DEF RunRetire, durableVars
  <2>5. CASE RunIntent
    BY <2>5 DEF RunIntent, DropStaleConnection, durableVars
  <2>6. CASE Settle
    BY <1>1, <2>6 DEF Settle, CommitIntent, CommitServerStep, WriteFails, WriterRetired,
                      Committing
  <2>7. ASSUME NEW c \in Connections, HelloTooLate(c) \/ HelloDeadline(c) \/ SocketCloses(c)
        PROVE  /\ retired' /\ UNCHANGED <<core, seated, connections, control, saved>>
               /\ \/ sent' = Quiet
                  \/ \E messages : TurnsAway(messages) /\ sent' = [Quiet EXCEPT ![c] = messages]
    <3>1. CASE HelloTooLate(c)
      <4> DEFINE answer == <<Error("SESSION_NOT_FOUND", "none"), Close("not-found")>>
      <4>1. sent' = [Quiet EXCEPT ![c] = answer] /\ UNCHANGED <<hostVars, saved>>
        BY <3>1 DEF HelloTooLate, durableVars
      <4>2. TurnsAway(answer)
        BY DEF TurnsAway
      <4> HIDE DEF answer
      <4> QED BY <4>1, <4>2 DEF hostVars
    <3>2. CASE HelloDeadline(c)
      <4> DEFINE answer == <<Close("timeout")>>
      <4>1. sent' = [Quiet EXCEPT ![c] = answer] /\ UNCHANGED <<hostVars, saved>>
        BY <3>2 DEF HelloDeadline, durableVars
      <4>2. TurnsAway(answer)
        BY DEF TurnsAway
      <4> HIDE DEF answer
      <4> QED BY <4>1, <4>2 DEF hostVars
    <3>3. CASE SocketCloses(c)
      BY <3>3 DEF SocketCloses, Submitted, hostVars, durableVars
    <3> QED BY <2>7, <3>1, <3>2, <3>3
  <2>8. CASE OtherWriter
    BY <2>8 DEF OtherWriter, hostVars
  <2>9. /\ \A p \in Guests : ~RequestJoin(p)
        /\ \A c \in Connections : ~Hello(c)
        /\ \A c \in Connections, env \in Envelopes : ~SendIntent(c, env)
        /\ ~RequestRetire
    BY DEF RequestJoin, Hello, SendIntent, RequestRetire
  <2> QED BY <2>1, <2>2, <2>3, <2>4, <2>5, <2>6, <2>7, <2>8, <2>9 DEF Next, RunNext
<1>3. ASSUME NEW d \in Connections PROVE Shown(d, "snapshot")' = {}
  <2>1. CASE sent' = Quiet
    <3>1. TurnsAway(<<>>)
      BY DEF TurnsAway
    <3> QED BY <2>1, <3>1, NoSnapshotIn
  <2>2. CASE \E c \in Connections : \E messages :
               TurnsAway(messages) /\ sent' = [Quiet EXCEPT ![c] = messages]
    BY <2>2, NoSnapshotIn
  <2> QED BY <1>2, <2>1, <2>2
<1> QED BY <1>2, <1>3

\* Retirement is final, whatever was queued behind it or waits for a write.
THEOREM RetirementIsFinal == Spec => RetiredIsFinal
<1>1. []HostInv /\ [][Next]_vars => [][Final]_vars
  BY RetiredStays, PTL
<1>2. [][Final]_vars => RetiredIsFinal
  BY PTL DEF RetiredIsFinal, Final
<1> QED BY <1>1, <1>2, HostInvariant, PTL DEF Spec

-----------------------------------------------------------------------------
(* Versions *)

\* The step of SnapshotVersionAdvances.
Advances ==
  /\ core'.revision >= core.revision
  /\ control' >= control
  /\ core' # core => core'.revision > core.revision
  /\ Online' # Online /\ ~retired' => control' > control

LEMMA VersionsAdvance == HostInv /\ [Next]_vars => [Advances]_vars
<1> SUFFICES ASSUME HostInv, Next PROVE Advances
  OBVIOUS
<1>1. core.revision \in Int /\ control \in Int
  BY DEF HostInv, TypeOK, States
<1>2. CASE UNCHANGED <<core, connections, control>>
  BY <1>1, <1>2 DEF Advances, Online
<1>3. CASE RunJoin
  <2>1. UNCHANGED <<connections, control>>
    BY <1>3 DEF RunJoin, hostVars
  <2>2. core' = core \/ core'.revision = core.revision + 1
    <3>1. core' = core \/ core' = [core EXCEPT !.revision = @ + 1]
      BY <1>3 DEF RunJoin, hostVars
    <3>2. core \in States
      BY DEF HostInv, TypeOK
    <3> QED BY <3>1, <3>2 DEF States
  <2> QED BY <1>1, <2>1, <2>2 DEF Advances, Online
<1>4. CASE RunAttach
  <2>1. Starts("attach")
    BY <1>4 DEF RunAttach
  <2> DEFINE c == Head(queue).conn
             p == Owner[c]
  <2>2. c \in Connections /\ p \in Players /\ c # NoConn
    BY <2>1, Popped, OperationFields, HostAssumption DEF HostInv, Starts
  <2>3. CASE UNCHANGED hostVars
    BY <1>2, <2>3 DEF hostVars
  <2>4. CASE /\ connections' = [connections EXCEPT ![p] = c]
             /\ control' = IF connections[p] = NoConn THEN control + 1 ELSE control
             /\ core' = core
    <3>1. connections \in [Players -> Connections \union {NoConn}]
      BY DEF HostInv, TypeOK
    <3>2. connections[p] # NoConn => Online' = Online
      BY <2>2, <2>4, <3>1 DEF Online
    <3> QED BY <1>1, <2>4, <3>2 DEF Advances
  <2> QED BY <1>4, <2>3, <2>4 DEF RunAttach
<1>5. CASE RunDetach
  <2>1. UNCHANGED hostVars \/ (core' = core /\ control' = control + 1)
    BY <1>5 DEF RunDetach
  <2> QED BY <1>1, <1>2, <2>1 DEF Advances, hostVars
<1>6. CASE RunRetire
  <2>1. core' = core /\ control' = control /\ (retired' \/ connections' = connections)
    BY <1>6 DEF RunRetire, RetireInQueue
  <2> QED BY <1>1, <2>1 DEF Advances, Online
<1>7. CASE CommitIntent \/ CommitServerStep
  <2>1. core' = running.candidate /\ Committing
    BY <1>7 DEF CommitIntent, CommitServerStep, PublishIntent, Committing
  <2>2. core'.revision = core.revision + 1
    BY <2>1 DEF HostInv, SettledInv, CandidateFollows
  <2>3. UNCHANGED <<connections, control>>
    BY <1>7 DEF CommitIntent, CommitServerStep
  <2> QED BY <1>1, <2>2, <2>3 DEF Advances, Online
<1>8. CASE WriteFails \/ WriterRetired
  <2>1. core' = core /\ control' = control /\ (retired' \/ connections' = connections)
    BY <1>8 DEF WriteFails, WriterRetired, RetireInQueue
  <2> QED BY <1>1, <2>1 DEF Advances, Online
<1>9. CASE RunIntent
  BY <1>2, <1>9 DEF RunIntent
<1>10. CASE \/ \E p \in Guests : RequestJoin(p)
            \/ \E c \in Connections : Hello(c) \/ HelloTooLate(c) \/ HelloDeadline(c)
            \/ \E c \in Connections, env \in Envelopes : SendIntent(c, env)
            \/ \E c \in Connections : SocketCloses(c)
            \/ RequestRetire
            \/ OtherWriter
  <2>1. UNCHANGED hostVars
    BY <1>10 DEF RequestJoin, Hello, HelloTooLate, HelloDeadline, SendIntent, SocketCloses,
                 RequestRetire, OtherWriter, Submitted
  <2> QED BY <1>2, <2>1 DEF hostVars
<1> QED BY <1>3, <1>4, <1>5, <1>6, <1>7, <1>8, <1>9, <1>10 DEF Next, RunNext, Settle

\* A live session never shows two states under one version.
THEOREM VersionsNameStates == Spec => SnapshotVersionAdvances
<1>1. []HostInv /\ [][Next]_vars => [][Advances]_vars
  BY VersionsAdvance, PTL
<1>2. [][Advances]_vars => SnapshotVersionAdvances
  BY PTL DEF SnapshotVersionAdvances, Advances
<1> QED BY <1>1, <1>2, HostInvariant, PTL DEF Spec

-----------------------------------------------------------------------------
(* The host implements DurableSession *)

\* What a step that neither publishes nor retires leaves of the promise.
LEMMA NothingPromised ==
  ASSUME UNCHANGED <<applied, saved, retired>>,
         core' = core \/ (core \in States /\ core' = [core EXCEPT !.revision = @ + 1])
  PROVE  UNCHANGED Promise!vars
<1>1. core'.gen = core.gen /\ core'.adventure = core.adventure
  BY DEF States
<1> QED BY <1>1 DEF Promise!vars

\* A published intent is a request that takes effect.
LEMMA IntentTakesEffect ==
  ASSUME HostInv, CommitIntent
  PROVE  Promise!Take(Owner[running.conn], running.env.id)
<1> DEFINE p == Owner[running.conn]
           r == running.env.id
           next == running.candidate
<1>1. running.stage = "intent" /\ Committing /\ WriteLands /\ PublishIntent
  BY DEF CommitIntent, Committing
<1>2. p \in Players /\ r \in Requests /\ next \in States /\ core' = next
  BY <1>1, AwaitFields DEF HostInv, PublishIntent, Envelopes
<1>3. retired = FALSE /\ retired' = retired
  BY <1>1 DEF HostInv, TypeOK, SettledInv, CandidateFollows, CommitIntent
<1>4. applied[p][r] = 0
  BY <1>1, <1>2 DEF HostInv, SettledInv, IntentIsFresh, EffectsAreJournalled
<1>5. applied' = [applied EXCEPT ![p][r] = 1]
  <2>1. applied' = [applied EXCEPT ![p][r] = @ + 1]
    BY <1>1 DEF PublishIntent
  <2>2. applied \in [Players -> [Requests -> Nat]]
    BY DEF HostInv, TypeOK
  <2> QED BY <1>2, <1>4, <2>1, <2>2
<1>6. /\ core'.adventure \in BOOLEAN /\ (core.adventure => core'.adventure)
      /\ core'.gen \in {core.gen, core.gen + 1}
  BY <1>1, <1>2 DEF HostInv, SettledInv, CandidateFollows, States
<1>7. saved' = IF core'.adventure THEN core'.gen ELSE saved
  BY <1>1, <1>2, LandingStores DEF HostInv
<1> QED BY <1>3, <1>4, <1>5, <1>6, <1>7 DEF Promise!Take, Promise!Stores

\* A published server command is a turn the server plays.
LEMMA ServerStepIsPlayed ==
  ASSUME HostInv, CommitServerStep
  PROVE  Promise!ServerPlays
<1>1. running.stage = "pump" /\ Committing /\ WriteLands /\ core' = running.candidate
  BY DEF CommitServerStep, Committing
<1>2. retired = FALSE /\ UNCHANGED <<retired, applied>>
  BY <1>1 DEF HostInv, TypeOK, SettledInv, CandidateFollows, CommitServerStep
<1>3. core.adventure = TRUE /\ core'.adventure = TRUE /\ core'.gen = core.gen + 1
  <2>1. core.adventure /\ core'.adventure /\ core'.gen = core.gen + 1
    BY <1>1 DEF HostInv, SettledInv, CandidateFollows, PumpPlays
  <2>2. core \in States /\ core' \in States
    BY <1>1, AwaitFields DEF HostInv, TypeOK
  <2> QED BY <2>1, <2>2 DEF States
<1>4. saved' = core'.gen
  BY <1>1, <1>3, LandingStores DEF HostInv
<1> QED BY <1>2, <1>3, <1>4 DEF Promise!ServerPlays, Promise!Stores

\* Retirement is the end of the session.
LEMMA RetirementEnds ==
  ASSUME retired = FALSE, retired' = TRUE, UNCHANGED <<core, applied, saved>>
  PROVE  Promise!End
BY DEF Promise!End

LEMMA PromiseStep == HostInv /\ [Next]_vars => [Promise!Next]_Promise!vars
<1> SUFFICES ASSUME HostInv, [Next]_vars PROVE [Promise!Next]_Promise!vars
  OBVIOUS
<1>1. retired \in BOOLEAN /\ core \in States
  BY DEF HostInv, TypeOK
<1>2. CASE RunJoin
  BY <1>1, <1>2, NothingPromised DEF RunJoin, hostVars, durableVars
<1>3. CASE RunAttach \/ RunDetach \/ RunIntent
  <2>1. UNCHANGED <<core, applied, saved, retired>>
    BY <1>3 DEF RunAttach, RunDetach, RunIntent, hostVars, durableVars
  <2> QED BY <2>1, NothingPromised
<1>4. CASE RunRetire
  <2>1. UNCHANGED <<core, applied, saved>>
    BY <1>4 DEF RunRetire, durableVars
  <2>2. retired' = retired \/ (retired = FALSE /\ retired' = TRUE)
    BY <1>1, <1>4 DEF RunRetire, RetireInQueue
  <2> QED BY <2>1, <2>2, NothingPromised, RetirementEnds DEF Promise!Next
<1>5. CASE CommitIntent
  <2>1. Owner[running.conn] \in Players /\ running.env.id \in Requests
    BY <1>5, AwaitFields DEF HostInv, CommitIntent, Committing, Envelopes
  <2> QED BY <1>5, <2>1, IntentTakesEffect DEF Promise!Next
<1>6. CASE CommitServerStep
  BY <1>6, ServerStepIsPlayed DEF Promise!Next
<1>7. CASE WriteFails \/ WriterRetired
  <2>1. UNCHANGED <<core, applied, saved>>
    BY <1>7 DEF WriteFails, WriterRetired, durableVars
  <2>2. retired = FALSE
    BY <1>1, <1>7 DEF WriteFails, WriterRetired, HostInv, SettledInv, CandidateFollows
  <2>3. retired' = retired \/ retired' = TRUE
    BY <1>7 DEF WriteFails, WriterRetired, RetireInQueue
  <2> QED BY <2>1, <2>2, <2>3, NothingPromised, RetirementEnds DEF Promise!Next
<1>8. CASE \/ \E p \in Guests : RequestJoin(p)
           \/ \E c \in Connections : Hello(c) \/ HelloTooLate(c) \/ HelloDeadline(c)
           \/ \E c \in Connections, env \in Envelopes : SendIntent(c, env)
           \/ \E c \in Connections : SocketCloses(c)
           \/ RequestRetire
           \/ OtherWriter
  <2>1. UNCHANGED <<core, applied, saved, retired>>
    BY <1>8 DEF RequestJoin, Hello, HelloTooLate, HelloDeadline, SendIntent, SocketCloses,
                RequestRetire, OtherWriter, Submitted, hostVars, durableVars
  <2> QED BY <2>1, NothingPromised
<1>9. CASE UNCHANGED vars
  BY <1>9, NothingPromised DEF vars, hostVars, durableVars
<1> QED BY <1>2, <1>3, <1>4, <1>5, <1>6, <1>7, <1>8, <1>9 DEF Next, RunNext, Settle

LEMMA PromiseStarts == Init => Promise!Init
<1> SUFFICES ASSUME Init PROVE Promise!Init
  OBVIOUS
<1>1. PICK restored \in BOOLEAN :
        core = [revision |-> 0, gen |-> 0, adventure |-> restored, server |-> FALSE]
  BY DEF Init
<1>2. core.gen = 0 /\ core.adventure \in BOOLEAN
  BY <1>1
<1>3. /\ applied = [p \in Players |-> [r \in Requests |-> 0]]
      /\ saved = 0 /\ retired = FALSE
  BY DEF Init
<1> QED BY <1>2, <1>3 DEF Promise!Init

\* The host implements DurableSession: for any number of players, sockets and
\* requests, however writes, retries, joins, closes, competing writers and
\* retirement overlap, a request takes effect at most once, what is shown of
\* an adventure is stored, and a session that is over stays as it was.
THEOREM HostKeepsItsPromise == Spec => KeepsItsPromise
<1>1. []HostInv /\ [][Next]_vars => [][Promise!Next]_Promise!vars
  BY PromiseStep, PTL
<1> QED BY <1>1, PromiseStarts, HostInvariant, PTL DEF Spec, KeepsItsPromise, Promise!Spec
=============================================================================
