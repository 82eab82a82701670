------------------------------- MODULE Server -------------------------------
(***************************************************************************)
(* The server process around its sessions: HTTP requests with their        *)
(* accounts and auth sessions (http-api.ts, auth-service.ts, password.ts,  *)
(* cookies.ts and the two account tables of sqlite-persistence.ts), the    *)
(* sockets of ws-gateway.ts, the queues of the session hosts, and the      *)
(* ordered shutdown of server.ts and main.ts.                              *)
(*                                                                         *)
(* A request handler runs up to its next await in one step: reading the    *)
(* body, hashing a password, waiting for the campaign service or for a     *)
(* session host.  What the service and the hosts do there is the matter of *)
(* Campaign and SessionHost; here only counts that they may write to the   *)
(* database until they have settled.  Time is a clock that ticks.          *)
(***************************************************************************)
EXTENDS Integers, Sequences, FiniteSets, SequencesExt

CONSTANTS
  Names,      \* user names, already folded to one case (COLLATE NOCASE)
  Passwords,
  Tokens,     \* what createOpaqueToken can still draw
  Handlers,   \* HTTP requests in flight
  Sockets,
  Nobody, NoPassword, NoToken,
  TTL,        \* lifetime of an auth session
  MaxTime,    \* bound: the clock stops here
  MaxChain    \* bound: messages of one socket that have not settled

ASSUME ServerAssumption ==
  /\ Nobody \notin Names /\ NoPassword \notin Passwords /\ NoToken \notin Tokens
  /\ TTL \in Nat \ {0} /\ MaxTime \in Nat /\ MaxChain \in Nat \ {0}
  /\ IsFiniteSet(Sockets)

VARIABLES
  now,        \* Date.now()
  accounts,   \* password of each account row, NoPassword when there is none
  sessions,   \* rows of auth_sessions by token
  drawn,      \* tokens createOpaqueToken has returned
  requests,   \* each request handler and what it awaits
  identity,   \* identity of each socket: null until its attach settled
  open,       \* sockets whose connection stands
  chain,      \* messages of each socket read but not settled (messageQueue)
  submitted,  \* sockets whose first message waits in a host queue
  hostQueue,  \* operations in the session hosts' queues
  phase,      \* how far close() has come
  grants      \* history: logins that handed out a token, ended by logout

authVars == <<now, accounts, sessions, drawn, grants>>
socketVars == <<identity, open, chain, submitted>>
serverVars == <<authVars, socketVars, requests, hostQueue, phase>>

-----------------------------------------------------------------------------
(* Data *)

NoRow == [account |-> Nobody, expires |-> -1]
Free == [stage |-> "free"]

\* What a handler awaits: the body of one of the routes that read one, a
\* password, the campaign service or a host.  delete reads no body.
AccountAwaits == [create |-> "create", continue |-> "continue", delete |-> "service"]
BodyStages == {"login", "register", "join", "create", "continue"}

Waits(stage, who, secret) ==
  [stage |-> stage, who |-> who, secret |-> secret, connected |-> TRUE]

\* A new connection is answered 503 from here on, and sockets are refused.
Closing == phase # "serving"
DatabaseOpen == phase # "closed"
InUse == {h \in Handlers : requests[h] # Free}
Pending == {c \in Sockets : chain[c] # <<>>}

ServerInit ==
  /\ now = 0
  /\ accounts = [n \in Names |-> NoPassword]
  /\ sessions = [t \in Tokens |-> NoRow]
  /\ drawn = {}
  /\ requests = [h \in Handlers |-> Free]
  /\ identity = [c \in Sockets |-> FALSE]
  /\ open = {}
  /\ chain = [c \in Sockets |-> <<>>]
  /\ submitted = {}
  /\ hostQueue = <<>>
  /\ phase = "serving"
  /\ grants = {}

Tick ==
  /\ now < MaxTime
  /\ now' = now + 1
  /\ UNCHANGED <<accounts, sessions, drawn, grants, socketVars, requests,
                 hostQueue, phase>>

-----------------------------------------------------------------------------
(* Accounts and auth sessions *)

\* Fault: the row is found however old it is.
FindValidEver(t) == t # NoToken /\ sessions[t] # NoRow

\* SELECT ... WHERE token_digest = ? AND expires_at > ?
FindValid(t) == t # NoToken /\ sessions[t].expires > now

\* authenticate: the account of a valid session, Nobody otherwise.
Authenticated(t) == IF FindValid(t) THEN sessions[t].account ELSE Nobody

\* DELETE FROM auth_sessions WHERE expires_at <= ?, after a token that is not
\* valid; a request without a cookie touches nothing.
Swept(t) ==
  IF t = NoToken \/ FindValid(t) THEN sessions
  ELSE [u \in Tokens |-> IF sessions[u].expires <= now THEN NoRow ELSE sessions[u]]

\* INSERT INTO accounts, whose UNIQUE user name decides between two
\* registrations that were both still hashing.
InsertAccount(n, secret) ==
  /\ accounts[n] = NoPassword
  /\ accounts' = [accounts EXCEPT ![n] = secret]

\* The end of a successful login: a fresh token and its row, as long as the
\* bound leaves one.
Grant(n, secret) ==
  IF Tokens \subseteq drawn THEN UNCHANGED <<sessions, drawn, grants>> ELSE
  \E t \in Tokens \ drawn :
    /\ drawn' = drawn \union {t}
    /\ sessions' = [sessions EXCEPT ![t] = [account |-> n, expires |-> now + TTL]]
    /\ grants' = grants \union {[token |-> t, account |-> n, secret |-> secret, at |-> now]}

-----------------------------------------------------------------------------
(* HTTP requests *)

\* The handler answered and left pendingRequests.
Answered(h) == requests' = [requests EXCEPT ![h] = Free]
Await(h, request) == requests' = [requests EXCEPT ![h] = request]

\* A request that first reads its body and asks for no account.
ArriveAnonymous(h, route, n, secret) ==
  /\ ~Closing /\ requests[h] = Free
  /\ route # "join" => ~(Tokens \subseteq drawn)  \* bound
  /\ Await(h, Waits(route, n, secret))
  /\ UNCHANGED <<authVars, socketVars, hostQueue, phase>>

\* create, continue and delete ask who is signed in before anything else.
ArriveSignedIn(h, route, t) ==
  /\ ~Closing /\ requests[h] = Free
  /\ sessions' = Swept(t)
  /\ IF Authenticated(t) = Nobody
       THEN UNCHANGED requests
       ELSE Await(h, Waits(AccountAwaits[route], Authenticated(t), NoPassword))
  /\ UNCHANGED <<now, accounts, drawn, grants, socketVars, hostQueue, phase>>

\* /api/auth/me and the campaign list answer without awaiting.
WhoAmI(t) ==
  /\ ~Closing
  /\ sessions' = Swept(t)
  /\ UNCHANGED <<now, accounts, drawn, grants, socketVars, requests, hostQueue, phase>>

\* logout needs no valid session.
Logout(t) ==
  /\ ~Closing /\ t # NoToken
  /\ sessions' = [sessions EXCEPT ![t] = NoRow]
  /\ grants' = {g \in grants : g.token # t}
  /\ UNCHANGED <<now, accounts, drawn, socketVars, requests, hostQueue, phase>>

AtStage(h, stage) == requests[h] # Free /\ requests[h].stage = stage
Advance(h, stage) == Await(h, [requests[h] EXCEPT !.stage = stage])

\* The body has been read and parsed: the handler goes on to its service.
BodyRead(h) ==
  /\ \/ /\ AtStage(h, "login")
        /\ Advance(h, IF accounts[requests[h].who] = NoPassword THEN "decoy" ELSE "verify")
        /\ UNCHANGED hostQueue
     \/ AtStage(h, "register") /\ Advance(h, "hash") /\ UNCHANGED hostQueue
     \/ AtStage(h, "create") /\ Answered(h) /\ UNCHANGED hostQueue
     \/ AtStage(h, "continue") /\ Advance(h, "service") /\ UNCHANGED hostQueue
     \/ /\ AtStage(h, "join")
        /\ Advance(h, "host")
        /\ hostQueue' = Append(hostQueue, [from |-> h, kind |-> "join"])
  /\ UNCHANGED <<authVars, socketVars, phase>>

\* Too large, not the documented fields, an invalid name or password, a room
\* that is gone, or its client went away in the middle of sending it.
BodyRefused(h) ==
  /\ \E stage \in BodyStages : AtStage(h, stage)
  /\ Answered(h)
  /\ UNCHANGED <<authVars, socketVars, hostQueue, phase>>

\* createAccount after its hash, then the login of the same route, which finds
\* the row just written and verifies against it.
Hashed(h) ==
  /\ AtStage(h, "hash")
  /\ \/ InsertAccount(requests[h].who, requests[h].secret) /\ Advance(h, "verify")
     \/ accounts[requests[h].who] # NoPassword /\ Answered(h) /\ UNCHANGED accounts
  /\ UNCHANGED <<now, sessions, drawn, grants, socketVars, hostQueue, phase>>

\* verifyPassword has come back; for a name unknown when the login looked it up
\* the decoy has, at the same cost.
Verified(h) ==
  /\ AtStage(h, "verify") \/ AtStage(h, "decoy")
  /\ LET n == requests[h].who
         secret == requests[h].secret
     IN IF AtStage(h, "verify") /\ accounts[n] = secret THEN Grant(n, secret)
        ELSE UNCHANGED <<sessions, drawn, grants>>
  /\ Answered(h)
  /\ UNCHANGED <<now, accounts, socketVars, hostQueue, phase>>

\* The campaign service answers a continue or a delete.
ServiceSettles(h) ==
  /\ AtStage(h, "service")
  /\ Answered(h)
  /\ UNCHANGED <<authVars, socketVars, hostQueue, phase>>

\* The browser goes away; the handler does not notice.  Only the closing
\* listener reads it, so that it happens earlier makes no difference.
ClientLeaves(h) ==
  /\ Closing
  /\ requests[h] # Free /\ requests[h].connected
  /\ Await(h, [requests[h] EXCEPT !.connected = FALSE])
  /\ UNCHANGED <<authVars, socketVars, hostQueue, phase>>

-----------------------------------------------------------------------------
(* Sockets *)

\* A connection; each is used once when its hello was accepted.
Upgrade(c) ==
  /\ ~Closing
  /\ c \notin open /\ chain[c] = <<>> /\ ~identity[c]
  /\ open' = open \union {c}
  /\ UNCHANGED <<authVars, identity, chain, submitted, requests, hostQueue, phase>>

\* A message is chained behind the earlier ones of its socket.
Message(c, type) ==
  /\ ~Closing
  /\ c \in open
  /\ Len(chain[c]) < MaxChain
  /\ chain' = [chain EXCEPT ![c] = Append(@, type)]
  /\ UNCHANGED <<authVars, identity, open, submitted, requests, hostQueue, phase>>

\* handleIncoming up to its await: hello attaches, an intent is handed on.
\* Anything out of place, malformed or binary is answered at once.
HandleMessage(c) ==
  /\ chain[c] # <<>> /\ c \notin submitted
  /\ \/ /\ Head(chain[c]) = IF identity[c] THEN "intent" ELSE "hello"
        /\ hostQueue' = Append(hostQueue, [from |-> c, kind |-> Head(chain[c])])
        /\ submitted' = submitted \union {c}
        /\ UNCHANGED chain
     \/ /\ chain' = [chain EXCEPT ![c] = Tail(@)]
        /\ UNCHANGED <<hostQueue, submitted>>
  /\ UNCHANGED <<authVars, identity, open, requests, phase>>

DetachOf(c) == [from |-> c, kind |-> "detach"]

\* A socket ends: the client left, the heartbeat missed its pong, or the hello
\* deadline passed.  Messages it already delivered are still handled.
SocketCloses(c) ==
  /\ c \in open
  /\ open' = open \ {c}
  /\ hostQueue' = IF identity[c] THEN Append(hostQueue, DetachOf(c)) ELSE hostQueue
  /\ UNCHANGED <<authVars, identity, chain, submitted, requests, phase>>

-----------------------------------------------------------------------------
(* Session hosts *)

\* The first operation of a host queue settles, with its durable writes.
HostSettles ==
  /\ hostQueue # <<>>
  /\ hostQueue' = Tail(hostQueue)
  /\ LET op == Head(hostQueue) IN
     \/ op.kind = "detach" /\ UNCHANGED <<identity, chain, submitted, requests>>
     \/ op.kind = "join" /\ Answered(op.from) /\ UNCHANGED <<identity, chain, submitted>>
     \/ /\ op.kind \in {"hello", "intent"}
        /\ chain' = [chain EXCEPT ![op.from] = Tail(@)]
        /\ submitted' = submitted \ {op.from}
        /\ \/ op.kind = "hello" /\ identity' = [identity EXCEPT ![op.from] = TRUE]
           \/ UNCHANGED identity
        /\ UNCHANGED requests
  /\ UNCHANGED <<authVars, open, phase>>

-----------------------------------------------------------------------------
(* Shutdown *)

\* SIGINT or SIGTERM calls close(); a later one awaits the same shutdown and
\* changes nothing.
Signal ==
  /\ phase = "serving" /\ phase' = "gateway"
  /\ UNCHANGED <<authVars, socketVars, requests, hostQueue>>

Reaches(from, to) ==
  /\ phase = from /\ phase' = to
  /\ UNCHANGED <<authVars, requests>>

\* Fault: operations are tracked by socket, those of a closed one are forgotten.
GatewayClosesForgetting ==
  /\ Reaches("gateway", "listener")
  /\ Pending \intersect open = {}
  /\ open' = {}
  /\ hostQueue' = hostQueue \o SetToSeq({DetachOf(c) : c \in {d \in open : identity[d]}})
  /\ UNCHANGED <<identity, chain, submitted>>

\* Fault: the sockets are left to close by themselves.
GatewayClosesPatiently ==
  /\ Reaches("gateway", "listener")
  /\ Pending = {}
  /\ UNCHANGED <<socketVars, hostQueue>>

\* gateway.close(): once every message read is settled, the sockets still open
\* are terminated and their close events come in.
GatewayCloses ==
  /\ Reaches("gateway", "listener")
  /\ Pending = {}
  /\ open' = {}
  /\ hostQueue' = hostQueue \o SetToSeq({DetachOf(c) : c \in {d \in open : identity[d]}})
  /\ UNCHANGED <<identity, chain, submitted>>

\* httpServer.close() waits for connections, not for handlers.
ListenerCloses ==
  /\ Reaches("listener", "requests")
  /\ open = {}
  /\ \A h \in InUse : ~requests[h].connected
  /\ UNCHANGED <<socketVars, hostQueue>>

RequestsSettle ==
  /\ Reaches("requests", "drain")
  /\ InUse = {}
  /\ UNCHANGED <<socketVars, hostQueue>>

\* drain() waits for the queue of every host, then the database closes.
Drained ==
  /\ Reaches("drain", "closed")
  /\ hostQueue = <<>>
  /\ UNCHANGED <<socketVars, hostQueue>>

HandlerStep(h) ==
  BodyRead(h) \/ BodyRefused(h) \/ Hashed(h) \/ Verified(h) \/ ServiceSettles(h)

Shutdown == GatewayCloses \/ ListenerCloses \/ RequestsSettle \/ Drained

ServerNext ==
  \/ Tick
  \/ \E h \in Handlers, n \in Names, secret \in Passwords :
       \/ ArriveAnonymous(h, "login", n, secret)
       \/ ArriveAnonymous(h, "register", n, secret)
  \/ \E h \in Handlers : ArriveAnonymous(h, "join", Nobody, NoPassword)
  \/ \E h \in Handlers, route \in DOMAIN AccountAwaits, t \in Tokens \union {NoToken} :
       ArriveSignedIn(h, route, t)
  \/ \E t \in Tokens : WhoAmI(t) \/ Logout(t)
  \/ \E h \in Handlers : HandlerStep(h) \/ ClientLeaves(h)
  \/ \E c \in Sockets : \/ Upgrade(c) \/ SocketCloses(c) \/ HandleMessage(c)
                        \/ Message(c, "hello") \/ Message(c, "intent")
  \/ HostSettles
  \/ Signal
  \/ Shutdown

ServerSpec == ServerInit /\ [][ServerNext]_serverVars

\* The handler waits for bytes that its client, still connected, has to send.
AwaitsBody(h) ==
  /\ requests[h] # Free
  /\ requests[h].stage \in BodyStages
  /\ requests[h].connected

\* The event loop goes on with something that is ready: what a handler awaits of
\* the server comes back, the body of a client that left ends, a queued operation
\* settles, or close() moves on.  No client has to send anything or to leave.
Progress ==
  \/ \E h \in Handlers : HandlerStep(h) /\ ~AwaitsBody(h)
  \/ \E c \in Sockets : HandleMessage(c)
  \/ HostSettles
  \/ Shutdown

FairServerSpec == ServerSpec /\ WF_serverVars(Progress)

-----------------------------------------------------------------------------
(* Properties *)

\* Nothing is left that could write once the database is closed: no handler, no
\* message of a socket (also of one that closed earlier), no host operation.
NothingOutlivesTheDatabase ==
  ~DatabaseOpen => InUse = {} /\ Pending = {} /\ hostQueue = <<>>

InGoodStanding(t, n) ==
  \E g \in grants : /\ g.token = t /\ g.account = n /\ g.secret = accounts[n]
                    /\ now < g.at + TTL

\* A request acts for an account exactly when its token came from a login with
\* the password of that account, was not logged out and has not expired,
\* however registrations and logins of the same name interleaved.
IdentityIsEarned ==
  \A t \in Tokens, n \in Names : Authenticated(t) = n <=> InGoodStanding(t, n)

\* close() ends, whatever handlers, messages and host operations were in flight
\* when the first signal came, as long as no client stalls for ever in the middle
\* of a body with its connection open.  One that does keeps close() waiting:
\* readJsonBody has no timeout, httpServer.close() stops Node's own check of
\* slow requests, and main.ts forces no exit.
ShutdownCompletes ==
  (\A h \in Handlers : []<>~AwaitsBody(h)) => (Closing ~> phase = "closed")
=============================================================================
