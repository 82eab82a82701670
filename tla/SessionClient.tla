--------------------------- MODULE SessionClient ---------------------------
(***************************************************************************)
(* One browser client, src/src/client/session-client.ts, talking to the    *)
(* session of module SessionHost over sockets that may break at any time   *)
(* with messages in flight either way.                                     *)
(*                                                                         *)
(* The client keeps one outstanding intent and sends it again, under the   *)
(* same request identifier, on every socket it opens.  Sockets are used    *)
(* once each.  One player only: messages to others do not concern it.      *)
(***************************************************************************)
EXTENDS SessionHost

\* The sockets are those of one player; messages about no request say so.
ASSUME ClientAssumption ==
  /\ \A c \in Connections : Owner[c] = Host
  /\ "none" \notin Requests

VARIABLES
  conn,         \* SessionClient.socket
  seen,         \* version of snapshotValue, NoVersion when null
  outstanding,  \* outstanding: envelope and committedRevision
  terminal,     \* terminallyClosed
  up, down,     \* messages in flight on each socket
  broken,       \* sockets that carry nothing any more
  answers,      \* history: what the caller of each intent was told
  cutOff        \* history: the request turned away with its client, "none" if none

clientVars == <<conn, seen, outstanding, terminal, answers, cutOff>>
wireVars == <<up, down, broken>>
systemVars == <<vars, clientVars, wireVars>>

-----------------------------------------------------------------------------
(* Data *)

HelloMessage == [type |-> "hello"]
Nothing == [env |-> [id |-> "none"], committed |-> -1]
NoVersion == [revision |-> -1, control |-> -1]

Pending == outstanding # Nothing

ClientInit ==
  /\ Init
  /\ conn = NoConn
  /\ seen = NoVersion
  /\ outstanding = Nothing
  /\ terminal = FALSE
  /\ up = [c \in Connections |-> <<>>]
  /\ down = [c \in Connections |-> <<>>]
  /\ broken = {}
  /\ answers = [r \in Requests |-> "unsent"]
  /\ cutOff = "none"

-----------------------------------------------------------------------------
(* Server and wires *)

\* Whatever the server put on a socket travels unless the socket is broken.
Deliver ==
  down' = [c \in Connections |-> IF c \in broken THEN <<>> ELSE down[c] \o sent'[c]]

ServerStep ==
  /\ \/ RunNext \/ Settle \/ RequestRetire \/ OtherWriter
     \/ \E c \in Connections : HelloDeadline(c)
  /\ Deliver
  /\ UNCHANGED <<clientVars, up, broken>>

\* The server reads the next message of socket c.
Arrives(c) ==
  /\ c \notin broken /\ up[c] # <<>>
  /\ up' = [up EXCEPT ![c] = Tail(@)]
  /\ \/ /\ Head(up[c]) = HelloMessage
        /\ Hello(c) \/ HelloTooLate(c)
     \/ /\ Head(up[c]) # HelloMessage
        /\ SendIntent(c, Head(up[c]).env)
  /\ Deliver
  /\ UNCHANGED <<clientVars, broken>>

\* A message that finds no session, or a socket already turned away.
ArrivesTooLate(c) ==
  /\ c \notin broken /\ up[c] # <<>>
  /\ Head(up[c]) # HelloMessage
  /\ retired \/ socket[c] = "closed"
  /\ up' = [up EXCEPT ![c] = Tail(@)]
  /\ UNCHANGED <<vars, clientVars, down, broken>>

\* A socket breaks; what is in flight is lost.
Break(c) ==
  /\ c \notin broken
  /\ conn = c
  /\ broken' = broken \union {c}
  /\ up' = [up EXCEPT ![c] = <<>>]
  /\ down' = [down EXCEPT ![c] = <<>>]
  /\ UNCHANGED <<vars, clientVars>>

\* The server's close event of a broken socket.
ServerNotices(c) ==
  /\ c \in broken
  /\ SocketCloses(c)
  /\ UNCHANGED <<clientVars, wireVars>>

-----------------------------------------------------------------------------
(* Client *)

\* Fault: the outstanding envelope is not sent again.
ConnectAfresh(c) ==
  /\ conn = NoConn /\ ~terminal
  /\ socket[c] = "new" /\ up[c] = <<>> /\ c \notin broken
  /\ conn' = c
  /\ up' = [up EXCEPT ![c] = <<HelloMessage>>]
  /\ UNCHANGED <<vars, seen, outstanding, terminal, answers, cutOff, down, broken>>

\* connect: hello, then the outstanding envelope again.
Connect(c) ==
  /\ conn = NoConn /\ ~terminal
  /\ socket[c] = "new" /\ up[c] = <<>> /\ c \notin broken
  /\ conn' = c
  /\ up' = [up EXCEPT ![c] =
       IF Pending THEN <<HelloMessage, [type |-> "intent", env |-> outstanding.env]>>
                  ELSE <<HelloMessage>>]
  /\ UNCHANGED <<vars, seen, outstanding, terminal, answers, cutOff, down, broken>>

\* Fault: a broken socket is taken for a refusal of the open intent.
ClientNoticesRefusing ==
  /\ conn \in broken
  /\ conn' = NoConn
  /\ outstanding' = Nothing
  /\ answers' = IF Pending THEN [answers EXCEPT ![outstanding.env.id] = "refused"]
                ELSE answers
  /\ UNCHANGED <<vars, seen, terminal, cutOff, wireVars>>

\* The client's close event of a broken socket: it will reconnect.
ClientNotices ==
  /\ conn \in broken
  /\ conn' = NoConn
  /\ UNCHANGED <<vars, seen, outstanding, terminal, answers, cutOff, wireVars>>

ClientSendIntent(r, intent) ==
  LET env == [id |-> r, intent |-> intent, expected |-> seen.revision] IN
  /\ conn # NoConn /\ ~terminal
  /\ seen # NoVersion
  /\ ~Pending
  /\ answers[r] = "unsent"
  /\ outstanding' = [env |-> env, committed |-> -1]
  /\ answers' = [answers EXCEPT ![r] = "waiting"]
  /\ up' = IF conn \in broken THEN up
           ELSE [up EXCEPT ![conn] = Append(@, [type |-> "intent", env |-> env])]
  /\ UNCHANGED <<vars, conn, seen, terminal, cutOff, down, broken>>

\* settleOutstanding
Tell(verdict) ==
  /\ outstanding' = Nothing
  /\ answers' = IF Pending THEN [answers EXCEPT ![outstanding.env.id] = verdict] ELSE answers

Concerns(id) == Pending /\ outstanding.env.id = id

\* stopTerminal: the caller of an open request is told no, whatever became of
\* the request.  Only a message that names it speaks of it.
Stop(named) ==
  /\ terminal' = TRUE
  /\ Tell("refused")
  /\ cutOff' = IF Pending /\ ~Concerns(named) THEN outstanding.env.id ELSE cutOff
  /\ conn' = NoConn
  /\ UNCHANGED seen

TerminalErrors ==
  {"SESSION_NOT_FOUND", "UNAUTHENTICATED", "CONTENT_MISMATCH", "PROTOCOL_MISMATCH",
   "SESSION_RETIRED"}

OnClose == Stop("none")

\* An error about the open request, or about none, refuses it.
OnError(message) ==
  \/ message.code \in TerminalErrors /\ Stop(message.id)
  \/ /\ message.code \notin TerminalErrors
     /\ IF message.id = "none" \/ Concerns(message.id)
          THEN Tell("refused") ELSE UNCHANGED <<outstanding, answers>>
     /\ UNCHANGED <<conn, seen, terminal, cutOff>>

OnAck(message) ==
  /\ \/ ~Concerns(message.id) /\ UNCHANGED <<outstanding, answers>>
     \/ Concerns(message.id) /\ ~message.accepted /\ Tell("refused")
     \/ /\ Concerns(message.id) /\ message.accepted
        /\ IF seen.revision >= message.revision
             THEN Tell("accepted")
             ELSE /\ outstanding' = [outstanding EXCEPT !.committed = message.revision]
                  /\ UNCHANGED answers
  /\ UNCHANGED <<conn, seen, terminal, cutOff>>

\* A snapshot is applied when its version is newer, or when it is a resync.
Newer(message) ==
  \/ seen = NoVersion
  \/ message.revision > seen.revision
  \/ message.revision = seen.revision /\ message.control > seen.control
  \/ message.cause = "resync"

OnSnapshot(message) ==
  /\ \/ ~Newer(message) /\ UNCHANGED <<seen, outstanding, answers>>
     \/ /\ Newer(message)
        /\ seen' = [revision |-> message.revision, control |-> message.control]
        /\ IF Pending /\ outstanding.committed >= 0
                /\ message.revision >= outstanding.committed
             THEN Tell("accepted") ELSE UNCHANGED <<outstanding, answers>>
  /\ UNCHANGED <<conn, terminal, cutOff>>

\* receive, and the close event with its code.
Receive ==
  /\ conn \in Connections \ broken /\ ~terminal
  /\ down[conn] # <<>>
  /\ LET message == Head(down[conn]) IN
     \/ message.type = "close" /\ OnClose
     \/ message.type = "error" /\ OnError(message)
     \/ message.type = "ack" /\ OnAck(message)
     \/ message.type = "snapshot" /\ OnSnapshot(message)
  /\ down' = [down EXCEPT ![conn] = Tail(@)]
  /\ broken' = IF terminal' THEN broken \union {conn} ELSE broken
  /\ UNCHANGED <<vars, up>>

ClientNext ==
  \/ ServerStep
  \/ \E c \in Connections : Arrives(c) \/ ArrivesTooLate(c)
  \/ \E c \in Connections : Break(c)
  \/ \E c \in Connections : ServerNotices(c)
  \/ \E c \in Connections : Connect(c)
  \/ ClientNotices
  \/ \E r \in Requests, intent \in Intents : ClientSendIntent(r, intent)
  \/ Receive

ClientSpec == ClientInit /\ [][ClientNext]_systemVars

\* Event loops run what is ready, a wire that is not broken delivers, and the
\* reconnect timer fires: as long as something of this can happen, something
\* does.  Nothing makes a player act, a socket break or a deadline expire.
Progress ==
  \/ ServerStep /\ (RunNext \/ Settle)
  \/ \E c \in Connections : Arrives(c) \/ ArrivesTooLate(c) \/ ServerNotices(c) \/ Connect(c)
  \/ ClientNotices
  \/ Receive

ClientFairness == WF_systemVars(Progress)

FairClientSpec == ClientSpec /\ ClientFairness

-----------------------------------------------------------------------------
(* Properties *)

ClientMessages == {HelloMessage} \union [type : {"intent"}, env : Envelopes]

ServerMessages ==
  [type : {"ack"}, id : Requests, accepted : BOOLEAN, revision : 0..MaxRevision]
  \union [type : {"error"}, id : Requests \union {"none"},
          code : {"REJECTED", "REQUEST_ID_REUSE", "PERSISTENCE_FAILED"} \union TerminalErrors]
  \union [type : {"close"},
          code : {"replaced", "refused", "not-found", "timeout", "retired"}]
  \union [type : {"snapshot"}, revision : 0..MaxRevision, control : Nat,
          gen : 0..MaxRevision, adventure : BOOLEAN, online : SUBSET Players,
          cause : {"join", "resync", "control", "intent", "server"}]

\* Type invariant of the client and its wires.
ClientTypeOK ==
  /\ conn \in Connections \union {NoConn}
  /\ seen \in {NoVersion} \union [revision : 0..MaxRevision, control : Nat]
  /\ outstanding \in {Nothing} \union [env : Envelopes, committed : -1..MaxRevision]
  /\ terminal \in BOOLEAN
  /\ up \in [Connections -> Seq(ClientMessages)]
  /\ down \in [Connections -> Seq(ServerMessages)]
  /\ broken \subseteq Connections
  /\ answers \in [Requests -> {"unsent", "waiting", "accepted", "refused"}]
  /\ cutOff \in Requests \union {"none"}

\* What the caller of sendIntent is told: an intent reported accepted took
\* effect once and its result is on screen; one reported refused never takes
\* effect, however often it was sent, unless it was the one open request when
\* the session turned this client away.  That one is reported refused although
\* it may have been applied: nothing told the client what became of it.
VerdictsAreTrue ==
  /\ cutOff # "none" => terminal
  /\ \A r \in Requests :
       /\ answers[r] = "accepted" =>
            applied[Host][r] = 1 /\ seen.revision >= journal[Host][r].revision
       /\ answers[r] = "refused" => applied[Host][r] = 0 \/ r = cutOff

\* What the player sees never goes back to an older version, also across
\* reconnects.
ScreenNeverGoesBack ==
  [][\/ seen'.revision > seen.revision
     \/ seen'.revision = seen.revision /\ seen'.control >= seen.control]_seen

\* An intent does not stay open: as long as a fresh socket can be had, its
\* caller hears of it, whatever broke in between.  An open intent blocks
\* every later one of the client.
IntentSettles == Pending ~> (~Pending \/ broken = Connections)
=============================================================================
