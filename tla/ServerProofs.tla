---------------------------- MODULE ServerProofs ----------------------------
(***************************************************************************)
(* Proofs about the server: a durable campaign, for any number of          *)
(* processes, builds, sessions and calls, and the life of one process, for *)
(* any number of names, requests, sockets and tokens and any lifetime of   *)
(* an auth session.                                                        *)
(*                                                                         *)
(* CampaignInv is inductive.  What it adds to the properties is that a     *)
(* session whose compared revision still matches has shown exactly the     *)
(* save in the row, that the mapping of a process names its one running    *)
(* session, and that a call that waits for a retirement or a migration     *)
(* stands at the head of its line, so that no other call of its process    *)
(* opens a session meanwhile.                                              *)
(*                                                                         *)
(* ServerInv is inductive and has two halves that meet in the requests.    *)
(* Accounts: every row of auth_sessions has the login that earned it, and  *)
(* every login still good has its row.  Shutdown: each phase of close()    *)
(* keeps what the phase before it waited for, because what is left then    *)
(* can only settle and starts nothing new.                                 *)
(***************************************************************************)
EXTENDS Campaign, Server, TLAPS, FiniteSetTheorems

-----------------------------------------------------------------------------
(* The campaign: the inductive invariant *)

Active(o) == ops[o].stage \in {"retiring", "migrating"}

\* Each commit counts; a row that was deleted does not come back, and before
\* there is one nobody plays.
RowCounts ==
  /\ Len(lineage) <= MaxSaves
  /\ row.present => /\ row.revision = Len(lineage) /\ row.save = Len(lineage)
                    /\ remover = {}
  /\ ~row.present => row = Absent
  /\ ~row.present /\ remover = {} =>
       /\ \A s \in Sessions : session[s].stage = "new"
       /\ \A o \in Operations : ~Active(o)

\* What a session holds is what its players see, but for a write that landed.
SessionHolds(s) ==
  /\ session[s].shown <= Len(lineage) /\ session[s].held <= Len(lineage)
  /\ session[s].stage \in {"idle", "writing"} => session[s].shown = session[s].held
  /\ session[s].stage = "landed" => session[s].written = session[s].held

SessionsHold == \A s \in Sessions : SessionHolds(s)

\* The service maps a campaign to a running session of its own process.
LiveRuns ==
  \A p \in Processes :
    live[p] # NoSession => Running(live[p]) /\ session[live[p]].process = p

Lined(o) == \E i \in DOMAIN line[ops[o].process] : line[ops[o].process][i] = o

\* A call that has not settled stands in the line of its process, at its head
\* from when it started.
CallsStandInLine ==
  \A o \in Operations :
    /\ ops[o].stage = "queued" \/ Active(o) => Lined(o)
    /\ Active(o) => IsNext(o)

\* While a call waits for a retirement nothing but the session it retires is
\* live in its process, and nothing once it migrates.
CallsAreAlone ==
  \A o \in Operations :
    LET p == ops[o].process IN
    /\ ops[o].stage = "retiring" =>
         ops[o].retired \in Sessions /\ live[p] \in {NoSession, ops[o].retired}
    /\ ops[o].stage = "migrating" =>
         live[p] = NoSession /\ ops[o].preflight.save = ops[o].preflight.revision

CampaignInv ==
  /\ TypeOK /\ RowCounts /\ LinearHistory /\ SessionsHold
  /\ LiveRuns /\ OneWriter /\ CallsStandInLine /\ CallsAreAlone

-----------------------------------------------------------------------------
(* Records and sequences *)

\* A step of a session that writes at most stage, shown, written and waiting
\* leaves the other fields alone.
LEMMA SessionFields ==
  ASSUME TypeOK, NEW s \in Sessions
  PROVE  /\ session[s] \in LiveSessions
         /\ session[s].shown \in 0..MaxSaves /\ session[s].held \in 0..MaxSaves
         /\ session[s].written \in 0..MaxSaves /\ session[s].waiting \in 0..MaxWaiting
         /\ session[s].process \in Processes /\ session[s].retiring \in BOOLEAN
         /\ MaxSaves \in Nat \ {0} /\ MaxWaiting \in Nat
BY CampaignServiceAssumption DEF TypeOK, LiveSessions

LEMMA BeginFields ==
  ASSUME TypeOK, NEW s \in Sessions, Begin(s)
  PROVE  /\ session' \in [Sessions -> LiveSessions]
         /\ \A t \in Sessions \ {s} : session'[t] = session[t]
         /\ session'[s].stage = "writing"
         /\ session'[s].process = session[s].process
         /\ session'[s].shown = session[s].shown /\ session'[s].held = session[s].held
<1> DEFINE a == [session[s] EXCEPT !.stage = "writing"]
           b == [a EXCEPT !.waiting = @ - 1]
<1>1. session' = [session EXCEPT ![s] = b]
  BY DEF Begin, TypeOK
<1>2. a \in LiveSessions /\ a.waiting = session[s].waiting /\ a.stage = "writing"
      /\ a.process = session[s].process /\ a.shown = session[s].shown /\ a.held = session[s].held
  BY SessionFields DEF LiveSessions
<1>3. a.waiting - 1 \in 0..MaxWaiting
  BY <1>2, SessionFields DEF Begin
<1>4. b \in LiveSessions /\ b.stage = "writing"
      /\ b.process = session[s].process /\ b.shown = session[s].shown /\ b.held = session[s].held
  <2> HIDE DEF a
  <2> QED BY <1>2, <1>3 DEF LiveSessions
<1> HIDE DEF b
<1> QED BY <1>1, <1>4 DEF TypeOK

\* A session publishes the save that landed and may write the next at once.
LEMMA PublishFields ==
  ASSUME TypeOK, NEW s \in Sessions, Publish(s)
  PROVE  /\ session' \in [Sessions -> LiveSessions]
         /\ \A t \in Sessions \ {s} : session'[t] = session[t]
         /\ session'[s].stage \in {"idle", "writing"}
         /\ session'[s].process = session[s].process
         /\ session'[s].shown = session[s].written /\ session'[s].held = session[s].held
<1>1. PICK next \in {"idle", "writing"} :
        session' = [session EXCEPT ![s].stage = next, ![s].shown = session[s].written]
  BY DEF Publish
<1> DEFINE a == [session[s] EXCEPT !.stage = next]
           b == [a EXCEPT !.shown = session[s].written]
<1>2. session' = [session EXCEPT ![s] = b]
  BY <1>1 DEF TypeOK
<1>3. a \in LiveSessions /\ a.stage = next
      /\ a.process = session[s].process /\ a.held = session[s].held
  BY SessionFields DEF LiveSessions
<1>4. b \in LiveSessions /\ b.stage = next /\ b.shown = session[s].written
      /\ b.process = session[s].process /\ b.held = session[s].held
  <2> HIDE DEF a
  <2> QED BY <1>3, SessionFields DEF LiveSessions
<1> HIDE DEF b
<1> QED BY <1>2, <1>4 DEF TypeOK

\* A write lands: the session holds the new save before its players see it.
LEMMA LandFields ==
  ASSUME TypeOK, RowCounts, NEW s \in Sessions, Land(s)
  PROVE  /\ session' \in [Sessions -> LiveSessions]
         /\ \A t \in Sessions \ {s} : session'[t] = session[t]
         /\ session'[s].stage = "landed"
         /\ session'[s].process = session[s].process
         /\ session'[s].shown = session[s].shown
         /\ session'[s].held = Len(lineage) + 1 /\ session'[s].written = Len(lineage) + 1
<1> DEFINE a == [session[s] EXCEPT !.stage = "landed"]
           b == [a EXCEPT !.held = @ + 1]
           c == [b EXCEPT !.written = Len(lineage) + 1]
<1>1. session' = [session EXCEPT ![s] = c]
  BY DEF Land, TypeOK
<1>2. Len(lineage) + 1 \in 0..MaxSaves /\ session[s].held = Len(lineage)
  <2>1. Len(lineage) \in Nat /\ Len(lineage) < MaxSaves
    BY DEF TypeOK, Land
  <2>2. row.present /\ row.revision = session[s].held
    BY DEF Land, Wins
  <2> QED BY <2>1, <2>2, SessionFields DEF RowCounts
<1>3. a \in LiveSessions /\ a.stage = "landed"
      /\ a.process = session[s].process /\ a.shown = session[s].shown /\ a.held = session[s].held
  BY SessionFields DEF LiveSessions
<1>4. b \in LiveSessions /\ b.stage = "landed" /\ b.held = Len(lineage) + 1
      /\ b.process = session[s].process /\ b.shown = session[s].shown
  <2> HIDE DEF a
  <2> QED BY <1>2, <1>3 DEF LiveSessions
<1>5. c \in LiveSessions /\ c.stage = "landed" /\ c.held = Len(lineage) + 1
      /\ c.written = Len(lineage) + 1
      /\ c.process = session[s].process /\ c.shown = session[s].shown
  <2> HIDE DEF b
  <2> QED BY <1>2, <1>4 DEF LiveSessions
<1> HIDE DEF c
<1> QED BY <1>1, <1>5 DEF TypeOK

\* A retired session keeps what it showed and held.
LEMMA RetiredFields ==
  ASSUME TypeOK, NEW s \in Sessions, Retired(s)
  PROVE  /\ session' \in [Sessions -> LiveSessions]
         /\ \A t \in Sessions \ {s} : session'[t] = session[t]
         /\ session'[s].stage = "retired"
         /\ session'[s].process = session[s].process
         /\ session'[s].shown = session[s].shown /\ session'[s].held = session[s].held
<1> DEFINE a == [session[s] EXCEPT !.stage = "retired"]
           b == [a EXCEPT !.waiting = 0]
<1>1. session' = [session EXCEPT ![s] = b]
  BY DEF Retired, TypeOK
<1>2. a \in LiveSessions /\ a.stage = "retired"
      /\ a.process = session[s].process /\ a.shown = session[s].shown /\ a.held = session[s].held
  BY SessionFields DEF LiveSessions
<1>3. b \in LiveSessions /\ b.stage = "retired"
      /\ b.process = session[s].process /\ b.shown = session[s].shown /\ b.held = session[s].held
  <2> HIDE DEF a
  <2> QED BY <1>2, SessionFields DEF LiveSessions
<1> HIDE DEF b
<1> QED BY <1>1, <1>3 DEF TypeOK

LEMMA AbsentFields ==
  /\ Absent \in Rows /\ ~Absent.present /\ Absent.revision = 0 /\ Absent.save = 0
  /\ 0 \in 0..MaxSaves
BY CampaignServiceAssumption DEF Absent, Rows

\* A session and a call before they begin.
LEMMA UnbornFields ==
  /\ Unborn \in LiveSessions /\ Unborn.stage = "new"
  /\ Unborn.shown = 0 /\ Unborn.held = 0
  /\ Call \in Calls /\ Call.stage = "new"
<1> DEFINE first == CHOOSE p \in Processes : TRUE
<1>1. first \in Processes
  BY CampaignServiceAssumption
<1> HIDE DEF first
<1>3. Unborn = [stage |-> "new", process |-> first, shown |-> 0, held |-> 0,
                written |-> 0, waiting |-> 0, retiring |-> FALSE]
  BY DEF Unborn, first
<1>4. Call = [stage |-> "new", process |-> first, kind |-> "continue",
              preflight |-> Absent, retired |-> NoSession]
  BY DEF Call, first
<1> QED BY <1>1, <1>3, <1>4, AbsentFields, CampaignServiceAssumption DEF LiveSessions, Calls

\* The session a call or a creation opens.
LEMMA OpenedFields ==
  ASSUME NEW p \in Processes, NEW save \in 0..MaxSaves, NEW revision \in 0..MaxSaves
  PROVE  /\ Opened(p, save, revision) \in LiveSessions
         /\ Opened(p, save, revision).stage = "idle"
         /\ Opened(p, save, revision).process = p
         /\ Opened(p, save, revision).shown = save
         /\ Opened(p, save, revision).held = revision
<1> DEFINE a == [Unborn EXCEPT !.stage = "idle"]
           b == [a EXCEPT !.process = p]
           c == [b EXCEPT !.shown = save]
           d == [c EXCEPT !.held = revision]
<1>1. a \in LiveSessions /\ a.stage = "idle"
  BY UnbornFields DEF LiveSessions
<1>2. b \in LiveSessions /\ b.stage = "idle" /\ b.process = p
  <2> HIDE DEF a
  <2> QED BY <1>1 DEF LiveSessions
<1>3. c \in LiveSessions /\ c.stage = "idle" /\ c.process = p /\ c.shown = save
  <2> HIDE DEF b
  <2> QED BY <1>2 DEF LiveSessions
<1>4. d \in LiveSessions /\ d.stage = "idle" /\ d.process = p /\ d.shown = save
      /\ d.held = revision
  <2> HIDE DEF c
  <2> QED BY <1>3 DEF LiveSessions
<1>5. Opened(p, save, revision) = d
  BY DEF Opened
<1> HIDE DEF d
<1> QED BY <1>4, <1>5

\* A commit that won counts the row and the history up by one.
LEMMA CommitFields ==
  ASSUME TypeOK, RowCounts, LinearHistory, row.present, Len(lineage) < MaxSaves,
         NEW content \in Nat, NEW base, base = Len(lineage),
         NEW by \in Sessions \union {NoSession}, CommitSave(content, base, by)
  PROVE  /\ row' \in Rows /\ row'.present
         /\ row'.revision = Len(lineage) + 1 /\ row'.save = Len(lineage) + 1
         /\ lineage' \in Seq([base : 0..MaxSaves, by : Sessions \union {NoSession}])
         /\ Len(lineage') = Len(lineage) + 1 /\ Len(lineage') <= MaxSaves
         /\ LinearHistory'
<1>1. /\ Len(lineage) \in Nat /\ Len(lineage) + 1 \in 0..MaxSaves
      /\ row \in Rows /\ row.revision = Len(lineage)
      /\ lineage \in Seq([base : 0..MaxSaves, by : Sessions \union {NoSession}])
  BY CampaignServiceAssumption DEF TypeOK, RowCounts
<1> DEFINE a == [row EXCEPT !.revision = @ + 1]
           b == [a EXCEPT !.save = Len(lineage) + 1]
           c == [b EXCEPT !.content = content]
<1>2. row' = c
  BY DEF CommitSave
<1>3. a \in Rows /\ a.present /\ a.revision = Len(lineage) + 1
  BY <1>1 DEF Rows
<1>4. b \in Rows /\ b.present /\ b.revision = Len(lineage) + 1
      /\ b.save = Len(lineage) + 1
  <2> HIDE DEF a
  <2> QED BY <1>1, <1>3 DEF Rows
<1>5. c \in Rows /\ c.present /\ c.revision = Len(lineage) + 1
      /\ c.save = Len(lineage) + 1
  <2> HIDE DEF b
  <2> QED BY <1>1, <1>4 DEF Rows
<1> HIDE DEF c
<1>6. lineage' = Append(lineage, [base |-> base, by |-> by])
  BY DEF CommitSave
<1>7. base \in 0..MaxSaves /\ MaxSaves \in Nat
  BY <1>1, CampaignServiceAssumption
<1>8. [base |-> base, by |-> by] \in [base : 0..MaxSaves, by : Sessions \union {NoSession}]
  BY <1>7
<1>9. /\ lineage' \in Seq([base : 0..MaxSaves, by : Sessions \union {NoSession}])
      /\ Len(lineage') = Len(lineage) + 1
  BY <1>1, <1>6, <1>8
<1>10. LinearHistory'
  BY <1>1, <1>6, <1>9 DEF LinearHistory
<1> QED BY <1>1, <1>2, <1>5, <1>9, <1>10, <1>7
-----------------------------------------------------------------------------
(* Steps of sessions *)

\* A session that played before and plays on, whatever it wrote meanwhile.
LEMMA PlaysOn ==
  ASSUME CampaignInv, NEW s \in Sessions,
         session' \in [Sessions -> LiveSessions],
         \A t \in Sessions \ {s} : session'[t] = session[t],
         Running(s), Running(s)', session'[s].process = session[s].process,
         SessionHolds(s)',
         row' \in Rows, lineage' \in Seq([base : 0..MaxSaves, by : Sessions \union {NoSession}]),
         RowCounts', LinearHistory', Len(lineage) <= Len(lineage'),
         UNCHANGED <<live, ops, line, remover>>
  PROVE  CampaignInv'
<1>1. TypeOK'
  BY DEF CampaignInv, TypeOK
<1>2. SessionsHold'
  <2> SUFFICES ASSUME NEW t \in Sessions, t # s PROVE SessionHolds(t)'
    BY DEF SessionsHold
  <2>1. SessionHolds(t) /\ session'[t] = session[t]
    BY DEF CampaignInv, SessionsHold
  <2>2. session[t].shown \in Int /\ session[t].held \in Int
        /\ Len(lineage) \in Int /\ Len(lineage') \in Int
    BY SessionFields DEF CampaignInv, TypeOK
  <2> QED BY <2>1, <2>2 DEF SessionHolds
<1>3. \A t \in Sessions : Running(t)' = Running(t) /\ session'[t].process = session[t].process
  BY DEF Running
<1>4. LiveRuns'
  BY <1>3 DEF CampaignInv, LiveRuns, TypeOK
<1>5. OneWriter'
  BY <1>3 DEF CampaignInv, OneWriter
<1>6. CallsStandInLine' /\ CallsAreAlone'
  BY DEF CampaignInv, CallsStandInLine, CallsAreAlone, Active, Lined, IsNext
<1> QED BY <1>1, <1>2, <1>4, <1>5, <1>6 DEF CampaignInv

\* The row says the same as long as nobody writes it and somebody plays.
LEMMA RowStays ==
  ASSUME CampaignInv, NEW s \in Sessions, Running(s),
         UNCHANGED <<row, lineage, ops, remover>>
  PROVE  /\ RowCounts' /\ LinearHistory' /\ row' \in Rows
         /\ lineage' \in Seq([base : 0..MaxSaves, by : Sessions \union {NoSession}])
         /\ Len(lineage) <= Len(lineage')
<1>1. row.present \/ remover # {}
  BY DEF CampaignInv, RowCounts, Running
<1> QED BY <1>1 DEF CampaignInv, RowCounts, LinearHistory, TypeOK

LEMMA QueueKeeps ==
  ASSUME CampaignInv, NEW s \in Sessions, Queue(s)
  PROVE  CampaignInv'
<1>1. TypeOK /\ SessionHolds(s) /\ Running(s) /\ UNCHANGED <<row, lineage, live, ops, line, remover>>
  BY DEF CampaignInv, SessionsHold, Queue
<1> DEFINE a == [session[s] EXCEPT !.waiting = @ + 1]
<1>2. session' = [session EXCEPT ![s] = a]
  BY <1>1 DEF Queue, TypeOK
<1>3. session[s].waiting + 1 \in 0..MaxWaiting
  BY <1>1, SessionFields DEF Queue
<1>4. a \in LiveSessions /\ a.stage = session[s].stage /\ a.process = session[s].process
      /\ a.shown = session[s].shown /\ a.held = session[s].held
      /\ a.written = session[s].written
  BY <1>1, <1>3, SessionFields DEF LiveSessions
<1> HIDE DEF a
<1>5. /\ session' \in [Sessions -> LiveSessions] /\ session'[s] = a
      /\ \A t \in Sessions \ {s} : session'[t] = session[t]
  BY <1>1, <1>2, <1>4 DEF TypeOK
<1>6. Running(s)' /\ SessionHolds(s)'
  BY <1>1, <1>4, <1>5 DEF Running, SessionHolds
<1> QED BY <1>1, <1>4, <1>5, <1>6, PlaysOn, RowStays

LEMMA SkipKeeps ==
  ASSUME CampaignInv, NEW s \in Sessions, Skip(s)
  PROVE  CampaignInv'
<1>1. TypeOK /\ SessionHolds(s) /\ Running(s) /\ UNCHANGED <<row, lineage, live, ops, line, remover>>
  BY DEF CampaignInv, SessionsHold, Skip, Running
<1> DEFINE a == [session[s] EXCEPT !.waiting = @ - 1]
<1>2. session' = [session EXCEPT ![s] = a]
  BY <1>1 DEF Skip, TypeOK
<1>3. session[s].waiting - 1 \in 0..MaxWaiting
  BY <1>1, SessionFields DEF Skip
<1>4. a \in LiveSessions /\ a.stage = session[s].stage /\ a.process = session[s].process
      /\ a.shown = session[s].shown /\ a.held = session[s].held
      /\ a.written = session[s].written
  BY <1>1, <1>3, SessionFields DEF LiveSessions
<1> HIDE DEF a
<1>5. /\ session' \in [Sessions -> LiveSessions] /\ session'[s] = a
      /\ \A t \in Sessions \ {s} : session'[t] = session[t]
  BY <1>1, <1>2, <1>4 DEF TypeOK
<1>6. Running(s)' /\ SessionHolds(s)'
  BY <1>1, <1>4, <1>5 DEF Running, SessionHolds
<1> QED BY <1>1, <1>4, <1>5, <1>6, PlaysOn, RowStays

LEMMA BeginKeeps ==
  ASSUME CampaignInv, NEW s \in Sessions, Begin(s)
  PROVE  CampaignInv'
<1>1. TypeOK /\ SessionHolds(s) /\ Running(s) /\ UNCHANGED <<row, lineage, live, ops, line, remover>>
  BY DEF CampaignInv, SessionsHold, Begin, Running
<1>2. Running(s)' /\ SessionHolds(s)'
  BY <1>1, BeginFields DEF Running, SessionHolds, Begin
<1> QED BY <1>1, <1>2, BeginFields, PlaysOn, RowStays

LEMMA PublishKeeps ==
  ASSUME CampaignInv, NEW s \in Sessions, Publish(s)
  PROVE  CampaignInv'
<1>1. TypeOK /\ SessionHolds(s) /\ Running(s) /\ UNCHANGED <<row, lineage, live, ops, line, remover>>
  BY DEF CampaignInv, SessionsHold, Publish, Running
<1>2. Running(s)' /\ SessionHolds(s)'
  BY <1>1, PublishFields DEF Running, SessionHolds, Publish
<1> QED BY <1>1, <1>2, PublishFields, PlaysOn, RowStays

LEMMA LandKeeps ==
  ASSUME CampaignInv, NEW s \in Sessions, Land(s)
  PROVE  CampaignInv'
<1>1. /\ TypeOK /\ RowCounts /\ LinearHistory /\ SessionHolds(s) /\ Running(s)
      /\ row.present /\ row.revision = session[s].held /\ session[s].stage = "writing"
      /\ UNCHANGED <<live, ops, line, remover>>
  BY DEF CampaignInv, SessionsHold, Land, Running, Wins
<1>2. session[s].shown = Len(lineage)
  BY <1>1 DEF RowCounts, SessionHolds
<1>3. /\ row' \in Rows /\ row'.present
      /\ row'.revision = Len(lineage) + 1 /\ row'.save = Len(lineage) + 1
      /\ lineage' \in Seq([base : 0..MaxSaves, by : Sessions \union {NoSession}])
      /\ Len(lineage') = Len(lineage) + 1 /\ Len(lineage') <= MaxSaves
      /\ LinearHistory'
  <2>1. Build[session[s].process] \in Nat
    BY <1>1, SessionFields, CampaignServiceAssumption
  <2>2. /\ CommitSave(Build[session[s].process], session[s].shown, s)
        /\ Len(lineage) < MaxSaves
    BY DEF Land
  <2> QED BY <1>1, <1>2, <2>1, <2>2, CommitFields
<1>4. RowCounts'
  BY <1>1, <1>3 DEF RowCounts
<1>5. Len(lineage) \in Nat
  BY <1>1 DEF TypeOK
<1>6. Running(s)' /\ SessionHolds(s)'
  BY <1>1, <1>2, <1>3, <1>5, LandFields DEF Running, SessionHolds
<1>7. /\ session' \in [Sessions -> LiveSessions]
      /\ \A t \in Sessions \ {s} : session'[t] = session[t]
      /\ session'[s].process = session[s].process
  BY <1>1, LandFields
<1>8. Len(lineage) <= Len(lineage')
  BY <1>3, <1>5
<1> QED BY ONLY CampaignInv, <1>1, <1>3, <1>4, <1>6, <1>7, <1>8, PlaysOn

\* The mapping forgets a session that stops, and no other.
LEMMA RetiredKeeps ==
  ASSUME CampaignInv, NEW s \in Sessions, Running(s), Retired(s)
  PROVE  CampaignInv'
<1>1. /\ TypeOK /\ live' = [p \in Processes |-> IF live[p] = s THEN NoSession ELSE live[p]]
      /\ UNCHANGED <<row, lineage, ops, line, remover>>
  BY DEF CampaignInv, Retired, Forget
<1>2. TypeOK'
  BY <1>1, RetiredFields DEF TypeOK
<1>3. RowCounts' /\ LinearHistory'
  BY <1>1, RowStays
<1>4. SessionsHold'
  BY <1>1, RetiredFields DEF CampaignInv, SessionsHold, SessionHolds
<1>5. \A t \in Sessions \ {s} : Running(t)' = Running(t) /\ session'[t].process = session[t].process
  BY <1>1, RetiredFields DEF Running
<1>6. ~Running(s)'
  BY <1>1, RetiredFields DEF Running
<1>7. LiveRuns'
  <2>1. SUFFICES ASSUME NEW p \in Processes, live'[p] # NoSession
                 PROVE  (Running(live[p]) /\ session[live[p]].process = p)'
    BY DEF LiveRuns
  <2>2. live'[p] = live[p] /\ live[p] # s
    BY <1>1, <2>1
  <2>3. live[p] \in Sessions
    BY <1>1, <2>1, <2>2 DEF TypeOK
  <2>4. Running(live[p]) /\ session[live[p]].process = p
    BY <2>1, <2>2 DEF CampaignInv, LiveRuns
  <2>5. Running(live[p])' = Running(live[p]) /\ session'[live[p]].process = p
    BY <2>2, <2>3, <2>4, <1>5
  <2> QED BY <2>2, <2>4, <2>5 DEF Running
<1>8. OneWriter'
  BY <1>1, <1>5, <1>6, SessionFields DEF CampaignInv, OneWriter
<1>9. CallsStandInLine'
  BY <1>1 DEF CampaignInv, CallsStandInLine, Active, Lined, IsNext
<1>10. CallsAreAlone'
  <2>1. \A o \in Operations : ops[o].process \in Processes
    BY <1>1 DEF TypeOK, Calls
  <2> QED BY <1>1, <2>1 DEF CampaignInv, CallsAreAlone
<1> QED BY <1>2, <1>3, <1>4, <1>7, <1>8, <1>9, <1>10 DEF CampaignInv

LEMMA SessionStepKeeps ==
  ASSUME CampaignInv, NEW s \in Sessions, SessionStep(s)
  PROVE  CampaignInv'
<1>1. CASE LosesRow(s) \/ Retire(s)
  BY <1>1, RetiredKeeps DEF LosesRow, Retire, Running
<1>2. CASE WriteFails(s)
  <2>1. CASE Retired(s)
    BY <1>2, <2>1, RetiredKeeps DEF WriteFails, Running
  <2>2. CASE /\ session' = [session EXCEPT ![s].stage = "idle"]
             /\ UNCHANGED <<row, lineage, live, ops, line, remover>>
    <3>1. TypeOK /\ SessionHolds(s) /\ Running(s) /\ session[s].stage = "writing"
      BY <1>2 DEF CampaignInv, SessionsHold, Running, WriteFails
    <3> DEFINE a == [session[s] EXCEPT !.stage = "idle"]
    <3>2. a \in LiveSessions /\ a.stage = "idle" /\ a.process = session[s].process
          /\ a.shown = session[s].shown /\ a.held = session[s].held
      BY <3>1, SessionFields DEF LiveSessions
    <3>3. session' = [session EXCEPT ![s] = a]
      BY <2>2, <3>1 DEF TypeOK
    <3> HIDE DEF a
    <3>4. /\ session' \in [Sessions -> LiveSessions] /\ session'[s] = a
          /\ \A t \in Sessions \ {s} : session'[t] = session[t]
      BY <3>1, <3>2, <3>3 DEF TypeOK
    <3>5. Running(s)' /\ SessionHolds(s)' /\ session'[s].process = session[s].process
      BY <2>2, <3>1, <3>2, <3>4 DEF Running, SessionHolds
    <3>6. UNCHANGED <<row, lineage, live, ops, line, remover>>
      BY <2>2
    <3>7. /\ RowCounts' /\ LinearHistory' /\ row' \in Rows
          /\ lineage' \in Seq([base : 0..MaxSaves, by : Sessions \union {NoSession}])
          /\ Len(lineage) <= Len(lineage')
      BY <3>1, <3>6, RowStays
    <3> QED BY <3>1, <3>4, <3>5, <3>6, <3>7, PlaysOn
  <2> QED BY <1>2, <2>1, <2>2 DEF WriteFails
<1> QED BY <1>1, <1>2, BeginKeeps, SkipKeeps, LandKeeps, PublishKeeps DEF SessionStep
-----------------------------------------------------------------------------
(* Steps of calls *)

LEMMA CallFields ==
  ASSUME TypeOK, NEW o \in Operations
  PROVE  /\ ops[o] \in Calls /\ ops[o].process \in Processes
         /\ line[ops[o].process] \in Seq(Operations)
         /\ ops[o].preflight \in Rows /\ ops[o].retired \in Sessions \union {NoSession}
BY DEF TypeOK, Calls

\* A call leaves the head of its line; nothing it left behind had started.
LEMMA SettlesKeeps ==
  ASSUME TypeOK, CallsStandInLine, NEW o \in Operations, NEW outcome,
         outcome \in {"done", "refused", "threw"},
         ops[o].stage = "queued" \/ Active(o), IsNext(o), Settles(o, outcome)
  PROVE  /\ ops' \in [Operations -> Calls] /\ line' \in [Processes -> Seq(Operations)]
         /\ CallsStandInLine'
         /\ \A x \in Operations : Active(x)' =>
              /\ x # o /\ ops'[x] = ops[x] /\ Active(x)
              /\ ops[x].process # ops[o].process
<1> DEFINE p == ops[o].process
           a == [ops[o] EXCEPT !.stage = outcome]
<1>1. /\ p \in Processes /\ line[p] \in Seq(Operations) /\ ops[o] \in Calls
      /\ line \in [Processes -> Seq(Operations)] /\ ops \in [Operations -> Calls]
  BY CallFields DEF TypeOK
<1>2. a \in Calls /\ a.stage = outcome /\ a.process = p
  BY <1>1 DEF Calls
<1>3. ops' = [ops EXCEPT ![o] = a] /\ line' = [line EXCEPT ![p] = Tail(line[p])]
  BY DEF Settles
<1>4. Lined(o) /\ Head(line[p]) = o
  BY DEF CallsStandInLine, IsNext
<1>5. line[p] # <<>> /\ Len(line[p]) \in Nat /\ line[p][1] = o
  BY <1>1, <1>4 DEF Lined
<1>6. /\ Tail(line[p]) \in Seq(Operations)
      /\ \A i \in DOMAIN line[p] : i # 1 =>
           i - 1 \in DOMAIN Tail(line[p]) /\ Tail(line[p])[i - 1] = line[p][i]
  BY <1>1, <1>5
<1> HIDE DEF a
<1>7. /\ ops' \in [Operations -> Calls] /\ line' \in [Processes -> Seq(Operations)]
      /\ ops'[o] = a /\ \A x \in Operations \ {o} : ops'[x] = ops[x]
      /\ line'[p] = Tail(line[p]) /\ \A q \in Processes \ {p} : line'[q] = line[q]
  BY <1>1, <1>2, <1>3, <1>6
<1>8. ~Active(o)' /\ ops'[o].stage # "queued"
  BY <1>2, <1>7 DEF Active
<1>9. ASSUME NEW x \in Operations, Active(x)'
      PROVE  x # o /\ ops'[x] = ops[x] /\ Active(x) /\ ops[x].process # p
  <2>1. x # o /\ ops'[x] = ops[x] /\ Active(x)
    BY <1>7, <1>8, <1>9 DEF Active
  <2>2. Head(line[ops[x].process]) = x
    BY <2>1 DEF CallsStandInLine, IsNext
  <2> QED BY <1>4, <2>1, <2>2
<1>10. CallsStandInLine'
  <2> SUFFICES ASSUME NEW x \in Operations, ops'[x].stage = "queued" \/ Active(x)'
               PROVE  Lined(x)' /\ (Active(x)' => IsNext(x)')
    BY DEF CallsStandInLine
  <2>1. /\ x # o /\ ops'[x] = ops[x] /\ ops[x].process \in Processes
        /\ ops[x].stage = "queued" \/ Active(x)
    BY <1>7, <1>8, CallFields DEF Active
  <2>2. PICK i \in DOMAIN line[ops[x].process] : line[ops[x].process][i] = x
    BY <2>1 DEF CallsStandInLine, Lined
  <2>3. CASE ops[x].process = p
    <3>1. i # 1
      BY <1>5, <2>1, <2>2, <2>3
    <3>2. i - 1 \in DOMAIN line'[p] /\ line'[p][i - 1] = x
      BY <1>6, <1>7, <2>2, <2>3, <3>1
    <3> QED BY <1>9, <2>1, <2>3, <3>2 DEF Lined
  <2>4. CASE ops[x].process # p
    <3>1. line'[ops'[x].process] = line[ops[x].process]
      BY <1>7, <2>1, <2>4
    <3>2. Lined(x)'
      BY <2>1, <2>2, <3>1 DEF Lined
    <3>3. Active(x)' => IsNext(x)'
      BY <1>9, <3>1 DEF CallsStandInLine, IsNext
    <3> QED BY <3>2, <3>3
  <2> QED BY <2>3, <2>4
<1> QED BY <1>7, <1>9, <1>10

\* A call that settles without touching anything else.
LEMMA AnsweredKeeps ==
  ASSUME CampaignInv, NEW o \in Operations, NEW outcome,
         outcome \in {"done", "refused", "threw"},
         ops[o].stage = "queued" \/ Active(o), IsNext(o), Settles(o, outcome),
         UNCHANGED <<row, lineage, session, live, remover>>
  PROVE  CampaignInv'
<1>1. TypeOK /\ CallsStandInLine
  BY DEF CampaignInv
<1>2. /\ ops' \in [Operations -> Calls] /\ line' \in [Processes -> Seq(Operations)]
      /\ CallsStandInLine'
      /\ \A x \in Operations : Active(x)' =>
              /\ x # o /\ ops'[x] = ops[x] /\ Active(x)
              /\ ops[x].process # ops[o].process
  BY <1>1, SettlesKeeps
<1>3. TypeOK'
  BY <1>1, <1>2 DEF TypeOK
<1>4. RowCounts' /\ LinearHistory' /\ SessionsHold' /\ LiveRuns' /\ OneWriter'
  BY <1>2 DEF CampaignInv, RowCounts, LinearHistory, SessionsHold, SessionHolds, LiveRuns,
              OneWriter, Running
<1>5. CallsAreAlone'
  BY <1>2 DEF CampaignInv, CallsAreAlone, Active
<1> QED BY <1>2, <1>3, <1>4, <1>5 DEF CampaignInv

LEMMA SubmitKeeps ==
  ASSUME CampaignInv, NEW p \in Processes, NEW o \in Operations,
         NEW kind \in {"continue", "delete"}, Submit(p, o, kind)
  PROVE  CampaignInv'
<1> DEFINE a == [ops[o] EXCEPT !.stage = "queued"]
           b == [a EXCEPT !.process = p]
           c == [b EXCEPT !.kind = kind]
<1>1. /\ TypeOK /\ ops[o] \in Calls /\ ops[o].stage = "new"
      /\ line[p] \in Seq(Operations) /\ UNCHANGED <<row, lineage, session, live, remover>>
  BY CallFields DEF CampaignInv, Submit, TypeOK
<1>2. ops' = [ops EXCEPT ![o] = c] /\ line' = [line EXCEPT ![p] = Append(line[p], o)]
  BY <1>1 DEF Submit, TypeOK
<1>3. a \in Calls /\ a.stage = "queued"
  BY <1>1 DEF Calls
<1>4. b \in Calls /\ b.stage = "queued" /\ b.process = p
  <2> HIDE DEF a
  <2> QED BY <1>3 DEF Calls
<1>5. c \in Calls /\ c.stage = "queued" /\ c.process = p
  <2> HIDE DEF b
  <2> QED BY <1>4 DEF Calls
<1> HIDE DEF c
<1>6. /\ Append(line[p], o) \in Seq(Operations) /\ Len(line[p]) \in Nat
      /\ Len(line[p]) + 1 \in DOMAIN Append(line[p], o)
      /\ Append(line[p], o)[Len(line[p]) + 1] = o
      /\ \A i \in DOMAIN line[p] :
           i \in DOMAIN Append(line[p], o) /\ Append(line[p], o)[i] = line[p][i]
      /\ line[p] # <<>> => Head(Append(line[p], o)) = Head(line[p])
  BY <1>1
<1>7. /\ ops' \in [Operations -> Calls] /\ line' \in [Processes -> Seq(Operations)]
      /\ ops'[o] = c /\ \A x \in Operations \ {o} : ops'[x] = ops[x]
      /\ line'[p] = Append(line[p], o) /\ \A q \in Processes \ {p} : line'[q] = line[q]
  BY <1>1, <1>2, <1>5, <1>6 DEF TypeOK
<1>8. \A x \in Operations : Active(x)' => x # o /\ Active(x) /\ ops'[x] = ops[x]
  BY <1>5, <1>7 DEF Active
<1>9. TypeOK'
  BY <1>1, <1>7 DEF TypeOK
<1>10. RowCounts' /\ LinearHistory' /\ SessionsHold' /\ LiveRuns' /\ OneWriter'
  BY <1>1, <1>8 DEF CampaignInv, RowCounts, LinearHistory, SessionsHold, SessionHolds, LiveRuns,
                    OneWriter, Running
<1>11. CallsAreAlone'
  BY <1>1, <1>8 DEF CampaignInv, CallsAreAlone, Active
<1>12. CallsStandInLine'
  <2> SUFFICES ASSUME NEW x \in Operations, ops'[x].stage = "queued" \/ Active(x)'
               PROVE  Lined(x)' /\ (Active(x)' => IsNext(x)')
    BY DEF CallsStandInLine
  <2>1. CASE x = o
    BY <1>5, <1>6, <1>7, <1>8, <2>1 DEF Lined
  <2>2. CASE x # o
    <3>1. /\ ops'[x] = ops[x] /\ ops[x].process \in Processes
          /\ ops[x].stage = "queued" \/ Active(x)
      BY <1>1, <1>7, <1>8, <2>2, CallFields
    <3>2. PICK i \in DOMAIN line[ops[x].process] : line[ops[x].process][i] = x
      BY <3>1 DEF CampaignInv, CallsStandInLine, Lined
    <3>3. CASE ops[x].process = p
      <4>1. line[p] # <<>>
        BY <1>1, <3>2, <3>3
      <4>2. Lined(x)'
        <5>1. ops'[x].process = p /\ i \in DOMAIN line'[p] /\ line'[p][i] = x
          BY <1>6, <1>7, <3>1, <3>2, <3>3
        <5> QED BY <5>1 DEF Lined
      <4>3. Active(x)' => IsNext(x)'
        BY <1>6, <1>7, <1>8, <3>1, <3>3, <4>1 DEF CampaignInv, CallsStandInLine, IsNext
      <4> QED BY <4>2, <4>3
    <3>4. CASE ops[x].process # p
      <4>1. line'[ops'[x].process] = line[ops[x].process]
        BY <1>7, <3>1, <3>4
      <4> QED BY <1>8, <3>1, <3>2, <4>1 DEF CampaignInv, CallsStandInLine, Lined, IsNext
    <3> QED BY <3>3, <3>4
  <2> QED BY <2>1, <2>2
<1> QED BY <1>9, <1>10, <1>11, <1>12 DEF CampaignInv
-----------------------------------------------------------------------------
(* Sessions that open, and the row that goes *)

\* A session that opens shows the latest save to players who saw no later one.
NewIsLatest ==
  \A s \in Sessions :
    session[s].stage = "new" /\ session'[s].stage # "new" =>
      \A t \in Sessions : session[t].shown <= session'[s].shown

\* The first session of a process that had none, on the save now in the row.
LEMMA OpeningKeeps ==
  ASSUME CampaignInv, NEW p \in Processes, NEW s \in Sessions, NEW save \in 0..MaxSaves,
         session[s].stage = "new", live[p] = NoSession,
         session' = [session EXCEPT ![s] = Opened(p, save, save)],
         live' = [live EXCEPT ![p] = s],
         ops' \in [Operations -> Calls], line' \in [Processes -> Seq(Operations)],
         CallsStandInLine',
         \A x \in Operations : Active(x)' =>
           ops'[x] = ops[x] /\ Active(x) /\ ops[x].process # p,
         row' \in Rows, lineage' \in Seq([base : 0..MaxSaves, by : Sessions \union {NoSession}]),
         row'.present, row'.revision = save, row'.save = save, Len(lineage') = save,
         LinearHistory', Len(lineage) <= Len(lineage'), remover = {}, remover' = remover
  PROVE  CampaignInv' /\ NewIsLatest
<1>1. TypeOK /\ LiveRuns /\ OneWriter /\ CallsAreAlone
  BY DEF CampaignInv
<1>2. /\ session' \in [Sessions -> LiveSessions]
      /\ \A t \in Sessions \ {s} : session'[t] = session[t]
      /\ session'[s].stage = "idle" /\ session'[s].process = p
      /\ session'[s].shown = save /\ session'[s].held = save
  BY <1>1, OpenedFields DEF TypeOK
<1>3. TypeOK'
  BY <1>1, <1>2 DEF TypeOK
<1>4. RowCounts'
  BY CampaignServiceAssumption DEF RowCounts
<1>5. SessionsHold' /\ NewIsLatest
  <2>1. ASSUME NEW t \in Sessions
        PROVE  /\ SessionHolds(t)
               /\ session[t].shown \in Int /\ session[t].held \in Int
               /\ Len(lineage) \in Int /\ Len(lineage') \in Int
    BY <1>1, SessionFields DEF TypeOK, CampaignInv, SessionsHold
  <2>2. \A t \in Sessions : session[t].shown <= save /\ session[t].held <= save
    BY <2>1 DEF SessionHolds
  <2>3. NewIsLatest
    BY <1>2, <2>2 DEF NewIsLatest
  <2>4. \A t \in Sessions \ {s} : SessionHolds(t)'
    BY <1>2, <2>1, <2>2 DEF SessionHolds
  <2>5. SessionHolds(s)'
    BY <1>2 DEF SessionHolds
  <2> QED BY <2>3, <2>4, <2>5 DEF SessionsHold
<1>6. /\ Running(s)' /\ ~Running(s)
      /\ \A t \in Sessions \ {s} : Running(t)' = Running(t)
                                    /\ session'[t].process = session[t].process
  BY <1>2 DEF Running
<1>7. live'[p] = s /\ \A q \in Processes \ {p} : live'[q] = live[q]
  BY <1>1 DEF TypeOK
<1>8. LiveRuns'
  BY <1>1, <1>2, <1>6, <1>7 DEF LiveRuns, TypeOK
<1>9. OneWriter'
  <2> SUFFICES ASSUME NEW t \in Sessions, Running(t)'
               PROVE  live'[session'[t].process] = t
    BY DEF OneWriter
  <2>1. CASE t = s
    BY <1>2, <1>7, <2>1
  <2>2. CASE t # s
    <3>1. live[session[t].process] = t /\ session[t].process \in Processes
      BY <1>1, <1>6, <2>2, SessionFields DEF OneWriter
    <3>2. session[t].process # p
      BY <3>1, CampaignServiceAssumption
    <3> QED BY <1>2, <1>7, <2>2, <3>1, <3>2
  <2> QED BY <2>1, <2>2
<1>10. CallsAreAlone'
  <2>1. \A x \in Operations : Active(x)' =>
          ops'[x] = ops[x] /\ live'[ops[x].process] = live[ops[x].process]
    BY <1>1, <1>7, CallFields
  <2> QED BY <1>1, <2>1 DEF CallsAreAlone, Active
<1> QED BY <1>3, <1>4, <1>5, <1>8, <1>9, <1>10 DEF CampaignInv

LEMMA CreateKeeps ==
  ASSUME CampaignInv, NEW p \in Processes, NEW s \in Sessions, Create(p, s)
  PROVE  CampaignInv' /\ NewIsLatest
<1>1. /\ TypeOK /\ RowCounts /\ LiveRuns /\ LinearHistory /\ CallsStandInLine
      /\ row = Absent /\ lineage = <<>> /\ remover = {}
      /\ row' = [Absent EXCEPT !.present = TRUE]
      /\ UNCHANGED <<lineage, ops, line, remover>>
  BY DEF CampaignInv, Create
<1>2. ~row.present
  BY <1>1 DEF Absent
<1>3. /\ \A t \in Sessions : session[t].stage = "new"
      /\ \A x \in Operations : ~Active(x)
  BY <1>1, <1>2 DEF RowCounts
<1>4. live[p] = NoSession
  <2>1. live[p] \in Sessions \union {NoSession}
    BY <1>1 DEF TypeOK
  <2>2. live[p] # NoSession => Running(live[p])
    BY <1>1 DEF LiveRuns
  <2> QED BY <1>3, <2>1, <2>2 DEF Running
<1>5. /\ row' \in Rows /\ row'.present /\ row'.revision = 0 /\ row'.save = 0
      /\ 0 \in 0..MaxSaves
  BY <1>1, AbsentFields DEF Rows
<1>6. /\ lineage' \in Seq([base : 0..MaxSaves, by : Sessions \union {NoSession}])
      /\ LinearHistory' /\ Len(lineage') = 0 /\ Len(lineage) <= Len(lineage')
  BY <1>1 DEF TypeOK, LinearHistory
<1>7. CallsStandInLine' /\ \A x \in Operations : ~Active(x)'
  BY <1>1, <1>3 DEF CallsStandInLine, Active, Lined, IsNext
<1>8. /\ ops' \in [Operations -> Calls] /\ line' \in [Processes -> Seq(Operations)]
  BY <1>1 DEF TypeOK
<1>9. /\ session[s].stage = "new" /\ session' = [session EXCEPT ![s] = Opened(p, 0, 0)]
      /\ live' = [live EXCEPT ![p] = s]
  BY DEF Create
<1> QED BY ONLY CampaignInv, <1>1, <1>4, <1>5, <1>6, <1>7, <1>8, <1>9, OpeningKeeps,
        p \in Processes, s \in Sessions

\* A call that opens a session, in a process that has none, on the save in
\* the row.
LEMMA OpenKeeps ==
  ASSUME CampaignInv, NEW o \in Operations, NEW save \in 0..MaxSaves,
         ops[o].stage = "queued" \/ Active(o), IsNext(o), Open(o, save, save),
         live[ops[o].process] = NoSession,
         row' \in Rows, lineage' \in Seq([base : 0..MaxSaves, by : Sessions \union {NoSession}]),
         row'.present, row'.revision = save, row'.save = save, Len(lineage') = save,
         LinearHistory', Len(lineage) <= Len(lineage'), remover = {}
  PROVE  CampaignInv' /\ NewIsLatest
<1> DEFINE p == ops[o].process
<1>1. PICK s \in Sessions :
        /\ session[s].stage = "new"
        /\ session' = [session EXCEPT ![s] = Opened(p, save, save)]
        /\ live' = [live EXCEPT ![p] = s]
        /\ Settles(o, "done")
        /\ remover' = remover
  BY DEF Open
<1>2. TypeOK /\ CallsStandInLine /\ p \in Processes
  BY CallFields DEF CampaignInv
<1>3. /\ ops' \in [Operations -> Calls] /\ line' \in [Processes -> Seq(Operations)]
      /\ CallsStandInLine'
      /\ \A x \in Operations : Active(x)' =>
              /\ x # o /\ ops'[x] = ops[x] /\ Active(x)
              /\ ops[x].process # ops[o].process
  BY <1>1, <1>2, SettlesKeeps
<1> QED BY <1>1, <1>2, <1>3, OpeningKeeps
\* A deletion, in a process on which nothing of the campaign runs any more.
LEMMA RemoveRowKeeps ==
  ASSUME CampaignInv, NEW o \in Operations,
         ops[o].stage = "queued" \/ Active(o), IsNext(o), RemoveRow(o),
         live[ops[o].process] = NoSession
  PROVE  CampaignInv'
<1> DEFINE p == ops[o].process
<1>1. /\ TypeOK /\ CallsStandInLine /\ OneWriter /\ p \in Processes
      /\ row' = Absent /\ remover' = remover \union {p} /\ Settles(o, "done")
      /\ UNCHANGED <<lineage, session, live>>
  BY CallFields DEF CampaignInv, RemoveRow
<1>2. /\ ops' \in [Operations -> Calls] /\ line' \in [Processes -> Seq(Operations)]
      /\ CallsStandInLine'
      /\ \A x \in Operations : Active(x)' =>
              /\ x # o /\ ops'[x] = ops[x] /\ Active(x)
              /\ ops[x].process # ops[o].process
  BY <1>1, SettlesKeeps
<1>3. TypeOK'
  BY <1>1, <1>2, AbsentFields DEF TypeOK
<1>4. RowCounts' /\ LinearHistory' /\ SessionsHold' /\ LiveRuns'
  BY <1>1, AbsentFields DEF CampaignInv, RowCounts, LinearHistory, SessionsHold, SessionHolds,
                            LiveRuns, Running
<1>5. \A t \in Sessions : Running(t) => session[t].process # p
  BY <1>1, CampaignServiceAssumption DEF OneWriter
<1>6. OneWriter'
  BY <1>1, <1>5 DEF OneWriter, Running
<1>7. CallsAreAlone'
  BY <1>1, <1>2 DEF CampaignInv, CallsAreAlone, Active
<1> QED BY <1>2, <1>3, <1>4, <1>6, <1>7 DEF CampaignInv

\* The read after the barrier, by a call that nothing else in its process can
\* get in the way of.
LEMMA ReloadKeeps ==
  ASSUME CampaignInv, NEW o \in Operations,
         ops[o].stage = "queued" \/ Active(o), IsNext(o), ReloadAndOpen(o),
         live[ops[o].process] = NoSession
  PROVE  CampaignInv' /\ NewIsLatest
<1> DEFINE p == ops[o].process
<1>1. TypeOK /\ RowCounts /\ CallsStandInLine /\ p \in Processes
  BY CallFields DEF CampaignInv
<1>2. CASE Refuse(o) \/ (RestoreFails(o) /\ UNCHANGED <<row, lineage>>)
  BY <1>2, AnsweredKeeps DEF Refuse, RestoreFails, NewIsLatest
<1>3. CASE Loads(p, row) /\ Open(o, row.save, row.revision) /\ UNCHANGED <<row, lineage>>
  <2>1. /\ row.present /\ row.revision = Len(lineage) /\ row.save = Len(lineage)
        /\ remover = {} /\ row \in Rows
        /\ lineage \in Seq([base : 0..MaxSaves, by : Sessions \union {NoSession}])
        /\ Len(lineage) \in 0..MaxSaves /\ LinearHistory
    BY <1>1, <1>3 DEF Loads, RowCounts, TypeOK, CampaignInv
  <2>2. LinearHistory'
    BY <1>3, <2>1 DEF LinearHistory
  <2>3. Open(o, row.save, row.save)
    BY <1>3, <2>1
  <2>4. /\ row' \in Rows /\ row'.present /\ row'.revision = row.save /\ row'.save = row.save
        /\ lineage' \in Seq([base : 0..MaxSaves, by : Sessions \union {NoSession}])
        /\ Len(lineage') = row.save /\ Len(lineage) <= Len(lineage')
        /\ row.save \in 0..MaxSaves
    BY <1>3, <2>1
  <2> QED BY <2>1, <2>2, <2>3, <2>4, OpenKeeps
<1>4. CASE /\ Loads(p, row)
           /\ ops' = [ops EXCEPT ![o].stage = "migrating", ![o].preflight = row]
           /\ UNCHANGED <<row, lineage, session, live, line, remover>>
  <2> DEFINE a == [ops[o] EXCEPT !.stage = "migrating"]
             b == [a EXCEPT !.preflight = row]
  <2>1. ops' = [ops EXCEPT ![o] = b]
    BY <1>1, <1>4 DEF TypeOK
  <2>2. row \in Rows /\ row.present /\ row.save = row.revision
    BY <1>1, <1>4 DEF Loads, RowCounts, TypeOK
  <2>3. a \in Calls /\ a.stage = "migrating" /\ a.process = p
    BY <1>1, CallFields DEF Calls
  <2>4. b \in Calls /\ b.stage = "migrating" /\ b.process = p /\ b.preflight = row
    <3> HIDE DEF a
    <3> QED BY <2>2, <2>3 DEF Calls
  <2> HIDE DEF b
  <2>5. /\ ops' \in [Operations -> Calls] /\ ops'[o] = b
        /\ \A x \in Operations \ {o} : ops'[x] = ops[x]
    BY <1>1, <2>1, <2>4 DEF TypeOK
  <2>6. TypeOK' /\ NewIsLatest
    BY <1>1, <1>4, <2>5 DEF TypeOK, NewIsLatest
  <2>7. RowCounts' /\ LinearHistory' /\ SessionsHold' /\ LiveRuns' /\ OneWriter'
    BY <1>4, <2>2 DEF CampaignInv, RowCounts, LinearHistory, SessionsHold, SessionHolds,
                      LiveRuns, OneWriter, Running
  <2>8. CallsAreAlone'
    BY <1>4, <2>2, <2>4, <2>5 DEF CampaignInv, CallsAreAlone
  <2>9. CallsStandInLine'
    <3>1. Lined(o)' /\ IsNext(o)'
      BY <1>1, <1>4, <2>4, <2>5 DEF CallsStandInLine, Lined, IsNext
    <3> QED BY <1>1, <1>4, <2>5, <3>1 DEF CallsStandInLine, Lined, IsNext, Active
  <2> QED BY <2>6, <2>7, <2>8, <2>9 DEF CampaignInv
<1> QED BY <1>2, <1>3, <1>4 DEF ReloadAndOpen, Restored

LEMMA FinishKeeps ==
  ASSUME CampaignInv, NEW o \in Operations,
         ops[o].stage = "queued" \/ Active(o), IsNext(o), Finish(o),
         live[ops[o].process] = NoSession
  PROVE  CampaignInv' /\ NewIsLatest
<1>1. CASE RemoveRow(o)
  BY <1>1, RemoveRowKeeps DEF NewIsLatest, RemoveRow
<1>2. CASE Refuse(o)
  BY <1>2, AnsweredKeeps DEF Refuse, NewIsLatest
<1> QED BY <1>1, <1>2, ReloadKeeps DEF Finish
-----------------------------------------------------------------------------
(* The steps of a call *)

LEMMA StartCallKeeps ==
  ASSUME CampaignInv, NEW o \in Operations, StartCall(o)
  PROVE  CampaignInv' /\ NewIsLatest
<1> DEFINE p == ops[o].process
<1>1. TypeOK /\ CallsStandInLine /\ p \in Processes /\ ops[o].stage = "queued" /\ IsNext(o)
  BY CallFields DEF CampaignInv, StartCall
<1>2. CASE Refuse(o) \/ StorageThrows(o)
  BY <1>1, <1>2, AnsweredKeeps DEF Refuse, StorageThrows, NewIsLatest
<1>3. CASE live[p] = NoSession /\ Finish(o)
  BY <1>1, <1>3, FinishKeeps
<1>4. CASE /\ live[p] # NoSession
           /\ IF ops[o].kind = "continue" THEN Loads(p, row) ELSE row.present
           /\ session' = [session EXCEPT ![live[p]].retiring = TRUE]
           /\ ops' = [ops EXCEPT ![o].stage = "retiring", ![o].preflight = row,
                                 ![o].retired = live[p]]
           /\ UNCHANGED <<row, lineage, live, line, remover>>
  <2> DEFINE s == live[p]
             a == [ops[o] EXCEPT !.stage = "retiring"]
             b == [a EXCEPT !.preflight = row]
             c == [b EXCEPT !.retired = s]
             d == [session[s] EXCEPT !.retiring = TRUE]
  <2>1. s \in Sessions /\ Running(s) /\ row.present /\ row \in Rows
    BY <1>1, <1>4 DEF TypeOK, CampaignInv, LiveRuns, Loads
  <2>2. ops' = [ops EXCEPT ![o] = c] /\ session' = [session EXCEPT ![s] = d]
    BY <1>1, <1>4 DEF TypeOK
  <2>3. a \in Calls /\ a.stage = "retiring" /\ a.process = p
    BY <1>1, CallFields DEF Calls
  <2>4. b \in Calls /\ b.stage = "retiring" /\ b.process = p
    <3> HIDE DEF a
    <3> QED BY <2>1, <2>3 DEF Calls
  <2>5. c \in Calls /\ c.stage = "retiring" /\ c.process = p /\ c.retired = s
    <3> HIDE DEF b
    <3> QED BY <2>1, <2>4 DEF Calls
  <2>6. d \in LiveSessions /\ d.stage = session[s].stage /\ d.process = session[s].process
        /\ d.shown = session[s].shown /\ d.held = session[s].held
        /\ d.written = session[s].written
    BY <1>1, <2>1, SessionFields DEF LiveSessions
  <2> HIDE DEF c, d
  <2>7. /\ ops' \in [Operations -> Calls] /\ ops'[o] = c
        /\ \A x \in Operations \ {o} : ops'[x] = ops[x]
    BY <1>1, <2>2, <2>5 DEF TypeOK
  <2>8. /\ session' \in [Sessions -> LiveSessions] /\ session'[s] = d
        /\ \A t \in Sessions \ {s} : session'[t] = session[t]
    BY <1>1, <2>1, <2>2, <2>6 DEF TypeOK
  <2>9. \A t \in Sessions :
          /\ session'[t].stage = session[t].stage /\ session'[t].process = session[t].process
          /\ session'[t].shown = session[t].shown /\ session'[t].held = session[t].held
          /\ session'[t].written = session[t].written
    BY <2>6, <2>8
  <2>10. TypeOK' /\ NewIsLatest
    BY <1>1, <1>4, <2>7, <2>8, <2>9 DEF TypeOK, NewIsLatest
  <2>11. RowCounts' /\ LinearHistory' /\ SessionsHold'
    <3>1. RowCounts' /\ LinearHistory'
      BY <1>4, <2>1 DEF CampaignInv, RowCounts, LinearHistory
    <3>2. \A t \in Sessions : SessionHolds(t)'
      BY <1>4, <2>9 DEF CampaignInv, SessionsHold, SessionHolds
    <3> QED BY <3>1, <3>2 DEF SessionsHold
  <2>12. LiveRuns' /\ OneWriter'
    BY <1>1, <1>4, <2>9 DEF CampaignInv, LiveRuns, OneWriter, Running, TypeOK
  <2>13. CallsAreAlone'
    BY <1>4, <2>1, <2>5, <2>7 DEF CampaignInv, CallsAreAlone
  <2>14. CallsStandInLine'
    <3>1. Lined(o)' /\ IsNext(o)'
      BY <1>1, <1>4, <2>5, <2>7 DEF CallsStandInLine, Lined, IsNext
    <3> QED BY <1>1, <1>4, <2>7, <3>1 DEF CallsStandInLine, Lined, IsNext, Active
  <2> QED BY <2>10, <2>11, <2>12, <2>13, <2>14 DEF CampaignInv
<1> QED BY <1>2, <1>3, <1>4 DEF StartCall

LEMMA AfterBarrierKeeps ==
  ASSUME CampaignInv, NEW o \in Operations, AfterBarrier(o)
  PROVE  CampaignInv' /\ NewIsLatest
<1>1. /\ ops[o].stage = "retiring" /\ Active(o) /\ IsNext(o)
      /\ session[ops[o].retired].stage = "retired"
  BY DEF CampaignInv, CallsStandInLine, AfterBarrier, BarrierReached, Active
<1>2. live[ops[o].process] \in {NoSession, ops[o].retired}
  BY <1>1 DEF CampaignInv, CallsAreAlone
<1>3. live[ops[o].process] = NoSession
  BY <1>1, <1>2, CallFields DEF CampaignInv, LiveRuns, Running
<1>4. CASE StorageThrows(o)
  BY <1>1, <1>4, AnsweredKeeps DEF StorageThrows, NewIsLatest
<1> QED BY <1>1, <1>3, <1>4, FinishKeeps DEF AfterBarrier

\* A migrated save is in the row, and no session opens on it.
LEMMA FailedRestoreKeeps ==
  ASSUME CampaignInv, NEW o \in Operations, Active(o), IsNext(o), RestoreFails(o),
         row' \in Rows, lineage' \in Seq([base : 0..MaxSaves, by : Sessions \union {NoSession}]),
         row'.present, row'.revision = Len(lineage) + 1, row'.save = Len(lineage) + 1,
         Len(lineage') = Len(lineage) + 1, Len(lineage') <= MaxSaves,
         LinearHistory', remover = {}
  PROVE  CampaignInv' /\ NewIsLatest
<1>1. /\ TypeOK /\ CallsStandInLine
      /\ Settles(o, "refused") /\ UNCHANGED <<session, live, remover>>
  BY DEF CampaignInv, RestoreFails
<1>2. /\ ops' \in [Operations -> Calls] /\ line' \in [Processes -> Seq(Operations)]
      /\ CallsStandInLine'
      /\ \A x \in Operations : Active(x)' => x # o /\ ops'[x] = ops[x] /\ Active(x)
  BY <1>1, SettlesKeeps
<1>3. TypeOK' /\ RowCounts' /\ NewIsLatest
  BY <1>1, <1>2 DEF TypeOK, RowCounts, NewIsLatest
<1>4. SessionsHold'
  <2> SUFFICES ASSUME NEW t \in Sessions PROVE SessionHolds(t)'
    BY DEF SessionsHold
  <2>1. SessionHolds(t) /\ session[t].shown \in Int /\ session[t].held \in Int
        /\ Len(lineage) \in Int
    BY <1>1, SessionFields DEF CampaignInv, SessionsHold, TypeOK
  <2> QED BY <1>1, <2>1 DEF SessionHolds
<1>5. LiveRuns' /\ OneWriter'
  BY <1>1 DEF CampaignInv, LiveRuns, OneWriter, Running
<1>6. CallsAreAlone'
  BY <1>1, <1>2 DEF CampaignInv, CallsAreAlone, Active
<1> QED BY <1>2, <1>3, <1>4, <1>5, <1>6 DEF CampaignInv

LEMMA CommitMigrationKeeps ==
  ASSUME CampaignInv, NEW o \in Operations, CommitMigration(o)
  PROVE  CampaignInv' /\ NewIsLatest
<1> DEFINE p == ops[o].process
           loaded == ops[o].preflight
<1>1. /\ TypeOK /\ RowCounts /\ LinearHistory /\ Active(o) /\ IsNext(o)
      /\ ops[o].stage = "migrating" /\ p \in Processes
      /\ live[p] = NoSession /\ loaded.save = loaded.revision
  BY CallFields DEF CampaignInv, CallsStandInLine, CallsAreAlone, CommitMigration, Active
<1>2. CASE Refuse(o) \/ StorageThrows(o)
  BY <1>1, <1>2, AnsweredKeeps DEF Refuse, StorageThrows, NewIsLatest
<1>3. CASE /\ Wins(loaded.revision)
           /\ Len(lineage) < MaxSaves
           /\ CommitSave(Build[p], loaded.save, NoSession)
           /\ Open(o, Len(lineage) + 1, loaded.revision + 1) \/ RestoreFails(o)
  <2>1. row.present /\ loaded.save = Len(lineage) /\ loaded.revision = Len(lineage)
        /\ remover = {}
    BY <1>1, <1>3 DEF Wins, RowCounts
  <2>2. Build[p] \in Nat
    BY <1>1, CampaignServiceAssumption
  <2>3. /\ row' \in Rows /\ row'.present
        /\ row'.revision = Len(lineage) + 1 /\ row'.save = Len(lineage) + 1
        /\ lineage' \in Seq([base : 0..MaxSaves, by : Sessions \union {NoSession}])
        /\ Len(lineage') = Len(lineage) + 1 /\ Len(lineage') <= MaxSaves
        /\ LinearHistory'
    BY <1>1, <1>3, <2>1, <2>2, CommitFields
  <2>4. Len(lineage) \in Nat /\ Len(lineage) + 1 \in 0..MaxSaves
        /\ Len(lineage) <= Len(lineage')
    BY <1>1, <1>3, <2>3, CampaignServiceAssumption DEF TypeOK
  <2>5. CASE RestoreFails(o)
    BY <1>1, <2>1, <2>3, <2>4, <2>5, FailedRestoreKeeps
  <2>6. CASE Open(o, Len(lineage) + 1, loaded.revision + 1)
    <3>1. Open(o, Len(lineage) + 1, Len(lineage) + 1)
      BY <2>1, <2>6
    <3> QED BY <1>1, <2>1, <2>3, <2>4, <3>1, OpenKeeps
  <2> QED BY <1>3, <2>5, <2>6
<1> QED BY <1>2, <1>3 DEF CommitMigration

-----------------------------------------------------------------------------
(* Crashes *)

LEMMA CrashKeeps ==
  ASSUME CampaignInv, NEW p \in Processes, Crash(p)
  PROVE  CampaignInv' /\ NewIsLatest
<1> DEFINE Lost == {line[p][i] : i \in DOMAIN line[p]}
<1>1. /\ TypeOK /\ CallsStandInLine
      /\ live' = [live EXCEPT ![p] = NoSession] /\ line' = [line EXCEPT ![p] = <<>>]
      /\ UNCHANGED <<row, lineage, remover>>
  BY DEF CampaignInv, Crash
<1>2. \A s \in Sessions :
        session'[s] = IF session[s].process = p /\ Running(s)
                        THEN [session[s] EXCEPT !.stage = "dead"] ELSE session[s]
  BY DEF Crash
<1>3. ASSUME NEW s \in Sessions
      PROVE  /\ session'[s] \in LiveSessions
             /\ session'[s].process = session[s].process
             /\ session'[s].shown = session[s].shown /\ session'[s].held = session[s].held
             /\ session'[s].written = session[s].written
             /\ Running(s)' = (Running(s) /\ session[s].process # p)
             /\ Running(s)' => session'[s] = session[s]
             /\ session'[s].stage \in {"dead", session[s].stage}
             /\ session[s].stage = "new" => session'[s].stage = "new"
  <2>1. CASE session[s].process = p /\ Running(s)
    <3>1. session'[s] = [session[s] EXCEPT !.stage = "dead"]
      BY <1>2, <2>1
    <3> QED BY <1>1, <2>1, <3>1, SessionFields DEF LiveSessions, Running
  <2>2. CASE ~(session[s].process = p /\ Running(s))
    <3>1. session'[s] = session[s]
      BY <1>2, <2>2
    <3> QED BY <1>1, <2>2, <3>1, SessionFields DEF Running
  <2> QED BY <2>1, <2>2
<1>4. session' \in [Sessions -> LiveSessions]
  BY <1>3 DEF Crash
<1>5. ASSUME NEW o \in Operations
      PROVE  /\ ops'[o] \in Calls /\ ops'[o].process = ops[o].process
             /\ o \in Lost => ops'[o].stage = "lost"
             /\ o \notin Lost => ops'[o] = ops[o]
  <2>1. ops'[o] = IF o \in Lost THEN [ops[o] EXCEPT !.stage = "lost"] ELSE ops[o]
    BY DEF Crash
  <2> HIDE DEF Lost
  <2> QED BY <1>1, <2>1, CallFields DEF Calls
<1>6. ops' \in [Operations -> Calls]
  BY <1>5 DEF Crash
<1>7. TypeOK'
  BY <1>1, <1>4, <1>6 DEF TypeOK
<1>8. \A o \in Operations : Active(o)' \/ ops'[o].stage = "queued" =>
        /\ ops'[o] = ops[o] /\ ops[o].process # p /\ ops[o].process \in Processes
        /\ line'[ops[o].process] = line[ops[o].process]
        /\ live'[ops[o].process] = live[ops[o].process]
  <2> SUFFICES ASSUME NEW o \in Operations, Active(o)' \/ ops'[o].stage = "queued"
               PROVE  ops'[o] = ops[o] /\ ops[o].process # p
    BY <1>1, CallFields DEF TypeOK
  <2>1. o \notin Lost
    <3> HIDE DEF Lost
    <3> QED BY <1>5 DEF Active
  <2>2. ops'[o] = ops[o]
    <3> HIDE DEF Lost
    <3> QED BY <1>5, <2>1
  <2>3. Lined(o)
    BY <1>1, <2>2 DEF CallsStandInLine, Active
  <2> QED BY <2>1, <2>2, <2>3 DEF Lined
<1> HIDE DEF Lost
<1>9. CallsStandInLine' /\ CallsAreAlone'
  BY <1>8 DEF CampaignInv, CallsStandInLine, CallsAreAlone, Active, Lined, IsNext
<1>10. RowCounts' /\ LinearHistory'
  BY <1>1, <1>3, <1>8 DEF CampaignInv, RowCounts, LinearHistory, Active
<1>11. SessionsHold' /\ NewIsLatest
  BY <1>1, <1>3 DEF CampaignInv, SessionsHold, SessionHolds, NewIsLatest
<1>12. LiveRuns'
  <2> SUFFICES ASSUME NEW q \in Processes, live'[q] # NoSession
               PROVE  Running(live[q])' /\ live'[q] = live[q] /\ session'[live[q]].process = q
    BY DEF LiveRuns, Running
  <2>1. q # p /\ live'[q] = live[q]
    BY <1>1 DEF TypeOK
  <2>2. live[q] \in Sessions /\ Running(live[q]) /\ session[live[q]].process = q
    BY <1>1, <2>1 DEF TypeOK, CampaignInv, LiveRuns
  <2> QED BY <1>3, <2>1, <2>2
<1>13. OneWriter'
  BY <1>1, <1>3, SessionFields DEF CampaignInv, OneWriter, TypeOK
<1> QED BY <1>7, <1>9, <1>10, <1>11, <1>12, <1>13 DEF CampaignInv

-----------------------------------------------------------------------------
(* The theorems *)

LEMMA InitHolds ==
  ASSUME Init
  PROVE  CampaignInv
<1>1. /\ session = [s \in Sessions |-> Unborn] /\ ops = [o \in Operations |-> Call]
      /\ live = [p \in Processes |-> NoSession] /\ line = [p \in Processes |-> <<>>]
      /\ remover = {}
  BY DEF Init
<1>2. /\ row \in Rows /\ lineage \in Seq([base : 0..MaxSaves, by : Sessions \union {NoSession}])
      /\ Len(lineage) \in 0..MaxSaves /\ LinearHistory
      /\ row.present => row.revision = Len(lineage) /\ row.save = Len(lineage)
      /\ ~row.present => row = Absent
  <2>1. CASE row = Absent /\ lineage = <<>>
    BY <2>1, AbsentFields DEF LinearHistory
  <2>2. CASE \E p \in Processes :
               /\ row = Existing(Build[p])
               /\ lineage = <<[base |-> 0, by |-> NoSession]>>
    <3>1. PICK p \in Processes :
            /\ row = Existing(Build[p])
            /\ lineage = <<[base |-> 0, by |-> NoSession]>>
      BY <2>2
    <3>2. Build[p] \in Nat /\ 1 \in 0..MaxSaves /\ 0 \in 0..MaxSaves
      BY CampaignServiceAssumption
    <3>3. row \in Rows /\ row.present /\ row.revision = 1 /\ row.save = 1
      BY <3>1, <3>2 DEF Existing, Rows
    <3>4. [base |-> 0, by |-> NoSession] \in [base : 0..MaxSaves, by : Sessions \union {NoSession}]
      BY <3>2
    <3>5. lineage \in Seq([base : 0..MaxSaves, by : Sessions \union {NoSession}])
          /\ Len(lineage) = 1 /\ lineage[1].base = 0
      BY <3>1, <3>4
    <3> QED BY <3>2, <3>3, <3>5 DEF LinearHistory
  <2> QED BY <2>1, <2>2 DEF Init
<1>3. /\ \A s \in Sessions : session[s] = Unborn
      /\ \A o \in Operations : ops[o] = Call
      /\ \A p \in Processes : live[p] = NoSession
  BY <1>1
<1>4. TypeOK
  BY <1>1, <1>2, UnbornFields DEF TypeOK
<1>5. RowCounts
  BY <1>1, <1>2, <1>3, UnbornFields, CampaignServiceAssumption DEF RowCounts, Active
<1>6. SessionsHold
  BY <1>2, <1>3, UnbornFields DEF SessionsHold, SessionHolds
<1>7. LiveRuns /\ OneWriter
  BY <1>3, UnbornFields DEF LiveRuns, OneWriter, Running
<1>8. CallsStandInLine /\ CallsAreAlone
  BY <1>3, UnbornFields DEF CallsStandInLine, CallsAreAlone, Active
<1> QED BY <1>2, <1>4, <1>5, <1>6, <1>7, <1>8 DEF CampaignInv
LEMMA StepKeeps ==
  ASSUME CampaignInv, Next
  PROVE  CampaignInv' /\ NewIsLatest
<1>1. ASSUME NEW p \in Processes, NEW s \in Sessions, Create(p, s)
      PROVE  CampaignInv' /\ NewIsLatest
  BY <1>1, CreateKeeps
<1>2. ASSUME NEW s \in Sessions, Queue(s) \/ SessionStep(s)
      PROVE  CampaignInv' /\ NewIsLatest
  <2>1. CampaignInv'
    BY <1>2, QueueKeeps, SessionStepKeeps
  <2>2. \A t \in Sessions : session'[t].stage # "new" => session[t].stage # "new"
    <3>1. session[s].stage # "new" /\ TypeOK
      BY <1>2 DEF Queue, SessionStep, Running, Begin, Skip, Land, Publish, LosesRow,
                  WriteFails, Retire, CampaignInv
    <3>2. \A t \in Sessions \ {s} : session'[t] = session[t]
      BY <1>2, <3>1 DEF Queue, SessionStep, Begin, Skip, Land, Publish, LosesRow,
                        WriteFails, Retire, Retired, TypeOK
    <3> QED BY <3>1, <3>2
  <2> QED BY <2>1, <2>2 DEF NewIsLatest
<1>3. ASSUME NEW p \in Processes, NEW o \in Operations,
             NEW kind \in {"continue", "delete"}, Submit(p, o, kind)
      PROVE  CampaignInv' /\ NewIsLatest
  BY <1>3, SubmitKeeps DEF Submit, NewIsLatest
<1>4. ASSUME NEW o \in Operations, CallStep(o)
      PROVE  CampaignInv' /\ NewIsLatest
  BY <1>4, StartCallKeeps, AfterBarrierKeeps, CommitMigrationKeeps DEF CallStep
<1>5. ASSUME NEW p \in Processes, Crash(p)
      PROVE  CampaignInv' /\ NewIsLatest
  BY <1>5, CrashKeeps
<1> QED BY <1>1, <1>2, <1>3, <1>4, <1>5 DEF Next

LEMMA StutterKeeps ==
  ASSUME CampaignInv, UNCHANGED vars
  PROVE  CampaignInv' /\ NewIsLatest
<1>1. TypeOK' /\ RowCounts' /\ LinearHistory' /\ SessionsHold'
  BY DEF vars, CampaignInv, TypeOK, RowCounts, LinearHistory, SessionsHold, SessionHolds, Active
<1>2. LiveRuns' /\ OneWriter' /\ NewIsLatest
  BY DEF vars, CampaignInv, LiveRuns, OneWriter, Running, NewIsLatest
<1>3. CallsStandInLine' /\ CallsAreAlone'
  BY DEF vars, CampaignInv, CallsStandInLine, CallsAreAlone, Active, Lined, IsNext
<1> QED BY <1>1, <1>2, <1>3 DEF CampaignInv

\* The row, the sessions and the calls fit together in every reachable state,
\* for any number of processes and calls, any builds and any crashes.
THEOREM CampaignInvariant == Spec => []CampaignInv
<1>1. Init => CampaignInv
  BY InitHolds
<1>2. CampaignInv /\ [Next]_vars => CampaignInv'
  BY StepKeeps, StutterKeeps
<1> QED BY <1>1, <1>2, PTL DEF Spec

\* Type correctness; in particular the revision of the row and what any
\* session holds stay within the saves that were committed.
THEOREM CampaignTypeCorrect == Spec => []TypeOK
<1>1. CampaignInv => TypeOK
  BY DEF CampaignInv
<1> QED BY <1>1, CampaignInvariant, PTL

\* No lost update (SqliteCampaignStore.commitSave and the durability
\* coordinator): the history of saves is a chain, whoever raced for the row.
THEOREM HistoryIsLinear == Spec => []LinearHistory
<1>1. CampaignInv => LinearHistory
  BY DEF CampaignInv
<1> QED BY <1>1, CampaignInvariant, PTL

\* What any player was shown is a committed save, also after a crash between
\* a write and its publication.
THEOREM WhatWasShownIsDurable == Spec => []ShownIsDurable
<1>1. CampaignInv => ShownIsDurable
  BY DEF CampaignInv, SessionsHold, SessionHolds, ShownIsDurable
<1> QED BY <1>1, CampaignInvariant, PTL

\* One writer (CampaignService.serialize, #liveSessionByCampaignId and
\* retire): in a process at most one session of the campaign plays on, the
\* one the service knows; after a deletion there none does.
THEOREM OneWriterPerProcess == Spec => []OneWriter
<1>1. CampaignInv => OneWriter
  BY DEF CampaignInv
<1> QED BY <1>1, CampaignInvariant, PTL

\* Play is never taken back: whatever happened while a Continue waited for
\* the retirement of the old session or for a migration, the session it opens
\* is on a save as recent as anything any player has seen.
THEOREM SessionsOpenAtTheLatest == Spec => OpensAtLatest
<1>1. CampaignInv /\ [Next]_vars => [NewIsLatest]_vars
  BY StepKeeps
<1> QED BY <1>1, CampaignInvariant, PTL DEF Spec, OpensAtLatest, NewIsLatest

\* A deleted campaign stays deleted (deleteCampaign): once a process has
\* removed the row nothing brings it back.
DeletedStaysDeleted == remover # {} => ~row.present

THEOREM DeletionIsFinal == Spec => []DeletedStaysDeleted
<1>1. CampaignInv => DeletedStaysDeleted
  BY DEF CampaignInv, RowCounts, DeletedStaysDeleted
<1> QED BY <1>1, CampaignInvariant, PTL

-----------------------------------------------------------------------------
(* The server process: the inductive invariant *)

AuthStages == {"login", "register", "hash", "verify", "decoy"}
OtherStages == {"join", "create", "continue", "service", "host"}

\* A handler that deals with an account has a name and a password.
Waitings ==
  [stage : AuthStages, who : Names, secret : Passwords, connected : BOOLEAN]
    \union [stage : OtherStages, who : Names \union {Nobody}, secret : {NoPassword},
            connected : BOOLEAN]

RequestTypes == requests \in [Handlers -> {Free} \union Waitings]

AuthTypes ==
  /\ now \in Nat
  /\ accounts \in [Names -> Passwords \union {NoPassword}]
  /\ sessions \in [Tokens -> {NoRow} \union [account : Names, expires : Nat]]
  /\ drawn \subseteq Tokens
  /\ grants \subseteq [token : Tokens, account : Names, secret : Passwords, at : Nat]

RowOf(g) == [account |-> g.account, expires |-> g.at + TTL]

\* A login was made with the password of its account, and its row is there
\* until it expires.
GrantsHaveRows ==
  \A g \in grants :
    /\ g.token \in drawn /\ accounts[g.account] = g.secret
    /\ now < g.at + TTL => sessions[g.token] = RowOf(g)

\* A row was written by a login that was not ended by a logout.
RowsAreGranted ==
  \A t \in Tokens :
    sessions[t] # NoRow => \E g \in grants : g.token = t /\ sessions[t] = RowOf(g)

AuthInv == AuthTypes /\ GrantsHaveRows /\ RowsAreGranted

HostOperations ==
  [from : Sockets, kind : {"hello", "intent", "detach"}]
    \union [from : Handlers, kind : {"join"}]

FlowTypes ==
  /\ identity \in [Sockets -> BOOLEAN]
  /\ open \subseteq Sockets
  /\ chain \in [Sockets -> Seq({"hello", "intent"})]
  /\ submitted \subseteq Sockets
  /\ hostQueue \in Seq(HostOperations)
  /\ phase \in {"serving", "gateway", "listener", "requests", "drain", "closed"}

WillSettle(i) == hostQueue[i].kind \in {"hello", "intent"}

\* A message waits at most once in a host queue, at the head of its chain.
MessagesWaitOnce ==
  /\ \A c \in submitted : chain[c] # <<>>
  /\ \A i \in DOMAIN hostQueue : WillSettle(i) =>
       /\ hostQueue[i].from \in submitted
       /\ \A j \in DOMAIN hostQueue :
            WillSettle(j) /\ hostQueue[j].from = hostQueue[i].from => i = j

\* What a phase of the shutdown waited for stays settled.
ShutdownOrder ==
  /\ phase \notin {"serving", "gateway"} => open = {} /\ Pending = {}
  /\ phase \in {"drain", "closed"} => InUse = {}
  /\ phase = "closed" => hostQueue = <<>>

FlowInv == FlowTypes /\ MessagesWaitOnce /\ ShutdownOrder

ServerInv == RequestTypes /\ AuthInv /\ FlowInv
-----------------------------------------------------------------------------
(* Requests *)

\* A handler that goes on to another stage of the same kind keeps its request.
LEMMA AdvanceKeeps ==
  ASSUME RequestTypes, NEW h \in Handlers, requests[h] # Free, NEW stage,
         Advance(h, stage),
         \/ requests[h].stage \in AuthStages /\ stage \in AuthStages
         \/ requests[h].stage \in OtherStages /\ stage \in OtherStages
  PROVE  RequestTypes'
<1> DEFINE a == [requests[h] EXCEPT !.stage = stage]
<1>1. requests[h] \in Waitings
  BY DEF RequestTypes
<1>2. a \in Waitings
  BY <1>1 DEF Waitings, AuthStages, OtherStages
<1>3. requests' = [requests EXCEPT ![h] = a]
  BY DEF Advance, Await
<1> HIDE DEF a
<1> QED BY <1>2, <1>3 DEF RequestTypes

LEMMA AnsweredKeepsFlow ==
  ASSUME RequestTypes, NEW h \in Handlers, Answered(h)
  PROVE  RequestTypes'
BY DEF RequestTypes, Answered

\* A request that arrives.
LEMMA ArrivalKeeps ==
  ASSUME RequestTypes, NEW h \in Handlers, NEW stage, NEW who, NEW secret,
         Await(h, Waits(stage, who, secret)),
         \/ stage \in AuthStages /\ who \in Names /\ secret \in Passwords
         \/ stage \in OtherStages /\ who \in Names \union {Nobody} /\ secret = NoPassword
  PROVE  RequestTypes'
<1>1. Waits(stage, who, secret) \in Waitings
  BY DEF Waits, Waitings
<1> QED BY <1>1 DEF RequestTypes, Await

LEMMA HandlerStepRequests ==
  ASSUME RequestTypes, NEW h \in Handlers, HandlerStep(h)
  PROVE  RequestTypes'
<1>1. CASE BodyRead(h)
  <2>1. CASE AtStage(h, "login") /\ Advance(h, IF accounts[requests[h].who] = NoPassword
                                                THEN "decoy" ELSE "verify")
    BY <2>1, AdvanceKeeps DEF AtStage, AuthStages
  <2>2. CASE AtStage(h, "register") /\ Advance(h, "hash")
    BY <2>2, AdvanceKeeps DEF AtStage, AuthStages
  <2>3. CASE AtStage(h, "continue") /\ Advance(h, "service")
    BY <2>3, AdvanceKeeps DEF AtStage, OtherStages
  <2>4. CASE AtStage(h, "join") /\ Advance(h, "host")
    BY <2>4, AdvanceKeeps DEF AtStage, OtherStages
  <2> QED BY <1>1, <2>1, <2>2, <2>3, <2>4, AnsweredKeepsFlow DEF BodyRead
<1>2. CASE Hashed(h)
  <2>1. CASE Advance(h, "verify")
    BY <1>2, <2>1, AdvanceKeeps DEF Hashed, AtStage, AuthStages
  <2> QED BY <1>2, <2>1, AnsweredKeepsFlow DEF Hashed
<1> QED BY <1>1, <1>2, AnsweredKeepsFlow
        DEF HandlerStep, BodyRefused, Verified, ServiceSettles

LEMMA RequestsStep ==
  ASSUME RequestTypes, AuthTypes, FlowTypes, [ServerNext]_serverVars
  PROVE  RequestTypes'
<1>1. ASSUME NEW h \in Handlers, NEW n \in Names, NEW secret \in Passwords,
             ArriveAnonymous(h, "login", n, secret) \/ ArriveAnonymous(h, "register", n, secret)
      PROVE  RequestTypes'
  BY <1>1, ArrivalKeeps DEF ArriveAnonymous, AuthStages
<1>2. ASSUME NEW h \in Handlers, ArriveAnonymous(h, "join", Nobody, NoPassword)
      PROVE  RequestTypes'
  BY <1>2, ArrivalKeeps DEF ArriveAnonymous, OtherStages
<1>3. ASSUME NEW h \in Handlers, NEW route \in DOMAIN AccountAwaits,
             NEW t \in Tokens \union {NoToken}, ArriveSignedIn(h, route, t)
      PROVE  RequestTypes'
  <2>1. CASE UNCHANGED requests
    BY <2>1 DEF RequestTypes
  <2>2. CASE /\ Authenticated(t) # Nobody
             /\ Await(h, Waits(AccountAwaits[route], Authenticated(t), NoPassword))
    <3>1. AccountAwaits[route] \in OtherStages
      BY DEF AccountAwaits, OtherStages
    <3>2. Authenticated(t) \in Names \union {Nobody}
      <4>1. FindValid(t) => sessions[t] # NoRow
        BY <2>2, ServerAssumption DEF FindValid, NoRow, AuthTypes
      <4>2. FindValid(t) => t \in Tokens
        BY DEF FindValid
      <4> QED BY <4>1, <4>2 DEF Authenticated, AuthTypes
    <3> QED BY <2>2, <3>1, <3>2, ArrivalKeeps
  <2> QED BY <1>3, <2>1, <2>2 DEF ArriveSignedIn
<1>4. ASSUME NEW h \in Handlers, ClientLeaves(h)
      PROVE  RequestTypes'
  <2> DEFINE a == [requests[h] EXCEPT !.connected = FALSE]
  <2>1. requests[h] \in Waitings /\ requests' = [requests EXCEPT ![h] = a]
    BY <1>4 DEF ClientLeaves, RequestTypes, Await
  <2>2. a \in Waitings
    BY <2>1 DEF Waitings
  <2> HIDE DEF a
  <2> QED BY <2>1, <2>2 DEF RequestTypes
<1>5. CASE HostSettles
  <2>1. CASE Head(hostQueue).kind = "join" /\ Answered(Head(hostQueue).from)
    <3>1. Head(hostQueue) \in HostOperations
      BY <1>5 DEF HostSettles, FlowTypes
    <3>2. Head(hostQueue).from \in Handlers
      BY <2>1, <3>1 DEF HostOperations
    <3> QED BY <2>1, <3>2, AnsweredKeepsFlow
  <2>2. CASE UNCHANGED requests
    BY <2>2 DEF RequestTypes
  <2> QED BY <1>5, <2>1, <2>2 DEF HostSettles
<1>6. ASSUME UNCHANGED requests
      PROVE  RequestTypes'
  BY <1>6 DEF RequestTypes
<1>7. (\/ Tick \/ Signal \/ Shutdown \/ UNCHANGED serverVars
       \/ \E t \in Tokens : WhoAmI(t) \/ Logout(t)
       \/ \E c \in Sockets : \/ Upgrade(c) \/ SocketCloses(c) \/ HandleMessage(c)
                             \/ Message(c, "hello") \/ Message(c, "intent"))
        => UNCHANGED requests
  BY DEF Tick, Signal, Shutdown, serverVars, WhoAmI, Logout, Upgrade, SocketCloses, HandleMessage,
         Message, GatewayCloses, ListenerCloses, RequestsSettle, Drained, Reaches
<1> QED BY <1>1, <1>2, <1>3, <1>4, <1>5, <1>6, <1>7, HandlerStepRequests DEF ServerNext
-----------------------------------------------------------------------------
(* Accounts and auth sessions *)

\* As long as accounts and grants stay and time does not go back, it is enough
\* that a step takes rows away only when they have expired.
LEMMA RowsExpire ==
  ASSUME AuthInv, now' \in Nat, now <= now', UNCHANGED <<accounts, drawn, grants>>,
         DOMAIN sessions' = Tokens, sessions' = [t \in Tokens |-> sessions'[t]],
         \A t \in Tokens : \/ sessions'[t] = sessions[t]
                           \/ sessions'[t] = NoRow /\ sessions[t].expires <= now'
  PROVE  AuthInv'
<1>1. AuthTypes'
  <2>1. \A t \in Tokens : sessions'[t] \in {NoRow} \union [account : Names, expires : Nat]
    BY DEF AuthInv, AuthTypes
  <2>2. sessions' \in [Tokens -> {NoRow} \union [account : Names, expires : Nat]]
    BY <2>1
  <2> QED BY <2>2 DEF AuthInv, AuthTypes
<1>2. GrantsHaveRows'
  <2> SUFFICES ASSUME NEW g \in grants
               PROVE  /\ g.token \in drawn /\ accounts[g.account] = g.secret
                      /\ now' < g.at + TTL => sessions'[g.token] = RowOf(g)
    BY DEF GrantsHaveRows, RowOf
  <2>1. /\ g.token \in Tokens /\ g.at + TTL \in Nat /\ now \in Nat
        /\ g.token \in drawn /\ accounts[g.account] = g.secret
        /\ now < g.at + TTL => sessions[g.token] = RowOf(g)
    BY ServerAssumption DEF AuthInv, AuthTypes, GrantsHaveRows
  <2>2. ASSUME now' < g.at + TTL PROVE sessions'[g.token] = RowOf(g)
    <3>1. sessions[g.token] = RowOf(g)
      BY <2>1, <2>2
    <3>2. sessions[g.token].expires = g.at + TTL
      BY <3>1 DEF RowOf
    <3> QED BY <2>1, <2>2, <3>1, <3>2
  <2> QED BY <2>1, <2>2
<1>3. RowsAreGranted'
  <2> SUFFICES ASSUME NEW t \in Tokens, sessions'[t] # NoRow
               PROVE  \E g \in grants' : g.token = t /\ sessions'[t] = RowOf(g)
    BY DEF RowsAreGranted, RowOf
  <2>1. sessions'[t] = sessions[t] /\ grants' = grants
    OBVIOUS
  <2> QED BY <2>1 DEF AuthInv, RowsAreGranted
<1> QED BY <1>1, <1>2, <1>3 DEF AuthInv

LEMMA AuthStays ==
  ASSUME AuthInv, UNCHANGED authVars
  PROVE  AuthInv'
BY DEF authVars, AuthInv, AuthTypes, GrantsHaveRows, RowsAreGranted, RowOf

LEMMA SweptKeeps ==
  ASSUME AuthInv, NEW t \in Tokens \union {NoToken}, sessions' = Swept(t),
         UNCHANGED <<now, accounts, drawn, grants>>
  PROVE  AuthInv'
<1>1. sessions' = [u \in Tokens |-> sessions'[u]] /\ DOMAIN sessions' = Tokens
  BY DEF Swept, AuthInv, AuthTypes
<1>2. \A u \in Tokens : \/ sessions'[u] = sessions[u]
                        \/ sessions'[u] = NoRow /\ sessions[u].expires <= now
  BY DEF Swept
<1>3. now \in Nat /\ now <= now
  BY DEF AuthInv, AuthTypes
<1> QED BY <1>1, <1>2, <1>3, RowsExpire

\* A logout ends the login that drew its token and no other.
LEMMA LogoutKeeps ==
  ASSUME AuthInv, NEW t \in Tokens, Logout(t)
  PROVE  AuthInv'
<1>1. /\ AuthTypes /\ sessions' = [sessions EXCEPT ![t] = NoRow]
      /\ grants' = {g \in grants : g.token # t}
      /\ UNCHANGED <<now, accounts, drawn>>
  BY DEF AuthInv, Logout
<1>2. AuthTypes'
  BY <1>1 DEF AuthTypes
<1>3. GrantsHaveRows'
  BY <1>1 DEF AuthInv, AuthTypes, GrantsHaveRows, RowOf
<1>4. RowsAreGranted'
  BY <1>1 DEF AuthInv, AuthTypes, RowsAreGranted, RowOf
<1> QED BY <1>2, <1>3, <1>4 DEF AuthInv

\* A registration takes a free name, so it changes no password of a login.
LEMMA InsertKeeps ==
  ASSUME AuthInv, NEW n \in Names, NEW secret \in Passwords, InsertAccount(n, secret),
         UNCHANGED <<now, sessions, drawn, grants>>
  PROVE  AuthInv'
<1>1. /\ AuthTypes /\ accounts[n] = NoPassword
      /\ accounts' = [accounts EXCEPT ![n] = secret]
  BY DEF AuthInv, InsertAccount
<1>2. AuthTypes'
  BY <1>1 DEF AuthTypes
<1>3. GrantsHaveRows'
  <2> SUFFICES ASSUME NEW g \in grants
               PROVE  /\ g.token \in drawn /\ accounts'[g.account] = g.secret
                      /\ now < g.at + TTL => sessions[g.token] = RowOf(g)
    BY DEF GrantsHaveRows, RowOf
  <2>1. g.secret \in Passwords /\ g.account \in Names /\ accounts[g.account] = g.secret
    BY <1>1 DEF AuthTypes, AuthInv, GrantsHaveRows
  <2>2. g.account # n
    BY <1>1, <2>1, ServerAssumption
  <2> QED BY <1>1, <2>1, <2>2 DEF AuthInv, GrantsHaveRows, AuthTypes
<1>4. RowsAreGranted'
  BY DEF AuthInv, RowsAreGranted, RowOf
<1> QED BY <1>2, <1>3, <1>4 DEF AuthInv

\* A login with the right password draws a fresh token.
LEMMA GrantKeeps ==
  ASSUME AuthInv, NEW n \in Names, NEW secret \in Passwords, accounts[n] = secret,
         Grant(n, secret), UNCHANGED <<now, accounts>>
  PROVE  AuthInv'
<1>1. CASE UNCHANGED <<sessions, drawn, grants>>
  BY <1>1, AuthStays DEF authVars
<1>2. CASE \E t \in Tokens \ drawn :
             /\ drawn' = drawn \union {t}
             /\ sessions' = [sessions EXCEPT ![t] = [account |-> n, expires |-> now + TTL]]
             /\ grants' = grants \union
                  {[token |-> t, account |-> n, secret |-> secret, at |-> now]}
  <2>1. PICK t \in Tokens \ drawn :
             /\ drawn' = drawn \union {t}
             /\ sessions' = [sessions EXCEPT ![t] = [account |-> n, expires |-> now + TTL]]
             /\ grants' = grants \union
                  {[token |-> t, account |-> n, secret |-> secret, at |-> now]}
    BY <1>2
  <2> DEFINE new == [token |-> t, account |-> n, secret |-> secret, at |-> now]
  <2>2. /\ AuthTypes /\ now + TTL \in Nat
        /\ RowOf(new) = [account |-> n, expires |-> now + TTL]
        /\ new \in [token : Tokens, account : Names, secret : Passwords, at : Nat]
        /\ new.token = t /\ new.account = n /\ new.secret = secret
    BY ServerAssumption DEF AuthInv, AuthTypes, RowOf
  <2>3. RowOf(new) \in [account : Names, expires : Nat]
    BY <2>2
  <2>4. grants' = grants \union {new} /\ sessions' = [sessions EXCEPT ![t] = RowOf(new)]
    BY <2>1, <2>2
  <2> HIDE DEF new
  <2>5. AuthTypes'
    BY <2>1, <2>2, <2>3, <2>4 DEF AuthTypes
  <2>6. sessions'[t] = RowOf(new) /\ \A u \in Tokens \ {t} : sessions'[u] = sessions[u]
    BY <2>2, <2>4 DEF AuthTypes
  <2>7. GrantsHaveRows'
    <3>1. ASSUME NEW g \in grants
          PROVE  /\ g.token \in drawn' /\ accounts[g.account] = g.secret
                 /\ now < g.at + TTL => sessions'[g.token] = RowOf(g)
      <4>1. g.token \in drawn /\ g.token # t /\ g.token \in Tokens
        BY <2>1, <2>2 DEF AuthInv, GrantsHaveRows, AuthTypes
      <4> QED BY <2>1, <2>6, <4>1 DEF AuthInv, GrantsHaveRows
    <3>2. new.token \in drawn' /\ accounts[new.account] = new.secret
          /\ sessions'[new.token] = RowOf(new)
      BY <2>1, <2>2, <2>6
    <3>3. now' = now /\ accounts' = accounts
      OBVIOUS
    <3> QED BY <2>4, <3>1, <3>2, <3>3 DEF GrantsHaveRows, RowOf
  <2>8. RowsAreGranted'
    <3> SUFFICES ASSUME NEW u \in Tokens, sessions'[u] # NoRow
                 PROVE  \E g \in grants' : g.token = u /\ sessions'[u] = RowOf(g)
      BY DEF RowsAreGranted, RowOf
    <3>1. CASE u = t
      BY <2>2, <2>4, <2>6, <3>1
    <3>2. CASE u # t
      BY <2>4, <2>6, <3>2 DEF AuthInv, RowsAreGranted
    <3> QED BY <3>1, <3>2
  <2> QED BY <2>5, <2>7, <2>8 DEF AuthInv
<1> QED BY <1>1, <1>2 DEF Grant

LEMMA AuthStep ==
  ASSUME RequestTypes, AuthInv, [ServerNext]_serverVars
  PROVE  AuthInv'
<1>1. CASE Tick
  <2>1. now' \in Nat /\ now <= now' /\ UNCHANGED <<accounts, drawn, grants, sessions>>
    BY <1>1 DEF Tick, AuthInv, AuthTypes
  <2>2. DOMAIN sessions' = Tokens /\ sessions' = [t \in Tokens |-> sessions'[t]]
    BY <2>1 DEF AuthInv, AuthTypes
  <2> QED BY <2>1, <2>2, RowsExpire
<1>2. ASSUME NEW t \in Tokens, WhoAmI(t) \/ Logout(t)
      PROVE  AuthInv'
  BY <1>2, SweptKeeps, LogoutKeeps DEF WhoAmI
<1>3. ASSUME NEW h \in Handlers, NEW route, NEW t \in Tokens \union {NoToken},
             ArriveSignedIn(h, route, t)
      PROVE  AuthInv'
  BY <1>3, SweptKeeps DEF ArriveSignedIn
<1>4. ASSUME NEW h \in Handlers, Hashed(h)
      PROVE  AuthInv'
  <2>1. CASE UNCHANGED accounts
    BY <1>4, <2>1, AuthStays DEF Hashed, authVars
  <2>2. CASE InsertAccount(requests[h].who, requests[h].secret)
    <3>1. requests[h] \in Waitings /\ requests[h].stage = "hash"
      BY <1>4 DEF RequestTypes, Hashed, AtStage
    <3>2. requests[h].who \in Names /\ requests[h].secret \in Passwords
      BY <3>1 DEF Waitings, AuthStages, OtherStages
    <3> QED BY <1>4, <2>2, <3>2, InsertKeeps DEF Hashed
  <2> QED BY <1>4, <2>1, <2>2 DEF Hashed
<1>5. ASSUME NEW h \in Handlers, Verified(h)
      PROVE  AuthInv'
  <2>1. CASE UNCHANGED <<sessions, drawn, grants>>
    BY <1>5, <2>1, AuthStays DEF Verified, authVars
  <2>2. CASE /\ AtStage(h, "verify") /\ accounts[requests[h].who] = requests[h].secret
             /\ Grant(requests[h].who, requests[h].secret)
    <3>1. requests[h] \in Waitings /\ requests[h].stage = "verify"
      BY <2>2 DEF RequestTypes, AtStage
    <3>2. requests[h].who \in Names /\ requests[h].secret \in Passwords
      BY <3>1 DEF Waitings, AuthStages, OtherStages
    <3> QED BY <1>5, <2>2, <3>2, GrantKeeps DEF Verified
  <2> QED BY <1>5, <2>1, <2>2 DEF Verified
<1>6. ASSUME UNCHANGED authVars
      PROVE  AuthInv'
  BY <1>6, AuthStays
<1>7. (\/ Signal \/ Shutdown \/ HostSettles \/ UNCHANGED serverVars
       \/ \E h \in Handlers : \/ BodyRead(h) \/ BodyRefused(h) \/ ServiceSettles(h)
                              \/ ClientLeaves(h)
       \/ \E h \in Handlers, n \in Names, secret \in Passwords :
            \/ ArriveAnonymous(h, "login", n, secret)
            \/ ArriveAnonymous(h, "register", n, secret)
       \/ \E h \in Handlers : ArriveAnonymous(h, "join", Nobody, NoPassword)
       \/ \E c \in Sockets : \/ Upgrade(c) \/ SocketCloses(c) \/ HandleMessage(c)
                             \/ Message(c, "hello") \/ Message(c, "intent"))
        => UNCHANGED authVars
  BY DEF Signal, Shutdown, HostSettles, serverVars, BodyRead, BodyRefused, ServiceSettles,
         ClientLeaves, ArriveAnonymous, Upgrade, SocketCloses, HandleMessage, Message,
         GatewayCloses, ListenerCloses, RequestsSettle, Drained, Reaches
<1> QED BY <1>1, <1>2, <1>3, <1>4, <1>5, <1>6, <1>7 DEF ServerNext, HandlerStep
-----------------------------------------------------------------------------
(* Shutdown *)

\* Some order of the detach operations that terminated sockets leave behind.
LEMMA SetToSeqLists ==
  ASSUME NEW S, IsFiniteSet(S)
  PROVE  SetToSeq(S) \in Seq(S)
<1>1. \E f \in [1..Cardinality(S) -> S] : IsInjective(f)
  <2>1. Cardinality(S) \in Nat /\ ExistsBijection(1..Cardinality(S), S)
    BY FS_CardinalityType, FS_CountingElements
  <2> QED BY <2>1 DEF ExistsBijection, Bijection, Injection
<1>2. SetToSeq(S) \in [1..Cardinality(S) -> S]
  BY <1>1 DEF SetToSeq
<1>3. Cardinality(S) \in Nat
  BY FS_CardinalityType
<1> QED BY <1>2, <1>3

\* The queue goes on with nothing but detach operations, or with what a request
\* or a message hands on.
LEMMA QueueGrows ==
  ASSUME FlowTypes, MessagesWaitOnce, NEW more \in Seq(HostOperations),
         \A i \in DOMAIN more : more[i].kind \notin {"hello", "intent"},
         hostQueue' = hostQueue \o more, UNCHANGED <<chain, submitted>>
  PROVE  hostQueue' \in Seq(HostOperations) /\ MessagesWaitOnce'
<1>1. /\ hostQueue \in Seq(HostOperations) /\ hostQueue' \in Seq(HostOperations)
      /\ Len(hostQueue) \in Nat /\ Len(more) \in Nat
      /\ Len(hostQueue') = Len(hostQueue) + Len(more)
  BY DEF FlowTypes
<1>2. \A i \in DOMAIN hostQueue' :
        \/ i \in DOMAIN hostQueue /\ hostQueue'[i] = hostQueue[i]
        \/ i - Len(hostQueue) \in DOMAIN more /\ hostQueue'[i] = more[i - Len(hostQueue)]
  BY <1>1
<1>3. \A i \in DOMAIN hostQueue' :
        WillSettle(i)' => i \in DOMAIN hostQueue /\ hostQueue'[i] = hostQueue[i] /\ WillSettle(i)
  BY <1>2 DEF WillSettle
<1> QED BY <1>1, <1>3 DEF MessagesWaitOnce
\* One more operation that no message waits for.
LEMMA OneMore ==
  ASSUME FlowTypes, MessagesWaitOnce, NEW op \in HostOperations,
         op.kind \notin {"hello", "intent"},
         hostQueue' = Append(hostQueue, op), UNCHANGED <<chain, submitted>>
  PROVE  hostQueue' \in Seq(HostOperations) /\ MessagesWaitOnce'
<1>1. /\ hostQueue \in Seq(HostOperations) /\ hostQueue' \in Seq(HostOperations)
      /\ Len(hostQueue) \in Nat /\ hostQueue'[Len(hostQueue) + 1] = op
      /\ \A i \in DOMAIN hostQueue' :
           \/ i = Len(hostQueue) + 1
           \/ i \in DOMAIN hostQueue /\ hostQueue'[i] = hostQueue[i]
  BY DEF FlowTypes
<1>2. \A i \in DOMAIN hostQueue' :
        WillSettle(i)' => i \in DOMAIN hostQueue /\ hostQueue'[i] = hostQueue[i] /\ WillSettle(i)
  BY <1>1 DEF WillSettle
<1> QED BY <1>1, <1>2 DEF MessagesWaitOnce

LEMMA ChainFields ==
  ASSUME FlowTypes, NEW c \in Sockets
  PROVE  /\ chain[c] \in Seq({"hello", "intent"})
         /\ chain[c] # <<>> => Pending # {}
BY DEF FlowTypes, Pending

\* While requests or sockets are still served the later phases are not reached.
LEMMA StillServing ==
  ASSUME ShutdownOrder
  PROVE  /\ InUse # {} => phase \notin {"drain", "closed"}
         /\ open # {} \/ Pending # {} => phase \in {"serving", "gateway"}
         /\ hostQueue # <<>> => phase # "closed"
         /\ ~Closing => phase = "serving"
BY DEF ShutdownOrder, Closing

\* A message of socket c goes to a host queue.
LEMMA HandedOn ==
  ASSUME FlowInv, NEW c \in Sockets, chain[c] # <<>>, c \notin submitted,
         hostQueue' = Append(hostQueue, [from |-> c, kind |-> Head(chain[c])]),
         submitted' = submitted \union {c},
         UNCHANGED <<identity, open, chain, requests, phase>>
  PROVE  FlowInv'
<1> DEFINE op == [from |-> c, kind |-> Head(chain[c])]
<1>1. FlowTypes /\ MessagesWaitOnce /\ ShutdownOrder
  BY DEF FlowInv
<1>2. op \in HostOperations /\ op.from = c
  BY <1>1, ChainFields DEF HostOperations
<1> HIDE DEF op
<1>3. /\ hostQueue \in Seq(HostOperations) /\ hostQueue' \in Seq(HostOperations)
      /\ Len(hostQueue) \in Nat /\ hostQueue'[Len(hostQueue) + 1] = op
      /\ \A i \in DOMAIN hostQueue' :
           \/ i = Len(hostQueue) + 1
           \/ i \in DOMAIN hostQueue /\ hostQueue'[i] = hostQueue[i]
  BY <1>1, <1>2 DEF FlowTypes, op
<1>4. FlowTypes'
  BY <1>1, <1>3 DEF FlowTypes
<1>5. \A i \in DOMAIN hostQueue : WillSettle(i) => hostQueue[i].from # c
  BY <1>1 DEF MessagesWaitOnce
<1>6. MessagesWaitOnce'
  BY <1>1, <1>2, <1>3, <1>5 DEF MessagesWaitOnce, WillSettle
<1>7. phase \in {"serving", "gateway"}
  BY <1>1, ChainFields, StillServing
<1>8. ShutdownOrder'
  BY <1>7 DEF ShutdownOrder
<1> QED BY <1>4, <1>6, <1>8 DEF FlowInv

\* A chain grows, or loses a head that was not handed on.
LEMMA ChainMoves ==
  ASSUME FlowInv, NEW c \in Sockets, NEW messages \in Seq({"hello", "intent"}),
         chain' = [chain EXCEPT ![c] = messages],
         c \in submitted => messages # <<>>,
         phase \in {"serving", "gateway"},
         UNCHANGED <<identity, open, submitted, hostQueue, requests, phase>>
  PROVE  FlowInv'
<1>1. FlowTypes /\ MessagesWaitOnce
  BY DEF FlowInv
<1>2. /\ chain' \in [Sockets -> Seq({"hello", "intent"})] /\ chain'[c] = messages
      /\ \A d \in Sockets \ {c} : chain'[d] = chain[d]
  BY <1>1 DEF FlowTypes
<1>3. FlowTypes'
  BY <1>1, <1>2 DEF FlowTypes
<1>4. MessagesWaitOnce'
  BY <1>1, <1>2 DEF MessagesWaitOnce, WillSettle, FlowTypes
<1>5. ShutdownOrder'
  BY DEF ShutdownOrder
<1> QED BY <1>3, <1>4, <1>5 DEF FlowInv

\* Only requests change, and those of a server that still has some or takes
\* them.
LEMMA RequestsMove ==
  ASSUME FlowInv, phase \notin {"drain", "closed"},
         UNCHANGED <<socketVars, hostQueue, phase>>
  PROVE  FlowInv'
BY DEF FlowInv, FlowTypes, MessagesWaitOnce, WillSettle, ShutdownOrder, Pending, socketVars

LEMMA HandlerStepFlow ==
  ASSUME FlowInv, NEW h \in Handlers, HandlerStep(h) \/ ClientLeaves(h)
  PROVE  FlowInv'
<1>1. FlowTypes /\ MessagesWaitOnce /\ ShutdownOrder
  BY DEF FlowInv
<1>2. requests[h] # Free
  BY DEF HandlerStep, BodyRead, BodyRefused, Hashed, Verified, ServiceSettles, ClientLeaves,
         AtStage
<1>3. phase \notin {"drain", "closed"}
  BY <1>1, <1>2, StillServing DEF InUse
<1>4. CASE UNCHANGED <<socketVars, hostQueue, phase>>
  BY <1>3, <1>4, RequestsMove
<1>5. CASE /\ hostQueue' = Append(hostQueue, [from |-> h, kind |-> "join"])
           /\ UNCHANGED <<socketVars, phase>>
  <2>1. [from |-> h, kind |-> "join"] \in HostOperations
    BY DEF HostOperations
  <2>2. hostQueue' \in Seq(HostOperations) /\ MessagesWaitOnce'
    BY <1>1, <1>5, <2>1, OneMore DEF socketVars
  <2>3. FlowTypes' /\ ShutdownOrder'
    BY <1>1, <1>3, <1>5, <2>2 DEF FlowTypes, ShutdownOrder, Pending, socketVars
  <2> QED BY <2>2, <2>3 DEF FlowInv
<1> QED BY <1>4, <1>5 DEF HandlerStep, BodyRead, BodyRefused, Hashed, Verified,
           ServiceSettles, ClientLeaves

LEMMA SocketStepFlow ==
  ASSUME FlowInv, NEW c \in Sockets,
         \/ Upgrade(c) \/ SocketCloses(c) \/ HandleMessage(c)
         \/ Message(c, "hello") \/ Message(c, "intent")
  PROVE  FlowInv'
<1>1. FlowTypes /\ MessagesWaitOnce /\ ShutdownOrder
  BY DEF FlowInv
<1>2. CASE Upgrade(c)
  <2>1. phase = "serving"
    BY <1>1, <1>2, StillServing DEF Upgrade
  <2> QED BY <1>1, <1>2, <2>1 DEF Upgrade, FlowInv, FlowTypes, MessagesWaitOnce, WillSettle,
                                 ShutdownOrder
<1>3. ASSUME NEW type \in {"hello", "intent"}, Message(c, type)
      PROVE  FlowInv'
  <2>1. phase = "serving"
    BY <1>1, <1>3, StillServing DEF Message
  <2>2. Append(chain[c], type) \in Seq({"hello", "intent"}) /\ Append(chain[c], type) # <<>>
    BY <1>1, ChainFields
  <2> QED BY <1>3, <2>1, <2>2, ChainMoves DEF Message
<1>4. CASE HandleMessage(c)
  <2>1. CASE /\ hostQueue' = Append(hostQueue, [from |-> c, kind |-> Head(chain[c])])
             /\ submitted' = submitted \union {c}
             /\ UNCHANGED chain
    BY <1>4, <2>1, HandedOn DEF HandleMessage
  <2>2. CASE chain' = [chain EXCEPT ![c] = Tail(@)] /\ UNCHANGED <<hostQueue, submitted>>
    <3>1. chain[c] # <<>> /\ c \notin submitted
      BY <1>4 DEF HandleMessage
    <3>2. Tail(chain[c]) \in Seq({"hello", "intent"})
      BY <1>1, <3>1, ChainFields
    <3>3. phase \in {"serving", "gateway"}
      BY <1>1, <3>1, ChainFields, StillServing
    <3> QED BY <1>4, <2>2, <3>1, <3>2, <3>3, ChainMoves DEF HandleMessage
  <2> QED BY <1>4, <2>1, <2>2 DEF HandleMessage
<1>5. CASE SocketCloses(c)
  <2>1. phase \in {"serving", "gateway"} /\ open' \subseteq Sockets
    BY <1>1, <1>5, StillServing DEF SocketCloses, FlowTypes
  <2>2. hostQueue' \in Seq(HostOperations) /\ MessagesWaitOnce'
    <3>1. DetachOf(c) \in HostOperations /\ DetachOf(c).kind = "detach"
      BY DEF DetachOf, HostOperations
    <3>2. CASE hostQueue' = Append(hostQueue, DetachOf(c))
      BY <1>1, <1>5, <3>1, <3>2, OneMore DEF SocketCloses
    <3>3. CASE hostQueue' = hostQueue
      BY <1>1, <1>5, <3>3 DEF SocketCloses, FlowTypes, MessagesWaitOnce, WillSettle
    <3> QED BY <1>5, <3>2, <3>3 DEF SocketCloses
  <2>3. FlowTypes' /\ ShutdownOrder'
    BY <1>1, <1>5, <2>1, <2>2 DEF SocketCloses, FlowTypes, ShutdownOrder
  <2> QED BY <2>2, <2>3 DEF FlowInv
<1> QED BY <1>2, <1>3, <1>4, <1>5

LEMMA HostSettlesFlow ==
  ASSUME RequestTypes, FlowInv, HostSettles
  PROVE  FlowInv'
<1> DEFINE op == Head(hostQueue)
<1>1. /\ FlowTypes /\ MessagesWaitOnce /\ ShutdownOrder
      /\ hostQueue # <<>> /\ hostQueue' = Tail(hostQueue) /\ UNCHANGED <<open, phase>>
  BY DEF FlowInv, HostSettles
<1>2. /\ hostQueue \in Seq(HostOperations) /\ Len(hostQueue) \in Nat \ {0}
      /\ op \in HostOperations /\ op = hostQueue[1] /\ 1 \in DOMAIN hostQueue
      /\ hostQueue' \in Seq(HostOperations)
      /\ \A i \in DOMAIN hostQueue' : i + 1 \in DOMAIN hostQueue
                                     /\ hostQueue'[i] = hostQueue[i + 1] /\ i + 1 # 1
      /\ \A i, j \in DOMAIN hostQueue' : i + 1 = j + 1 => i = j
  BY <1>1 DEF FlowTypes
<1>3. phase # "closed"
  BY <1>1, StillServing
<1> HIDE DEF op
<1>4. CASE UNCHANGED <<identity, chain, submitted>> /\ InUse' \subseteq InUse
  <2>1. FlowTypes'
    BY <1>1, <1>2, <1>4 DEF FlowTypes
  <2>2. MessagesWaitOnce'
    BY <1>1, <1>2, <1>4 DEF MessagesWaitOnce, WillSettle
  <2>3. ShutdownOrder'
    BY <1>1, <1>3, <1>4 DEF ShutdownOrder, Pending
  <2> QED BY <2>1, <2>2, <2>3 DEF FlowInv
<1>5. CASE /\ op.kind \in {"hello", "intent"}
           /\ chain' = [chain EXCEPT ![op.from] = Tail(@)]
           /\ submitted' = submitted \ {op.from}
           /\ identity' = [identity EXCEPT ![op.from] = TRUE] \/ UNCHANGED identity
           /\ UNCHANGED requests
  <2> DEFINE c == op.from
  <2>1. c \in Sockets
    BY <1>2, <1>5 DEF HostOperations
  <2>2. c \in submitted /\ chain[c] # <<>> /\ chain[c] \in Seq({"hello", "intent"})
    BY <1>1, <1>2, <1>5, <2>1, ChainFields DEF MessagesWaitOnce, WillSettle
  <2>3. \A i \in DOMAIN hostQueue : WillSettle(i) /\ i # 1 => hostQueue[i].from # c
    BY <1>1, <1>2, <1>5 DEF MessagesWaitOnce, WillSettle
  <2>4. Tail(chain[c]) \in Seq({"hello", "intent"})
    BY <2>2
  <2>5. FlowTypes'
    BY <1>1, <1>2, <1>5, <2>1, <2>4 DEF FlowTypes
  <2>6. \A d \in Sockets : d # c => chain'[d] = chain[d]
    BY <1>1, <1>5 DEF FlowTypes
  <2>7. \A d \in submitted' : d # c /\ d \in submitted /\ chain'[d] = chain[d]
    BY <1>1, <1>5, <2>6 DEF FlowTypes
  <2>8. MessagesWaitOnce'
    <3>1. \A d \in submitted' : chain'[d] # <<>>
      BY <1>1, <2>7 DEF MessagesWaitOnce
    <3>2. \A i \in DOMAIN hostQueue' : WillSettle(i)' =>
            WillSettle(i + 1) /\ hostQueue'[i].from = hostQueue[i + 1].from
            /\ hostQueue[i + 1].from \in submitted'
      BY <1>1, <1>2, <1>5, <2>3 DEF MessagesWaitOnce, WillSettle
    <3> QED BY <1>1, <1>2, <3>1, <3>2 DEF MessagesWaitOnce
  <2>9. phase \in {"serving", "gateway"}
    BY <1>1, <2>1, <2>2, ChainFields, StillServing
  <2>10. ShutdownOrder'
    BY <1>1, <2>9 DEF ShutdownOrder
  <2> QED BY <2>5, <2>8, <2>10 DEF FlowInv
<1> QED
  <2>1. CASE op.kind = "join" /\ Answered(op.from) /\ UNCHANGED <<identity, chain, submitted>>
    <3>1. InUse' \subseteq InUse
      BY <2>1 DEF Answered, InUse, RequestTypes
    <3> QED BY <1>4, <2>1, <3>1
  <2>2. CASE UNCHANGED <<identity, chain, submitted, requests>>
    BY <1>4, <2>2 DEF InUse
  <2> QED BY <1>5, <2>1, <2>2 DEF HostSettles, op
\* The gateway closes when no message is left; the sockets it terminates leave
\* detach operations behind.
LEMMA GatewayClosesFlow ==
  ASSUME FlowInv, GatewayCloses
  PROVE  FlowInv'
<1> DEFINE cut == {DetachOf(c) : c \in {d \in open : identity[d]}}
<1>1. /\ FlowTypes /\ MessagesWaitOnce /\ phase' = "listener" /\ Pending = {} /\ open' = {}
      /\ hostQueue' = hostQueue \o SetToSeq(cut)
      /\ UNCHANGED <<identity, chain, submitted, requests>>
  BY DEF FlowInv, GatewayCloses, Reaches
<1>2. cut \subseteq {o \in HostOperations : o.kind = "detach"}
  BY <1>1 DEF FlowTypes, DetachOf, HostOperations
<1>3. IsFiniteSet(cut)
  <2> DEFINE named == {d \in open : identity[d]}
             detach == [d \in named |-> DetachOf(d)]
  <2>1. IsFiniteSet(named)
    BY <1>1, ServerAssumption, FS_Subset DEF FlowTypes
  <2>2. detach \in Surjection(named, cut)
    BY DEF Surjection
  <2> HIDE DEF named, detach
  <2> QED BY <2>1, <2>2, FS_Surjection
<1> HIDE DEF cut
<1>4. SetToSeq(cut) \in Seq(cut)
  BY <1>3, SetToSeqLists
<1>5. /\ SetToSeq(cut) \in Seq(HostOperations)
      /\ \A i \in DOMAIN SetToSeq(cut) : SetToSeq(cut)[i].kind \notin {"hello", "intent"}
  BY <1>2, <1>4
<1>6. hostQueue' \in Seq(HostOperations) /\ MessagesWaitOnce'
  BY <1>1, <1>5, QueueGrows
<1>7. FlowTypes' /\ ShutdownOrder'
  BY <1>1, <1>6 DEF FlowTypes, ShutdownOrder, Pending
<1> QED BY <1>6, <1>7 DEF FlowInv

LEMMA FlowStep ==
  ASSUME RequestTypes, FlowInv, [ServerNext]_serverVars
  PROVE  FlowInv'
<1>1. FlowTypes /\ MessagesWaitOnce /\ ShutdownOrder
  BY DEF FlowInv
<1>2. CASE Signal \/ ListenerCloses \/ RequestsSettle \/ Drained
  <2>1. FlowTypes' /\ MessagesWaitOnce'
    BY <1>1, <1>2 DEF Signal, ListenerCloses, RequestsSettle, Drained, Reaches, FlowTypes,
                      MessagesWaitOnce, WillSettle, socketVars
  <2>2. ShutdownOrder'
    BY <1>1, <1>2 DEF Signal, ListenerCloses, RequestsSettle, Drained, Reaches, ShutdownOrder,
                      Pending, InUse, socketVars
  <2> QED BY <2>1, <2>2 DEF FlowInv
<1>3. CASE UNCHANGED <<socketVars, hostQueue, phase, requests>>
  BY <1>3 DEF FlowInv, FlowTypes, MessagesWaitOnce, WillSettle, ShutdownOrder, Pending, InUse,
              socketVars
<1>4. (Tick \/ UNCHANGED serverVars \/ \E t \in Tokens : WhoAmI(t) \/ Logout(t))
        => UNCHANGED <<socketVars, hostQueue, phase, requests>>
  BY DEF Tick, WhoAmI, Logout, serverVars
<1>5. ASSUME NEW h \in Handlers, NEW route, NEW who, NEW secret,
             ArriveAnonymous(h, route, who, secret)
      PROVE  FlowInv'
  <2>1. phase = "serving"
    BY <1>1, <1>5, StillServing DEF ArriveAnonymous
  <2> QED BY <1>5, <2>1, RequestsMove DEF ArriveAnonymous
<1>6. ASSUME NEW h \in Handlers, NEW route, NEW t, ArriveSignedIn(h, route, t)
      PROVE  FlowInv'
  <2>1. phase = "serving"
    BY <1>1, <1>6, StillServing DEF ArriveSignedIn
  <2> QED BY <1>6, <2>1, RequestsMove DEF ArriveSignedIn
<1> QED BY <1>2, <1>3, <1>4, <1>5, <1>6, HandlerStepFlow, SocketStepFlow, HostSettlesFlow,
           GatewayClosesFlow DEF ServerNext, Shutdown

-----------------------------------------------------------------------------
(* The theorems *)

LEMMA ServerBegins ==
  ASSUME ServerInit
  PROVE  ServerInv
<1>1. RequestTypes
  BY DEF ServerInit, RequestTypes
<1>2. AuthInv
  BY DEF ServerInit, AuthInv, AuthTypes, GrantsHaveRows, RowsAreGranted
<1>3. FlowTypes /\ ShutdownOrder
  BY DEF ServerInit, FlowTypes, ShutdownOrder
<1>4. MessagesWaitOnce
  BY DEF ServerInit, MessagesWaitOnce
<1> QED BY <1>1, <1>2, <1>3, <1>4 DEF ServerInv, FlowInv

\* Requests, accounts, sockets and the shutdown fit together in every
\* reachable state, whatever arrives and in whatever order it settles.
THEOREM ServerInvariant == ServerSpec => []ServerInv
<1>1. ServerInit => ServerInv
  BY ServerBegins
<1>2. ServerInv /\ [ServerNext]_serverVars => ServerInv'
  BY RequestsStep, AuthStep, FlowStep DEF ServerInv, AuthInv, FlowInv
<1> QED BY <1>1, <1>2, PTL DEF ServerSpec

\* When the database closes (server.ts close) no handler, no message of a
\* socket and no operation of a host is left that could still write to it.
THEOREM NothingIsLeftToWrite == ServerSpec => []NothingOutlivesTheDatabase
<1>1. ServerInv => NothingOutlivesTheDatabase
  BY DEF ServerInv, FlowInv, ShutdownOrder, NothingOutlivesTheDatabase, DatabaseOpen
<1> QED BY <1>1, ServerInvariant, PTL

\* A token stands for an account exactly when it came from a login with the
\* password of that account, was not logged out and has not expired
\* (auth-service.ts authenticate), however registrations, logins, sweeps and
\* logouts interleave.
THEOREM IdentityIsAlwaysEarned == ServerSpec => []IdentityIsEarned
<1>1. ASSUME ServerInv, NEW t \in Tokens, NEW n \in Names
      PROVE  Authenticated(t) = n <=> InGoodStanding(t, n)
  <2>1. AuthTypes /\ GrantsHaveRows /\ RowsAreGranted /\ t # NoToken /\ n # Nobody
    BY <1>1, ServerAssumption DEF ServerInv, AuthInv
  <2>2. ASSUME Authenticated(t) = n PROVE InGoodStanding(t, n)
    <3>1. sessions[t].expires > now /\ sessions[t].account = n
      BY <2>1, <2>2 DEF Authenticated, FindValid
    <3>2. sessions[t] # NoRow
      BY <2>1, <3>1 DEF NoRow, AuthTypes
    <3>3. PICK g \in grants : g.token = t /\ sessions[t] = RowOf(g)
      BY <2>1, <3>2 DEF RowsAreGranted
    <3>4. g.account = n /\ g.secret = accounts[n] /\ now < g.at + TTL
      <4>1. sessions[t].account = g.account /\ sessions[t].expires = g.at + TTL
        BY <3>3 DEF RowOf
      <4>2. accounts[g.account] = g.secret /\ g.at + TTL \in Nat /\ now \in Nat
        BY <2>1, ServerAssumption DEF GrantsHaveRows, AuthTypes
      <4> QED BY <3>1, <4>1, <4>2
    <3> QED BY <3>3, <3>4 DEF InGoodStanding
  <2>3. ASSUME InGoodStanding(t, n) PROVE Authenticated(t) = n
    <3>1. PICK g \in grants : /\ g.token = t /\ g.account = n /\ now < g.at + TTL
      BY <2>3 DEF InGoodStanding
    <3>2. sessions[t] = RowOf(g)
      BY <2>1, <3>1 DEF GrantsHaveRows
    <3>3. sessions[t].account = n /\ sessions[t].expires = g.at + TTL
      BY <3>1, <3>2 DEF RowOf
    <3>4. now \in Nat /\ g.at + TTL \in Nat
      BY <2>1, ServerAssumption DEF AuthTypes
    <3> QED BY <2>1, <3>1, <3>3, <3>4 DEF Authenticated, FindValid
  <2> QED BY <2>2, <2>3
<1>2. ServerInv => IdentityIsEarned
  BY <1>1 DEF IdentityIsEarned
<1> QED BY <1>2, ServerInvariant, PTL
=============================================================================
