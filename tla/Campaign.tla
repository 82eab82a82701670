------------------------------ MODULE Campaign ------------------------------
(***************************************************************************)
(* One durable campaign and the live sessions that write it: the           *)
(* CampaignService (create, continue, delete), the SessionStore, the       *)
(* durability coordinator of each session and the compare-and-swap row of  *)
(* the SQLite store.                                                       *)
(*                                                                         *)
(* A save is the number of the commit that wrote it; lineage records, for  *)
(* each, the save its writer had in memory.  A session is reduced to what  *)
(* it holds, what its players were shown, and where its promise queue is   *)
(* (module SessionHost has the queue itself).  Several processes may share *)
(* one database file, and any of them may crash.                           *)
(***************************************************************************)
EXTENDS Integers, Sequences, FiniteSets

CONSTANTS
  Processes,            \* server processes on one database
  Build,                \* Build[p]: the content identity process p serves
  MigrationRegistered,  \* whether older content has a registered migration
  Sessions, NoSession,  \* live session identities, each used once
  Operations,           \* Continue and Delete calls
  MaxSaves,             \* bound: commits of the campaign
  MaxWaiting            \* bound: intents queued in one session

ASSUME CampaignServiceAssumption ==
  /\ Processes # {}
  /\ Build \in [Processes -> Nat \ {0}]
  /\ MigrationRegistered \in BOOLEAN
  /\ NoSession \notin Sessions
  /\ MaxSaves \in Nat \ {0} /\ MaxWaiting \in Nat

VARIABLES
  row,      \* the campaigns row
  lineage,  \* history: base, writer and content of every committed save
  session,  \* each live session
  live,     \* liveSessionByCampaignId of each process
  ops,      \* each call of continue or delete
  line,     \* continueQueues of each process
  remover   \* history: the processes that deleted the row

vars == <<row, lineage, session, live, ops, line, remover>>

-----------------------------------------------------------------------------
(* Data *)

Absent == [present |-> FALSE, revision |-> 0, save |-> 0, content |-> 0]
Rows == [present : BOOLEAN, revision : 0..MaxSaves, save : 0..MaxSaves, content : Nat]

\* stage: what the session's queue is doing; shown: the save its players see;
\* held: the revision its coordinator compares with; written: the save that
\* has landed but is not published yet.
Unborn == [stage |-> "new", process |-> CHOOSE p \in Processes : TRUE,
           shown |-> 0, held |-> 0, written |-> 0, waiting |-> 0, retiring |-> FALSE]

Opened(p, save, revision) ==
  [Unborn EXCEPT !.stage = "idle", !.process = p, !.shown = save, !.held = revision]

Call == [stage |-> "new", process |-> CHOOSE p \in Processes : TRUE,
         kind |-> "continue", preflight |-> Absent, retired |-> NoSession]

Running(s) == session[s].stage \in {"idle", "writing", "landed"}

\* restoreCampaignSave: content of this build, or older with a migration.
Migrates(p, r) == MigrationRegistered /\ r.content < Build[p]
Loads(p, r) == r.present /\ r.save # 0 /\ (r.content = Build[p] \/ Migrates(p, r))

Existing(c) == [present |-> TRUE, revision |-> 1, save |-> 1, content |-> c]

\* No campaign yet, or one an earlier run of some build saved.
Init ==
  /\ \/ row = Absent /\ lineage = <<>>
     \/ \E p \in Processes :
          /\ row = Existing(Build[p])
          /\ lineage = <<[base |-> 0, by |-> NoSession]>>
  /\ session = [s \in Sessions |-> Unborn]
  /\ live = [p \in Processes |-> NoSession]
  /\ ops = [o \in Operations |-> Call]
  /\ line = [p \in Processes |-> <<>>]
  /\ remover = {}

\* forget: the mapping goes only if it still names this session.
Forget(s) == live' = [p \in Processes |-> IF live[p] = s THEN NoSession ELSE live[p]]

\* Fault: the UPDATE does not compare the revision.
WinsIfPresent(revision) == row.present

\* commitSave: one UPDATE that compares the revision.
Wins(revision) == row.present /\ row.revision = revision

CommitSave(content, base, by) ==
  /\ row' = [row EXCEPT !.revision = @ + 1, !.save = Len(lineage) + 1,
                        !.content = content]
  /\ lineage' = Append(lineage, [base |-> base, by |-> by])

-----------------------------------------------------------------------------
(* Live sessions *)

\* create: the row first, then the session; nothing is saved yet.
Create(p, s) ==
  /\ row = Absent /\ lineage = <<>> /\ remover = {}
  /\ session[s].stage = "new"
  /\ row' = [Absent EXCEPT !.present = TRUE]
  /\ session' = [session EXCEPT ![s] = Opened(p, 0, 0)]
  /\ live' = [live EXCEPT ![p] = s]
  /\ UNCHANGED <<lineage, ops, line, remover>>

\* An intent enters the session's queue ahead of any later retirement.
Queue(s) ==
  /\ Running(s) /\ ~session[s].retiring
  /\ session[s].waiting < MaxWaiting
  /\ session' = [session EXCEPT ![s].waiting = @ + 1]
  /\ UNCHANGED <<row, lineage, live, ops, line, remover>>

\* Fault: the transition is shown before its write has landed.
BeginPublished(s) ==
  /\ session[s].stage = "idle" /\ session[s].waiting > 0
  /\ session' = [session EXCEPT ![s].stage = "writing", ![s].waiting = @ - 1,
                                ![s].shown = Len(lineage) + 1]
  /\ UNCHANGED <<row, lineage, live, ops, line, remover>>

\* An accepted transition waits for its write.
Begin(s) ==
  /\ session[s].stage = "idle" /\ session[s].waiting > 0
  /\ session' = [session EXCEPT ![s].stage = "writing", ![s].waiting = @ - 1]
  /\ UNCHANGED <<row, lineage, live, ops, line, remover>>

\* An intent that changes no gameplay or is refused writes nothing.
Skip(s) ==
  /\ session[s].stage = "idle" /\ session[s].waiting > 0
  /\ session' = [session EXCEPT ![s].waiting = @ - 1]
  /\ UNCHANGED <<row, lineage, live, ops, line, remover>>

Land(s) ==
  /\ session[s].stage = "writing"
  /\ Len(lineage) < MaxSaves
  /\ Wins(session[s].held)
  /\ CommitSave(Build[session[s].process], session[s].shown, s)
  /\ session' = [session EXCEPT ![s].stage = "landed", ![s].held = @ + 1,
                                ![s].written = Len(lineage) + 1]
  /\ UNCHANGED <<live, ops, line, remover>>

\* Publication; the server may have its own turn to play and write next.
Publish(s) ==
  /\ session[s].stage = "landed"
  /\ \E next \in {"idle", "writing"} :
       session' = [session EXCEPT ![s].stage = next, ![s].shown = session[s].written]
  /\ UNCHANGED <<row, lineage, live, ops, line, remover>>

\* Retirement inside the queue, whatever caused it.
Retired(s) ==
  /\ session' = [session EXCEPT ![s].stage = "retired", ![s].waiting = 0]
  /\ Forget(s)
  /\ UNCHANGED <<row, lineage, ops, line, remover>>

\* CampaignWriterRetiredError
LosesRow(s) ==
  /\ session[s].stage = "writing"
  /\ ~Wins(session[s].held)
  /\ Retired(s)

\* The driver throws (also at the bound on saves): an intent is answered and
\* the session plays on, a server step retires it.
WriteFails(s) ==
  /\ session[s].stage = "writing"
  /\ \/ /\ session' = [session EXCEPT ![s].stage = "idle"]
        /\ UNCHANGED <<row, lineage, live, ops, line, remover>>
     \/ Retired(s)

\* retire(): behind everything queued before it.
Retire(s) ==
  /\ session[s].retiring
  /\ session[s].stage = "idle" /\ session[s].waiting = 0
  /\ Retired(s)

-----------------------------------------------------------------------------
(* Continue and delete, serialized per campaign *)

Submit(p, o, kind) ==
  /\ ops[o].stage = "new"
  /\ ops' = [ops EXCEPT ![o].stage = "queued", ![o].process = p, ![o].kind = kind]
  /\ line' = [line EXCEPT ![p] = Append(@, o)]
  /\ UNCHANGED <<row, lineage, session, live, remover>>

\* serialize(): the call runs when every earlier one has settled.
IsNext(o) == Head(line[ops[o].process]) = o

\* Only the call at the head of its line runs, so that is the one that leaves.
Settles(o, outcome) ==
  /\ ops' = [ops EXCEPT ![o].stage = outcome]
  /\ line' = [line EXCEPT ![ops[o].process] = Tail(@)]

Refuse(o) ==
  /\ Settles(o, "refused")
  /\ UNCHANGED <<row, lineage, session, live, remover>>

\* The storage driver throws out of the call.
StorageThrows(o) ==
  /\ Settles(o, "threw")
  /\ UNCHANGED <<row, lineage, session, live, remover>>

\* restore and remember: a new session on the save just read or migrated.
Open(o, save, revision) ==
  LET p == ops[o].process IN
  \E s \in Sessions :
    /\ session[s].stage = "new"
    /\ session' = [session EXCEPT ![s] = Opened(p, save, revision)]
    /\ live' = [live EXCEPT ![p] = s]
    /\ Settles(o, "done")
    /\ UNCHANGED remover

\* store.restore throws, after a migration has already been committed or not:
\* the call answers PERSISTENCE_FAILED and no session is open.
RestoreFails(o) ==
  /\ Settles(o, "refused")
  /\ UNCHANGED <<session, live, remover>>

\* Fault: the save the preflight read is restored.
RestoredPreflight(o) == IF ops[o].preflight.present THEN ops[o].preflight ELSE row

\* The save read again after the barrier.
Restored(o) == row

ReloadAndOpen(o) ==
  LET p == ops[o].process
      r == Restored(o)
  IN
  \/ /\ ~Loads(p, r)
     /\ Refuse(o)
  \/ /\ Loads(p, r) /\ ~Migrates(p, r)
     /\ Open(o, r.save, r.revision) \/ RestoreFails(o)
     /\ UNCHANGED <<row, lineage>>
  \/ /\ Loads(p, r) /\ Migrates(p, r)
     /\ ops' = [ops EXCEPT ![o].stage = "migrating", ![o].preflight = r]
     /\ UNCHANGED <<row, lineage, session, live, line, remover>>

RemoveRow(o) ==
  /\ row.present
  /\ row' = Absent
  /\ remover' = remover \union {ops[o].process}
  /\ Settles(o, "done")
  /\ UNCHANGED <<lineage, session, live>>

Finish(o) ==
  IF ops[o].kind = "continue" THEN ReloadAndOpen(o)
  ELSE RemoveRow(o) \/ (~row.present /\ Refuse(o))

\* Ownership and preflight, then the retirement of the live session; without
\* one the call goes straight on.
StartCall(o) ==
  LET p == ops[o].process
      viable == IF ops[o].kind = "continue" THEN Loads(p, row) ELSE row.present
  IN
  /\ ops[o].stage = "queued"
  /\ IsNext(o)
  /\ \/ ~viable /\ Refuse(o)
     \/ StorageThrows(o)
     \/ viable /\ live[p] = NoSession /\ Finish(o)
     \/ /\ viable /\ live[p] # NoSession
        /\ session' = [session EXCEPT ![live[p]].retiring = TRUE]
        /\ ops' = [ops EXCEPT ![o].stage = "retiring", ![o].preflight = row,
                              ![o].retired = live[p]]
        /\ UNCHANGED <<row, lineage, live, line, remover>>

\* Fault: after the wait the session is looked up in the mapping again.
BarrierByMapping(o) ==
  LET s == live[ops[o].process] IN s # NoSession /\ session[s].stage = "retired"

\* Fault: the retirement is asked for but not awaited.
BarrierNotAwaited(o) == TRUE

\* The barrier: the session is retired, by this call or by itself.
BarrierReached(o) == session[ops[o].retired].stage = "retired"

AfterBarrier(o) ==
  /\ ops[o].stage = "retiring"
  /\ BarrierReached(o)
  /\ Finish(o) \/ StorageThrows(o)

\* A migrated save is committed before a session is opened on it.
CommitMigration(o) ==
  LET p == ops[o].process
      loaded == ops[o].preflight
  IN
  /\ ops[o].stage = "migrating"
  /\ \/ /\ Wins(loaded.revision)
        /\ Len(lineage) < MaxSaves
        /\ CommitSave(Build[p], loaded.save, NoSession)
        /\ Open(o, Len(lineage) + 1, loaded.revision + 1) \/ RestoreFails(o)
     \/ ~Wins(loaded.revision) /\ Refuse(o)
     \/ StorageThrows(o)

-----------------------------------------------------------------------------
(* Crashes *)

\* A killed process loses everything but the row.
Crash(p) ==
  /\ line[p] # <<>> \/ \E s \in Sessions : session[s].process = p /\ Running(s)
  /\ session' = [s \in Sessions |->
       IF session[s].process = p /\ Running(s)
         THEN [session[s] EXCEPT !.stage = "dead"] ELSE session[s]]
  /\ live' = [live EXCEPT ![p] = NoSession]
  /\ ops' = [o \in Operations |->
       IF o \in {line[p][i] : i \in DOMAIN line[p]}
         THEN [ops[o] EXCEPT !.stage = "lost"] ELSE ops[o]]
  /\ line' = [line EXCEPT ![p] = <<>>]
  /\ UNCHANGED <<row, lineage, remover>>

SessionStep(s) ==
  \/ Begin(s) \/ Skip(s) \/ Land(s) \/ Publish(s)
  \/ LosesRow(s) \/ WriteFails(s) \/ Retire(s)

CallStep(o) == StartCall(o) \/ AfterBarrier(o) \/ CommitMigration(o)

Next ==
  \/ \E p \in Processes, s \in Sessions : Create(p, s)
  \/ \E s \in Sessions : Queue(s)
  \/ \E s \in Sessions : SessionStep(s)
  \/ \E p \in Processes, o \in Operations, kind \in {"continue", "delete"} :
       Submit(p, o, kind)
  \/ \E o \in Operations : CallStep(o)
  \/ \E p \in Processes : Crash(p)

Spec == Init /\ [][Next]_vars

\* The event loop runs what is ready and the storage calls return or throw.
Fairness ==
  /\ \A s \in Sessions : WF_vars(SessionStep(s))
  /\ \A o \in Operations : WF_vars(CallStep(o))

FairSpec == Spec /\ Fairness

-----------------------------------------------------------------------------
(* Properties *)

LiveSessions ==
  [stage : {"new", "idle", "writing", "landed", "retired", "dead"},
   process : Processes, shown : 0..MaxSaves, held : 0..MaxSaves,
   written : 0..MaxSaves, waiting : 0..MaxWaiting, retiring : BOOLEAN]

Calls ==
  [stage : {"new", "queued", "retiring", "migrating", "done", "refused", "threw", "lost"},
   process : Processes, kind : {"continue", "delete"}, preflight : Rows,
   retired : Sessions \union {NoSession}]

\* Type invariant of the campaign, its sessions and its calls.
TypeOK ==
  /\ row \in Rows
  /\ lineage \in Seq([base : 0..MaxSaves, by : Sessions \union {NoSession}])
  /\ session \in [Sessions -> LiveSessions]
  /\ live \in [Processes -> Sessions \union {NoSession}]
  /\ ops \in [Operations -> Calls]
  /\ line \in [Processes -> Seq(Operations)]
  /\ remover \subseteq Processes

\* No lost update: every save was built on the save it replaced, whichever
\* sessions and processes raced for the row.
LinearHistory == \A k \in DOMAIN lineage : lineage[k].base = k - 1

\* What any player was ever shown is in the durable history, also after a
\* crash between a write and its publication.
ShownIsDurable == \A s \in Sessions : session[s].shown <= Len(lineage)

\* Play is never taken back: a session opens on a save at least as recent as
\* anything players of earlier sessions of this campaign saw.
OpensAtLatest ==
  [][\A s \in Sessions :
       session[s].stage = "new" /\ session'[s].stage # "new" =>
         \A t \in Sessions : session[t].shown <= session'[s].shown]_vars

\* One writer: in a process, a campaign has at most one session that is not
\* retired, and it is the one the service knows; a process that deleted the
\* campaign has none left on it and never opens one again.
OneWriter ==
  \A s \in Sessions :
    Running(s) => live[session[s].process] = s /\ session[s].process \notin remover

\* Every Continue and every deletion is answered, or dies with its process.
CallsSettle ==
  \A o \in Operations :
    ops[o].stage = "queued" ~> ops[o].stage \in {"done", "refused", "threw", "lost"}

\* "A refused Continue leaves the stored save and any live session exactly as
\* they were" (http-api.ts).
RefusedContinueKeepsSession ==
  \A o \in Operations :
    ops[o].kind = "continue" /\ ops[o].stage = "refused" => ops[o].retired = NoSession
=============================================================================
