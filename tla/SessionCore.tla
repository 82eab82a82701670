---------------------------- MODULE SessionCore ----------------------------
(***************************************************************************)
(* The pure session authority: src/src/session/authority.ts and            *)
(* authorization.ts.  One action per SessionIntent, plus joining, presence *)
(* (which the SessionHost supplies as SessionControlContext) and Continue, *)
(* which opens a fresh session from the saved gameplay projection.         *)
(*                                                                         *)
(* A member is its party slot: memberIdForPartySlot is a bijection.  The   *)
(* adventure is the Adventure module; the combat is reduced to what        *)
(* authorization reads of it: who acts next.  The revision counter and the *)
(* journal belong to SessionHost.                                          *)
(***************************************************************************)
EXTENDS Integers, Sequences, FiniteSets

CONSTANTS
  Host, Guests, Nobody,
  NumEncounters, Award, Earned, RewardChoices, AdvancementLevels,
  Actors, StartLevel, Items, Starter, PartyMax

Players == {Host} \union Guests

ASSUME PlayerAssumption ==
  /\ Host \notin Guests
  /\ Nobody \notin Players
  /\ IsFiniteSet(Guests)

VARIABLES
  lifecycle,   \* SessionCoreState.lifecycle
  seats,       \* set of [seat, player]
  prepared,    \* partyPrepared
  party,       \* actorDefinitionId of each party slot
  claims,      \* guestClaims.byMemberId, Nobody where there is no entry
  combat,      \* CombatState, NoCombat when null
  connected,   \* control.connectedPlayerIds
  phase, current, completed, roster, progress, loadout, collection, offer

Adv == INSTANCE Adventure

ASSUME AdventureAssumption == Adv!CampaignAssumption /\ Adv!CharacterAssumption

adventureVars ==
  <<phase, current, completed, roster, progress, loadout, collection, offer>>
rosterVars == <<seats, prepared, party, claims>>
gameplayVars == <<prepared, party, combat, adventureVars>>
vars == <<lifecycle, rosterVars, combat, connected, adventureVars>>

-----------------------------------------------------------------------------
(* Data *)

SeatNumbers == 1..3
PartySlots == 1..3

\* Who the authority waits for in a combat: the head reaction candidate when
\* one is pending, else the active actor.  0 is an enemy, s > 0 the hero of
\* party slot s.  scenario is the scenarioId the combat was created for.
NoCombat == [scenario |-> 0, pending |-> FALSE, actor |-> 0]
Combats == [scenario : 1..NumEncounters, pending : BOOLEAN, actor : 0..3]

CombatsOf(e) == {c \in Combats : c.scenario = e /\ c.actor <= Len(party)}

NoClaims == [s \in PartySlots |-> Nobody]

SeatOf(p) == {x \in seats : x.player = p}
Seated == {x.player : x \in seats}
Claimants == {claims[s] : s \in PartySlots} \ {Nobody}

IsHost(p) == p = Host
LobbyLike == lifecycle \in {"lobby", "resume-lobby"}

\* Fault: a member whose guest is away waits for that guest.
ControllerAwaitingGuest(s) ==
  IF claims[s] = Nobody THEN Host
  ELSE IF claims[s] \in connected THEN claims[s] ELSE Nobody

\* deriveControlView: a claimed member belongs to its guest while that guest
\* is connected, every other member to the host.
Controller(s) ==
  IF claims[s] # Nobody /\ claims[s] \in connected THEN claims[s] ELSE Host

Controls(p, s) == s \in DOMAIN party /\ Controller(s) = p

-----------------------------------------------------------------------------
(* Creation *)

\* createSessionCoreState
Init ==
  /\ lifecycle = "lobby"
  /\ seats = {[seat |-> 1, player |-> Host]}
  /\ prepared = FALSE
  /\ party = <<>>
  /\ claims = NoClaims
  /\ combat = NoCombat
  /\ connected = {}
  /\ Adv!AdventureInit

\* createResumedSessionCoreState applied to the projection last saved.  The
\* saved projection is that of the current state: every gameplay change is
\* durable before it is published (module SessionHost).
Continue ==
  /\ phase # "none"
  /\ lifecycle' = "resume-lobby"
  /\ seats' = {[seat |-> 1, player |-> Host]}
  /\ prepared' = TRUE
  /\ claims' = NoClaims
  /\ connected' = {}
  /\ UNCHANGED <<party, combat, adventureVars>>

-----------------------------------------------------------------------------
(* Presence and roster *)

Attach(p) ==
  /\ p \in Seated
  /\ connected' = connected \union {p}
  /\ UNCHANGED <<lifecycle, rosterVars, combat, adventureVars>>

Detach(p) ==
  /\ p \in connected
  /\ connected' = connected \ {p}
  /\ UNCHANGED <<lifecycle, rosterVars, combat, adventureVars>>

Capacity == IF prepared /\ Len(party) < PartyMax THEN Len(party) ELSE PartyMax

FreeSeats == {n \in SeatNumbers : n <= PartyMax /\ \A x \in seats : x.seat # n}

\* joinSessionCore
Join(p) ==
  /\ lifecycle # "active"
  /\ SeatOf(p) = {}
  /\ Cardinality(seats) < Capacity
  /\ \E n \in FreeSeats :
       /\ \A m \in FreeSeats : n <= m
       /\ seats' = seats \union {[seat |-> n, player |-> p]}
  /\ UNCHANGED <<lifecycle, prepared, party, claims, combat, connected, adventureVars>>

\* setPartyComposition
SetPartyComposition(p, actors) ==
  /\ IsHost(p) /\ p \in Seated
  /\ lifecycle = "lobby"
  /\ Claimants = {}
  /\ Len(actors) \in 1..PartyMax
  /\ Len(actors) >= Cardinality(seats)
  /\ \A i, j \in DOMAIN actors : actors[i] = actors[j] => i = j
  /\ ~(prepared /\ actors = party)
  /\ prepared' = TRUE
  /\ party' = actors
  /\ claims' = NoClaims
  /\ UNCHANGED <<lifecycle, seats, combat, connected, adventureVars>>

\* selectCharacter: taking a member drops the one held before.
SelectCharacter(p, s) ==
  /\ ~IsHost(p) /\ p \in Seated
  /\ LobbyLike
  /\ prepared
  /\ s \in DOMAIN party
  /\ s # 1
  /\ claims[s] = Nobody
  /\ claims' = [t \in PartySlots |->
                  IF t = s THEN p ELSE IF claims[t] = p THEN Nobody ELSE claims[t]]
  /\ UNCHANGED <<lifecycle, seats, prepared, party, combat, connected, adventureVars>>

ReleaseCharacter(p) ==
  /\ ~IsHost(p) /\ p \in Seated
  /\ LobbyLike
  /\ prepared
  /\ p \in Claimants
  /\ claims' = [t \in PartySlots |-> IF claims[t] = p THEN Nobody ELSE claims[t]]
  /\ UNCHANGED <<lifecycle, seats, prepared, party, combat, connected, adventureVars>>

\* Fault: a guest is removed together with the seat its claim refers to.
RemoveClaimingGuest(p, guest) ==
  /\ IsHost(p) /\ p \in Seated
  /\ LobbyLike
  /\ guest \in Seated /\ guest # Host
  /\ guest \notin connected
  /\ seats' = seats \ SeatOf(guest)
  /\ UNCHANGED <<lifecycle, prepared, party, claims, combat, connected, adventureVars>>

\* Fault: the host removes a guest that is only slow to choose a character.
RemoveIdleGuest(p, guest) ==
  /\ IsHost(p) /\ p \in Seated
  /\ LobbyLike
  /\ guest \in Seated /\ guest # Host
  /\ guest \notin Claimants
  /\ seats' = seats \ SeatOf(guest)
  /\ UNCHANGED <<lifecycle, prepared, party, claims, combat, connected, adventureVars>>

RemoveOfflineGuest(p, guest) ==
  /\ IsHost(p) /\ p \in Seated
  /\ LobbyLike
  /\ guest \in Seated /\ guest # Host
  /\ guest \notin connected
  /\ guest \notin Claimants
  /\ seats' = seats \ SeatOf(guest)
  /\ UNCHANGED <<lifecycle, prepared, party, claims, combat, connected, adventureVars>>

-----------------------------------------------------------------------------
(* Starting and playing *)

BeginAdventure(p) ==
  /\ IsHost(p) /\ p \in Seated
  /\ lifecycle = "lobby"
  /\ prepared
  /\ Len(party) >= Cardinality(seats)
  /\ Seated \ {Host} \subseteq Claimants
  /\ Adv!BeginAdventure(party)
  /\ lifecycle' = "active"
  /\ UNCHANGED <<rosterVars, combat, connected>>

ResumeAdventure(p) ==
  /\ IsHost(p) /\ p \in Seated
  /\ lifecycle = "resume-lobby"
  /\ lifecycle' = "active"
  /\ UNCHANGED <<rosterVars, combat, connected, adventureVars>>

StartEncounter(p) ==
  /\ IsHost(p) /\ p \in Seated
  /\ lifecycle = "active"
  /\ Adv!StartEncounter
  /\ combat' \in CombatsOf(current)
  /\ UNCHANGED <<lifecycle, rosterVars, connected>>

ChooseReward(p, i) ==
  /\ IsHost(p) /\ p \in Seated
  /\ lifecycle = "active"
  /\ Adv!ChooseReward(i)
  /\ UNCHANGED <<lifecycle, rosterVars, combat, connected>>

SetLoadout(p, s, carried) ==
  /\ p \in Seated
  /\ lifecycle = "active"
  /\ Controls(p, s)
  /\ Adv!SetLoadout(s, carried)
  /\ UNCHANGED <<lifecycle, rosterVars, combat, connected>>

AdvanceCharacter(p, s, l) ==
  /\ p \in Seated
  /\ lifecycle = "active"
  /\ Controls(p, s)
  /\ Adv!AdvanceCharacter(s, l)
  /\ UNCHANGED <<lifecycle, rosterVars, combat, connected>>

\* Fault: a lost fight may be tried again.
CombatStepRetrying ==
  /\ combat' = NoCombat
  /\ \/ Adv!AcceptVictory
     \/ /\ phase' = "between-encounters"
        /\ UNCHANGED <<current, completed, roster, progress, loadout, collection, offer>>

\* What an accepted combat command leads to: the fight goes on, or it has an
\* outcome and finalizeCombat settles the adventure and drops the combat in
\* the same transition.
CombatStep ==
  \/ /\ combat' \in CombatsOf(combat.scenario)
     /\ UNCHANGED adventureVars
  \/ /\ combat' = NoCombat
     /\ Adv!AcceptVictory
  \/ /\ combat' = NoCombat
     /\ Adv!AcceptDefeat

\* use-action, end-turn, use-reaction and pass-reaction: the player controls
\* the hero the combat waits for.
CombatIntent(p) ==
  /\ p \in Seated
  /\ lifecycle = "active"
  /\ combat # NoCombat
  /\ combat.actor # 0
  /\ Controls(p, combat.actor)
  /\ CombatStep
  /\ UNCHANGED <<lifecycle, rosterVars, connected>>

\* Fault: a claim in the resume lobby wakes the server's turn.
ServerCombatCommandUnresumed ==
  /\ lifecycle # "lobby"
  /\ combat # NoCombat
  /\ combat.actor = 0
  /\ CombatStep
  /\ UNCHANGED <<lifecycle, rosterVars, connected>>

\* dispatchServerCombatCommand as pumpServerAuthority calls it.
ServerCombatCommand ==
  /\ lifecycle = "active"
  /\ combat # NoCombat
  /\ combat.actor = 0
  /\ CombatStep
  /\ UNCHANGED <<lifecycle, rosterVars, connected>>

Parties == Adv!Parties

Next ==
  \/ Continue
  \/ \E p \in Players : Attach(p)
  \/ \E p \in Players : Detach(p)
  \/ \E p \in Guests : Join(p)
  \/ \E p \in Players, actors \in Parties : SetPartyComposition(p, actors)
  \/ \E p \in Players, s \in PartySlots : SelectCharacter(p, s)
  \/ \E p \in Players : ReleaseCharacter(p)
  \/ \E p \in Players, guest \in Players : RemoveOfflineGuest(p, guest)
  \/ \E p \in Players : BeginAdventure(p)
  \/ \E p \in Players : ResumeAdventure(p)
  \/ \E p \in Players : StartEncounter(p)
  \/ \E p \in Players, i \in Items : ChooseReward(p, i)
  \/ \E p \in Players, s \in PartySlots, carried \in SUBSET Items :
       SetLoadout(p, s, carried)
  \/ \E p \in Players, s \in PartySlots, l \in AdvancementLevels :
       AdvanceCharacter(p, s, l)
  \/ \E p \in Players : CombatIntent(p)
  \/ ServerCombatCommand

Spec == Init /\ [][Next]_vars

-----------------------------------------------------------------------------
(* Properties *)

\* Type invariant of the session state.
TypeOK ==
  /\ lifecycle \in {"lobby", "resume-lobby", "active"}
  /\ seats \subseteq [seat : SeatNumbers, player : Players]
  /\ prepared \in BOOLEAN
  /\ party \in Seq(Actors)
  /\ Len(party) <= PartyMax
  /\ claims \in [PartySlots -> Players \union {Nobody}]
  /\ combat \in Combats \union {NoCombat}
  /\ connected \subseteq Players
  /\ Adv!AdventureTypeOK

\* Seats and identities are unique and the host owns seat 1.
SeatsUnique ==
  /\ \A x, y \in seats : x.seat = y.seat \/ x.player = y.player => x = y
  /\ [seat |-> 1, player |-> Host] \in seats

\* The party is prepared exactly when it has slots, its characters are
\* distinct, and it never becomes smaller than the player roster.
PartyHoldsRoster ==
  /\ prepared <=> party # <<>>
  /\ \A i, j \in DOMAIN party : party[i] = party[j] => i = j
  /\ prepared => Cardinality(seats) <= Len(party)

\* A claim targets slot 2 or 3 of the current party and belongs to a seated
\* guest, who holds no other.
ClaimsValid ==
  \A s \in PartySlots : claims[s] # Nobody =>
    /\ s \in 2..Len(party)
    /\ claims[s] \in Seated \ {Host}
    /\ \A t \in PartySlots : claims[t] = claims[s] => t = s

\* Lifecycle, adventure and combat change together: a combat exists exactly in
\* the combat phase and for its encounter, a lobby has neither, and the
\* adventure is played by the prepared party.
GameplayMatchesLifecycle ==
  /\ phase = "combat" <=> combat # NoCombat
  /\ lifecycle = "lobby" <=> phase = "none"
  /\ lifecycle # "lobby" => prepared
  /\ phase # "none" => roster = party
  /\ combat # NoCombat => combat.scenario = current

\* The assertion commit() runs on every candidate state never throws: every
\* transition the session accepts yields a state assertSessionInvariants
\* admits, whatever sequence of intents led there.
SessionInvariants ==
  SeatsUnique /\ PartyHoldsRoster /\ ClaimsValid /\ GameplayMatchesLifecycle

\* The lobby never wedges a guest: begin-adventure waits until every seated
\* guest holds a character, and a guest who holds none always finds a free
\* one.
UnclaimedGuestFindsSlot ==
  prepared => \A p \in Seated \ ({Host} \union Claimants) :
                \E s \in 2..Len(party) : claims[s] = Nobody

\* A combat that waits for a hero waits for a member somebody seated controls;
\* losing a guest hands the member to the host, never to nobody.
HeroTurnHasController ==
  combat # NoCombat /\ combat.actor # 0 =>
    \E p \in Seated : Controls(p, combat.actor)

\* Nobody waits for ever: a seated guest can become a player, and each hero's
\* turn has somebody to play it.
NobodyIsStuck == UnclaimedGuestFindsSlot /\ HeroTurnHasController

\* A claim ends only because its guest gives it up: no join, host intent,
\* disconnection or combat takes it away.  Continue opens a new session.
ClaimGivenUpOnlyByGuest ==
  [][\A s \in PartySlots :
       claims[s] # Nobody /\ claims'[s] # claims[s] =>
         \/ ReleaseCharacter(claims[s])
         \/ \E t \in PartySlots : SelectCharacter(claims[s], t)
         \/ Continue]_vars

\* Once the adventure runs, nobody joins, leaves or changes character.
RosterLockedWhileActive ==
  [][lifecycle = "active" /\ lifecycle' = "active" => UNCHANGED rosterVars]_vars

\* Whoever is seated keeps that very seat, except that a lobby may lose a guest
\* that is offline and holds no character; Continue opens a new session.
SeatLostOnlyByIdleGuest ==
  [][\A x \in seats : x \notin seats' =>
       \/ LobbyLike /\ x.player \notin {Host} \union connected \union Claimants
       \/ Continue]_vars

\* Within a session a character is lost only by giving it up, a seat only in a
\* lobby by a guest that is offline and holds no character (the host may remove
\* it), and while the adventure runs neither changes at all.
SeatsAreSafe ==
  ClaimGivenUpOnlyByGuest /\ SeatLostOnlyByIdleGuest /\ RosterLockedWhileActive

\* A restored session plays nothing before the host resumes it: party,
\* adventure and combat are those that were saved.
NothingPlaysBeforeResume ==
  [][lifecycle' = "resume-lobby" => UNCHANGED gameplayVars]_vars

\* The session drives the adventure only through its own commands, across
\* disconnections and restored sessions.
AdventureBehaviour == Adv!AdventureSpec
=============================================================================
