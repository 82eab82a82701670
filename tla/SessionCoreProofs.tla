-------------------------- MODULE SessionCoreProofs --------------------------
(***************************************************************************)
(* Proofs about the session authority, for any number of guests and any    *)
(* adventure.                                                              *)
(*                                                                         *)
(* SessionInv is inductive: the invariant commit() asserts, with the types *)
(* it needs, finiteness of the roster (the assertion counts seats) and the *)
(* bound on who a combat may wait for.                                     *)
(*                                                                         *)
(* That no campaign is lost to its own save needs nothing new: what the    *)
(* restoring code demands of a row follows from what is proved of the      *)
(* session and, through the refinement, of the adventure it plays.         *)
(***************************************************************************)
EXTENDS CampaignSave, TLAPS, FiniteSetTheorems

AP == INSTANCE AdventureProofs

SessionTypes ==
  /\ lifecycle \in {"lobby", "resume-lobby", "active"}
  /\ seats \subseteq [seat : SeatNumbers, player : Players]
  /\ IsFiniteSet(seats)
  /\ prepared \in BOOLEAN
  /\ party \in Seq(Actors)
  /\ Len(party) <= PartyMax
  /\ claims \in [PartySlots -> Players \union {Nobody}]
  /\ combat \in Combats \union {NoCombat}
  /\ connected \subseteq Players

CombatWaitsForParty == combat # NoCombat => combat.actor <= Len(party)

SessionInv == SessionTypes /\ SessionInvariants /\ CombatWaitsForParty

-----------------------------------------------------------------------------
(* Lemmas *)

\* The bounds on party and encounters the adventure's assumption gives.
LEMMA PartyBound == PartyMax \in 1..3 /\ NumEncounters \in Nat
BY AdventureAssumption DEF Adv!CampaignAssumption

\* A combat in progress is never taken for none: its scenario is an encounter.
LEMMA CombatsAreNotNone ==
  ASSUME NEW e, NEW c \in CombatsOf(e)
  PROVE  c \in Combats /\ c # NoCombat /\ c.scenario = e /\ c.actor <= Len(party)
<1>1. c \in Combats /\ c.scenario = e /\ c.actor <= Len(party)
  BY DEF CombatsOf
<1>2. c.scenario # 0
  BY <1>1, PartyBound DEF Combats
<1> QED BY <1>1, <1>2 DEF NoCombat

\* Fields of a combat, as authorization reads them.
LEMMA CombatValues ==
  ASSUME combat \in Combats \union {NoCombat}, combat # NoCombat
  PROVE  combat.actor \in 0..3 /\ combat.scenario \in 1..NumEncounters
BY DEF Combats

\* Moving on from a settled encounter neither begins a combat nor ends the
\* adventure's existence.
LEMMA MoveOnPhase ==
  ASSUME NEW done, Adv!MoveOn(done)
  PROVE  phase' # "combat" /\ phase' # "none"
BY DEF Adv!MoveOn

\* A created session satisfies the invariant (createSessionCoreState).
LEMMA SessionInit == Init => SessionInv
<1> SUFFICES ASSUME Init PROVE SessionInv
  OBVIOUS
<1>1. SessionTypes
  <2>1. IsFiniteSet(seats)
    BY FS_Singleton DEF Init
  <2>2. Len(party) <= PartyMax /\ party \in Seq(Actors)
    BY PartyBound DEF Init
  <2>3. seats \subseteq [seat : SeatNumbers, player : Players]
    BY DEF Init, SeatNumbers, Players
  <2>4. claims \in [PartySlots -> Players \union {Nobody}]
    BY DEF Init, NoClaims
  <2> QED BY <2>1, <2>2, <2>3, <2>4 DEF Init, SessionTypes
<1>2. SessionInvariants
  <2>1. SeatsUnique
    BY DEF Init, SeatsUnique
  <2>2. PartyHoldsRoster
    BY DEF Init, PartyHoldsRoster
  <2>3. ClaimsValid
    BY DEF Init, ClaimsValid, NoClaims
  <2>4. GameplayMatchesLifecycle
    BY DEF Init, Adv!AdventureInit, GameplayMatchesLifecycle
  <2> QED BY <2>1, <2>2, <2>3, <2>4 DEF SessionInvariants
<1>3. CombatWaitsForParty
  BY DEF Init, CombatWaitsForParty
<1> QED BY <1>1, <1>2, <1>3 DEF SessionInv

\* Taking a seat: the roster stays within the party (joinSessionCore).
LEMMA JoinPreserves ==
  ASSUME SessionInv, NEW p \in Guests, Join(p)
  PROVE  SessionInv'
<1> USE DEF SessionInv, SessionInvariants
<1>1. PICK n \in FreeSeats : seats' = seats \union {[seat |-> n, player |-> p]}
  BY DEF Join
<1>2. /\ n \in SeatNumbers /\ \A x \in seats : x.seat # n
      /\ \A x \in seats : x.player # p
      /\ Cardinality(seats) < Capacity
      /\ UNCHANGED <<lifecycle, prepared, party, claims, combat, connected, adventureVars>>
  BY DEF Join, FreeSeats, SeatOf
<1>3. /\ IsFiniteSet(seats')
      /\ Cardinality(seats') <= Cardinality(seats) + 1
      /\ Cardinality(seats) \in Nat /\ Cardinality(seats') \in Nat
  <2>1. IsFiniteSet(seats)
    BY DEF SessionTypes
  <2>2. /\ IsFiniteSet(seats')
        /\ Cardinality(seats') = IF [seat |-> n, player |-> p] \in seats
                                   THEN Cardinality(seats) ELSE Cardinality(seats) + 1
    BY <1>1, <2>1, FS_AddElement
  <2>3. Cardinality(seats) \in Nat /\ Cardinality(seats') \in Nat
    BY <2>1, <2>2, FS_CardinalityType
  <2> QED BY <2>2, <2>3
<1>4. SessionTypes'
  <2>1. seats' \subseteq [seat : SeatNumbers, player : Players]
    BY <1>1, <1>2 DEF SessionTypes, Players
  <2> QED BY <1>2, <1>3, <2>1 DEF SessionTypes
<1>5. SeatsUnique'
  BY <1>1, <1>2 DEF SeatsUnique
<1>6. PartyHoldsRoster'
  <2>1. prepared => Capacity = Len(party)
    BY PartyBound DEF Capacity, SessionTypes
  <2>2. Len(party) \in Nat
    BY DEF SessionTypes
  <2>3. prepared => Cardinality(seats') <= Len(party)
    BY <1>2, <1>3, <2>1, <2>2
  <2> QED BY <1>2, <2>3 DEF PartyHoldsRoster
<1>7. ClaimsValid'
  BY <1>1, <1>2 DEF ClaimsValid, Seated
<1>8. GameplayMatchesLifecycle' /\ CombatWaitsForParty'
  BY <1>2 DEF GameplayMatchesLifecycle, CombatWaitsForParty, adventureVars
<1> QED BY <1>4, <1>5, <1>6, <1>7, <1>8

\* A fresh party drops nobody's claim, for there is none
\* (setPartyComposition).
LEMMA SetPartyPreserves ==
  ASSUME SessionInv, NEW p \in Players, NEW actors \in Parties,
         SetPartyComposition(p, actors)
  PROVE  SessionInv'
<1> USE DEF SessionInv, SessionInvariants
<1>1. /\ actors \in Seq(Actors) /\ Len(actors) \in 1..PartyMax
      /\ \A i, j \in DOMAIN actors : actors[i] = actors[j] => i = j
      /\ Cardinality(seats) <= Len(actors)
      /\ lifecycle = "lobby"
      /\ prepared' = TRUE /\ party' = actors /\ claims' = NoClaims
      /\ UNCHANGED <<lifecycle, seats, combat, connected, adventureVars>>
  <2>1. PICK n \in 1..PartyMax : actors \in [1..n -> Actors]
    BY DEF Parties, Adv!Parties
  <2>2. actors \in Seq(Actors)
    BY <2>1, PartyBound
  <2>3. Cardinality(seats) \in Nat /\ Len(actors) \in Nat
    BY <2>2, FS_CardinalityType DEF SessionTypes
  <2> QED BY <2>2, <2>3 DEF SetPartyComposition
<1>2. phase = "none" /\ combat = NoCombat
  BY <1>1 DEF GameplayMatchesLifecycle
<1>3. SessionTypes'
  <2>1. NoClaims \in [PartySlots -> Players \union {Nobody}]
    BY DEF NoClaims
  <2> QED BY <1>1, <2>1, PartyBound DEF SessionTypes
<1>4. PartyHoldsRoster'
  BY <1>1 DEF PartyHoldsRoster
<1>5. ClaimsValid'
  BY <1>1 DEF ClaimsValid, NoClaims
<1>6. SeatsUnique' /\ GameplayMatchesLifecycle' /\ CombatWaitsForParty'
  BY <1>1, <1>2
     DEF SeatsUnique, GameplayMatchesLifecycle, CombatWaitsForParty, adventureVars
<1> QED BY <1>3, <1>4, <1>5, <1>6

\* A guest takes a free member and drops the one it held (selectCharacter).
LEMMA SelectPreserves ==
  ASSUME SessionInv, NEW p \in Players, NEW s \in PartySlots, SelectCharacter(p, s)
  PROVE  SessionInv'
<1> USE DEF SessionInv, SessionInvariants
<1>1. /\ p # Host /\ p \in Seated /\ s \in DOMAIN party /\ s # 1
      /\ claims' = [t \in PartySlots |->
            IF t = s THEN p ELSE IF claims[t] = p THEN Nobody ELSE claims[t]]
      /\ UNCHANGED <<lifecycle, seats, prepared, party, combat, connected, adventureVars>>
  BY DEF SelectCharacter, IsHost
<1>2. SessionTypes'
  <2>1. claims' \in [PartySlots -> Players \union {Nobody}]
    BY <1>1 DEF SessionTypes
  <2> QED BY <1>1, <2>1 DEF SessionTypes
<1>3. ClaimsValid'
  <2> SUFFICES ASSUME NEW t \in PartySlots, claims'[t] # Nobody
               PROVE  /\ t \in 2..Len(party)
                      /\ claims'[t] \in Seated \ {Host}
                      /\ \A u \in PartySlots : claims'[u] = claims'[t] => u = t
    BY <1>1 DEF ClaimsValid, Seated
  <2>1. CASE t = s
    <3>1. t \in 2..Len(party)
      <4>1. s \in 1..Len(party) /\ Len(party) \in Nat
        BY <1>1 DEF SessionTypes
      <4> QED BY <1>1, <2>1, <4>1
    <3>2. p # Nobody
      BY PlayerAssumption
    <3> QED BY <1>1, <2>1, <3>1, <3>2
  <2>2. CASE t # s
    <3>1. claims[t] # p /\ claims[t] # Nobody /\ claims'[t] = claims[t]
      BY <1>1, <2>2
    <3> QED BY <1>1, <2>2, <3>1 DEF ClaimsValid
  <2> QED BY <2>1, <2>2
<1>4. SeatsUnique' /\ PartyHoldsRoster' /\ GameplayMatchesLifecycle' /\ CombatWaitsForParty'
  BY <1>1 DEF SeatsUnique, PartyHoldsRoster, GameplayMatchesLifecycle,
              CombatWaitsForParty, adventureVars
<1> QED BY <1>2, <1>3, <1>4

\* A guest gives its member back (release-character).
LEMMA ReleasePreserves ==
  ASSUME SessionInv, NEW p \in Players, ReleaseCharacter(p)
  PROVE  SessionInv'
<1> USE DEF SessionInv, SessionInvariants
<1>1. /\ claims' = [t \in PartySlots |-> IF claims[t] = p THEN Nobody ELSE claims[t]]
      /\ UNCHANGED <<lifecycle, seats, prepared, party, combat, connected, adventureVars>>
  BY DEF ReleaseCharacter
<1>2. SessionTypes'
  <2>1. claims' \in [PartySlots -> Players \union {Nobody}]
    BY <1>1 DEF SessionTypes
  <2> QED BY <1>1, <2>1 DEF SessionTypes
<1>3. ClaimsValid'
  BY <1>1 DEF ClaimsValid, Seated
<1>4. SeatsUnique' /\ PartyHoldsRoster' /\ GameplayMatchesLifecycle' /\ CombatWaitsForParty'
  BY <1>1 DEF SeatsUnique, PartyHoldsRoster, GameplayMatchesLifecycle,
              CombatWaitsForParty, adventureVars
<1> QED BY <1>2, <1>3, <1>4

\* Removing a guest leaves every claim with somebody seated, for a guest that
\* holds one is not removed (remove-offline-guest).
LEMMA RemovePreserves ==
  ASSUME SessionInv, NEW p \in Players, NEW guest \in Players, RemoveOfflineGuest(p, guest)
  PROVE  SessionInv'
<1> USE DEF SessionInv, SessionInvariants
<1>1. /\ guest # Host /\ guest \notin Claimants
      /\ seats' = seats \ SeatOf(guest)
      /\ UNCHANGED <<lifecycle, prepared, party, claims, combat, connected, adventureVars>>
  BY DEF RemoveOfflineGuest
<1>2. /\ IsFiniteSet(seats') /\ seats' \subseteq seats
      /\ Cardinality(seats') <= Cardinality(seats)
      /\ Cardinality(seats') \in Nat /\ Cardinality(seats) \in Nat
  <2>1. IsFiniteSet(seats) /\ seats' \subseteq seats
    BY <1>1 DEF SessionTypes
  <2> QED BY <2>1, FS_Subset, FS_CardinalityType
<1>3. SessionTypes'
  BY <1>1, <1>2 DEF SessionTypes
<1>4. SeatsUnique'
  <2>1. [seat |-> 1, player |-> Host] \in seats'
    BY <1>1 DEF SeatsUnique, SeatOf
  <2> QED BY <1>2, <2>1 DEF SeatsUnique
<1>5. PartyHoldsRoster'
  <2>1. Len(party) \in Nat
    BY DEF SessionTypes
  <2> QED BY <1>1, <1>2, <2>1 DEF PartyHoldsRoster
<1>6. ClaimsValid'
  <2>1. \A s \in PartySlots :
          claims[s] # Nobody /\ claims[s] \in Seated => claims[s] \in Seated'
    BY <1>1 DEF Seated, SeatOf, Claimants
  <2> QED BY <1>1, <2>1 DEF ClaimsValid
<1>7. GameplayMatchesLifecycle' /\ CombatWaitsForParty'
  BY <1>1 DEF GameplayMatchesLifecycle, CombatWaitsForParty, adventureVars
<1> QED BY <1>3, <1>4, <1>5, <1>6, <1>7

\* Continue opens a lobby of the host alone over the saved party, adventure
\* and combat.
LEMMA ContinuePreserves ==
  ASSUME SessionInv, Continue
  PROVE  SessionInv'
<1> USE DEF SessionInv, SessionInvariants
<1>1. /\ phase # "none"
      /\ lifecycle' = "resume-lobby"
      /\ seats' = {[seat |-> 1, player |-> Host]}
      /\ prepared' = TRUE /\ claims' = NoClaims /\ connected' = {}
      /\ UNCHANGED <<party, combat, adventureVars>>
  BY DEF Continue
<1>2. party # <<>> /\ Len(party) \in Nat /\ Len(party) >= 1
  BY <1>1 DEF GameplayMatchesLifecycle, PartyHoldsRoster, SessionTypes
<1>3. IsFiniteSet(seats') /\ Cardinality(seats') = 1
  BY <1>1, FS_Singleton
<1>4. SessionTypes'
  <2>1. seats' \subseteq [seat : SeatNumbers, player : Players]
    BY <1>1 DEF SeatNumbers, Players
  <2>2. claims' \in [PartySlots -> Players \union {Nobody}]
    BY <1>1 DEF NoClaims
  <2> QED BY <1>1, <1>3, <2>1, <2>2 DEF SessionTypes
<1>5. SeatsUnique'
  BY <1>1 DEF SeatsUnique
<1>6. PartyHoldsRoster'
  BY <1>1, <1>2, <1>3 DEF PartyHoldsRoster
<1>7. ClaimsValid'
  BY <1>1 DEF ClaimsValid, NoClaims
<1>8. GameplayMatchesLifecycle' /\ CombatWaitsForParty'
  BY <1>1 DEF GameplayMatchesLifecycle, CombatWaitsForParty, adventureVars
<1> QED BY <1>4, <1>5, <1>6, <1>7, <1>8

\* A combat in progress goes on with the same scenario, or ends together with
\* the combat phase (finalizeCombat).
LEMMA CombatStepPreserves ==
  ASSUME SessionInv, lifecycle = "active", combat # NoCombat, CombatStep,
         UNCHANGED <<lifecycle, rosterVars, connected>>
  PROVE  SessionInv'
<1> USE DEF SessionInv, SessionInvariants
<1>1. phase = "combat" /\ roster = party /\ combat.scenario = current
  BY DEF GameplayMatchesLifecycle
<1>2. SeatsUnique' /\ PartyHoldsRoster' /\ ClaimsValid'
  BY DEF rosterVars, SeatsUnique, PartyHoldsRoster, ClaimsValid, Seated
<1>3. CASE /\ combat' \in CombatsOf(combat.scenario)
           /\ UNCHANGED adventureVars
  <2>1. /\ combat' \in Combats /\ combat' # NoCombat
        /\ combat'.scenario = combat.scenario /\ combat'.actor <= Len(party)
    BY <1>3, CombatsAreNotNone
  <2>2. SessionTypes'
    BY <2>1 DEF rosterVars, SessionTypes
  <2>3. GameplayMatchesLifecycle'
    BY <1>1, <1>3, <2>1 DEF rosterVars, adventureVars, GameplayMatchesLifecycle
  <2>4. CombatWaitsForParty'
    BY <2>1 DEF rosterVars, CombatWaitsForParty
  <2> QED BY <1>2, <2>2, <2>3, <2>4
<1>4. CASE /\ combat' = NoCombat
           /\ Adv!AcceptVictory \/ Adv!AcceptDefeat
  <2>1. phase' # "combat" /\ phase' # "none" /\ roster' = roster
    BY <1>4, MoveOnPhase DEF Adv!AcceptVictory, Adv!AcceptDefeat
  <2>2. SessionTypes'
    BY <1>4 DEF rosterVars, SessionTypes
  <2>3. GameplayMatchesLifecycle'
    BY <1>1, <1>4, <2>1 DEF rosterVars, GameplayMatchesLifecycle
  <2>4. CombatWaitsForParty'
    BY <1>4 DEF CombatWaitsForParty
  <2> QED BY <1>2, <2>2, <2>3, <2>4
<1> QED BY <1>3, <1>4 DEF CombatStep

\* The adventure commands outside a combat change neither roster nor combat
\* and never leave for "none" or "combat".
LEMMA QuietPreserves ==
  ASSUME SessionInv, UNCHANGED <<lifecycle, rosterVars, combat>>, connected' \subseteq Players,
         roster' = roster, phase' = "none" <=> phase = "none",
         phase' = "combat" <=> phase = "combat",
         phase = "combat" => current' = current
  PROVE  SessionInv'
<1> USE DEF SessionInv, SessionInvariants
<1>1. SessionTypes' /\ CombatWaitsForParty'
  BY DEF rosterVars, SessionTypes, CombatWaitsForParty
<1>2. SeatsUnique' /\ PartyHoldsRoster' /\ ClaimsValid'
  BY DEF rosterVars, SeatsUnique, PartyHoldsRoster, ClaimsValid, Seated
<1>3. GameplayMatchesLifecycle'
  BY DEF rosterVars, GameplayMatchesLifecycle
<1> QED BY <1>1, <1>2, <1>3

\* The adventure begins with the prepared party (begin-adventure).
LEMMA BeginPreserves ==
  ASSUME SessionInv, NEW p \in Players, BeginAdventure(p)
  PROVE  SessionInv'
<1> USE DEF SessionInv, SessionInvariants
<1>1. /\ lifecycle = "lobby" /\ prepared /\ lifecycle' = "active"
      /\ phase = "none" /\ phase' = "between-encounters" /\ roster' = party
      /\ UNCHANGED <<rosterVars, combat, connected>>
  BY DEF BeginAdventure, Adv!BeginAdventure
<1>2. combat = NoCombat
  BY <1>1 DEF GameplayMatchesLifecycle
<1>3. SessionTypes'
  BY <1>1 DEF rosterVars, SessionTypes
<1>4. SeatsUnique' /\ PartyHoldsRoster' /\ ClaimsValid'
  BY <1>1 DEF rosterVars, SeatsUnique, PartyHoldsRoster, ClaimsValid, Seated
<1>5. GameplayMatchesLifecycle' /\ CombatWaitsForParty'
  BY <1>1, <1>2 DEF rosterVars, GameplayMatchesLifecycle, CombatWaitsForParty
<1> QED BY <1>3, <1>4, <1>5

\* The host resumes a restored session (resume-adventure).
LEMMA ResumePreserves ==
  ASSUME SessionInv, NEW p \in Players, ResumeAdventure(p)
  PROVE  SessionInv'
<1> USE DEF SessionInv, SessionInvariants
<1>1. /\ lifecycle = "resume-lobby" /\ lifecycle' = "active"
      /\ UNCHANGED <<rosterVars, combat, connected, adventureVars>>
  BY DEF ResumeAdventure
<1>2. SessionTypes' /\ CombatWaitsForParty'
  BY <1>1 DEF rosterVars, SessionTypes, CombatWaitsForParty
<1>3. SeatsUnique' /\ PartyHoldsRoster' /\ ClaimsValid'
  BY <1>1 DEF rosterVars, SeatsUnique, PartyHoldsRoster, ClaimsValid, Seated
<1>4. GameplayMatchesLifecycle'
  BY <1>1 DEF rosterVars, adventureVars, GameplayMatchesLifecycle
<1> QED BY <1>2, <1>3, <1>4

\* The combat is created in the step that enters the combat phase
\* (start-encounter).
LEMMA StartEncounterPreserves ==
  ASSUME SessionInv, NEW p \in Players, StartEncounter(p)
  PROVE  SessionInv'
<1> USE DEF SessionInv, SessionInvariants
<1>1. /\ lifecycle = "active" /\ phase = "between-encounters" /\ phase' = "combat"
      /\ roster' = roster /\ current' = current
      /\ combat' \in CombatsOf(current)
      /\ UNCHANGED <<lifecycle, rosterVars, connected>>
  BY DEF StartEncounter, Adv!StartEncounter
<1>2. /\ combat' \in Combats /\ combat' # NoCombat
      /\ combat'.scenario = current /\ combat'.actor <= Len(party)
  BY <1>1, CombatsAreNotNone
<1>3. SessionTypes' /\ CombatWaitsForParty'
  BY <1>1, <1>2 DEF rosterVars, SessionTypes, CombatWaitsForParty
<1>4. SeatsUnique' /\ PartyHoldsRoster' /\ ClaimsValid'
  BY <1>1 DEF rosterVars, SeatsUnique, PartyHoldsRoster, ClaimsValid, Seated
<1>5. GameplayMatchesLifecycle'
  BY <1>1, <1>2 DEF rosterVars, GameplayMatchesLifecycle
<1> QED BY <1>3, <1>4, <1>5

\* Every join, presence change, intent, server command and Continue preserves
\* the invariant.
LEMMA SessionStep == SessionInv /\ [Next]_vars => SessionInv'
<1> SUFFICES ASSUME SessionInv, [Next]_vars PROVE SessionInv'
  OBVIOUS
<1>0. connected \subseteq Players
  BY DEF SessionInv, SessionTypes
<1>1. CASE Continue
  BY <1>1, ContinuePreserves
<1>2. ASSUME NEW p \in Players, Attach(p) \/ Detach(p) PROVE SessionInv'
  <2>1. connected' \subseteq Players /\ UNCHANGED <<lifecycle, rosterVars, combat, adventureVars>>
    BY <1>0, <1>2 DEF Attach, Detach
  <2> QED BY <2>1, QuietPreserves DEF adventureVars
<1>3. ASSUME NEW p \in Guests, Join(p) PROVE SessionInv'
  BY <1>3, JoinPreserves
<1>4. ASSUME NEW p \in Players, NEW actors \in Parties, SetPartyComposition(p, actors)
      PROVE  SessionInv'
  BY <1>4, SetPartyPreserves
<1>5. ASSUME NEW p \in Players, NEW s \in PartySlots, SelectCharacter(p, s)
      PROVE  SessionInv'
  BY <1>5, SelectPreserves
<1>6. ASSUME NEW p \in Players, ReleaseCharacter(p) PROVE SessionInv'
  BY <1>6, ReleasePreserves
<1>7. ASSUME NEW p \in Players, NEW guest \in Players, RemoveOfflineGuest(p, guest)
      PROVE  SessionInv'
  BY <1>7, RemovePreserves
<1>8. ASSUME NEW p \in Players,
             BeginAdventure(p) \/ ResumeAdventure(p) \/ StartEncounter(p)
      PROVE  SessionInv'
  BY <1>8, BeginPreserves, ResumePreserves, StartEncounterPreserves
<1>9. ASSUME NEW p \in Players, NEW i \in Items, ChooseReward(p, i) PROVE SessionInv'
  <2>1. /\ phase = "reward" /\ phase' # "combat" /\ phase' # "none"
        /\ roster' = roster /\ UNCHANGED <<lifecycle, rosterVars, combat, connected>>
    BY <1>9, MoveOnPhase DEF ChooseReward, Adv!ChooseReward
  <2> QED BY <1>0, <2>1, QuietPreserves
<1>10. ASSUME NEW p \in Players, NEW s \in PartySlots,
              \/ \E carried \in SUBSET Items : SetLoadout(p, s, carried)
              \/ \E l \in AdvancementLevels : AdvanceCharacter(p, s, l)
       PROVE  SessionInv'
  <2>1. /\ UNCHANGED <<phase, roster, current>>
        /\ UNCHANGED <<lifecycle, rosterVars, combat, connected>>
    BY <1>10 DEF SetLoadout, AdvanceCharacter, Adv!SetLoadout, Adv!AdvanceCharacter
  <2> QED BY <1>0, <2>1, QuietPreserves
<1>11. ASSUME (\E p \in Players : CombatIntent(p)) \/ ServerCombatCommand PROVE SessionInv'
  BY <1>11, CombatStepPreserves DEF CombatIntent, ServerCombatCommand
<1>12. CASE UNCHANGED vars
  <2>1. connected' \subseteq Players /\ UNCHANGED <<lifecycle, rosterVars, combat, adventureVars>>
    BY <1>0, <1>12 DEF vars
  <2> QED BY <2>1, QuietPreserves DEF adventureVars
<1> QED BY <1>1, <1>2, <1>3, <1>4, <1>5, <1>6, <1>7, <1>8, <1>9, <1>10, <1>11, <1>12 DEF Next

\* Types, the asserted invariants and the combat's member hold together in
\* every state of every session, for any number of guests.
THEOREM SessionInvariant == Spec => []SessionInv
<1> QED BY SessionInit, SessionStep, PTL DEF Spec

\* assertSessionInvariants never throws on a state the authority commits, for
\* any number of guests, any party and any adventure.
THEOREM CommitNeverThrows == Spec => []SessionInvariants
<1>1. SessionInv => SessionInvariants
  BY DEF SessionInv
<1> QED BY <1>1, SessionInvariant, PTL

-----------------------------------------------------------------------------
(* What follows from the invariant *)

\* A combat that waits for a hero waits for a seated player that controls it,
\* whichever guests are connected.
THEOREM HeroTurnIsControlled == Spec => []HeroTurnHasController
<1>1. ASSUME SessionInv PROVE HeroTurnHasController
  <2> SUFFICES ASSUME combat # NoCombat, combat.actor # 0
               PROVE  \E p \in Seated : Controls(p, combat.actor)
    BY DEF HeroTurnHasController
  <2> DEFINE s == combat.actor
  <2>0. SessionTypes /\ SeatsUnique /\ ClaimsValid /\ CombatWaitsForParty
    BY <1>1 DEF SessionInv, SessionInvariants
  <2>1. s \in 1..3 /\ s <= Len(party) /\ Len(party) \in Nat
    BY <2>0, CombatValues DEF SessionTypes, CombatWaitsForParty
  <2>2. s \in DOMAIN party /\ s \in PartySlots
    <3> HIDE DEF s
    <3>1. DOMAIN party = 1..Len(party)
      BY <2>0 DEF SessionTypes
    <3> QED BY <2>1, <3>1 DEF PartySlots
  <2>3. Host \in Seated
    BY <2>0 DEF SeatsUnique, Seated
  <2> HIDE DEF s
  <2>4. Controller(s) \in Seated
    BY <2>0, <2>2, <2>3 DEF Controller, ClaimsValid
  <2>5. Controls(Controller(s), s)
    BY <2>2 DEF Controls
  <2> QED BY <2>4, <2>5 DEF s
<1> QED BY <1>1, SessionInvariant, PTL

\* Three different elements need a set of at least three: the counting behind
\* seats and slots.
LEMMA ThreeElements ==
  ASSUME NEW S, IsFiniteSet(S), NEW x \in S, NEW y \in S, NEW z \in S,
         x # y, x # z, y # z
  PROVE  Cardinality(S) >= 3
<1>1. IsFiniteSet({x}) /\ Cardinality({x}) = 1
  BY FS_Singleton
<1>2. IsFiniteSet({x} \union {y}) /\ Cardinality({x} \union {y}) = 2
  <2>1. y \notin {x}
    OBVIOUS
  <2>2. Cardinality({x} \union {y}) = Cardinality({x}) + 1
    BY <1>1, <2>1, FS_AddElement
  <2> QED BY <1>1, <2>2, FS_AddElement
<1>3. /\ IsFiniteSet(({x} \union {y}) \union {z})
      /\ Cardinality(({x} \union {y}) \union {z}) = 3
  <2>1. z \notin {x} \union {y}
    OBVIOUS
  <2>2. Cardinality(({x} \union {y}) \union {z}) = Cardinality({x} \union {y}) + 1
    BY <1>2, <2>1, FS_AddElement
  <2> QED BY <1>2, <2>2, FS_AddElement
<1>4. ({x} \union {y}) \union {z} \in SUBSET S
  OBVIOUS
<1>5. Cardinality(({x} \union {y}) \union {z}) <= Cardinality(S)
  BY <1>4, FS_Subset
<1>6. Cardinality(S) \in Nat
  BY FS_CardinalityType
<1> QED BY <1>3, <1>5, <1>6

\* Four different elements need a set of at least four.
LEMMA FourElements ==
  ASSUME NEW S, IsFiniteSet(S), NEW w \in S, NEW x \in S, NEW y \in S, NEW z \in S,
         w # x, w # y, w # z, x # y, x # z, y # z
  PROVE  Cardinality(S) >= 4
<1>1. IsFiniteSet(S \ {w}) /\ Cardinality(S \ {w}) = Cardinality(S) - 1
  BY FS_RemoveElement
<1>2. x \in S \ {w} /\ y \in S \ {w} /\ z \in S \ {w}
  OBVIOUS
<1>3. Cardinality(S \ {w}) >= 3
  BY <1>1, <1>2, ThreeElements
<1>4. Cardinality(S) \in Nat
  BY FS_CardinalityType
<1> QED BY <1>1, <1>3, <1>4

\* A seated guest without a character always finds a free one: claims are
\* injective and the seats never outnumber the party.
THEOREM NobodyIsWedgedInTheLobby == Spec => []UnclaimedGuestFindsSlot
<1>1. ASSUME SessionInv PROVE UnclaimedGuestFindsSlot
  <2> SUFFICES ASSUME prepared, NEW p \in Seated, p # Host, p \notin Claimants,
                      \A s \in 2..Len(party) : claims[s] # Nobody
               PROVE  FALSE
    BY DEF UnclaimedGuestFindsSlot
  <2>0. SessionTypes /\ SeatsUnique /\ PartyHoldsRoster /\ ClaimsValid
    BY <1>1 DEF SessionInv, SessionInvariants
  <2>1. /\ Cardinality(seats) <= Len(party) /\ Len(party) \in Nat
        /\ Len(party) <= 3 /\ IsFiniteSet(seats) /\ Cardinality(seats) \in Nat
    BY <2>0, PartyBound, FS_CardinalityType DEF SessionTypes, PartyHoldsRoster
  <2>2. PICK x \in seats : x.player = p
    BY DEF Seated
  <2>3. PICK h \in seats : h.player = Host
    BY <2>0 DEF SeatsUnique
  <2>4. \A s \in 2..Len(party) :
          \E y \in seats : y.player = claims[s] /\ y # x /\ y # h
    <3> SUFFICES ASSUME NEW s \in 2..Len(party)
                 PROVE  \E y \in seats : y.player = claims[s] /\ y # x /\ y # h
      OBVIOUS
    <3>1. s \in PartySlots
      BY <2>1 DEF PartySlots
    <3>2. claims[s] \in Seated \ {Host} /\ claims[s] \in Claimants
      BY <2>0, <3>1 DEF ClaimsValid, Claimants
    <3> QED BY <2>2, <2>3, <3>2 DEF Seated
  <2>5. x # h
    BY <2>2, <2>3
  <2>6. CASE Len(party) <= 1
    <3>1. Cardinality({h}) = 1
      BY FS_Singleton
    <3>2. Cardinality(seats) <= 1
      BY <2>1, <2>6
    <3>3. {h} = seats
      <4>1. {h} \subseteq seats /\ IsFiniteSet({h})
        BY FS_Singleton
      <4>2. Cardinality({h}) <= Cardinality(seats)
        BY <2>1, <4>1, FS_Subset
      <4>3. Cardinality(seats) = Cardinality({h})
        BY <2>1, <3>1, <3>2, <4>2
      <4> QED BY <2>1, <4>1, <4>3, FS_Subset
    <3> QED BY <2>5, <3>3
  <2>7. CASE Len(party) = 2
    <3>1. PICK y \in seats : y # x /\ y # h
      BY <2>4, <2>7
    <3>2. Cardinality(seats) >= 3
      BY <2>1, <2>5, <3>1, ThreeElements
    <3> QED BY <2>1, <2>7, <3>2
  <2>8. CASE Len(party) = 3
    <3>1. PICK y \in seats : y.player = claims[2] /\ y # x /\ y # h
      BY <2>4, <2>8
    <3>2. PICK z \in seats : z.player = claims[3] /\ z # x /\ z # h
      BY <2>4, <2>8
    <3>3. y # z
      <4>1. 2 \in PartySlots /\ 3 \in PartySlots /\ claims[2] # Nobody
        BY <2>8 DEF PartySlots
      <4>2. claims[3] # claims[2]
        BY <2>0, <4>1 DEF ClaimsValid
      <4> QED BY <3>1, <3>2, <4>2
    <3>4. Cardinality(seats) >= 4
      BY <2>1, <2>5, <3>1, <3>2, <3>3, FourElements
    <3> QED BY <2>1, <2>8, <3>4
  <2>9. \A n \in Nat : n <= 3 => n <= 1 \/ n = 2 \/ n = 3
    OBVIOUS
  <2> QED BY <2>1, <2>6, <2>7, <2>8, <2>9, Zenon
<1> QED BY <1>1, SessionInvariant, PTL

-----------------------------------------------------------------------------
(* What no step does *)

\* No join, host intent, disconnection or combat takes a claim from a guest
\* that has not given it up.
THEOREM ClaimsAreKept == Spec => ClaimGivenUpOnlyByGuest
<1> DEFINE Given(s) == \/ ReleaseCharacter(claims[s])
                       \/ \E t \in PartySlots : SelectCharacter(claims[s], t)
                       \/ Continue
<1>1. ASSUME SessionInv, [Next]_vars, NEW s \in PartySlots,
             claims[s] # Nobody, claims'[s] # claims[s]
      PROVE  Given(s)
  <2>0. claims \in [PartySlots -> Players \union {Nobody}]
    BY <1>1 DEF SessionInv, SessionTypes
  <2>1. CASE claims' = claims
    BY <1>1, <2>1
  <2>2. ASSUME NEW p \in Players, NEW actors \in Parties, SetPartyComposition(p, actors)
        PROVE  FALSE
    <3>1. Claimants = {}
      BY <2>2 DEF SetPartyComposition
    <3> QED BY <1>1, <3>1 DEF Claimants
  <2>3. ASSUME NEW p \in Players, NEW t \in PartySlots, SelectCharacter(p, t)
        PROVE  Given(s)
    <3>1. /\ claims[t] = Nobody
          /\ claims'[s] = IF s = t THEN p ELSE IF claims[s] = p THEN Nobody ELSE claims[s]
      BY <2>3 DEF SelectCharacter
    <3>2. claims[s] = p
      BY <1>1, <3>1
    <3> QED BY <2>3, <3>2
  <2>4. ASSUME NEW p \in Players, ReleaseCharacter(p)
        PROVE  Given(s)
    <3>1. claims'[s] = IF claims[s] = p THEN Nobody ELSE claims[s]
      BY <2>4 DEF ReleaseCharacter
    <3>2. claims[s] = p
      BY <1>1, <3>1
    <3> QED BY <2>4, <3>2
  <2> HIDE DEF Given
  <2>5. CASE Continue
    BY <2>5 DEF Given
  <2> QED BY <1>1, <2>1, <2>2, <2>3, <2>4, <2>5
          DEF Next, vars, rosterVars, Attach, Detach, Join, RemoveOfflineGuest, BeginAdventure,
              ResumeAdventure, StartEncounter, ChooseReward, SetLoadout, AdvanceCharacter,
              CombatIntent, ServerCombatCommand
<1>2. ASSUME SessionInv, [Next]_vars
      PROVE  [\A s \in PartySlots :
                claims[s] # Nobody /\ claims'[s] # claims[s] =>
                  \/ ReleaseCharacter(claims[s])
                  \/ \E t \in PartySlots : SelectCharacter(claims[s], t)
                  \/ Continue]_vars
  BY <1>1, <1>2
<1> QED BY <1>2, SessionInvariant, PTL DEF Spec, ClaimGivenUpOnlyByGuest

\* While the adventure runs nobody joins, leaves or changes character.
THEOREM RosterIsLocked == Spec => RosterLockedWhileActive
<1>1. ASSUME [Next]_vars, lifecycle = "active", lifecycle' = "active"
      PROVE  UNCHANGED rosterVars
  BY <1>1 DEF Next, vars, rosterVars, Continue, Attach, Detach, Join, SetPartyComposition,
              SelectCharacter, ReleaseCharacter, RemoveOfflineGuest, LobbyLike, BeginAdventure,
              ResumeAdventure, StartEncounter, ChooseReward, SetLoadout, AdvanceCharacter,
              CombatIntent, ServerCombatCommand
<1> QED BY <1>1, PTL DEF Spec, RosterLockedWhileActive

\* In a restored session party, adventure and combat stand still until the
\* host resumes.
THEOREM ResumeLobbyIsQuiet == Spec => NothingPlaysBeforeResume
<1>1. ASSUME SessionInv, [Next]_vars, lifecycle' = "resume-lobby"
      PROVE  UNCHANGED gameplayVars
  <2>1. CASE Continue
    <3>1. prepared
      BY <1>1, <2>1 DEF Continue, SessionInv, SessionInvariants, GameplayMatchesLifecycle
    <3> QED BY <1>1, <2>1, <3>1 DEF Continue, gameplayVars, SessionInv, SessionTypes
  <2>2. CASE lifecycle = "resume-lobby" /\ ~Continue
    BY <1>1, <2>2
       DEF Next, vars, rosterVars, gameplayVars, adventureVars, Attach, Detach, Join,
           SetPartyComposition, SelectCharacter, ReleaseCharacter, RemoveOfflineGuest,
           BeginAdventure, ResumeAdventure, StartEncounter, ChooseReward, SetLoadout,
           AdvanceCharacter, CombatIntent, ServerCombatCommand
  <2>3. lifecycle' = lifecycle \/ Continue
    BY <1>1
       DEF Next, vars, Attach, Detach, Join, SetPartyComposition, SelectCharacter,
           ReleaseCharacter, RemoveOfflineGuest, BeginAdventure, ResumeAdventure,
           StartEncounter, ChooseReward, SetLoadout, AdvanceCharacter, CombatIntent,
           ServerCombatCommand
  <2> QED BY <1>1, <2>1, <2>2, <2>3
<1> QED BY <1>1, SessionInvariant, PTL DEF Spec, NothingPlaysBeforeResume

-----------------------------------------------------------------------------
(* The session implements the adventure *)

\* The party the session begins with is one the adventure accepts.
LEMMA PartyIsLegal ==
  ASSUME SessionInv, prepared
  PROVE  party \in Adv!Parties
<1>1. /\ party \in [1..Len(party) -> Actors] /\ Len(party) \in 1..PartyMax
      /\ \A i, j \in DOMAIN party : party[i] = party[j] => i = j
  <2>1. party \in Seq(Actors) /\ party # <<>> /\ Len(party) <= PartyMax
    BY DEF SessionInv, SessionInvariants, SessionTypes, PartyHoldsRoster
  <2> QED BY <2>1, PartyBound DEF SessionInv, SessionInvariants, PartyHoldsRoster
<1> QED BY <1>1 DEF Adv!Parties

\* Seen through its adventure variables, every step of the session is one
\* command of the adventure or leaves it alone.
THEOREM SessionPlaysTheAdventure == Spec => AdventureBehaviour
<1>1. Init => Adv!AdventureInit
  BY DEF Init
<1>2. ASSUME SessionInv, [Next]_vars
      PROVE  [Adv!AdventureNext]_adventureVars
  <2>1. ASSUME NEW p \in Players, BeginAdventure(p)
        PROVE  Adv!AdventureNext
    BY <1>2, <2>1, PartyIsLegal DEF BeginAdventure, Adv!AdventureNext
  <2>2. ASSUME NEW p \in Players, StartEncounter(p)
        PROVE  Adv!AdventureNext
    BY <2>2 DEF StartEncounter, Adv!AdventureNext
  <2>3. ASSUME NEW p \in Players, NEW i \in Items, ChooseReward(p, i)
        PROVE  Adv!AdventureNext
    BY <2>3 DEF ChooseReward, Adv!AdventureNext
  <2>4. ASSUME NEW s \in PartySlots, NEW p \in Players, Controls(p, s)
        PROVE  s \in Adv!Slots
    <3>1. s \in 1..Len(party) /\ Len(party) <= PartyMax /\ Len(party) \in Nat
      BY <1>2, <2>4 DEF Controls, SessionInv, SessionTypes
    <3> QED BY <3>1, PartyBound DEF Adv!Slots
  <2>5. ASSUME NEW p \in Players, NEW s \in PartySlots, NEW carried \in SUBSET Items,
               SetLoadout(p, s, carried)
        PROVE  Adv!AdventureNext
    BY <2>4, <2>5 DEF SetLoadout, Adv!AdventureNext
  <2>6. ASSUME NEW p \in Players, NEW s \in PartySlots, NEW l \in AdvancementLevels,
               AdvanceCharacter(p, s, l)
        PROVE  Adv!AdventureNext
    BY <2>4, <2>6 DEF AdvanceCharacter, Adv!AdventureNext
  <2>7. ASSUME CombatStep
        PROVE  [Adv!AdventureNext]_adventureVars
    BY <2>7 DEF CombatStep, Adv!AdventureNext
  <2>8. ASSUME (\E p \in Players : CombatIntent(p)) \/ ServerCombatCommand
        PROVE  [Adv!AdventureNext]_adventureVars
    BY <2>7, <2>8 DEF CombatIntent, ServerCombatCommand
  <2>9. CASE UNCHANGED adventureVars
    BY <2>9
  <2> QED BY <1>2, <2>1, <2>2, <2>3, <2>5, <2>6, <2>8, <2>9
          DEF Next, vars, Continue, Attach, Detach, Join, SetPartyComposition, SelectCharacter,
              ReleaseCharacter, RemoveOfflineGuest, ResumeAdventure
<1>3. ASSUME SessionInv, [Next]_vars
      PROVE  [Adv!AdventureNext]_(Adv!adventureVars)
  BY <1>2, <1>3 DEF adventureVars, Adv!adventureVars
<1> QED BY <1>1, <1>3, SessionInvariant, PTL
        DEF Spec, AdventureBehaviour, Adv!AdventureSpec

\* The adventure of AdventureProofs is the adventure of the session: the two
\* instances have the same text.
LEMMA SameInit == Adv!AdventureInit => AP!AdventureInit
BY DEF Adv!AdventureInit, AP!AdventureInit

\* Steps of the two instances of the adventure are the same steps.
LEMMA SameNext ==
  [Adv!AdventureNext]_(Adv!adventureVars) => [AP!AdventureNext]_(AP!adventureVars)
BY DEF Adv!AdventureNext, Adv!adventureVars, Adv!BeginAdventure, Adv!StartEncounter,
       Adv!AcceptVictory, Adv!AcceptDefeat, Adv!ChooseReward, Adv!SetLoadout,
       Adv!AdvanceCharacter, Adv!MoveOn, Adv!NextEncounter, Adv!Parties, Adv!Slots,
       Adv!Members, Adv!Encounters, Adv!StartingCollection, Adv!PendingAdvancements,
       Adv!LegalLoadout, Adv!Carriers, Adv!ApplyExperience, Adv!ExperiencePerLevel,
       Adv!CreateProgression, Adv!AwardExperience, Adv!RewardAfter, Adv!GrantReward,
       Adv!Cardinality, Adv!IsFiniteSet,
       AP!AdventureNext, AP!adventureVars, AP!BeginAdventure, AP!StartEncounter,
       AP!AcceptVictory, AP!AcceptDefeat, AP!ChooseReward, AP!SetLoadout,
       AP!AdvanceCharacter, AP!MoveOn, AP!NextEncounter, AP!Parties, AP!Slots,
       AP!Members, AP!Encounters, AP!StartingCollection, AP!PendingAdvancements,
       AP!LegalLoadout, AP!Carriers, AP!ApplyExperience, AP!ExperiencePerLevel,
       AP!CreateProgression, AP!AwardExperience, AP!RewardAfter, AP!GrantReward,
       AP!Cardinality, AP!IsFiniteSet

\* What the session assumes of its constants is what the adventure assumes.
LEMMA SameAssumptions == AP!CampaignAssumption /\ AP!CharacterAssumption
BY AdventureAssumption
   DEF Adv!CampaignAssumption, AP!CampaignAssumption, Adv!CharacterAssumption,
       AP!CharacterAssumption, Adv!Encounters, AP!Encounters, Adv!IsFiniteSet, AP!IsFiniteSet

\* The session's variables keep their types, those of its adventure included:
\* what is proved of the adventure alone carries over.
THEOREM SessionTypeCorrect == Spec => []TypeOK
<1>1. AP!AdventureSpec => []AP!AdventureTypeOK
  BY SameAssumptions, AP!AdventureTypes
<1>2. AP!AdventureTypeOK => Adv!AdventureTypeOK
  BY DEF Adv!AdventureTypeOK, AP!AdventureTypeOK, Adv!Phases, AP!Phases, Adv!Encounters,
         AP!Encounters, Adv!Progression, AP!Progression, Adv!ExperiencePerLevel,
         AP!ExperiencePerLevel
<1>3. Spec => []Adv!AdventureTypeOK
  BY <1>1, <1>2, SameInit, SameNext, SessionPlaysTheAdventure, PTL
     DEF AdventureBehaviour, AP!AdventureSpec, Adv!AdventureSpec
<1>4. SessionInv /\ Adv!AdventureTypeOK => TypeOK
  BY DEF SessionInv, SessionTypes, TypeOK
<1> QED BY <1>3, <1>4, SessionInvariant, PTL

\* A seated guest can always become a player and every hero's turn is played.
THEOREM SessionNeverWaitsForNobody == Spec => []NobodyIsStuck
<1>1. UnclaimedGuestFindsSlot /\ HeroTurnHasController => NobodyIsStuck
  BY DEF NobodyIsStuck
<1> QED BY <1>1, NobodyIsWedgedInTheLobby, HeroTurnIsControlled, PTL

\* A seat is only ever lost in a lobby, by a guest offline and without a
\* character: no presence change, intent or combat unseats anybody else.
LEMMA SeatsLostOnlyByIdle == Spec => SeatLostOnlyByIdleGuest
<1> DEFINE Idle(x) == \/ LobbyLike /\ x.player \notin {Host} \union connected \union Claimants
                      \/ Continue
<1>1. ASSUME [Next]_vars, NEW x \in seats, x \notin seats'
      PROVE  Idle(x)
  <2>1. CASE seats' = seats
    BY <1>1, <2>1
  <2>2. ASSUME NEW p \in Guests, Join(p)
        PROVE  FALSE
    BY <1>1, <2>2 DEF Join
  <2>3. ASSUME NEW p \in Players, NEW guest \in Players, RemoveOfflineGuest(p, guest)
        PROVE  Idle(x)
    <3>1. x.player = guest
      BY <1>1, <2>3 DEF RemoveOfflineGuest, SeatOf
    <3> QED BY <2>3, <3>1 DEF RemoveOfflineGuest
  <2>4. CASE Continue
    BY <2>4
  <2> HIDE DEF Idle
  <2> QED BY <1>1, <2>1, <2>2, <2>3, <2>4
          DEF Next, vars, rosterVars, Attach, Detach, SetPartyComposition, SelectCharacter,
              ReleaseCharacter, BeginAdventure, ResumeAdventure, StartEncounter, ChooseReward,
              SetLoadout, AdvanceCharacter, CombatIntent, ServerCombatCommand
<1>2. ASSUME [Next]_vars
      PROVE  [\A x \in seats : x \notin seats' => Idle(x)]_vars
  BY <1>1, <1>2
<1> QED BY <1>2, PTL DEF Spec, SeatLostOnlyByIdleGuest

\* Within a session nobody loses a character without giving it up, nobody loses
\* a seat but a guest of a lobby that is offline and holds no character, and
\* while the adventure runs the roster does not change.
THEOREM SeatsAreKept == Spec => SeatsAreSafe
BY ClaimsAreKept, SeatsLostOnlyByIdle, RosterIsLocked DEF SeatsAreSafe

-----------------------------------------------------------------------------
(* Saves *)


\* What the adventure keeps, said of the session's variables.
AdventureKeeps ==
  /\ Adv!AdventureTypeOK
  /\ Adv!EncounterOrder
  /\ Adv!ExperienceLedger
  /\ Adv!AdvancementOrder
  /\ Adv!PartyCarriesOnlyWhatItOwns
  /\ phase = "reward" => offer # {}

\* Every invariant proved of the adventure holds in the session that plays it.
LEMMA AdventureKept == Spec => []AdventureKeeps
<1> DEFINE Kept == /\ AP!AdventureTypeOK /\ AP!EncounterOrder /\ AP!ExperienceLedger
                   /\ AP!AdvancementOrder /\ AP!PartyCarriesOnlyWhatItOwns /\ AP!OfferMade
<1>1. AP!AdventureSpec => []Kept
  BY SameAssumptions, AP!AdventureTypes, AP!EncountersInOrder, AP!ExperienceIsEarned,
     AP!AdvancementsAreTimely, AP!NothingCarriedUnowned, AP!RewardsAreOffered, PTL
<1>2. Kept => AdventureKeeps
  BY DEF AdventureKeeps,
         Adv!AdventureTypeOK, AP!AdventureTypeOK, Adv!EncounterOrder, AP!EncounterOrder,
         Adv!ExperienceLedger, AP!ExperienceLedger, Adv!AdvancementOrder, AP!AdvancementOrder,
         Adv!NoPendingAdvancementInCombat, AP!NoPendingAdvancementInCombat,
         Adv!AdvancementPrefix, AP!AdvancementPrefix,
         Adv!PartyCarriesOnlyWhatItOwns, AP!PartyCarriesOnlyWhatItOwns, AP!OfferMade,
         Adv!Phases, AP!Phases, Adv!Encounters, AP!Encounters, Adv!Progression, AP!Progression,
         Adv!ExperiencePerLevel, AP!ExperiencePerLevel, Adv!Members, AP!Members,
         Adv!PendingAdvancements, AP!PendingAdvancements, Adv!LegalLoadout, AP!LegalLoadout,
         Adv!Carriers, AP!Carriers, Adv!Cardinality, AP!Cardinality,
         Adv!IsFiniteSet, AP!IsFiniteSet
<1> HIDE DEF Kept
<1> QED
  BY <1>1, <1>2, SameInit, SameNext, SessionPlaysTheAdventure, PTL
     DEF AdventureBehaviour, AP!AdventureSpec, Adv!AdventureSpec

\* A level short of the authored one would owe experience.
LEMMA NobodyOwesExperience ==
  \A level, start, experience, earned \in Nat :
    1000 * (level - start) + experience = earned /\ experience <= 999 => level >= start
  OBVIOUS

\* Nobody ever falls below the authored level, so a saved level is positive.
LEMMA LevelsArePositive ==
  ASSUME AdventureKeeps, NEW m \in DOMAIN roster
  PROVE  progress[m].level \in Nat \ {0} /\ progress[m].experience \in 0..999
<1>1. progress[m] \in Adv!Progression
  BY DEF AdventureKeeps, Adv!AdventureTypeOK
<1>2. progress[m].level \in Nat /\ progress[m].experience \in 0..999
  BY <1>1 DEF Adv!Progression, Adv!ExperiencePerLevel
<1>3. 1000 * (progress[m].level - StartLevel) + progress[m].experience
        = Earned[Len(completed)]
  BY DEF AdventureKeeps, Adv!ExperienceLedger, Adv!Members, Adv!ExperiencePerLevel
<1>4. Len(completed) \in 0..NumEncounters
  <2>1. Len(completed) \in Nat
    BY DEF AdventureKeeps, Adv!AdventureTypeOK
  <2>2. Len(completed) # 0 => completed[Len(completed)] = Len(completed)
    BY <2>1 DEF AdventureKeeps, Adv!EncounterOrder, Adv!AdventureTypeOK
  <2>3. Len(completed) # 0 => completed[Len(completed)] \in Adv!Encounters
    BY <2>1 DEF AdventureKeeps, Adv!AdventureTypeOK
  <2> QED
    BY <2>1, <2>2, <2>3, PartyBound DEF Adv!Encounters
<1>5. Earned[Len(completed)] \in Nat /\ StartLevel \in Nat \ {0}
  BY <1>4, AdventureAssumption DEF Adv!CampaignAssumption, Adv!CharacterAssumption
<1>6. progress[m].level >= StartLevel
  <2> DEFINE level == progress[m].level
             experience == progress[m].experience
             earned == Earned[Len(completed)]
  <2>0. 1000 * (level - StartLevel) + experience = earned
    BY ONLY <1>3
  <2> HIDE DEF level, experience, earned
  <2>1. level \in Nat /\ earned \in Nat
    BY ONLY <1>2, <1>5, Zenon DEF level, earned
  <2>2. experience \in 0..999
    BY ONLY <1>2, Zenon DEF experience
  <2>3. experience \in Nat /\ experience <= 999 /\ StartLevel \in Nat
    BY ONLY <2>2, <1>5
  <2>4. level >= StartLevel
    BY ONLY <2>0, <2>1, <2>3, NobodyOwesExperience
  <2> QED
    BY <2>4 DEF level
<1> QED
  BY <1>2, <1>5, <1>6

\* Continue accepts the save of every state a session with an adventure passes
\* through (createCampaignSave, restoreCampaignSave).
THEOREM SavesCanBeContinued == Spec => []SavesAreAccepted
<1> DEFINE save == CreateCampaignSave
<1>1. ASSUME SessionInv, AdventureKeeps, phase # "none"
      PROVE  RestoreCampaignSave(Stored(save)) = "restored"
  <2>1. /\ save.schema = CurrentSaveSchemaVersion /\ save.slots = party
        /\ save.combat = combat /\ save.phase = phase /\ save.current = current
        /\ save.completed = completed /\ save.members = roster
        /\ save.progress = progress /\ save.loadout = loadout
        /\ save.collection = collection /\ save.offer = offer
        /\ Stored(save).schema = save.schema /\ Stored(save).hash = save
        /\ Stored(save).save = save
    BY DEF CreateCampaignSave, Stored
  <2> HIDE DEF save
  <2>2. /\ party # <<>> /\ roster = party /\ party \in Seq(Actors)
        /\ Len(party) <= 3 /\ Len(party) \in Nat
        /\ \A s, t \in DOMAIN party : party[s] = party[t] => s = t
        /\ phase = "combat" <=> combat # NoCombat
        /\ combat # NoCombat => combat.scenario = current
    BY <1>1, PartyBound
       DEF SessionInv, SessionTypes, SessionInvariants, PartyHoldsRoster,
           GameplayMatchesLifecycle
  <2>3. /\ phase \in Adv!Phases /\ current \in 0..NumEncounters
        /\ completed \in Seq(Adv!Encounters) /\ DOMAIN progress = DOMAIN roster
        /\ collection \in [Items -> Nat]
        /\ phase = "reward" <=> offer # {}
        /\ phase = "reward" => current # 0 /\ offer = RewardChoices[current]
        /\ \A k \in DOMAIN completed : completed[k] = k
    BY <1>1 DEF AdventureKeeps, Adv!AdventureTypeOK, Adv!EncounterOrder
  <2>4. ShapeIsValid(save)
    BY <1>1, <2>1, <2>2, <2>3, LevelsArePositive DEF ShapeIsValid, Adv!Phases
  <2>5. PartySlotsAreValid(save)
    BY <2>1, <2>2 DEF PartySlotsAreValid
  <2>6. CharactersAreValid(save)
    BY <1>1, <2>1, <2>3
       DEF CharactersAreValid, ProgressionIsValid, AdventureKeeps, Adv!AdventureTypeOK,
           Adv!Progression, Adv!AdvancementOrder, Adv!NoPendingAdvancementInCombat,
           Adv!AdvancementPrefix, Adv!Members
  <2>7. OfferIsValid(save)
    BY <2>1, <2>3, PartyBound DEF OfferIsValid, Adv!Encounters
  <2>8. AdventureIsValid(save)
    <3>1. current # 0 => current \in Adv!Encounters
      BY <2>3, PartyBound DEF Adv!Encounters
    <3>2. \A k \in DOMAIN completed : completed[k] \in Adv!Encounters
      BY <2>3
    <3>3. Adv!LegalLoadout(loadout, collection)
      BY <1>1 DEF AdventureKeeps, Adv!PartyCarriesOnlyWhatItOwns
    <3> QED
      BY <2>1, <2>2, <2>3, <2>6, <2>7, <3>1, <3>2, <3>3 DEF AdventureIsValid
  <2>9. CombatIsValid(save)
    BY <1>1, <2>1, <2>2, CombatValues, PartyBound
       DEF CombatIsValid, SessionInv, SessionTypes, CombatWaitsForParty, Adv!Encounters
  <2>10. IsRestorable(save)
    BY <1>1, <2>1, <2>2 DEF IsRestorable
  <2> QED
    BY <2>1, <2>4, <2>5, <2>8, <2>9, <2>10 DEF RestoreCampaignSave
<1>2. SessionInv /\ AdventureKeeps => SavesAreAccepted
  BY <1>1 DEF SavesAreAccepted
<1> QED
  BY <1>2, SessionInvariant, AdventureKept, PTL
=============================================================================
