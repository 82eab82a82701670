--------------------------- MODULE DurableSession ---------------------------
(***************************************************************************)
(* What a live session promises to those who play it, without queues,      *)
(* sockets, writes and retries: requests take effect one at a time and     *)
(* once each, whatever is shown of a running adventure is stored by then,  *)
(* and a session that is over stays as it was.                             *)
(*                                                                         *)
(* Module SessionHost is shown to implement it.                            *)
(***************************************************************************)
EXTENDS Naturals

CONSTANTS Players, Requests

VARIABLES
  effects, \* how often each request of each player took effect
  shown,   \* the gameplay that is shown
  stored,  \* the gameplay the database holds
  begun,   \* the adventure has begun
  over     \* the session is over

vars == <<effects, shown, stored, begun, over>>

\* A new session, or one restored from what the database holds.
Init ==
  /\ effects = [p \in Players |-> [r \in Requests |-> 0]]
  /\ shown = 0 /\ stored = 0
  /\ begun \in BOOLEAN
  /\ over = FALSE

\* Before the adventure begins there is nothing to keep.
Stores == stored' = IF begun' THEN shown' ELSE stored

\* A request takes effect; some change nothing that is kept.
Take(p, r) ==
  /\ ~over
  /\ effects[p][r] = 0
  /\ effects' = [effects EXCEPT ![p][r] = 1]
  /\ begun' \in BOOLEAN /\ (begun => begun')
  /\ shown' \in {shown, shown + 1}
  /\ Stores
  /\ UNCHANGED over

\* The server plays the turns that are its own.
ServerPlays ==
  /\ ~over /\ begun
  /\ shown' = shown + 1
  /\ UNCHANGED <<effects, begun, over>>
  /\ Stores

End ==
  /\ ~over
  /\ over' = TRUE
  /\ UNCHANGED <<effects, shown, stored, begun>>

Next ==
  \/ \E p \in Players, r \in Requests : Take(p, r)
  \/ ServerPlays
  \/ End

Spec == Init /\ [][Next]_vars
=============================================================================
