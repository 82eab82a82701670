----------------------------- MODULE MCScreens -----------------------------
(***************************************************************************)
(* The moments of a combat that differ for one player: a turn with actions *)
(* left, a spent turn, a reaction of their own, and somebody else's turn.  *)
(***************************************************************************)
EXTENDS Screens

Moment(mine, spent, reaction) ==
  [mine |-> mine, spent |-> spent, reaction |-> reaction, over |-> FALSE]

Moments == {Moment(TRUE, FALSE, "none"), Moment(TRUE, TRUE, "none"),
            Moment(FALSE, FALSE, "mine")}

\* Two states are told apart by what can still matter: with a session attached
\* the entry is out of sight, and the way back sets its view and auth anew.
Relevant ==
  <<IF client THEN <<busy, destination, account, request, restores>> ELSE entryVars,
    clientVars, screenVars>>
=============================================================================
