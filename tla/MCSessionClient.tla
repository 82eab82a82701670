-------------------------- MODULE MCSessionClient --------------------------
(***************************************************************************)
(* The host of a session without guests, with sockets to reconnect over.   *)
(***************************************************************************)
EXTENDS SessionClient

CONSTANTS host

MCOwner == [c \in Connections |-> host]
=============================================================================
