------------------------------ MODULE MCServer ------------------------------
(* Server with one contested user name, two request handlers and one socket. *)
EXTENDS Server
=============================================================================
