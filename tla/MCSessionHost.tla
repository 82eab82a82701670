--------------------------- MODULE MCSessionHost ---------------------------
(***************************************************************************)
(* A host and one guest with two sockets between them: both the host's, so *)
(* that a newer connection replaces an older one, or one each, so that     *)
(* presence matters.  One request identifier per player: every further     *)
(* send of it is a retry.                                                  *)
(***************************************************************************)
EXTENDS SessionHost, TLC

CONSTANTS host, guest, c1, c2

Reconnecting == (c1 :> host) @@ (c2 :> host)
Together == (c1 :> host) @@ (c2 :> guest)
=============================================================================
