------------------------- MODULE MCServerLifecycle -------------------------
(* Model values for ServerLifecycle.  Three clients: one served, one   *)
(* between Accept and its registration and one still in the backlog.        *)
EXTENDS ServerLifecycle

CONSTANTS c1, c2, c3
MCClients == {c1, c2, c3}
=============================================================================
