--------------------------- MODULE MCAuthentication ---------------------------
(***************************************************************************)
(* One user for TLC, whose two requests share a pool of two connections.   *)
(***************************************************************************)
EXTENDS Authentication
=============================================================================
