----------------------------- MODULE MCOfflineSync -----------------------------
(***************************************************************************)
(* Two payments for TLC, and two calls of sync that would overlap if they  *)
(* could.                                                                  *)
(***************************************************************************)
EXTENDS OfflineSync
=============================================================================
