------------------------------- MODULE MCAccess -------------------------------
(***************************************************************************)
(* Two users for TLC, a built-in role, an old one and names for the        *)
(* tenant's own.                                                           *)
(***************************************************************************)
EXTENDS Access, TLC

CONSTANTS s1, s2, founder, clerk

SessionSymmetry == Permutations(Sessions)
=============================================================================
