------------------------------ MODULE MCOneTab ------------------------------
(***************************************************************************)
(* OneTab for TLC: two calls and two places for renewals, so that two      *)
(* calls refused at once can share a renewal or start two.                 *)
(***************************************************************************)
EXTENDS OneTab

CONSTANTS c1, c2, r1, r2
=============================================================================
