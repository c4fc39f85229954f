----------------------------- MODULE MCTaskPage -----------------------------
(***************************************************************************)
(* TaskPage for TLC: two tasks, so that one can be left and come back to,  *)
(* and two handlers under way at once.                                     *)
(***************************************************************************)
EXTENDS TaskPage

CONSTANTS t1, t2, q1, q2
=============================================================================
