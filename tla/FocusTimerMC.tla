---------------------------- MODULE FocusTimerMC ----------------------------
(* Model checking of FocusTimer: a countdown of three seconds, two groups that
   come and go. *)
EXTENDS FocusTimer

CONSTANTS maths, physics
=============================================================================
