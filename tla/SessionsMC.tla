----------------------------- MODULE SessionsMC -----------------------------
(* Model checking of Sessions: client programs that two users log in from. *)
EXTENDS Sessions

CONSTANTS here, there, ann, bob

MCUsers == {ann, bob}
=============================================================================
