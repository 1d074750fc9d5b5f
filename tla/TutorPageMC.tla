---------------------------- MODULE TutorPageMC ----------------------------
(* Model checking of TutorPage. *)
EXTENDS TutorPage

CONSTANT ann

MCUsers == {ann}
============================================================================
