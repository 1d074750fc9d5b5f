----------------------------- MODULE StudyDbMC -----------------------------
(* Model checking of StudyDb: two usernames, two users at most alive or not,
   ids that run out after a few rows. *)
EXTENDS StudyDb

CONSTANTS ann, bob, todo, done

MCNames == {ann, bob}
MCBodies == {todo, done}
============================================================================
