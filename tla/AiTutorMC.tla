----------------------------- MODULE AiTutorMC -----------------------------
(* Model checking of AiTutor: the users are interchangeable. *)
EXTENDS AiTutor, TLC

UserSymmetry == Permutations(Users)
============================================================================
