----------------------------- MODULE RequestsMC -----------------------------
(* Model checking of Requests: two requests, under way at the same time or
   one after the other, and a connection that is lost once. *)
EXTENDS Requests

CONSTANTS first, second

MCCalls == {first, second}
=============================================================================
