----------------------------- MODULE MCBreaker ------------------------------
(* Four goroutines, one of which may abandon its call; three failures trip.  *)
EXTENDS Breaker

CONSTANTS c1, c2, c3, c4

MCCalls == {c1, c2, c3, c4}
=============================================================================
