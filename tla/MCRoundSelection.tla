-------------------------- MODULE MCRoundSelection --------------------------
(* Four rounds, a window of three rows and a batch of two: the proportions  *)
(* of the defaults, a window of 25 rows and a batch of 12.                  *)
EXTENDS RoundSelection
=============================================================================
