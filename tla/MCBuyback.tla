------------------------------ MODULE MCBuyback ------------------------------
(***************************************************************************)
(* Bounded instances of Buyback: an allocation that takes two swaps and    *)
(* one that takes one, a blockhash that outlives no tick, and a lease one  *)
(* clock step longer than the timeout of a tick.                           *)
(***************************************************************************)
EXTENDS Buyback

CONSTANTS k1, k2

Allocations == [r \in Rounds |-> IF r = 0 THEN 3 ELSE 1]
=============================================================================
