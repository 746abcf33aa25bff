----------------------------- MODULE MCStakePool -----------------------------
(***************************************************************************)
(* Bounded instances of StakePool.  REWARD_SCALE is small and no divisor   *)
(* of the weights, so that every kind of rounding of the index occurs.     *)
(***************************************************************************)
EXTENDS StakePool, TLC

CONSTANTS alice, bob

Symmetry == Permutations(Stakers)
=============================================================================
