---------------------------- MODULE MCServerRound ----------------------------
(***************************************************************************)
(* Bounded instances of ServerRound: two slots of betting, a result window *)
(* of two, and a SlotHashes sysvar short enough to lose the target before  *)
(* the refund time.                                                        *)
(***************************************************************************)
EXTENDS ServerRound, TLC

CONSTANTS k1, k2, r1, r2

Symmetry == Permutations(Keepers) \cup Permutations(Reveals)
=============================================================================
