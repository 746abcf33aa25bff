---------------------------- MODULE MCRoundIndex ----------------------------
(* One round of two receipts, one of them on two tiles. *)
EXTENDS RoundIndex
CONSTANTS r1, r2, t1, t2
Layouts == (r1 :> {t1}) @@ (r2 :> {t1, t2})
=============================================================================
