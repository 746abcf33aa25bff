---------------------------- MODULE MCMinerRoster ----------------------------
(* One settled round and the next: three receipts of two miners, of which   *)
(* the index may have learnt any part when the panel of the round is read.  *)
EXTENDS MinerRoster, TLC

CONSTANTS p1, p2, p3, m1, m2, t1, t2

RoundOfReceipt == p1 :> 0 @@ p2 :> 0 @@ p3 :> 1
MinerOfReceipt == p1 :> m1 @@ p2 :> m2 @@ p3 :> m1
StakeOf ==
    p1 :> (t1 :> 1 @@ t2 :> 1) @@ p2 :> (t1 :> 1 @@ t2 :> 0) @@ p3 :> (t1 :> 0 @@ t2 :> 1)

Draw(t, m, s) == [tile |-> t, mode |-> m, sample |-> s]
Draws == 0 :> {Draw(t1, "solo", 1), Draw(t2, "motherlode", 0)} @@ 1 :> {Draw(t2, "split", 0)}
=============================================================================
