------------------------------ MODULE MCRounds ------------------------------
(***************************************************************************)
(* Bounded instances of Rounds.  The basis points and the supply are       *)
(* scaled down so that every fee leg is rounded, some legs round to zero,  *)
(* and the emission cap is met inside the explored rounds.                 *)
(***************************************************************************)
EXTENDS Rounds, TLC

CONSTANTS alice, bob, t1, t2

Wager(a, b) == (t1 :> a) @@ (t2 :> b)

\* Both tiles, either tile; a pair of the first makes every fee leg positive.
WagersWide     == {Wager(2, 1), Wager(0, 4)}
WagersOne      == {Wager(2, 1)}
\* One tile stays empty, so a round may roll its prize over.
WagersRollover == {Wager(2, 0)}
=============================================================================
