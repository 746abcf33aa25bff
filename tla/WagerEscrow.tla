----------------------------- MODULE WagerEscrow -----------------------------
(***************************************************************************)
(* What a round promises its miners, without clocks, providers, fees or    *)
(* draws: wagers go into the pot of their round; then either the round is  *)
(* drawn and the pot is paid out to its wagers, to the last lamport, or    *)
(* every wager is returned in full; each wager leaves the pot once, and an *)
(* account is closed only when nothing is left in it.                      *)
(***************************************************************************)
EXTENDS Naturals

CONSTANTS
    RoundIds,
    WagerIds,     \* each wager is a tuple that begins with its round
    Amounts       \* lamports of one wager

VARIABLES
    phase,    \* of each round: "none", "betting", "paying", "returning", "closed"
    wager,    \* of each wager: "none", "held", "finished", "closed"
    amount,   \* what each held or finished wager was
    pot       \* lamports of each round that belong to its wagers

vars == <<phase, wager, amount, pot>>

Held(r) == {w \in WagerIds : w[1] = r /\ wager[w] = "held"}
Unclosed(r) == {w \in WagerIds : w[1] = r /\ wager[w] \in {"held", "finished"}}

Init ==
    /\ phase = [r \in RoundIds |-> "none"] /\ pot = [r \in RoundIds |-> 0]
    /\ wager = [w \in WagerIds |-> "none"] /\ amount = [w \in WagerIds |-> 0]

Open(r) ==
    /\ phase[r] = "none" /\ phase' = [phase EXCEPT ![r] = "betting"]
    /\ UNCHANGED <<wager, amount, pot>>

Place(w, a) ==
    /\ phase[w[1]] = "betting" /\ wager[w] = "none"
    /\ wager' = [wager EXCEPT ![w] = "held"] /\ amount' = [amount EXCEPT ![w] = a]
    /\ pot' = [pot EXCEPT ![w[1]] = @ + a]
    /\ UNCHANGED phase

\* The draw takes fees and adds bonuses; nothing stays in a round nobody plays.
Draw(r) ==
    /\ phase[r] = "betting" /\ phase' = [phase EXCEPT ![r] = "paying"]
    /\ pot'[r] \in Nat /\ pot' = [pot EXCEPT ![r] = pot'[r]]
    /\ Held(r) = {} => pot'[r] = 0
    /\ UNCHANGED <<wager, amount>>

\* The last wager that is paid takes what is left.
Pay(w) ==
    LET r == w[1] IN
    /\ phase[r] = "paying" /\ wager[w] = "held"
    /\ wager' = [wager EXCEPT ![w] = "finished"]
    /\ pot'[r] \in Nat /\ pot'[r] <= pot[r] /\ pot' = [pot EXCEPT ![r] = pot'[r]]
    /\ Held(r) = {w} => pot'[r] = 0
    /\ UNCHANGED <<phase, amount>>

Return(w) ==
    LET r == w[1] IN
    /\ phase[r] \in {"betting", "returning"} /\ wager[w] = "held"
    /\ phase' = [phase EXCEPT ![r] = "returning"]
    /\ wager' = [wager EXCEPT ![w] = "finished"]
    /\ amount[w] <= pot[r] /\ pot' = [pot EXCEPT ![r] = @ - amount[w]]
    /\ UNCHANGED amount

CloseWager(w) ==
    /\ phase[w[1]] \in {"paying", "returning"} /\ wager[w] = "finished" /\ Held(w[1]) = {}
    /\ wager' = [wager EXCEPT ![w] = "closed"] /\ amount' = [amount EXCEPT ![w] = 0]
    /\ UNCHANGED <<phase, pot>>

CloseRound(r) ==
    /\ phase[r] \in {"betting", "paying", "returning"} /\ Unclosed(r) = {} /\ pot[r] = 0
    /\ phase' = [phase EXCEPT ![r] = "closed"]
    /\ UNCHANGED <<wager, amount, pot>>

Next ==
    \/ \E r \in RoundIds : Open(r) \/ Draw(r) \/ CloseRound(r)
    \/ \E w \in WagerIds : \/ \E a \in Amounts : Place(w, a)
                           \/ Pay(w) \/ Return(w) \/ CloseWager(w)

Spec == Init /\ [][Next]_vars
=============================================================================
