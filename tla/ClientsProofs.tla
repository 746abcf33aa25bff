---------------------------- MODULE ClientsProofs ----------------------------
(***************************************************************************)
(* What a player of MYNE is owed, sees and sends, and the Switchboard      *)
(* keeper's draw, each for all values of its constants.  The pool of       *)
(* unclaimed MYNE owes what its miners may take, and no instruction of one *)
(* miner dilutes another, for any number of miners and any fees.  A press  *)
(* of Send stores at most one message, under the wallet that signed, for   *)
(* any number of wallets, presses and faults.  A wallet's history hides no *)
(* win and a claim reports no open receipt as processed, for any receipts. *)
(* A seed is drawn only once betting is over, and faults too few to reach  *)
(* the refund never cost a round its result.  A roster shown is the one    *)
(* the receipts give, for any wagers, stakes and results.                  *)
(***************************************************************************)
EXTENDS Clients, LedgerLemmas, SequenceTheorems, Integers, Sequences, SequencesExt

-----------------------------------------------------------------------------
(* The pool of unclaimed MYNE.                                             *)

-----------------------------------------------------------------------------
(* The value of shares.                                                    *)

\* shares of total_shares are worth their part of the assets, rounded down;
\* all of them are worth all of it.
PartOf(T, S, s, v) ==
    /\ v \in Nat /\ v <= T /\ S * v <= T * s
    /\ s > 0 => T * s < S * v + S
    /\ s = 0 => v = 0
    /\ s > 0 /\ s = S => v = T
    /\ s > 0 /\ v = T /\ T > 0 => s = S

LEMMA ValueBounds ==
    ASSUME NEW T \in Nat, NEW S \in Nat, NEW s \in Nat, s <= S
    PROVE  PartOf(T, S, s, mining_share_value(T, S, s))
<1> DEFINE v == mining_share_value(T, S, s)
<1>1. CASE s = 0
  <2>1. v = 0
    BY <1>1 DEF mining_share_value
  <2> HIDE DEF v
  <2> QED BY <1>1, <2>1 DEF v, PartOf
<1>2. CASE s > 0
  <2>1. v = (T * s) \div S /\ S \in Nat \ {0}
    BY <1>2 DEF mining_share_value
  <2>2. T * s \in Nat /\ T * s <= T * S
    BY ProductMonotone
  <2> DEFINE a == T * s
  <2> HIDE DEF v, a
  <2>3. a \in Nat /\ a <= T * S
    BY <2>2 DEF a
  <2>4. v = a \div S
    BY <2>1 DEF a
  <2>5. v \in Nat /\ S * v <= a /\ a < S * v + S /\ v <= T
    BY <2>1, <2>3, <2>4, DivBounds, DivBelow
  <2>6. ASSUME s = S PROVE v = T
    <3>1. a = S * T
      BY <2>6 DEF a
    <3>2. \A x, y \in Nat : S * x <= S * y => x <= y
      BY <2>1, ProductCancels
    <3>3. ASSUME v < T PROVE FALSE
      <4>1. v + 1 <= T /\ S * (v + 1) = S * v + S
        BY <2>1, <2>5, <3>3
      <4>2. S * (v + 1) <= S * T
        BY <2>1, <2>5, <4>1, ProductMonotone
      <4> QED BY <2>1, <2>3, <2>5, <3>1, <4>1, <4>2
    <3> QED BY <2>5, <3>3
  <2>7. ASSUME v = T, T > 0 PROVE s = S
    <3>1. T * S <= T * s /\ T \in Nat \ {0}
      BY <2>1, <2>5, <2>7 DEF a
    <3>2. S <= s
      BY <2>1, <3>1, ProductCancels
    <3> QED BY <3>2
  <2> QED BY <1>2, <2>5, <2>6, <2>7 DEF v, a, PartOf
<1> QED BY <1>1, <1>2

\* A unit of (T, S) is worth no less in (U, R).
Backs(T, S, U, R) == T * R <= U * S

LEMMA ValueMonotone ==
    ASSUME NEW T \in Nat, NEW S \in Nat, NEW U \in Nat, NEW R \in Nat,
           Backs(T, S, U, R), NEW s \in Nat, s <= S, s <= R
    PROVE  mining_share_value(T, S, s) <= mining_share_value(U, R, s)
<1> DEFINE v == mining_share_value(T, S, s)
           w == mining_share_value(U, R, s)
<1>1. CASE s = 0
  BY <1>1 DEF mining_share_value
<1>2. CASE s > 0
  <2>1. w = (U * s) \div R /\ R \in Nat \ {0} /\ S \in Nat \ {0}
    BY <1>2 DEF mining_share_value
  <2>2. v \in Nat /\ S * v <= T * s
    BY ValueBounds DEF PartOf
  <2> HIDE DEF v
  <2>3. S * (v * R) <= S * (U * s)
    <3>1. S * v \in Nat /\ T * s \in Nat /\ T * R \in Nat /\ U * S \in Nat
      BY <2>2, ProductMonotone
    <3>2. (S * v) * R <= (T * s) * R
      BY <2>2, <3>1, ProductMonotone
    <3>3. (T * R) * s <= (U * S) * s
      BY <3>1, ProductMonotone DEF Backs
    <3>4. /\ (S * v) * R = S * (v * R) /\ (T * s) * R = (T * R) * s
          /\ (U * S) * s = S * (U * s)
      BY <2>2
    <3>5. (S * v) * R \in Nat /\ (T * R) * s \in Nat /\ (U * S) * s \in Nat
      BY <3>1, ProductMonotone
    <3> QED BY <3>2, <3>3, <3>4, <3>5
  <2>4. v * R \in Nat /\ U * s \in Nat
    BY <2>2, ProductMonotone
  <2>5. v * R <= U * s
    BY <2>1, <2>3, <2>4, ProductCancels
  <2> DEFINE a == U * s
  <2> HIDE DEF a
  <2>6. a \in Nat /\ v * R <= a
    BY <2>4, <2>5 DEF a
  <2>7. a \div R \in Nat /\ a < R * (a \div R) + R
    BY <2>1, <2>6, DivBounds
  <2> DEFINE q == a \div R
  <2> HIDE DEF q
  <2>8. q \in Nat /\ R * v < R * (q + 1)
    <3>1. q \in Nat /\ a < R * q + R
      BY <2>7 DEF q
    <3>2. R * (q + 1) = R * q + R /\ v * R = R * v /\ R * v \in Nat /\ R * q \in Nat
      BY <2>2, <3>1
    <3> QED BY <2>6, <3>1, <3>2
  <2>9. v <= q
    <3>1. ASSUME q + 1 <= v PROVE FALSE
      <4>1. R * (q + 1) <= R * v
        BY <2>2, <2>8, <3>1, ProductMonotone
      <4>2. R * (q + 1) \in Int /\ R * v \in Int
        BY <2>2, <2>8
      <4> QED BY <2>8, <4>1, <4>2
    <3> QED BY <2>2, <2>8, <3>1
  <2> QED BY <2>1, <2>9 DEF q, a, v
<1> QED BY <1>1, <1>2

LEMMA BacksTransitive ==
    ASSUME NEW T \in Nat, NEW S \in Nat, NEW U \in Nat, NEW R \in Nat \ {0},
           NEW V \in Nat, NEW Q \in Nat, Backs(T, S, U, R), Backs(U, R, V, Q)
    PROVE  Backs(T, S, V, Q)
<1>1. T * R \in Nat /\ U * S \in Nat /\ U * Q \in Nat /\ V * R \in Nat
      /\ T * Q \in Nat /\ V * S \in Nat
  BY ProductMonotone
<1>2. (T * R) * Q <= (U * S) * Q
  BY <1>1, ProductMonotone DEF Backs
<1>3. (U * Q) * S <= (V * R) * S
  BY <1>1, ProductMonotone DEF Backs
<1>4. /\ (T * R) * Q = R * (T * Q) /\ (U * S) * Q = (U * Q) * S
      /\ (V * R) * S = R * (V * S)
  OBVIOUS
<1>5. (T * R) * Q \in Nat /\ (U * Q) * S \in Nat /\ (V * R) * S \in Nat
  BY <1>1, ProductMonotone
<1>6. R * (T * Q) <= R * (V * S)
  BY <1>2, <1>3, <1>4, <1>5
<1> QED BY <1>1, <1>6, ProductCancels DEF Backs

-----------------------------------------------------------------------------
(* A credit of a to a pool of T units and S shares.                        *)

\* The issued shares are worth at most a, and one share more would be worth
\* more than a; so the shares there were lose nothing.
LEMMA CreditShares ==
    ASSUME MiningPoolAssumption, NEW T \in Nat, NEW S \in Nat, NEW a \in Nat, (S = 0) = (T = 0)
    PROVE  LET x == mining_shares_for_credit(T, S, a) IN
           /\ x \in Nat /\ (x > 0 => a > 0)
           /\ S = 0 => x = a * MINING_SHARE_SCALE
           /\ T * x <= a * S
           /\ S > 0 => a * S < T * x + T
           /\ Backs(T, S, T + a, S + x)
<1> DEFINE x == mining_shares_for_credit(T, S, a)
<1>1. CASE S = 0
  <2>1. x = a * MINING_SHARE_SCALE /\ T = 0
    BY <1>1 DEF mining_shares_for_credit
  <2>2. x \in Nat /\ (a = 0 => x = 0)
    BY <2>1 DEF MiningPoolAssumption
  <2> HIDE DEF x
  <2>3. T * x <= a * S /\ Backs(T, S, T + a, S + x)
    BY <1>1, <2>1, <2>2 DEF Backs
  <2> QED BY <1>1, <2>1, <2>2, <2>3 DEF x
<1>2. CASE S > 0
  <2> DEFINE b == a * S
  <2>1. x = b \div T /\ T \in Nat \ {0}
    BY <1>2 DEF mining_shares_for_credit
  <2>2. b \in Nat /\ (a = 0 => b = 0)
    BY ProductMonotone
  <2> HIDE DEF x, b
  <2>3. x \in Nat /\ T * x <= b /\ b < T * x + T
    BY <2>1, <2>2, DivBounds
  <2>4. x > 0 => a > 0
    <3>1. ASSUME x > 0, a = 0 PROVE FALSE
      <4>1. T * x >= 1
        BY <2>1, <2>3, <3>1
      <4> QED BY <2>2, <2>3, <3>1, <4>1
    <3> QED BY <3>1
  <2>5. Backs(T, S, T + a, S + x)
    <3>1. T * (S + x) = T * S + T * x /\ (T + a) * S = T * S + a * S
      BY <2>3
    <3>2. T * S \in Nat /\ T * x \in Nat /\ a * S \in Nat
      BY <2>3, ProductMonotone
    <3>3. T * x <= a * S
      BY <2>3 DEF b
    <3> QED BY <3>1, <3>2, <3>3 DEF Backs
  <2> QED BY <1>2, <2>3, <2>4, <2>5 DEF x, b
<1> QED BY <1>1, <1>2

\* To a holder of s shares the credit is worth at most a, and at least a - 1
\* while there are as many shares as units.
LEMMA CreditValue ==
    ASSUME MiningPoolAssumption, NEW T \in Nat, NEW S \in Nat, NEW a \in Nat, (S = 0) = (T = 0),
           NEW s \in Nat, s <= S,
           mining_shares_for_credit(T, S, a) > 0
    PROVE  LET x == mining_shares_for_credit(T, S, a)
               v == mining_share_value(T, S, s)
               w == mining_share_value(T + a, S + x, s + x)
           IN /\ v \in Nat /\ w \in Nat /\ w <= v + a /\ v <= w
              /\ S >= T => w >= v + a - 1
<1> DEFINE x == mining_shares_for_credit(T, S, a)
           v == mining_share_value(T, S, s)
           W == T + a
           R == S + x
           w == mining_share_value(W, R, s + x)
<1>1. /\ x \in Nat /\ x > 0 /\ a > 0 /\ T * x <= a * S
      /\ (S > 0 => a * S < T * x + T) /\ Backs(T, S, W, R)
  BY CreditShares
<1> HIDE DEF x
<1>2. W \in Nat \ {0} /\ R \in Nat \ {0} /\ s + x \in Nat /\ s + x > 0 /\ s + x <= R
  BY <1>1
<1>3. v \in Nat /\ S * v <= T * s /\ (s > 0 => T * s < S * v + S) /\ (s = 0 => v = 0)
  <2>1. PartOf(T, S, s, v)
    BY ValueBounds
  <2> HIDE DEF v
  <2> QED BY <2>1 DEF PartOf
<1>4. /\ w \in Nat /\ R * w <= W * (s + x) /\ W * (s + x) < R * w + R
      /\ (s + x = R => w = W)
  <2> HIDE DEF W, R
  <2>1. PartOf(W, R, s + x, w)
    BY <1>2, ValueBounds
  <2> HIDE DEF w
  <2> QED BY <1>2, <2>1 DEF PartOf
<1>5. v <= w
  <2>1. v <= mining_share_value(W, R, s)
    <3>1. s <= R
      BY <1>1
    <3> HIDE DEF W, R
    <3> QED BY <1>1, <1>2, <3>1, ValueMonotone
  <2>2. mining_share_value(W, R, s) <= w
    <3>1. s <= s + x
      BY <1>1
    <3> DEFINE t == s + x
    <3>2. W * s \in Nat /\ W * t \in Nat /\ W * s <= W * t
      BY <1>2, <3>1, ProductMonotone
    <3> DEFINE A == W * s  B == W * t
    <3> HIDE DEF W, R, A, B
    <3>3. A \div R <= B \div R /\ A \div R \in Nat /\ B \div R \in Nat
      BY <1>2, <3>2, DivMonotone, DivBounds DEF A, B
    <3>4. w = B \div R
      BY <1>2 DEF mining_share_value, B
    <3>5. mining_share_value(W, R, s) = IF s = 0 THEN 0 ELSE A \div R
      BY DEF mining_share_value, A
    <3> QED BY <3>3, <3>4, <3>5
  <2>3. mining_share_value(W, R, s) \in Nat
    <3>1. s <= R
      BY <1>1
    <3> HIDE DEF W, R
    <3> QED BY <1>2, <3>1, ValueBounds DEF PartOf
  <2> HIDE DEF v, w, W, R
  <2> QED BY <1>3, <1>4, <2>1, <2>2, <2>3
<1> HIDE DEF v, w
<1>6. CASE S = 0
  <2>1. s + x = R /\ s = 0 /\ T = 0
    BY <1>1, <1>6
  <2>2. w = a /\ v = 0
    BY <1>3, <1>4, <2>1
  <2> QED BY <1>5, <2>2 DEF x, v, w
<1>7. CASE S > 0
  <2>1. T * s < S * v + S
    <3>1. CASE s = 0
      <4>1. T * s = 0 /\ S * v = 0
        BY <1>3, <3>1
      <4> QED BY <1>7, <4>1
    <3> QED BY <1>3, <3>1
  <2> DEFINE d == S - s
  <2>2. d \in Nat /\ d <= S
    OBVIOUS
  <2>3. /\ S * v \in Nat /\ T * s \in Nat /\ a * S \in Nat /\ T * x \in Nat
        /\ T * R \in Nat /\ W * S \in Nat /\ T * d \in Nat /\ S * a \in Nat /\ T * S \in Nat
    BY <1>1, <1>2, <1>3, <2>2, ProductMonotone
  <2>4. W * S - T * d = S * a + T * s
    <3>1. (T + a) * S = T * S + S * a /\ T * (S - s) = T * S - T * s
      OBVIOUS
    <3> QED BY <2>3, <3>1
  <2>5. S * (W * (s + x)) = R * (W * S) - (W * S) * d
    <3>1. s + x = R - d
      BY <1>1
    <3>2. \A e, f, g, h \in Int : e * (f * (g - h)) = g * (f * e) - (f * e) * h
      OBVIOUS
    <3>3. W \in Int /\ R \in Int /\ d \in Int
      BY <1>2, <2>2
    <3> HIDE DEF W, R, d
    <3> QED BY <3>1, <3>2, <3>3
  <2>6. (W * S) * d >= (T * R) * d
    BY <1>1, <2>2, <2>3, ProductMonotone DEF Backs
  <2>7. w <= v + a
    <3>1. ASSUME v + a + 1 <= w PROVE FALSE
      <4>1. S * (R * (v + a + 1)) <= S * (W * (s + x))
        <5>1. R * (v + a + 1) <= R * w /\ R * (v + a + 1) \in Nat /\ R * w \in Nat
          BY <1>2, <1>3, <1>4, <3>1, ProductMonotone
        <5>2. W * (s + x) \in Nat
          BY <1>2, ProductMonotone
        <5>3. R * (v + a + 1) <= W * (s + x)
          BY <1>4, <5>1, <5>2
        <5> QED BY <5>1, <5>2, <5>3, ProductMonotone
      <4>2. R * (S * (v + a + 1)) <= R * (W * S - T * d)
        <5>1. R * (S * (v + a + 1)) = S * (R * (v + a + 1))
          BY <1>2, <1>3
        <5>2. R * (W * S - T * d) = R * (W * S) - (T * R) * d
          BY <1>2, <2>2
        <5>3. /\ R * (W * S) \in Int /\ (T * R) * d \in Int /\ (W * S) * d \in Int
              /\ S * (R * (v + a + 1)) \in Int
          BY <1>2, <1>3, <2>2, <2>3
        <5> HIDE DEF W, R, d
        <5> QED BY <2>5, <2>6, <4>1, <5>1, <5>2, <5>3
      <4>3. S * (v + a + 1) \in Nat /\ S * (v + a + 1) = S * v + S * a + S
        BY <1>3
      <4>4. S * a + T * s \in Nat
        BY <2>3
      <4>5. S * (v + a + 1) <= S * a + T * s
        <5> HIDE DEF W, R, d
        <5> QED BY <1>2, <2>4, <4>2, <4>3, <4>4, ProductCancels
      <4> QED BY <2>1, <2>3, <4>3, <4>5
    <3> QED BY <1>3, <1>4, <3>1
  <2>8. ASSUME S >= T PROVE w >= v + a - 1
    <3>1. ASSUME w + 2 <= v + a PROVE FALSE
      <4> DEFINE k == v + a - 1
      <4>1. k \in Nat /\ w + 1 <= k
        BY <1>3, <1>4, <3>1
      <4>2. R * w + R <= R * k /\ R * k \in Nat /\ R * w \in Nat
        <5>1. R * (w + 1) = R * w + R
          BY <1>2, <1>4
        <5> QED BY <1>2, <1>4, <4>1, <5>1, ProductMonotone
      <4> HIDE DEF k
      <4>3. S * (W * (s + x)) + S <= S * (R * k)
        <5>1. W * (s + x) \in Nat
          BY <1>2, ProductMonotone
        <5>2. W * (s + x) + 1 <= R * k
          BY <1>2, <1>4, <4>2, <5>1
        <5>3. S * (W * (s + x) + 1) <= S * (R * k)
          BY <4>2, <5>1, <5>2, ProductMonotone
        <5>4. S * (W * (s + x) + 1) = S * (W * (s + x)) + S
          BY <5>1
        <5> QED BY <5>3, <5>4
      <4>4. (W * S) * d <= (T * R) * d + S * R
        <5>1. W * S <= T * R + T
          <6>1. (T + a) * S = T * S + a * S /\ T * (S + x) = T * S + T * x
            BY <1>1
          <6> QED BY <1>1, <1>7, <2>3, <6>1
        <5>2. (W * S) * d <= (T * R + T) * d
          BY <2>2, <2>3, <5>1, ProductMonotone
        <5>3. (T * R + T) * d = (T * R) * d + T * d
          BY <1>2, <2>2, <2>3
        <5>4. T * d <= S * R /\ S * R \in Nat
          BY <1>1, <1>2, <2>2, <2>8, ProductMonotone
        <5>5. (T * R) * d \in Nat /\ (W * S) * d \in Nat
          BY <2>2, <2>3, ProductMonotone
        <5> QED BY <2>3, <5>2, <5>3, <5>4, <5>5
      <4>5. R * (W * S - T * d) + S <= R * (S * k + S)
        <5>1. /\ R * (W * S - T * d) = R * (W * S) - (T * R) * d
              /\ R * (S * k + S) = S * (R * k) + S * R
          BY <1>2, <2>2, <4>1
        <5>2. /\ R * (W * S) \in Int /\ (T * R) * d \in Int /\ (W * S) * d \in Int
              /\ S * (R * k) \in Int /\ S * R \in Int
          BY <1>2, <2>2, <2>3, <4>1
        <5> HIDE DEF W, R, d
        <5> QED BY <2>5, <4>3, <4>4, <5>1, <5>2
      <4>6. S * k + S \in Nat /\ S * k + S = S * v + S * a
        BY <1>3, <4>1 DEF k
      <4>7. R * (S * v + S * a) <= R * (S * a + T * s)
        <5>1. /\ S * v + S * a \in Nat /\ S * a + T * s \in Nat
              /\ S * v + S * a <= S * a + T * s
          BY <1>3, <2>3
        <5> QED BY <1>2, <5>1, ProductMonotone
      <4>8. R * (S * a + T * s) + S <= R * (S * v + S * a)
        BY <2>4, <4>5, <4>6
      <4>9. R * (S * a + T * s) \in Int /\ R * (S * v + S * a) \in Int
        BY <1>2, <1>3, <2>3
      <4> HIDE DEF R
      <4> QED BY <1>7, <4>7, <4>8, <4>9
    <3> QED BY <1>3, <1>4, <3>1
  <2> QED BY <1>5, <2>7, <2>8, <1>3, <1>4 DEF x, v, w
<1> QED BY <1>6, <1>7

-----------------------------------------------------------------------------
(* The books of the pool.                                                  *)

PoolRecord  == [total_unclaimed : Nat, shares : Nat, undistributed : Nat]
MinerRecord == [registered : BOOLEAN, referrer : Miners \cup {NoReferrer},
                basis : Nat, shares : Nat]

SharesIn(ms) == SumOver([m \in Miners |-> ms[m].shares])

\* The shares are the miners', a pool without shares owes nothing and one that
\* owes nothing has no shares, and no basis exceeds the value of its shares.
Books(p, ms) ==
    /\ p \in PoolRecord /\ ms \in [Miners -> MinerRecord]
    /\ p.shares = SharesIn(ms)
    /\ p.shares = 0 <=> p.total_unclaimed = 0
    /\ \A m \in Miners : ms[m].basis <= ValueIn(p, ms[m])

LEMMA SumOverIsSumOf == \A f : SumOver(f) = SumOf(f, Miners)
BY DEF SumOver, SumOf

LEMMA SharesReplaced ==
    ASSUME MiningPoolAssumption, NEW ms \in [Miners -> MinerRecord],
           NEW m \in Miners, NEW r \in MinerRecord
    PROVE  /\ SharesIn([ms EXCEPT ![m] = r]) = SharesIn(ms) - ms[m].shares + r.shares
           /\ SharesIn(ms) \in Nat /\ ms[m].shares <= SharesIn(ms)
<1> DEFINE f == [n \in Miners |-> ms[n].shares]
           ns == [ms EXCEPT ![m] = r]
           g == [n \in Miners |-> ns[n].shares]
<1>1. IsFiniteSet(Miners)
  BY DEF MiningPoolAssumption
<1>2. \A n \in Miners : f[n] \in Nat
  BY DEF MinerRecord
<1>3. /\ g[m] = r.shares /\ g[m] \in Nat /\ \A n \in Miners \ {m} : g[n] = f[n]
      /\ f[m] = ms[m].shares
  BY DEF MinerRecord
<1>4. SharesIn(ms) = SumOf(f, Miners) /\ SharesIn(ns) = SumOf(g, Miners)
  BY SumOverIsSumOf DEF SharesIn
<1> HIDE DEF f, g, ns
<1>5. \A n \in Miners \ {m} : g[n] = f[n]
  BY <1>3
<1>6. g[m] \in Nat
  BY <1>3
<1>7. SumOf(g, Miners) = SumOf(f, Miners) - f[m] + g[m]
  BY <1>1, <1>2, <1>5, <1>6, SumChange
<1>8. SumOf(f, Miners) \in Nat
  BY <1>1, <1>2, SumType
<1>9. f[m] <= SumOf(f, Miners)
  BY <1>1, <1>2, SumElement
<1> QED BY <1>3, <1>4, <1>7, <1>8, <1>9 DEF ns

\* What the books say of one miner.
LEMMA BooksOfMiner ==
    ASSUME MiningPoolAssumption, NEW p, NEW ms, Books(p, ms), NEW m \in Miners
    PROVE  /\ p.total_unclaimed \in Nat /\ p.shares \in Nat /\ p.undistributed \in Nat
           /\ ms[m] \in MinerRecord /\ ms[m].shares \in Nat /\ ms[m].basis \in Nat
           /\ ms[m].shares <= p.shares
           /\ PartOf(p.total_unclaimed, p.shares, ms[m].shares, ValueIn(p, ms[m]))
<1>1. p \in PoolRecord /\ ms \in [Miners -> MinerRecord] /\ ms[m] \in MinerRecord
  BY DEF Books
<1>2. /\ p.total_unclaimed \in Nat /\ p.shares \in Nat /\ p.undistributed \in Nat
      /\ ms[m].shares \in Nat /\ ms[m].basis \in Nat
  BY <1>1 DEF PoolRecord, MinerRecord
<1>3. ms[m].shares <= p.shares
  BY <1>1, SharesReplaced DEF Books
<1> QED BY <1>1, <1>2, <1>3, ValueBounds DEF ValueIn

\* From (p, ms) to (q, ns): nobody but m changes, and nobody but m is worth less.
DilutesNobody(p, ms, q, ns, m) ==
    \A n \in Miners \ {m} : ns[n] = ms[n] /\ ValueIn(p, ms[n]) <= ValueIn(q, ns[n])

\* A debit of all of m's shares.
LEMMA DebitBooks ==
    ASSUME MiningPoolAssumption, NEW p, NEW ms, Books(p, ms), NEW m \in Miners,
           ms[m].shares > 0,
           (PoolAfterDebit(p, ms[m]).shares = 0) = (PoolAfterDebit(p, ms[m]).total_unclaimed = 0)
    PROVE  LET q  == PoolAfterDebit(p, ms[m])
               ns == [ms EXCEPT ![m] = AfterDebit(ms[m])]
           IN /\ Books(q, ns) /\ DilutesNobody(p, ms, q, ns, m)
              /\ q.total_unclaimed = p.total_unclaimed - ValueIn(p, ms[m])
              /\ q.undistributed = p.undistributed
<1> DEFINE q  == PoolAfterDebit(p, ms[m])
           r  == AfterDebit(ms[m])
           ns == [ms EXCEPT ![m] = r]
           T == p.total_unclaimed
           S == p.shares
           s == ms[m].shares
           v == ValueIn(p, ms[m])
<1>1. /\ T \in Nat /\ S \in Nat /\ p.undistributed \in Nat /\ ms[m] \in MinerRecord
      /\ s \in Nat /\ s <= S /\ PartOf(T, S, s, v)
  BY BooksOfMiner
<1>2. p \in PoolRecord /\ ms \in [Miners -> MinerRecord] /\ S = SharesIn(ms)
  BY DEF Books
<1>3. v \in Nat /\ v <= T /\ S * v <= T * s
  BY <1>1 DEF PartOf
<1>4. /\ q \in PoolRecord /\ q.total_unclaimed = T - v /\ q.shares = S - s
      /\ q.undistributed = p.undistributed
  <2>1. T - v \in Nat /\ S - s \in Nat
    BY <1>1, <1>3
  <2>2. q = [p EXCEPT !.total_unclaimed = T - v, !.shares = S - s]
    BY DEF PoolAfterDebit
  <2> HIDE DEF q, T, S, s, v
  <2> QED BY <1>2, <2>1, <2>2 DEF PoolRecord
<1>5. r \in MinerRecord /\ r.shares = 0 /\ r.basis = 0
  BY <1>1 DEF AfterDebit, MinerRecord
<1>6. ns \in [Miners -> MinerRecord] /\ ns[m] = r /\ \A n \in Miners \ {m} : ns[n] = ms[n]
  BY <1>2, <1>5
<1>7. q.shares = SharesIn(ns)
  <2>1. SharesIn(ns) = SharesIn(ms) - s + r.shares
    BY <1>2, <1>5, SharesReplaced
  <2> QED BY <1>1, <1>2, <1>4, <1>5, <2>1
<1>8. Backs(T, S, q.total_unclaimed, q.shares)
  <2>1. T * (S - s) = T * S - T * s /\ (T - v) * S = T * S - S * v
    BY <1>1, <1>3
  <2>2. T * S \in Nat /\ T * s \in Nat /\ S * v \in Nat
    BY <1>1, <1>3, ProductMonotone
  <2> HIDE DEF T, S, s, v, q
  <2> QED BY <1>3, <1>4, <2>1, <2>2 DEF Backs
<1>9. ASSUME NEW n \in Miners \ {m} PROVE ValueIn(p, ms[n]) <= ValueIn(q, ms[n])
  <2>1. ms[n].shares \in Nat /\ ms[n].shares <= S
    BY BooksOfMiner
  <2>2. ms[n].shares <= q.shares
    <3>1. ns[n] = ms[n]
      BY <1>6
    <3>2. ns[n].shares <= SharesIn(ns)
      BY <1>5, <1>6, SharesReplaced
    <3> QED BY <1>7, <3>1, <3>2
  <2>3. q.total_unclaimed \in Nat /\ q.shares \in Nat
    BY <1>4 DEF PoolRecord
  <2> HIDE DEF q
  <2> QED BY <1>1, <1>8, <2>1, <2>2, <2>3, ValueMonotone DEF ValueIn
<1>10. ASSUME NEW n \in Miners PROVE ns[n].basis <= ValueIn(q, ns[n])
  <2>1. CASE n = m
    <3>1. ValueIn(q, r) = 0
      BY <1>5 DEF ValueIn, mining_share_value
    <3> QED BY <1>5, <1>6, <2>1, <3>1
  <2>2. CASE n # m
    <3>1. ns[n] = ms[n] /\ ms[n].basis <= ValueIn(p, ms[n]) /\ ValueIn(p, ms[n]) <= ValueIn(q, ms[n])
      BY <1>6, <1>9, <2>2 DEF Books
    <3>2. ValueIn(p, ms[n]) \in Nat /\ ms[n].basis \in Nat
      BY BooksOfMiner DEF PartOf
    <3>3. ValueIn(q, ns[n]) \in Nat
      <4>1. /\ q.total_unclaimed \in Nat /\ q.shares \in Nat /\ ns[n].shares \in Nat
            /\ ns[n].shares <= q.shares
        <5>1. ns[n].shares <= SharesIn(ns)
          BY <1>5, <1>6, SharesReplaced
        <5>2. ns[n] \in MinerRecord
          BY <1>6
        <5> HIDE DEF q, ns
        <5> QED BY <1>4, <1>7, <5>1, <5>2 DEF PoolRecord, MinerRecord
      <4> HIDE DEF q, ns
      <4> QED BY <4>1, ValueBounds DEF ValueIn, PartOf
    <3> HIDE DEF q, ns
    <3> QED BY <3>1, <3>2, <3>3
  <2> QED BY <2>1, <2>2
<1>11. q.shares = 0 <=> q.total_unclaimed = 0
  OBVIOUS
<1>12. Books(q, ns)
  <2> HIDE DEF q, ns
  <2> QED BY <1>4, <1>6, <1>7, <1>10, <1>11 DEF Books
<1>13. DilutesNobody(p, ms, q, ns, m)
  BY <1>6, <1>9 DEF DilutesNobody
<1> QED BY <1>4, <1>12, <1>13

\* A passive fee only raises values; what finds no shares is withheld.
LEMMA DistributionBooks ==
    ASSUME MiningPoolAssumption, NEW p, NEW ms, Books(p, ms), NEW amount \in Nat
    PROVE  LET q == distribute_mining_rewards(p, amount) IN
           /\ Books(q, ms)
           /\ q.total_unclaimed + q.undistributed = p.total_unclaimed + p.undistributed + amount
           /\ p.total_unclaimed <= q.total_unclaimed
           /\ q.total_unclaimed <= p.total_unclaimed + amount /\ q.shares = p.shares
           /\ \A n \in Miners : ValueIn(p, ms[n]) <= ValueIn(q, ms[n])
<1> DEFINE q == distribute_mining_rewards(p, amount)
           T == p.total_unclaimed
           S == p.shares
<1>1. p \in PoolRecord /\ T \in Nat /\ S \in Nat /\ p.undistributed \in Nat
  BY DEF Books, PoolRecord
<1>2. /\ q \in PoolRecord /\ q.shares = S
      /\ q.total_unclaimed = (IF S = 0 THEN T ELSE T + amount)
      /\ q.undistributed = (IF S = 0 THEN p.undistributed + amount ELSE p.undistributed)
  BY <1>1 DEF distribute_mining_rewards, PoolRecord
<1> HIDE DEF q
<1>3. q.total_unclaimed \in Nat /\ T <= q.total_unclaimed
  BY <1>1, <1>2
<1>4. ASSUME NEW n \in Miners PROVE ValueIn(p, ms[n]) <= ValueIn(q, ms[n])
  <2>1. ms[n].shares \in Nat /\ ms[n].shares <= S
    BY BooksOfMiner
  <2>2. Backs(T, S, q.total_unclaimed, q.shares)
    BY <1>1, <1>2, <1>3, ProductMonotone DEF Backs
  <2> HIDE DEF T, S
  <2>3. mining_share_value(T, S, ms[n].shares)
           <= mining_share_value(q.total_unclaimed, q.shares, ms[n].shares)
    BY <1>1, <1>2, <1>3, <2>1, <2>2, ValueMonotone
  <2> QED BY <2>3 DEF ValueIn, T, S
<1>5. ASSUME NEW n \in Miners PROVE ms[n].basis <= ValueIn(q, ms[n])
  <2>1. /\ ms[n].basis \in Nat /\ ValueIn(p, ms[n]) \in Nat /\ ms[n].basis <= ValueIn(p, ms[n])
        /\ ms[n].shares \in Nat /\ ms[n].shares <= q.shares
    BY <1>2, BooksOfMiner DEF PartOf, Books
  <2>2. ValueIn(q, ms[n]) \in Nat
    BY <1>1, <1>2, <1>3, <2>1, ValueBounds DEF ValueIn, PartOf
  <2> QED BY <1>4, <2>1, <2>2
<1>6. q.shares = 0 <=> q.total_unclaimed = 0
  BY <1>1, <1>2 DEF Books
<1>7. Books(q, ms)
  BY <1>2, <1>5, <1>6 DEF Books
<1> QED BY <1>1, <1>2, <1>3, <1>4, <1>7 DEF q

\* A credit accepted by the pool.
LEMMA CreditBooks ==
    ASSUME MiningPoolAssumption, NEW p, NEW ms, Books(p, ms), NEW m \in Miners,
           NEW amount \in Nat, CreditAccepted(p, amount)
    PROVE  LET c  == credit_mining_rewards(p, ms[m], amount)
               ns == [ms EXCEPT ![m] = c.miner]
               before == ValueIn(p, ms[m])
               after  == ValueIn(c.pool, c.miner)
           IN /\ Books(c.pool, ns) /\ DilutesNobody(p, ms, c.pool, ns, m)
              /\ c.miner \in MinerRecord
              /\ c.miner.registered = ms[m].registered /\ c.miner.referrer = ms[m].referrer
              /\ ms[m].shares <= c.miner.shares
              /\ c.pool.total_unclaimed = p.total_unclaimed + amount
              /\ c.pool.total_unclaimed <= U64Max
              /\ c.pool.undistributed = p.undistributed
              /\ before \in Nat /\ after \in Nat /\ before <= after
              /\ amount > 0 => after <= before + amount /\ c.miner.shares > 0
              /\ amount > 0 /\ p.shares >= p.total_unclaimed => after >= before + amount - 1
<1> DEFINE c  == credit_mining_rewards(p, ms[m], amount)
           ns == [ms EXCEPT ![m] = c.miner]
           T == p.total_unclaimed
           S == p.shares
           s == ms[m].shares
           x == mining_shares_for_credit(T, S, amount)
           before == ValueIn(p, ms[m])
           after  == mining_share_value(T + amount, S + x, s + x)
           old == IF s = 0 THEN 0 ELSE ms[m].basis
           basis == old + after - before
<1>1. /\ T \in Nat /\ S \in Nat /\ p.undistributed \in Nat /\ ms[m] \in MinerRecord
      /\ s \in Nat /\ s <= S /\ ms[m].basis \in Nat /\ PartOf(T, S, s, before)
  BY BooksOfMiner
<1>2. /\ p \in PoolRecord /\ ms \in [Miners -> MinerRecord] /\ S = SharesIn(ms)
      /\ (S = 0) = (T = 0) /\ ms[m].basis <= before
  BY DEF Books
<1>3. before \in Nat /\ (s = 0 => before = 0)
  BY <1>1 DEF PartOf
<1>4. T + amount <= U64Max /\ (amount > 0 => x > 0)
  BY DEF CreditAccepted
<1>5. x \in Nat /\ (x > 0 => amount > 0) /\ Backs(T, S, T + amount, S + x)
      /\ (S = 0 => x = amount * MINING_SHARE_SCALE)
  <2> HIDE DEF T, S
  <2> QED BY <1>1, <1>2, CreditShares, ZenonT(60)
<1>6. /\ after \in Nat /\ before <= after
      /\ (amount > 0 => after <= before + amount)
      /\ (amount > 0 /\ S >= T => after >= before + amount - 1)
  <2>1. CASE amount > 0
    <3>1. x > 0 /\ before = mining_share_value(T, S, s)
      BY <1>4, <2>1 DEF ValueIn
    <3> HIDE DEF T, S, s, before
    <3>2. LET v == mining_share_value(T, S, s) IN
          /\ v \in Nat /\ after \in Nat /\ after <= v + amount /\ v <= after
          /\ S >= T => after >= v + amount - 1
      BY <1>1, <1>2, <3>1, CreditValue
    <3> QED BY <3>1, <3>2
  <2>2. CASE amount = 0
    <3>1. x = 0 /\ T + amount = T /\ S + x = S /\ s + x = s
      BY <1>1, <1>5, <2>2
    <3>2. after = before
      <4> HIDE DEF T, S, s, x
      <4>1. after = mining_share_value(T, S, s)
        BY <3>1
      <4> QED BY <4>1 DEF ValueIn, T, S, s
    <3> QED BY <1>3, <2>2, <3>2
  <2> QED BY <2>1, <2>2
<1>7. basis \in Nat /\ basis <= after
  <2>1. old \in Nat /\ old <= before
    BY <1>1, <1>2, <1>3
  <2> HIDE DEF old, before, after
  <2> QED BY <1>3, <1>6, <2>1
<1>8. /\ c.pool = [p EXCEPT !.total_unclaimed = T + amount, !.shares = S + x]
      /\ c.miner = [ms[m] EXCEPT !.shares = s + x, !.basis = basis]
  <2> DEFINE bare == WithShares(p, ms[m], amount, 0)
  <2>1. /\ bare.pool = [p EXCEPT !.total_unclaimed = T + amount, !.shares = S + x]
        /\ bare.miner = [ms[m] EXCEPT !.shares = s + x, !.basis = 0]
    BY DEF WithShares
  <2>2. /\ bare.pool.total_unclaimed = T + amount /\ bare.pool.shares = S + x
        /\ bare.miner.shares = s + x
    <3> HIDE DEF bare, T, S, s, x
    <3> QED BY <1>1, <1>2, <2>1 DEF PoolRecord, MinerRecord
  <2>3. ValueIn(bare.pool, bare.miner) = after
    <3> HIDE DEF bare, T, S, s, x
    <3> QED BY <2>2 DEF ValueIn
  <2>4. c = WithShares(p, ms[m], amount, old + ValueIn(bare.pool, bare.miner) - before)
    BY DEF credit_mining_rewards
  <2>5. c = WithShares(p, ms[m], amount, basis)
    <3> HIDE DEF bare, after, old, before, c
    <3> QED BY <2>3, <2>4
  <2> HIDE DEF bare, after, old, before, c, basis
  <2> QED BY <2>5 DEF WithShares
<1> HIDE DEF c, x, basis, after, before
<1>9. /\ c.pool \in PoolRecord /\ c.pool.total_unclaimed = T + amount /\ c.pool.shares = S + x
      /\ c.pool.undistributed = p.undistributed
  <2>1. T + amount \in Nat /\ S + x \in Nat
    BY <1>1, <1>5
  <2> HIDE DEF T, S
  <2> QED BY <1>2, <1>8, <2>1 DEF PoolRecord
<1>10. /\ c.miner \in MinerRecord /\ c.miner.shares = s + x /\ c.miner.basis = basis
       /\ c.miner.registered = ms[m].registered /\ c.miner.referrer = ms[m].referrer
  <2>1. s + x \in Nat
    BY <1>1, <1>5
  <2> HIDE DEF s
  <2> QED BY <1>1, <1>7, <1>8, <2>1 DEF MinerRecord
<1>11. ValueIn(c.pool, c.miner) = after
  BY <1>9, <1>10 DEF ValueIn, after
<1>12. ns \in [Miners -> MinerRecord] /\ ns[m] = c.miner /\ \A n \in Miners \ {m} : ns[n] = ms[n]
  BY <1>2, <1>10
<1>13. c.pool.shares = SharesIn(ns)
  <2>1. SharesIn(ns) = SharesIn(ms) - s + c.miner.shares
    BY <1>2, <1>10, SharesReplaced
  <2> QED BY <1>1, <1>2, <1>5, <1>9, <1>10, <2>1
<1>14. ASSUME NEW n \in Miners \ {m} PROVE ValueIn(p, ms[n]) <= ValueIn(c.pool, ms[n])
  <2>1. ms[n].shares \in Nat /\ ms[n].shares <= S
    BY BooksOfMiner
  <2>2. ms[n].shares <= S + x /\ T + amount \in Nat /\ S + x \in Nat
    BY <1>1, <1>5, <2>1
  <2>3. mining_share_value(T, S, ms[n].shares) <= mining_share_value(T + amount, S + x, ms[n].shares)
    <3> HIDE DEF T, S
    <3> QED BY <1>1, <1>5, <2>1, <2>2, ValueMonotone
  <2> QED BY <1>9, <2>3 DEF ValueIn
<1>15. ASSUME NEW n \in Miners PROVE ns[n].basis <= ValueIn(c.pool, ns[n])
  <2>1. CASE n = m
    BY <1>7, <1>10, <1>11, <1>12, <2>1
  <2>2. CASE n # m
    <3>1. ns[n] = ms[n] /\ ms[n].basis <= ValueIn(p, ms[n])
          /\ ValueIn(p, ms[n]) <= ValueIn(c.pool, ms[n])
      BY <1>12, <1>14, <2>2 DEF Books
    <3>2. /\ ValueIn(p, ms[n]) \in Nat /\ ms[n].basis \in Nat
          /\ ms[n].shares \in Nat /\ ms[n].shares <= S
      BY BooksOfMiner DEF PartOf
    <3>3. ms[n].shares <= S + x /\ T + amount \in Nat /\ S + x \in Nat
      BY <1>1, <1>5, <3>2
    <3>4. ValueIn(c.pool, ms[n]) \in Nat
      <4> HIDE DEF T, S
      <4> QED BY <1>9, <3>2, <3>3, ValueBounds DEF ValueIn, PartOf
    <3> HIDE DEF ns
    <3> QED BY <3>1, <3>2, <3>4
  <2> QED BY <2>1, <2>2
<1>16. c.pool.shares = 0 <=> c.pool.total_unclaimed = 0
  <2>1. amount = 0 => x = 0
    BY <1>5
  <2> QED BY <1>1, <1>2, <1>4, <1>5, <1>9, <2>1
<1>17. Books(c.pool, ns)
  <2> HIDE DEF ns
  <2> QED BY <1>9, <1>12, <1>13, <1>15, <1>16 DEF Books
<1>18. DilutesNobody(p, ms, c.pool, ns, m)
  BY <1>12, <1>14 DEF DilutesNobody
<1>19. (amount > 0 => c.miner.shares > 0) /\ s <= c.miner.shares
  BY <1>1, <1>4, <1>5, <1>10
<1> QED BY <1>3, <1>4, <1>6, <1>9, <1>10, <1>11, <1>17, <1>18, <1>19 DEF c, before

-----------------------------------------------------------------------------
(* The invariant.                                                          *)

\* A miner that never registered has no shares, and nobody names one as its
\* referrer.
RegisteredFirst ==
    \A m \in Miners :
        /\ ~miner[m].registered => miner[m].shares = 0
        /\ miner[m].referrer \in Miners => miner[miner[m].referrer].registered

MiningInv ==
    /\ Books(pool, miner) /\ pool.total_unclaimed <= U64Max
    /\ paused \in BOOLEAN /\ minted \in Nat /\ burned \in Nat /\ credited \in 0 .. MaxEmission
    /\ MyneAccounted /\ ReferralsAcyclic /\ RegisteredFirst

ValueSum == SumOver([m \in Miners |-> Value(m)])
Holders  == {m \in Miners : miner[m].shares > 0}

\* Rounding down, the values together stay below the assets by less than one
\* unit for each holder.
LEMMA ValuesFillPool ==
    ASSUME MiningPoolAssumption, Books(pool, miner)
    PROVE  /\ ValueSum <= pool.total_unclaimed
           /\ pool.total_unclaimed < ValueSum + Cardinality(Holders) \/ Holders = {}
<1> DEFINE T == pool.total_unclaimed
           S == pool.shares
           v == [m \in Miners |-> Value(m)]
           s == [m \in Miners |-> miner[m].shares]
           one == [m \in Miners |-> IF m \in Holders THEN 1 ELSE 0]
           Sv == [m \in Miners |-> S * v[m]]
           Ts == [m \in Miners |-> T * s[m]]
           Tt == [m \in Miners |-> Ts[m] + 1 * one[m]]
           Sw == [m \in Miners |-> Sv[m] + S * one[m]]
           zero == [m \in Miners |-> 0]
<1>1. IsFiniteSet(Miners) /\ T \in Nat /\ S \in Nat
  BY DEF MiningPoolAssumption, Books, PoolRecord
<1>2. ASSUME NEW m \in Miners
      PROVE  /\ v[m] \in Nat /\ s[m] \in Nat /\ s[m] <= S /\ S * v[m] <= T * s[m]
             /\ s[m] > 0 => T * s[m] < S * v[m] + S
             /\ s[m] = 0 => v[m] = 0
             /\ one[m] = IF s[m] > 0 THEN 1 ELSE 0
  <2>1. /\ miner[m].shares \in Nat /\ miner[m].shares <= S
        /\ PartOf(T, S, miner[m].shares, Value(m))
    BY BooksOfMiner DEF Value
  <2>2. v[m] = Value(m) /\ s[m] = miner[m].shares /\ (m \in Holders <=> s[m] > 0)
    BY DEF Holders
  <2> HIDE DEF v, s, T, S
  <2> QED BY <2>1, <2>2 DEF PartOf
<1> HIDE DEF v, s, T, S
<1>3. ASSUME NEW m \in Miners
      PROVE  /\ Sv[m] \in Nat /\ Ts[m] \in Nat /\ Tt[m] \in Nat /\ Sw[m] \in Nat
             /\ Sv[m] <= Ts[m] /\ Tt[m] <= Sw[m] /\ one[m] \in Nat
             /\ zero[m] = 0
             /\ Sv[m] = zero[m] + S * v[m] /\ Ts[m] = zero[m] + T * s[m]
  <2>1. S * v[m] \in Nat /\ T * s[m] \in Nat
    <3>1. \A a, b \in Nat : a * b \in Nat
      BY ProductMonotone
    <3> QED BY <1>1, <1>2, <3>1
  <2>2. CASE s[m] = 0
    <3>1. T * s[m] = 0 /\ S * v[m] = 0
      BY <1>1, <1>2, <2>2
    <3>2. one[m] = 0
      BY <1>2, <2>2
    <3> QED BY <1>1, <3>1, <3>2
  <2>3. CASE s[m] > 0
    <3>1. one[m] = 1 /\ T * s[m] + 1 <= S * v[m] + S
      BY <1>1, <1>2, <2>1, <2>3
    <3>2. S * one[m] = S /\ 1 * one[m] = 1
      BY <1>1, <3>1
    <3> QED BY <1>1, <1>2, <2>1, <3>1, <3>2
  <2> QED BY <1>2, <2>2, <2>3
<1> DEFINE SumV == SumOf(v, Miners)
           SumS == SumOf(s, Miners)
           H == Cardinality(Holders)
<1>4. SumOf(zero, Miners) = 0
  <2>1. Miners \cap {} = {}
    OBVIOUS
  <2>2. SumOf(zero, Miners) = Cardinality(Miners \cap {})
    BY <1>1, SumOfOnes
  <2> QED BY <2>1, <2>2, FS_EmptySet
<1>5. SumOf(one, Miners) = H
  <2>1. \A m \in Miners : one[m] = IF m \in Holders THEN 1 ELSE 0
    OBVIOUS
  <2> HIDE DEF one
  <2>2. SumOf(one, Miners) = Cardinality(Miners \cap Holders)
    BY <1>1, <2>1, SumOfOnes
  <2>3. Miners \cap Holders = Holders
    BY DEF Holders
  <2> QED BY <2>2, <2>3
<1> HIDE DEF Sv, Ts, zero
<1>6. ASSUME NEW m \in Miners PROVE Tt[m] = Ts[m] + 1 * one[m] /\ Sw[m] = Sv[m] + S * one[m]
  OBVIOUS
<1> HIDE DEF Tt, Sw, one
<1>7. SumOf(Sv, Miners) = SumOf(zero, Miners) + S * SumOf(v, Miners)
  BY <1>1, <1>2, <1>3, SumLinear
<1>8. SumOf(Ts, Miners) = SumOf(zero, Miners) + T * SumOf(s, Miners)
  BY <1>1, <1>2, <1>3, SumLinear
<1>9. SumOf(Tt, Miners) = SumOf(Ts, Miners) + 1 * SumOf(one, Miners)
  BY <1>1, <1>3, <1>6, SumLinear
<1>10. SumOf(Sw, Miners) = SumOf(Sv, Miners) + S * SumOf(one, Miners)
  <2>1. \A m \in Miners : Sv[m] \in Nat /\ one[m] \in Nat /\ Sw[m] = Sv[m] + S * one[m]
    BY <1>3, <1>6
  <2>2. IsFiniteSet(Miners) /\ S \in Nat
    BY <1>1
  <2> QED BY <2>1, <2>2, SumLinear
<1>11. SumOf(Sv, Miners) <= SumOf(Ts, Miners)
  BY <1>1, <1>3, SumMonotone
<1>12. SumOf(Tt, Miners) <= SumOf(Sw, Miners)
  BY <1>1, <1>3, SumMonotone
<1>13. SumV \in Nat /\ SumS \in Nat
  <2>1. SumV \in Nat
    BY <1>1, <1>2, SumType
  <2>2. SumS \in Nat
    BY <1>1, <1>2, SumType
  <2> QED BY <2>1, <2>2
<1>14. SumS = S
  BY SumOverIsSumOf DEF Books, SharesIn, s, S
<1>15. ValueSum = SumV
  BY SumOverIsSumOf DEF ValueSum, v
<1>16. H \in Nat /\ (Holders # {} => H > 0)
  <2>1. IsFiniteSet(Holders)
    BY <1>1, FS_Subset DEF Holders
  <2>2. H \in Nat /\ (H = 0 <=> Holders = {})
    BY <2>1, FS_CardinalityType, FS_EmptySet
  <2> QED BY <2>2
<1> HIDE DEF SumV, SumS, H
<1>17. S * SumV <= T * S /\ T * S + H <= S * SumV + S * H
  <2>1. S * SumV \in Nat /\ T * S \in Nat /\ S * H \in Nat
    BY <1>1, <1>13, <1>16, ProductMonotone
  <2> QED BY <1>4, <1>5, <1>7, <1>8, <1>9, <1>10, <1>11, <1>12, <1>14, <1>16, <2>1 DEF SumV, SumS
<1>18. CASE S = 0
  <2>1. Holders = {}
    BY <1>2, <1>18 DEF Holders, s
  <2>2. T = 0
    BY <1>18 DEF Books, S, T
  <2>3. SumV = 0
    <3>1. \A m \in Miners : v[m] = 0
      BY <1>1, <1>2, <1>18
    <3>2. Miners \cap {} = {}
      OBVIOUS
    <3>3. SumV = Cardinality(Miners \cap {})
      BY <1>1, <3>1, SumOfOnes DEF SumV
    <3> QED BY <3>2, <3>3, FS_EmptySet
  <2> QED BY <1>15, <2>1, <2>2, <2>3 DEF T
<1>19. CASE S > 0
  <2>1. SumV <= T
    <3>1. S * SumV <= S * T
      BY <1>1, <1>17
    <3> QED BY <1>1, <1>13, <1>19, <3>1, ProductCancels
  <2>2. ASSUME Holders # {} PROVE T < SumV + H
    <3>1. ASSUME SumV + H <= T PROVE FALSE
      <4>1. S * (SumV + H) <= S * T
        BY <1>1, <1>13, <1>16, <3>1, ProductMonotone
      <4>2. S * (SumV + H) = S * SumV + S * H /\ S * T = T * S
        BY <1>1, <1>13, <1>16
      <4>3. S * SumV \in Nat /\ T * S \in Nat /\ S * H \in Nat
        BY <1>1, <1>13, <1>16, ProductMonotone
      <4> QED BY <1>16, <1>17, <2>2, <4>1, <4>2, <4>3
    <3> QED BY <1>1, <1>13, <1>16, <3>1
  <2> QED BY <1>15, <2>1, <2>2 DEF T, H
<1> QED BY <1>1, <1>18, <1>19

\* The invariant implies what the runs check.
LEMMA InvariantSound ==
    ASSUME MiningPoolAssumption, MiningInv
    PROVE  UnclaimedLedgerSound
<1>1. Books(pool, miner) /\ pool \in PoolRecord /\ miner \in [Miners -> MinerRecord]
  BY DEF MiningInv, Books
<1>2. TypeOK
  <2>1. pool.total_unclaimed \in 0 .. U64Max
    BY <1>1 DEF MiningInv, PoolRecord, MiningPoolAssumption
  <2>2. pool \in [total_unclaimed : 0 .. U64Max, shares : Nat, undistributed : Nat]
    BY <1>1, <2>1 DEF PoolRecord
  <2> QED BY <1>1, <2>2 DEF TypeOK, MiningInv, MinerRecord
<1>3. SharesBackValue
  <2>1. pool.shares = SumOver([m \in Miners |-> miner[m].shares])
    BY <1>1 DEF Books, SharesIn
  <2>2. \A m \in Miners : miner[m].basis <= Value(m)
    BY <1>1 DEF Books, Value
  <2> QED BY <1>1, <2>1, <2>2, ValuesFillPool DEF SharesBackValue, ValueSum, Holders
<1>4. ExitNeverRefused
  <2> SUFFICES ASSUME NEW m \in Miners, miner[m].shares > 0, Value(m) > 0
               PROVE  Debits(m) /\ minted + Value(m) <= MaxEmission
    BY DEF ExitNeverRefused
  <2> DEFINE T == pool.total_unclaimed
             S == pool.shares
             s == miner[m].shares
             v == Value(m)
  <2>1. T \in Nat /\ S \in Nat /\ s \in Nat /\ s <= S /\ PartOf(T, S, s, v)
    BY <1>1, BooksOfMiner DEF Value
  <2>2. v \in Nat /\ v <= T /\ (s = S => v = T) /\ (v = T => s = S) /\ v > 0 /\ s > 0
    <3> HIDE DEF T, S, s, v
    <3>1. v > 0 /\ s > 0
      BY DEF v, s
    <3> QED BY <2>1, <3>1 DEF PartOf
  <2>3. miner[m].registered
    BY <2>2 DEF MiningInv, RegisteredFirst
  <2>4. LET p == PoolAfterDebit(pool, miner[m]) IN p.total_unclaimed = T - v /\ p.shares = S - s
    BY <1>1 DEF PoolAfterDebit, PoolRecord, Value
  <2>5. Debits(m)
    BY <2>1, <2>2, <2>3, <2>4 DEF Debits, Value
  <2>6. minted + v <= MaxEmission
    <3>1. minted \in Nat /\ burned \in Nat /\ credited \in Nat /\ credited <= MaxEmission
          /\ pool.undistributed \in Nat /\ credited = minted + burned + T + pool.undistributed
      BY <1>1 DEF MiningInv, MyneAccounted, MiningPoolAssumption, PoolRecord
    <3> HIDE DEF T, v
    <3> QED BY <2>1, <2>2, <3>1 DEF MiningPoolAssumption
  <2> QED BY <2>5, <2>6
<1> QED BY <1>2, <1>3, <1>4 DEF UnclaimedLedgerSound, MiningInv

\* One step of the temporal properties.
ValuesStep ==
    /\ \A m \in Miners : Value(m)' >= Value(m) \/ miner'[m].shares = 0
    /\ \A m \in Miners :
         pool.shares >= pool.total_unclaimed /\ miner'[m].shares > miner[m].shares
           /\ credited' > credited
         => Value(m)' - Value(m) \in (credited' - credited) - 1 .. credited' - credited
    /\ \A claimant, referrer \in Miners :
         /\ miner[claimant].shares > 0 /\ miner'[claimant].shares = 0
         /\ miner[referrer].shares = 0 /\ miner'[referrer].shares > 0
         => Value(referrer)' <= referral_share(Value(claimant))

LEMMA ValuesPrimed ==
    \A m \in Miners : Value(m) = ValueIn(pool, miner[m]) /\ Value(m)' = ValueIn(pool', miner'[m])
BY DEF Value

\* The referrals stay a forest when nobody's referrer changes.
LEMMA SameReferrers ==
    ASSUME MiningInv, NEW ms \in [Miners -> MinerRecord],
           \A m \in Miners : /\ ms[m].referrer = miner[m].referrer
                             /\ ms[m].registered = miner[m].registered
                             /\ ms[m].registered \/ ms[m].shares = miner[m].shares,
           miner' = ms
    PROVE  ReferralsAcyclic' /\ RegisteredFirst'
<1>1. ReferralsAcyclic'
  BY DEF MiningInv, ReferralsAcyclic
<1>2. RegisteredFirst'
  BY DEF MiningInv, RegisteredFirst
<1> QED BY <1>1, <1>2

\* A registration adds a leaf: nobody was referred by the newcomer yet.
LEMMA RegisterKeeps ==
    ASSUME MiningPoolAssumption, MiningInv, NEW m \in Miners,
           NEW referrer \in Miners \cup {NoReferrer}, register_miner(m, referrer)
    PROVE  MiningInv' /\ ValuesStep
<1> DEFINE r == NewMiner(referrer)
<1>1. /\ miner \in [Miners -> MinerRecord] /\ miner' = [miner EXCEPT ![m] = r]
      /\ ~miner[m].registered /\ referrer # m
      /\ (referrer # NoReferrer => miner[referrer].registered)
      /\ UNCHANGED <<paused, pool, minted, burned, credited>>
      /\ Books(pool, miner)
  BY DEF register_miner, MiningInv, Books
<1>2. r \in MinerRecord /\ r.shares = 0 /\ r.basis = 0 /\ r.registered /\ r.referrer = referrer
  BY DEF NewMiner, MinerRecord
<1> HIDE DEF r
<1>3. /\ miner' \in [Miners -> MinerRecord] /\ miner'[m] = r
      /\ \A n \in Miners \ {m} : miner'[n] = miner[n]
  BY <1>1, <1>2
<1>4. miner[m].shares = 0
  BY <1>1 DEF MiningInv, RegisteredFirst
<1>5. \A n \in Miners : miner'[n].shares = miner[n].shares
  BY <1>2, <1>3, <1>4
<1>6. Books(pool', miner')
  <2>1. SharesIn(miner') = SharesIn(miner)
    <3>1. /\ SharesIn(miner') = SharesIn(miner) - miner[m].shares + r.shares
          /\ SharesIn(miner) \in Nat
      BY <1>1, <1>2, SharesReplaced
    <3> QED BY <1>2, <1>4, <3>1
  <2>2. ASSUME NEW n \in Miners PROVE miner'[n].basis <= ValueIn(pool, miner'[n])
    <3>1. ValueIn(pool, r) = 0
      BY <1>2 DEF ValueIn, mining_share_value
    <3> QED BY <1>1, <1>2, <1>3, <3>1 DEF Books
  <2> QED BY <1>1, <1>3, <2>1, <2>2 DEF Books
<1>7. ReferralsAcyclic'
  <2> SUFFICES ASSUME NEW group \in (SUBSET Miners) \ {{}}
               PROVE  \E n \in group : miner'[n].referrer \notin group
    BY DEF ReferralsAcyclic
  <2>1. CASE m \notin group
    BY <1>3, <2>1 DEF MiningInv, ReferralsAcyclic
  <2>2. CASE group = {m}
    BY <1>1, <1>2, <1>3, <2>2
  <2>3. CASE m \in group /\ group # {m}
    <3>1. group \ {m} \in (SUBSET Miners) \ {{}}
      BY <2>3
    <3>2. PICK n \in group \ {m} : miner[n].referrer \notin group \ {m}
      BY <3>1 DEF MiningInv, ReferralsAcyclic
    <3>3. miner[n].referrer # m
      BY <1>1 DEF MiningInv, RegisteredFirst
    <3> QED BY <1>3, <3>2, <3>3
  <2> QED BY <2>1, <2>2, <2>3
<1>8. RegisteredFirst'
  <2> SUFFICES ASSUME NEW n \in Miners
               PROVE  /\ ~miner'[n].registered => miner'[n].shares = 0
                      /\ miner'[n].referrer \in Miners => miner'[miner'[n].referrer].registered
    BY DEF RegisteredFirst
  <2>1. \A k \in Miners : miner[k].registered => miner'[k].registered
    BY <1>2, <1>3
  <2>2. CASE n = m
    BY <1>1, <1>2, <1>3, <2>1, <2>2 DEF MiningPoolAssumption
  <2>3. CASE n # m
    BY <1>3, <2>1, <2>3 DEF MiningInv, RegisteredFirst
  <2> QED BY <2>2, <2>3
<1>9. MiningInv'
  BY <1>1, <1>6, <1>7, <1>8 DEF MiningInv, MyneAccounted
<1>10. ValuesStep
  <2>1. ASSUME NEW n \in Miners PROVE Value(n)' = Value(n) /\ Value(n) \in Nat
                                      /\ ~(miner'[n].shares > miner[n].shares)
    <3>1. Value(n) \in Nat /\ miner[n].shares \in Nat
      BY <1>1, BooksOfMiner DEF Value, PartOf
    <3>2. Value(n)' = Value(n)
      BY <1>1, <1>5 DEF Value, ValueIn
    <3> QED BY <1>5, <3>1, <3>2
  <2>2. \A n \in Miners : ~(miner[n].shares = 0 /\ miner'[n].shares > 0)
    BY <1>5
  <2> QED BY <2>1, <2>2 DEF ValuesStep
<1> QED BY <1>9, <1>10

\* The fees of a claim are parts of it.
LEMMA FeeBounds ==
    ASSUME MiningPoolAssumption, NEW gross \in Nat
    PROVE  /\ passive_fee(gross) \in Nat /\ total_fee(gross) \in Nat /\ referral_share(gross) \in Nat
           /\ passive_fee(gross) + referral_share(gross) = total_fee(gross)
           /\ total_fee(gross) <= gross
<1> DEFINE D == BPS_DENOMINATOR
           a == gross * CLAIM_PASSIVE_BPS
           b == gross * CLAIM_FEE_BPS
<1>1. /\ D \in Nat \ {0} /\ CLAIM_FEE_BPS \in Nat /\ CLAIM_PASSIVE_BPS \in Nat
      /\ CLAIM_FEE_BPS <= D /\ CLAIM_PASSIVE_BPS <= CLAIM_FEE_BPS
  BY DEF MiningPoolAssumption
<1>2. a \in Nat /\ a <= b
  BY <1>1, ProductMonotone
<1>3. b \in Nat /\ b <= gross * D
  BY <1>1, ProductMonotone
<1> DEFINE pf == passive_fee(gross)
           tf == total_fee(gross)
<1>4. pf = a \div D /\ tf = b \div D
  BY DEF passive_fee, total_fee, checked_bps
<1> HIDE DEF a, b, D, pf, tf
<1>5. a \div D <= b \div D /\ a \div D \in Nat /\ b \div D \in Nat /\ b \div D <= gross
  BY <1>1, <1>2, <1>3, DivMonotone, DivBounds, DivBelow
<1>6. pf \in Nat /\ tf \in Nat /\ pf <= tf /\ tf <= gross
  BY <1>4, <1>5
<1>7. referral_share(gross) = tf - pf
  BY DEF referral_share, tf, pf
<1>8. referral_share(gross) \in Nat /\ pf + referral_share(gross) = tf
  BY <1>6, <1>7
<1> QED BY <1>6, <1>8 DEF pf, tf

LEMMA CreditKeeps ==
    ASSUME MiningPoolAssumption, MiningInv, NEW m \in Miners, NEW amount \in Rewards,
           receipt_credit(m, amount)
    PROVE  MiningInv' /\ ValuesStep
<1> DEFINE c == credit_mining_rewards(pool, miner[m], amount)
           ns == [miner EXCEPT ![m] = c.miner]
           before == ValueIn(pool, miner[m])
           after == ValueIn(c.pool, c.miner)
<1>1. /\ miner[m].registered /\ credited + amount <= MaxEmission /\ CreditAccepted(pool, amount)
      /\ pool' = c.pool /\ miner' = ns /\ credited' = credited + amount
      /\ UNCHANGED <<paused, minted, burned>>
  BY DEF receipt_credit
<1>2. Books(pool, miner) /\ miner \in [Miners -> MinerRecord] /\ amount \in Nat
  BY DEF MiningInv, Books, MiningPoolAssumption
<1>3. /\ Books(c.pool, ns) /\ DilutesNobody(pool, miner, c.pool, ns, m)
      /\ c.miner \in MinerRecord
      /\ c.miner.registered = miner[m].registered /\ c.miner.referrer = miner[m].referrer
      /\ miner[m].shares <= c.miner.shares
      /\ c.pool.total_unclaimed = pool.total_unclaimed + amount
      /\ c.pool.total_unclaimed <= U64Max
      /\ c.pool.undistributed = pool.undistributed
      /\ before \in Nat /\ after \in Nat /\ before <= after
      /\ amount > 0 => after <= before + amount /\ c.miner.shares > 0
      /\ amount > 0 /\ pool.shares >= pool.total_unclaimed => after >= before + amount - 1
  BY <1>1, <1>2, CreditBooks
<1>4. ns[m] = c.miner /\ \A n \in Miners \ {m} : ns[n] = miner[n]
  BY <1>2
<1> HIDE DEF c, before, after, ns
<1>5. ns \in [Miners -> MinerRecord]
  BY <1>3 DEF Books
<1>6. ReferralsAcyclic' /\ RegisteredFirst'
  BY <1>1, <1>3, <1>4, <1>5, SameReferrers
<1>7. /\ pool.total_unclaimed \in Nat /\ pool.undistributed \in Nat /\ minted \in Nat /\ burned \in Nat
      /\ credited \in Nat
  BY <1>2, BooksOfMiner DEF MiningInv, MiningPoolAssumption
<1>8. MyneAccounted' /\ credited' \in 0 .. MaxEmission
  <2>1. credited = minted + burned + pool.total_unclaimed + pool.undistributed
    BY DEF MiningInv, MyneAccounted
  <2>2. credited' = minted' + burned' + pool'.total_unclaimed + pool'.undistributed
    BY <1>1, <1>2, <1>3, <1>7, <2>1
  <2> QED BY <1>1, <1>2, <1>7, <2>2 DEF MyneAccounted, MiningPoolAssumption
<1>9. MiningInv'
  BY <1>1, <1>3, <1>6, <1>8 DEF MiningInv
<1>10. ASSUME NEW n \in Miners, n # m
       PROVE  Value(n)' >= Value(n) /\ miner'[n].shares = miner[n].shares
  <2>1. miner'[n] = miner[n] /\ ValueIn(pool, miner[n]) <= ValueIn(pool', miner'[n])
    BY <1>1, <1>3, <1>4, <1>10 DEF DilutesNobody
  <2>2. ValueIn(pool, miner[n]) \in Nat /\ ValueIn(pool', miner'[n]) \in Nat
    BY <1>1, <1>2, <1>3, BooksOfMiner DEF PartOf
  <2> QED BY <2>1, <2>2, ValuesPrimed
<1>11. Value(m) = before /\ Value(m)' = after
  BY <1>1, <1>4, ValuesPrimed DEF before, after
<1>12. \A n \in Miners : miner[n].shares \in Nat /\ miner'[n].shares \in Nat
  BY <1>1, <1>2, <1>5 DEF MinerRecord
<1>13. \A n \in Miners : Value(n)' >= Value(n) \/ miner'[n].shares = 0
  BY <1>3, <1>10, <1>11
<1>14. \A n \in Miners :
         pool.shares >= pool.total_unclaimed /\ miner'[n].shares > miner[n].shares
           /\ credited' > credited
         => Value(n)' - Value(n) \in (credited' - credited) - 1 .. credited' - credited
  <2> SUFFICES ASSUME NEW n \in Miners, pool.shares >= pool.total_unclaimed,
                      miner'[n].shares > miner[n].shares, credited' > credited
               PROVE  Value(n)' - Value(n) \in (credited' - credited) - 1 .. credited' - credited
    OBVIOUS
  <2>1. n = m
    BY <1>10, <1>12
  <2>2. amount > 0 /\ credited' - credited = amount
    BY <1>1, <1>2, <1>7
  <2>3. after <= before + amount /\ after >= before + amount - 1
    BY <1>3, <2>2
  <2> QED BY <1>2, <1>3, <1>11, <2>1, <2>2, <2>3
<1>15. \A claimant \in Miners : ~(miner[claimant].shares > 0 /\ miner'[claimant].shares = 0)
  <2> SUFFICES ASSUME NEW n \in Miners, miner[n].shares > 0, miner'[n].shares = 0 PROVE FALSE
    OBVIOUS
  <2>1. n = m
    BY <1>10, <1>12
  <2>2. miner[n].shares <= miner'[n].shares
    BY <1>1, <1>3, <1>4, <2>1
  <2> QED BY <1>12, <2>2
<1> QED BY <1>9, <1>13, <1>14, <1>15 DEF ValuesStep

\* A debit as the first half of a claim or a burn: everything but what becomes
\* of the MYNE.
LEMMA DebitKeeps ==
    ASSUME MiningPoolAssumption, MiningInv, NEW m \in Miners, Debits(m)
    PROVE  LET q  == PoolAfterDebit(pool, miner[m])
               ns == [miner EXCEPT ![m] = AfterDebit(miner[m])]
           IN /\ Books(q, ns) /\ DilutesNobody(pool, miner, q, ns, m)
              /\ ns \in [Miners -> MinerRecord] /\ ns[m] = AfterDebit(miner[m])
              /\ \A n \in Miners \ {m} : ns[n] = miner[n]
              /\ ns[m].shares = 0 /\ ns[m].registered /\ miner[m].registered
              /\ ns[m].referrer = miner[m].referrer
              /\ Value(m) \in Nat /\ q.total_unclaimed \in Nat /\ q.undistributed \in Nat
              /\ q.total_unclaimed = pool.total_unclaimed - Value(m)
              /\ q.undistributed = pool.undistributed
              /\ minted + Value(m) + burned + q.total_unclaimed + q.undistributed = credited
              /\ minted \in Nat /\ burned \in Nat /\ credited \in 0 .. MaxEmission
              /\ q.total_unclaimed + Value(m) <= U64Max
<1> DEFINE q  == PoolAfterDebit(pool, miner[m])
           ns == [miner EXCEPT ![m] = AfterDebit(miner[m])]
           v == ValueIn(pool, miner[m])
<1>1. Books(pool, miner) /\ miner \in [Miners -> MinerRecord]
  BY DEF MiningInv, Books
<1>2. /\ miner[m].registered /\ miner[m].shares > 0 /\ (q.shares = 0) = (q.total_unclaimed = 0)
  BY DEF Debits
<1>3. /\ Books(q, ns) /\ DilutesNobody(pool, miner, q, ns, m)
      /\ q.total_unclaimed = pool.total_unclaimed - v
      /\ q.undistributed = pool.undistributed
  BY <1>1, <1>2, DebitBooks
<1>4. /\ pool.total_unclaimed \in Nat /\ pool.undistributed \in Nat
      /\ PartOf(pool.total_unclaimed, pool.shares, miner[m].shares, v)
  BY <1>1, BooksOfMiner
<1>5. v \in Nat /\ v <= pool.total_unclaimed
  <2> HIDE DEF v
  <2> QED BY <1>4 DEF PartOf
<1>6. /\ ns \in [Miners -> MinerRecord] /\ ns[m] = AfterDebit(miner[m])
      /\ \A n \in Miners \ {m} : ns[n] = miner[n]
      /\ ns[m].shares = 0 /\ ns[m].registered /\ ns[m].referrer = miner[m].referrer
  <2>1. /\ AfterDebit(miner[m]) \in MinerRecord /\ AfterDebit(miner[m]).shares = 0
        /\ AfterDebit(miner[m]).registered = miner[m].registered
        /\ AfterDebit(miner[m]).referrer = miner[m].referrer
    BY <1>1 DEF AfterDebit, MinerRecord
  <2> QED BY <1>1, <1>2, <2>1
<1>7. v = Value(m)
  BY DEF Value
<1> HIDE DEF q, ns, v
<1>8. /\ minted \in Nat /\ burned \in Nat /\ credited \in 0 .. MaxEmission
      /\ credited = minted + burned + pool.total_unclaimed + pool.undistributed
      /\ pool.total_unclaimed <= U64Max
  BY DEF MiningInv, MyneAccounted
<1>9. /\ minted + v + burned + q.total_unclaimed + q.undistributed = credited
      /\ q.total_unclaimed + v <= U64Max /\ q.total_unclaimed \in Nat /\ q.undistributed \in Nat
  BY <1>3, <1>4, <1>5, <1>8
<1> QED BY <1>2, <1>3, <1>5, <1>6, <1>7, <1>8, <1>9 DEF q, ns

LEMMA BurnKeeps ==
    ASSUME MiningPoolAssumption, MiningInv, NEW m \in Miners, burn_unclaimed_myne(m)
    PROVE  MiningInv' /\ ValuesStep
<1> DEFINE q  == PoolAfterDebit(pool, miner[m])
           ns == [miner EXCEPT ![m] = AfterDebit(miner[m])]
<1>1. /\ Debits(m) /\ pool' = q /\ miner' = ns
      /\ burned' = burned + ValueIn(pool, miner[m])
      /\ UNCHANGED <<paused, minted, credited>>
  BY DEF burn_unclaimed_myne
<1>2. /\ Books(q, ns) /\ DilutesNobody(pool, miner, q, ns, m)
      /\ ns \in [Miners -> MinerRecord]
      /\ \A n \in Miners \ {m} : ns[n] = miner[n]
      /\ ns[m].shares = 0 /\ ns[m].registered /\ miner[m].registered
      /\ ns[m].referrer = miner[m].referrer
      /\ Value(m) \in Nat /\ q.total_unclaimed \in Nat /\ q.undistributed \in Nat
      /\ minted + Value(m) + burned + q.total_unclaimed + q.undistributed = credited
      /\ minted \in Nat /\ burned \in Nat /\ credited \in 0 .. MaxEmission
      /\ q.total_unclaimed + Value(m) <= U64Max
  BY <1>1, DebitKeeps
<1>3. ReferralsAcyclic' /\ RegisteredFirst'
  BY <1>1, <1>2, SameReferrers
<1> HIDE DEF q, ns
<1>4. burned' = burned + Value(m)
  BY <1>1 DEF Value
<1>5. MyneAccounted' /\ burned' \in Nat /\ q.total_unclaimed <= U64Max
  BY <1>1, <1>2, <1>4 DEF MyneAccounted, MiningPoolAssumption
<1>6. MiningInv'
  BY <1>1, <1>2, <1>3, <1>5 DEF MiningInv
<1>7. ASSUME NEW n \in Miners, n # m
       PROVE  Value(n)' >= Value(n) /\ miner'[n].shares = miner[n].shares
  <2>1. miner'[n] = miner[n] /\ ValueIn(pool, miner[n]) <= ValueIn(pool', miner'[n])
    BY <1>1, <1>2, <1>7 DEF DilutesNobody
  <2>2. ValueIn(pool, miner[n]) \in Nat /\ ValueIn(pool', miner'[n]) \in Nat
    BY <1>1, <1>2, BooksOfMiner DEF PartOf, MiningInv
  <2> QED BY <2>1, <2>2, ValuesPrimed
<1>8. \A n \in Miners : miner[n].shares \in Nat /\ miner'[n].shares \in Nat
  BY <1>1, <1>2 DEF MinerRecord, MiningInv, Books
<1>9. \A n \in Miners : ~(miner'[n].shares > miner[n].shares)
  BY <1>1, <1>2, <1>7, <1>8
<1>10. \A n \in Miners : ~(miner[n].shares = 0 /\ miner'[n].shares > 0)
  BY <1>8, <1>9
<1>11. \A n \in Miners : Value(n)' >= Value(n) \/ miner'[n].shares = 0
  BY <1>1, <1>2, <1>7
<1> QED BY <1>6, <1>9, <1>10, <1>11 DEF ValuesStep

LEMMA ClaimKeeps ==
    ASSUME MiningPoolAssumption, MiningInv, NEW m \in Miners, claim_myne(m)
    PROVE  MiningInv' /\ ValuesStep
<1> DEFINE q  == PoolAfterDebit(pool, miner[m])
           ns == [miner EXCEPT ![m] = AfterDebit(miner[m])]
           gross == ValueIn(pool, miner[m])
           fee == passive_fee(gross)
           share == referral_share(gross)
           shared == distribute_mining_rewards(q, fee)
           credits == miner[m].referrer # NoReferrer /\ share > 0
           ref == miner[m].referrer
           c == credit_mining_rewards(shared, miner[ref], share)
<1>1. /\ Debits(m) /\ (credits => CreditAccepted(shared, share))
      /\ (credits => /\ pool' = c.pool
                     /\ miner' = [miner EXCEPT ![m] = AfterDebit(miner[m]), ![ref] = c.miner]
                     /\ minted' = minted + gross - total_fee(gross))
      /\ (~credits => /\ pool' = shared /\ miner' = ns
                      /\ minted' = minted + gross - passive_fee(gross))
      /\ UNCHANGED <<paused, burned, credited>>
  BY DEF claim_myne, RouteClaim
<1>2. /\ Books(q, ns) /\ DilutesNobody(pool, miner, q, ns, m)
      /\ ns \in [Miners -> MinerRecord]
      /\ \A n \in Miners \ {m} : ns[n] = miner[n]
      /\ ns[m].shares = 0 /\ ns[m].registered /\ miner[m].registered
      /\ ns[m].referrer = ref
      /\ Value(m) \in Nat /\ q.total_unclaimed \in Nat /\ q.undistributed \in Nat
      /\ minted + Value(m) + burned + q.total_unclaimed + q.undistributed = credited
      /\ minted \in Nat /\ burned \in Nat /\ credited \in 0 .. MaxEmission
      /\ q.total_unclaimed + Value(m) <= U64Max
  BY <1>1, DebitKeeps
<1>3. gross = Value(m) /\ gross \in Nat
  BY <1>2 DEF Value
<1>4. fee \in Nat /\ share \in Nat /\ fee + share = total_fee(gross)
      /\ total_fee(gross) \in Nat /\ total_fee(gross) <= gross
  BY <1>3, FeeBounds
<1>5. /\ Books(shared, ns)
      /\ shared.total_unclaimed + shared.undistributed = q.total_unclaimed + q.undistributed + fee
      /\ shared.total_unclaimed <= q.total_unclaimed + fee
      /\ \A n \in Miners : ValueIn(q, ns[n]) <= ValueIn(shared, ns[n])
  <2> HIDE DEF q, ns, gross
  <2> QED BY <1>2, <1>4, DistributionBooks
<1>6. ref \in Miners \cup {NoReferrer} /\ ref # m
  <2>1. ref \in Miners \cup {NoReferrer}
    BY DEF MiningInv, Books, MinerRecord
  <2>2. ref # m
    <3>1. {m} \in (SUBSET Miners) \ {{}}
      OBVIOUS
    <3>2. \E n \in {m} : miner[n].referrer \notin {m}
      BY <3>1 DEF MiningInv, ReferralsAcyclic
    <3> QED BY <3>2
  <2> QED BY <2>1, <2>2
<1>7. Books(pool, miner) /\ miner \in [Miners -> MinerRecord]
  BY DEF MiningInv, Books
<1> HIDE DEF q, gross, fee, share, shared, c
<1>8. /\ shared.total_unclaimed \in Nat /\ shared.undistributed \in Nat
  BY <1>2, <1>5 DEF Books, PoolRecord
<1>9. ASSUME NEW n \in Miners, n # m
      PROVE  /\ ns[n] = miner[n] /\ Value(n) \in Nat /\ ValueIn(shared, ns[n]) \in Nat
             /\ Value(n) <= ValueIn(shared, ns[n])
  <2>1. ns[n] = miner[n] /\ ValueIn(pool, miner[n]) <= ValueIn(q, ns[n])
    BY <1>2, <1>9 DEF DilutesNobody
  <2>2. /\ ValueIn(pool, miner[n]) \in Nat /\ ValueIn(q, ns[n]) \in Nat
        /\ ValueIn(shared, ns[n]) \in Nat
    <3> HIDE DEF ns
    <3> QED BY <1>2, <1>5, <1>7, BooksOfMiner DEF PartOf
  <2> QED BY <1>5, <2>1, <2>2, ValuesPrimed
<1>10. CASE ~credits
  <2>1. pool' = shared /\ miner' = ns /\ minted' = minted + gross - fee
    BY <1>1, <1>10 DEF fee
  <2>2. ReferralsAcyclic' /\ RegisteredFirst'
    BY <1>2, <2>1, SameReferrers
  <2>3. MyneAccounted' /\ minted' \in Nat /\ shared.total_unclaimed <= U64Max
    BY <1>1, <1>2, <1>3, <1>4, <1>5, <1>8, <2>1 DEF MyneAccounted, MiningPoolAssumption
  <2>4. MiningInv'
    BY <1>1, <1>2, <1>5, <2>1, <2>2, <2>3 DEF MiningInv
  <2>5. \A n \in Miners : miner[n].shares \in Nat /\ miner'[n].shares \in Nat
    BY <1>2, <1>7, <2>1 DEF MinerRecord
  <2>6. ASSUME NEW n \in Miners, n # m
        PROVE  Value(n)' >= Value(n) /\ miner'[n].shares = miner[n].shares
    BY <1>9, <2>1, <2>6, ValuesPrimed
  <2>7. \A n \in Miners : ~(miner'[n].shares > miner[n].shares)
    BY <1>2, <2>1, <2>5, <2>6
  <2>8. \A n \in Miners : ~(miner[n].shares = 0 /\ miner'[n].shares > 0)
    BY <2>5, <2>7
  <2>9. \A n \in Miners : Value(n)' >= Value(n) \/ miner'[n].shares = 0
    BY <1>2, <2>1, <2>6
  <2> QED BY <2>4, <2>7, <2>8, <2>9 DEF ValuesStep
<1>11. CASE credits
  <2> DEFINE ms == [ns EXCEPT ![ref] = c.miner]
             before == ValueIn(shared, ns[ref])
             after == ValueIn(c.pool, c.miner)
  <2>1. ref \in Miners /\ share > 0 /\ ns[ref] = miner[ref] /\ CreditAccepted(shared, share)
    BY <1>1, <1>2, <1>6, <1>11
  <2>2. c = credit_mining_rewards(shared, ns[ref], share)
    BY <2>1 DEF c
  <2>3. /\ Books(c.pool, ms) /\ DilutesNobody(shared, ns, c.pool, ms, ref)
        /\ c.miner \in MinerRecord
        /\ c.miner.registered = ns[ref].registered /\ c.miner.referrer = ns[ref].referrer
        /\ c.pool.total_unclaimed = shared.total_unclaimed + share
        /\ c.pool.total_unclaimed <= U64Max
        /\ c.pool.undistributed = shared.undistributed
        /\ before \in Nat /\ after \in Nat /\ before <= after
        /\ after <= before + share
    <3> HIDE DEF ns
    <3> QED BY <1>4, <1>5, <2>1, <2>2, CreditBooks
  <2>4. pool' = c.pool /\ miner' = ms /\ minted' = minted + gross - total_fee(gross)
    BY <1>1, <1>6, <1>7, <1>11, <2>1
  <2>5. /\ ms \in [Miners -> MinerRecord] /\ ms[ref] = c.miner
        /\ \A n \in Miners \ {ref} : ms[n] = ns[n]
    BY <1>2, <2>1, <2>3
  <2> HIDE DEF ms, ns, before, after
  <2>6. miner[ref].registered
    BY <2>1 DEF MiningInv, RegisteredFirst
  <2>7. ReferralsAcyclic' /\ RegisteredFirst'
    <3>1. ASSUME NEW n \in Miners
          PROVE /\ ms[n].referrer = miner[n].referrer /\ ms[n].registered = miner[n].registered
                /\ ms[n].registered \/ ms[n].shares = miner[n].shares
      <4>1. CASE n = ref
        BY <2>1, <2>3, <2>5, <2>6, <4>1
      <4>2. CASE n # ref
        <5>1. ms[n] = ns[n]
          BY <2>5, <4>2
        <5>2. CASE n = m
          BY <1>2, <5>1, <5>2
        <5>3. CASE n # m
          BY <1>2, <5>1, <5>3
        <5> QED BY <5>2, <5>3
      <4> QED BY <4>1, <4>2
    <3> QED BY <2>4, <2>5, <3>1, SameReferrers
  <2>8. MyneAccounted' /\ minted' \in Nat
    BY <1>1, <1>2, <1>3, <1>4, <1>5, <1>8, <2>3, <2>4 DEF MyneAccounted
  <2>9. MiningInv'
    BY <1>1, <1>2, <2>3, <2>4, <2>7, <2>8 DEF MiningInv
  <2>10. miner'[m].shares = 0
    BY <1>2, <1>6, <2>4, <2>5
  <2>0. PICK r \in Miners : r = ref
    BY <2>1
  <2>11. Value(r)' = after /\ Value(r) <= before /\ Value(r) \in Nat
    <3>1. Value(r)' = after
      BY <2>0, <2>1, <2>4, <2>5, ValuesPrimed DEF after
    <3>2. Value(r) <= ValueIn(shared, ns[ref]) /\ Value(r) \in Nat
      BY <1>6, <1>9, <2>0, <2>1
    <3> QED BY <3>1, <3>2 DEF before
  <2>12. ASSUME NEW n \in Miners, n # m, n # r
         PROVE  Value(n)' >= Value(n) /\ miner'[n].shares = miner[n].shares
    <3>1. ms[n] = ns[n] /\ ValueIn(shared, ns[n]) <= ValueIn(c.pool, ms[n])
      BY <2>0, <2>3, <2>5, <2>12 DEF DilutesNobody
    <3>2. ValueIn(c.pool, ms[n]) \in Nat
      BY <2>3, BooksOfMiner DEF PartOf
    <3>3. ns[n] = miner[n] /\ Value(n) \in Nat /\ ValueIn(shared, ns[n]) \in Nat
             /\ Value(n) <= ValueIn(shared, ns[n])
      BY <1>9, <2>12
    <3> QED BY <2>4, <3>1, <3>2, <3>3, ValuesPrimed
  <2>13. \A n \in Miners : Value(n)' >= Value(n) \/ miner'[n].shares = 0
    BY <2>3, <2>10, <2>11, <2>12
  <2>14. ASSUME NEW claimant \in Miners, NEW referrer \in Miners,
                miner[claimant].shares > 0, miner'[claimant].shares = 0,
                miner[referrer].shares = 0, miner'[referrer].shares > 0
         PROVE  Value(referrer)' <= referral_share(Value(claimant))
    <3>1. \A n \in Miners : miner[n].shares \in Nat
      BY <1>7 DEF MinerRecord
    <3>2. referrer = r
      BY <2>10, <2>12, <2>14
    <3>3. claimant = m
      <4>1. ns[ref].shares <= c.miner.shares
        BY <1>4, <1>5, <2>1, <2>2, CreditBooks
      <4> QED BY <2>0, <2>1, <2>4, <2>5, <2>12, <2>14, <3>2
    <3>4. before = 0
      BY <2>0, <2>1, <2>14, <3>2 DEF before, ValueIn, mining_share_value
    <3> QED BY <1>3, <1>4, <2>3, <2>11, <3>2, <3>3, <3>4 DEF share
  <2>15. ~(credited' > credited)
    BY <1>1, <1>2
  <2> QED BY <2>9, <2>13, <2>14, <2>15 DEF ValuesStep
<1> QED BY <1>10, <1>11

\* Nothing happening, or a pause, changes no account.
LEMMA RestKeeps ==
    ASSUME MiningPoolAssumption, MiningInv,
           UNCHANGED <<pool, miner, minted, burned, credited>>, paused' \in BOOLEAN
    PROVE  MiningInv' /\ ValuesStep
<1>1. MiningInv'
  BY DEF MiningInv, MyneAccounted, ReferralsAcyclic, RegisteredFirst
<1>2. ASSUME NEW n \in Miners
      PROVE  Value(n)' >= Value(n) /\ ~(miner'[n].shares > miner[n].shares)
  <2>1. Value(n) \in Nat /\ miner[n].shares \in Nat
    BY BooksOfMiner DEF MiningInv, Value, PartOf
  <2> QED BY <2>1, ValuesPrimed
<1>3. \A n \in Miners : ~(miner[n].shares = 0 /\ miner'[n].shares > 0)
  OBVIOUS
<1> QED BY <1>1, <1>2, <1>3 DEF ValuesStep

LEMMA NextKeeps ==
    ASSUME MiningPoolAssumption, MiningInv, Next
    PROVE  MiningInv' /\ ValuesStep
<1>1. CASE \E p \in BOOLEAN : set_paused(p)
  BY <1>1, RestKeeps DEF set_paused
<1>2. ASSUME NEW m \in Miners, NEW referrer \in Miners \cup {NoReferrer}, register_miner(m, referrer)
      PROVE  MiningInv' /\ ValuesStep
  BY <1>2, RegisterKeeps
<1>3. ASSUME NEW m \in Miners, NEW amount \in Rewards, receipt_credit(m, amount)
      PROVE  MiningInv' /\ ValuesStep
  BY <1>3, CreditKeeps
<1>4. ASSUME NEW m \in Miners, claim_myne(m) \/ burn_unclaimed_myne(m)
      PROVE  MiningInv' /\ ValuesStep
  BY <1>4, ClaimKeeps, BurnKeeps
<1> QED BY <1>1, <1>2, <1>3, <1>4 DEF Next

LEMMA InitKeeps ==
    ASSUME MiningPoolAssumption, Init
    PROVE  MiningInv
<1> DEFINE f == [m \in Miners |-> miner[m].shares]
<1>1. /\ pool \in PoolRecord /\ pool.shares = 0 /\ pool.total_unclaimed = 0
      /\ pool.undistributed = 0
  BY DEF Init, PoolRecord
<1>2. miner \in [Miners -> MinerRecord]
  BY DEF Init, MinerRecord
<1>3. \A m \in Miners : /\ miner[m].shares = 0 /\ miner[m].basis = 0
                        /\ miner[m].referrer = NoReferrer
  BY DEF Init
<1>4. SharesIn(miner) = 0
  <2>1. \A m \in Miners : f[m] = IF m \in {} THEN 1 ELSE 0
    BY <1>3
  <2>2. IsFiniteSet(Miners)
    BY DEF MiningPoolAssumption
  <2> HIDE DEF f
  <2>3. SumOf(f, Miners) = Cardinality(Miners \cap {})
    BY <2>1, <2>2, SumOfOnes
  <2>4. Miners \cap {} = {}
    OBVIOUS
  <2> QED BY <2>3, <2>4, FS_EmptySet, SumOverIsSumOf DEF SharesIn, f
<1>5. \A m \in Miners : miner[m].basis <= ValueIn(pool, miner[m])
  BY <1>3 DEF ValueIn, mining_share_value
<1>6. Books(pool, miner)
  BY <1>1, <1>2, <1>4, <1>5 DEF Books
<1>7. ReferralsAcyclic /\ RegisteredFirst
  BY <1>3 DEF ReferralsAcyclic, RegisteredFirst, MiningPoolAssumption
<1>8. paused \in BOOLEAN /\ minted = 0 /\ burned = 0 /\ credited = 0
  BY DEF Init
<1>9. MyneAccounted /\ pool.total_unclaimed <= U64Max /\ credited \in 0 .. MaxEmission
  BY <1>1, <1>8 DEF MyneAccounted, MiningPoolAssumption
<1> QED BY <1>6, <1>7, <1>8, <1>9 DEF MiningInv

-----------------------------------------------------------------------------
\* In every reachable state the pool of unclaimed MYNE owes what its miners
\* may take to within one base unit each, every credited unit is accounted
\* for, no miner with something to take is refused, and the referrals are a
\* forest (credit_mining_rewards, debit_all_mining_rewards, claim_myne).
THEOREM UnclaimedLedgerIsSound ==
    ASSUME MiningPoolAssumption
    PROVE  Spec => []UnclaimedLedgerSound
<1>1. Init => MiningInv
  BY InitKeeps
<1>2. MiningInv /\ [Next]_vars => MiningInv'
  <2> SUFFICES ASSUME MiningInv, [Next]_vars PROVE MiningInv'
    OBVIOUS
  <2>1. CASE Next
    BY <2>1, NextKeeps
  <2>2. CASE UNCHANGED vars
    <3>1. paused' \in BOOLEAN
      BY <2>2 DEF vars, MiningInv
    <3> QED BY <2>2, <3>1, RestKeeps DEF vars
  <2> QED BY <2>1, <2>2
<1>3. MiningInv => UnclaimedLedgerSound
  BY InvariantSound
<1> QED BY <1>1, <1>2, <1>3, PTL DEF Spec

\* No instruction lowers what any miner but its own may claim, a credit is
\* worth the reward to within one unit while shares are not scarce, and a
\* referrer's first shares hold nothing of the passive fee of the claim that
\* pays them (distribute_mining_rewards before credit_mining_rewards).
THEOREM UnclaimedValuesAreFair ==
    ASSUME MiningPoolAssumption
    PROVE  Spec => UnclaimedValuesFair
<1>1. Init => MiningInv
  BY InitKeeps
<1>2. MiningInv /\ [Next]_vars => MiningInv'
  <2> SUFFICES ASSUME MiningInv, [Next]_vars PROVE MiningInv'
    OBVIOUS
  <2>1. CASE Next
    BY <2>1, NextKeeps
  <2>2. CASE UNCHANGED vars
    <3>1. paused' \in BOOLEAN
      BY <2>2 DEF vars, MiningInv
    <3> QED BY <2>2, <3>1, RestKeeps DEF vars
  <2> QED BY <2>1, <2>2
<1>3. MiningInv /\ [Next]_vars => [ValuesStep]_vars
  BY NextKeeps
<1>4. Spec => NeverDiluted
  <2>1. ValuesStep => \A m \in Miners : Value(m)' >= Value(m) \/ miner'[m].shares = 0
    BY DEF ValuesStep
  <2> QED BY <1>1, <1>2, <1>3, <2>1, PTL DEF Spec, NeverDiluted
<1>5. Spec => CreditNearlyExact
  <2>1. ValuesStep =>
          \A m \in Miners :
            pool.shares >= pool.total_unclaimed /\ miner'[m].shares > miner[m].shares
              /\ credited' > credited
            => Value(m)' - Value(m) \in (credited' - credited) - 1 .. credited' - credited
    BY DEF ValuesStep
  <2> QED BY <1>1, <1>2, <1>3, <2>1, PTL DEF Spec, CreditNearlyExact
<1>6. Spec => ReferralEarnsNoPassiveFee
  <2>1. ValuesStep =>
          \A claimant, referrer \in Miners :
            /\ miner[claimant].shares > 0 /\ miner'[claimant].shares = 0
            /\ miner[referrer].shares = 0 /\ miner'[referrer].shares > 0
            => Value(referrer)' <= referral_share(Value(claimant))
    BY DEF ValuesStep
  <2> QED BY <1>1, <1>2, <1>3, <2>1, PTL DEF Spec, ReferralEarnsNoPassiveFee
<1> QED BY <1>4, <1>5, <1>6 DEF UnclaimedValuesFair

-----------------------------------------------------------------------------
(* Chat.  A challenge makes one session of the wallet that signed it, and   *)
(* a press of Send has one request at a time.                              *)

\* The standard operators an instance brings along are the standard ones.
LEMMA StandardInChat ==
    /\ \A S : Chat!Cardinality(S) = Cardinality(S)
BY DEF Chat!Cardinality, Cardinality

ChallengeType ==
    [wallet : Wallets, epoch : Nat, used : BOOLEAN, signed : BOOLEAN, minted : Nat]
SigningIn == {"sign", "verify", "consumed"}
Fetching == {"fetch", "answer"}
TaskType ==
    [ pc : {"idle", "nonce", "challenge", "failed", "sent"} \cup SigningIn \cup Fetching,
      wallet : Wallets \cup {NoWallet}, ch : Nat, retried : BOOLEAN ]
Places == {"none", "auth", "gate", "insert", "done"}
Answers == {0, 200, 401, 403, 500}
ReqType == [pc : Places, ch : Nat, status : Answers]
RowType == [click : Clicks, wallet : Wallets, ch : Nat]

ChatTypes ==
    /\ account \in Wallets \cup {NoWallet} /\ session \in Nat /\ epoch \in Nat
    /\ task \in [Clicks -> TaskType] /\ req \in [Clicks -> ReqType]
    /\ challenges \in Seq(ChallengeType) /\ chat_feed \in Seq(RowType)

\* A session was minted once, from a challenge its wallet signed.
Minted(chs, ch) == ch \in DOMAIN chs /\ chs[ch].signed /\ chs[ch].minted = 1

\* A sign-in works on a challenge of its own until it has made a session of it.
TaskSound(chs, t) ==
    /\ t.pc \in {"nonce", "challenge"} => t.wallet \in Wallets
    /\ t.pc \in SigningIn =>
          /\ t.ch \in DOMAIN chs /\ chs[t.ch].wallet = t.wallet
          /\ chs[t.ch].minted = 0
    /\ t.pc \in {"verify", "consumed"} => chs[t.ch].signed
    /\ t.pc \in Fetching => Minted(chs, t.ch) /\ chs[t.ch].wallet = t.wallet
Exclusive(ts) ==
    \A x, y \in Clicks :
        ts[x].pc \in SigningIn /\ ts[y].pc \in SigningIn /\ ts[x].ch = ts[y].ch => x = y

\* A request goes on at the server though the browser gave up, and is the only
\* one of its press.
ReqSound(chs, t, q) ==
    q.pc # "none" =>
        Minted(chs, q.ch) /\ chs[q.ch].wallet = t.wallet /\ t.pc \in {"answer", "failed"}

\* A press whose message is stored sends nothing any more.
Over(t, q) ==
    /\ q.pc \in {"none", "done"} /\ t.pc \in {"answer", "failed", "sent"}
    /\ t.pc = "answer" => q.pc = "done" /\ q.status # 401
RowSound(chs, ts, qs, row) ==
    /\ Over(ts[row.click], qs[row.click]) /\ Minted(chs, row.ch)
    /\ row.wallet = ts[row.click].wallet
OncePerPress == \A i, j \in DOMAIN chat_feed : chat_feed[i].click = chat_feed[j].click => i = j

ChatInv ==
    /\ ChatTypes
    /\ session # 0 => Minted(challenges, session)
    /\ \A x \in Clicks : TaskSound(challenges, task[x])
    /\ Exclusive(task)
    /\ \A x \in Clicks : ReqSound(challenges, task[x], req[x])
    /\ \A i \in DOMAIN chat_feed : RowSound(challenges, task, req, chat_feed[i])
    /\ OncePerPress

LEMMA ChatInvSound == ChatInv => Chat!SentOnce /\ Chat!PostedAsConnected
<1> SUFFICES ASSUME ChatInv PROVE Chat!SentOnce /\ Chat!PostedAsConnected
    OBVIOUS
<1>1. Chat!SentOnce
    <2> SUFFICES ASSUME NEW c \in Clicks
                 PROVE  Cardinality({i \in DOMAIN chat_feed : chat_feed[i].click = c}) <= 1
        BY StandardInChat DEF Chat!SentOnce
    <2> DEFINE mine == {i \in DOMAIN chat_feed : chat_feed[i].click = c}
    <2>1. CASE mine = {}
        BY <2>1, FS_EmptySet
    <2>2. CASE mine # {}
        <3>1. PICK i \in mine : TRUE
            BY <2>2
        <3>2. mine = {i}
            BY <3>1 DEF ChatInv, OncePerPress
        <3>3. QED
            BY <3>2, FS_Singleton
    <2>3. QED
        BY <2>1, <2>2
<1>2. Chat!PostedAsConnected
    BY DEF ChatInv, RowSound, Minted, Chat!PostedAsConnected
<1>3. QED
    BY <1>1, <1>2

LEMMA ChatBegins == Chat!Init => ChatInv
<1> SUFFICES ASSUME Chat!Init PROVE ChatInv
    OBVIOUS
<1>1. ChatTypes
    BY DEF Chat!Init, ChatTypes, TaskType, ReqType, Places, Answers, SigningIn, Fetching
<1>2. chat_feed = <<>> /\ DOMAIN chat_feed = {}
    BY DEF Chat!Init
<1>3. Exclusive(task)
    BY DEF Chat!Init, Exclusive, SigningIn
<1>4. \A x \in Clicks : TaskSound(challenges, task[x]) /\ ReqSound(challenges, task[x], req[x])
    BY DEF Chat!Init, TaskSound, ReqSound, SigningIn, Fetching
<1>5. QED
    BY <1>1, <1>2, <1>3, <1>4 DEF ChatInv, OncePerPress, Chat!Init
\* STEPS

-----------------------------------------------------------------------------
(* A step of one press.                                                    *)

\* The challenges chs know what before knew.
Extends(chs, before) ==
    /\ chs \in Seq(ChallengeType)
    /\ \A ch \in DOMAIN before :
          /\ ch \in DOMAIN chs /\ chs[ch].wallet = before[ch].wallet
          /\ before[ch].signed => chs[ch].signed
          /\ before[ch].minted = 1 => chs[ch].minted = 1

LEMMA ExtendsItself == ChatTypes => Extends(challenges, challenges)
BY DEF ChatTypes, Extends

LEMMA MintedStays ==
    ASSUME NEW before, NEW chs, Extends(chs, before), NEW ch, Minted(before, ch)
    PROVE  Minted(chs, ch) /\ chs[ch].wallet = before[ch].wallet
BY DEF Extends, Minted

LEMMA ReqStays ==
    ASSUME NEW before, NEW chs, Extends(chs, before), NEW t, NEW q, ReqSound(before, t, q)
    PROVE  ReqSound(chs, t, q)
BY MintedStays DEF ReqSound

LEMMA PressKeeps ==
    ASSUME ChatInv, NEW c \in Clicks, NEW t \in TaskType, NEW q \in ReqType, NEW chs,
           task' = [task EXCEPT ![c] = t], req' = [req EXCEPT ![c] = q],
           challenges' = chs, Extends(chs, challenges), UNCHANGED <<account, chat_feed>>,
           session' \in Nat, epoch' \in Nat,
           session' # 0 => Minted(chs, session'),
           \A x \in Clicks \ {c} : TaskSound(chs, task[x]),
           TaskSound(chs, t), ReqSound(chs, t, q),
           t.pc \in SigningIn =>
              \/ task[c].pc \in SigningIn /\ t.ch = task[c].ch
              \/ \A x \in Clicks \ {c} : task[x].pc \in SigningIn => task[x].ch # t.ch,
           Over(task[c], req[c]) => Over(t, q) /\ t.wallet = task[c].wallet
    PROVE  ChatInv'
<1>1. /\ task \in [Clicks -> TaskType] /\ req \in [Clicks -> ReqType]
      /\ \A x \in Clicks : task'[x] = IF x = c THEN t ELSE task[x]
      /\ \A x \in Clicks : req'[x] = IF x = c THEN q ELSE req[x]
    BY DEF ChatInv, ChatTypes
<1>2. ChatTypes'
    BY <1>1 DEF ChatInv, ChatTypes, Extends
<1>3. \A x \in Clicks : TaskSound(challenges', task'[x])
    BY <1>1
<1>4. Exclusive(task')
    <2> SUFFICES ASSUME NEW x \in Clicks, NEW y \in Clicks, task'[x].pc \in SigningIn,
                        task'[y].pc \in SigningIn, task'[x].ch = task'[y].ch
                 PROVE  x = y
        BY DEF Exclusive
    <2>1. \A u, v \in Clicks :
             task[u].pc \in SigningIn /\ task[v].pc \in SigningIn /\ task[u].ch = task[v].ch => u = v
        BY DEF ChatInv, Exclusive
    <2>2. CASE x # c /\ y # c
        BY <1>1, <2>1, <2>2
    <2>3. CASE x = c /\ y # c
        BY <1>1, <2>1, <2>3
    <2>4. CASE x # c /\ y = c
        BY <1>1, <2>1, <2>4
    <2>5. QED
        BY <2>2, <2>3, <2>4
<1>5. \A x \in Clicks : ReqSound(challenges', task'[x], req'[x])
    <2> SUFFICES ASSUME NEW x \in Clicks, x # c PROVE ReqSound(chs, task[x], req[x])
        BY <1>1
    <2>1. ReqSound(challenges, task[x], req[x])
        BY DEF ChatInv
    <2>2. QED
        BY <2>1, ReqStays
<1>6. \A i \in DOMAIN chat_feed : RowSound(challenges', task', req', chat_feed[i])
    <2> SUFFICES ASSUME NEW i \in DOMAIN chat_feed PROVE RowSound(challenges', task', req', chat_feed[i])
        OBVIOUS
    <2> DEFINE row == chat_feed[i]
    <2>1. row.click \in Clicks
        <3>1. chat_feed \in Seq(RowType)
            BY DEF ChatInv, ChatTypes
        <3>2. chat_feed[i] \in RowType
            BY <3>1
        <3>3. QED
            BY <3>2 DEF RowType
    <2>2. RowSound(challenges, task, req, row)
        BY DEF ChatInv
    <2> HIDE DEF row
    <2>3. Minted(chs, row.ch)
        BY <2>2, MintedStays DEF RowSound
    <2>4. CASE row.click = c
        <3>1. Over(task[c], req[c]) /\ row.wallet = task[c].wallet
            BY <2>2, <2>4 DEF RowSound
        <3>2. Over(t, q) /\ row.wallet = t.wallet
            BY <3>1
        <3>3. QED
            BY <1>1, <2>3, <2>4, <3>2 DEF RowSound, row
    <2>5. CASE row.click # c
        <3>1. task'[row.click] = task[row.click] /\ req'[row.click] = req[row.click]
            BY <1>1, <2>1, <2>5
        <3>2. QED
            BY <2>2, <2>3, <3>1 DEF RowSound, row
    <2>6. QED
        BY <2>4, <2>5
<1>7. OncePerPress'
    BY DEF ChatInv, OncePerPress
<1>8. QED
    BY <1>2, <1>3, <1>4, <1>5, <1>6, <1>7 DEF ChatInv

LEMMA ChatRests ==
    ASSUME ChatInv, UNCHANGED <<task, req, challenges, chat_feed>>, account' \in Wallets \cup {NoWallet},
           epoch' \in Nat, session' \in {0, session}
    PROVE  ChatInv'
<1>1. ChatTypes' /\ OncePerPress'
    BY DEF ChatInv, ChatTypes, OncePerPress
<1>2. QED
    BY <1>1 DEF ChatInv

-----------------------------------------------------------------------------
(* The browser's steps.                                                    *)

\* The session ensureSession reads is 0 or one that was minted: what it makes
\* of the press.
LEMMA EnsureSessionSound ==
    ASSUME ChatInv, NEW c \in Clicks, NEW kept \in Nat, kept # 0 => Minted(challenges, kept),
           NEW retried \in BOOLEAN, Chat!ensureSession(c, kept, retried)
    PROVE  \E t \in TaskType :
              /\ task' = [task EXCEPT ![c] = t] /\ TaskSound(challenges, t)
              /\ t.pc \in {"fetch", "nonce", "failed"}
<1>1. task \in [Clicks -> TaskType] /\ task[c] \in TaskType /\ account \in Wallets \cup {NoWallet}
    BY DEF ChatInv, ChatTypes
<1>2. CASE Chat!Reusable(account, kept)
    <2> DEFINE t == [pc |-> "fetch", wallet |-> account, ch |-> kept, retried |-> retried]
    <2>1. task' = [task EXCEPT ![c] = t]
        BY <1>2 DEF Chat!ensureSession
    <2>2. t \in TaskType
        BY <1>1 DEF TaskType, Fetching
    <2>3. TaskSound(challenges, t)
        BY <1>2 DEF TaskSound, Chat!Reusable, Chat!Wallet, Fetching, SigningIn
    <2>4. QED
        BY <2>1, <2>2, <2>3
<1>3. CASE ~Chat!Reusable(account, kept) /\ account = NoWallet
    <2> DEFINE t == [task[c] EXCEPT !.pc = "failed"]
    <2>1. task' = [task EXCEPT ![c] = t]
        BY <1>1, <1>3 DEF Chat!ensureSession
    <2>2. t \in TaskType /\ t.pc = "failed"
        BY <1>1 DEF TaskType
    <2>3. TaskSound(challenges, t)
        BY <2>2 DEF TaskSound, Fetching, SigningIn
    <2>4. QED
        BY <2>1, <2>2, <2>3
<1>4. CASE ~Chat!Reusable(account, kept) /\ account # NoWallet
    <2> DEFINE t == [pc |-> "nonce", wallet |-> account, ch |-> 0, retried |-> retried]
    <2>1. task' = [task EXCEPT ![c] = t]
        BY <1>4 DEF Chat!ensureSession
    <2>2. t \in TaskType
        BY <1>1 DEF TaskType
    <2>3. TaskSound(challenges, t)
        BY <1>1, <1>4 DEF TaskSound, Fetching, SigningIn
    <2>4. QED
        BY <2>1, <2>2, <2>3
<1>5. QED
    BY <1>2, <1>3, <1>4

LEMMA ReceiveKeeps == ASSUME ChatInv, NEW c \in Clicks, Chat!receive(c) PROVE ChatInv'
<1>1. /\ task[c].pc = "answer" /\ req[c].pc = "done"
      /\ req' = [req EXCEPT ![c].pc = "none"]
      /\ UNCHANGED <<account, challenges, epoch, chat_feed>>
    BY DEF Chat!receive
<1>2. /\ task \in [Clicks -> TaskType] /\ task[c] \in TaskType
      /\ req \in [Clicks -> ReqType] /\ req[c] \in ReqType
      /\ account \in Wallets \cup {NoWallet} /\ epoch \in Nat /\ session \in Nat
    BY DEF ChatInv, ChatTypes
<1>3. Extends(challenges, challenges) /\ \A x \in Clicks : TaskSound(challenges, task[x])
    BY ExtendsItself DEF ChatInv
<1> DEFINE q == [req[c] EXCEPT !.pc = "none"]
<1>4. q \in ReqType /\ q.pc = "none" /\ req' = [req EXCEPT ![c] = q]
    BY <1>1, <1>2 DEF ReqType, Places, Answers
<1> HIDE DEF q
<1>5. CASE Chat!Retried(req[c].status, task[c].retried)
    <2>1. session' = 0 /\ Chat!ensureSession(c, 0, TRUE)
        BY <1>5 DEF Chat!receive
    <2>2. PICK t \in TaskType :
             /\ task' = [task EXCEPT ![c] = t] /\ TaskSound(challenges, t)
             /\ t.pc \in {"fetch", "nonce", "failed"}
        BY <2>1, EnsureSessionSound
    <2>3. ~Over(task[c], req[c])
        BY <1>1, <1>5 DEF Over, Chat!Retried
    <2>4. t.pc \notin SigningIn /\ ReqSound(challenges, t, q)
        BY <1>4, <2>2 DEF SigningIn, ReqSound
    <2>5. QED
        BY <1>1, <1>2, <1>3, <1>4, <2>1, <2>2, <2>3, <2>4, PressKeeps
<1>6. CASE ~Chat!Retried(req[c].status, task[c].retried)
    <2>1. PICK pc \in {"sent", "failed"} : task' = [task EXCEPT ![c].pc = pc]
        BY <1>6 DEF Chat!receive
    <2>2. session' = session
        BY <1>6 DEF Chat!receive
    <2> DEFINE t == [task[c] EXCEPT !.pc = pc]
    <2>3. t \in TaskType /\ t.pc = pc /\ t.wallet = task[c].wallet /\ task' = [task EXCEPT ![c] = t]
        BY <1>2, <2>1 DEF TaskType
    <2> HIDE DEF t
    <2>4. TaskSound(challenges, t) /\ ReqSound(challenges, t, q) /\ t.pc \notin SigningIn /\ Over(t, q)
        BY <1>4, <2>3 DEF TaskSound, ReqSound, SigningIn, Fetching, Over
    <2>5. session' \in Nat /\ (session' # 0 => Minted(challenges, session'))
        BY <2>2, <1>2 DEF ChatInv
    <2>6. QED
        BY <1>1, <1>2, <1>3, <1>4, <2>3, <2>4, <2>5, PressKeeps
<1>7. QED
    BY <1>5, <1>6

LEMMA SendKeeps == ASSUME ChatInv, NEW c \in Clicks, Chat!sendChatMessage(c) PROVE ChatInv'
<1>1. /\ task[c].pc = "idle" /\ Chat!ensureSession(c, session, FALSE)
      /\ UNCHANGED <<account, session, req, challenges, epoch, chat_feed>>
    BY DEF Chat!sendChatMessage, Chat!server
<1>2. /\ req \in [Clicks -> ReqType] /\ req[c] \in ReqType /\ req' = [req EXCEPT ![c] = req[c]]
      /\ epoch \in Nat /\ session \in Nat /\ (session # 0 => Minted(challenges, session))
    BY <1>1 DEF ChatInv, ChatTypes
<1>3. Extends(challenges, challenges) /\ \A x \in Clicks : TaskSound(challenges, task[x])
    BY ExtendsItself DEF ChatInv
<1>4. PICK t \in TaskType :
         /\ task' = [task EXCEPT ![c] = t] /\ TaskSound(challenges, t)
         /\ t.pc \in {"fetch", "nonce", "failed"}
    BY <1>1, <1>2, EnsureSessionSound
<1>5. req[c].pc = "none" /\ ~Over(task[c], req[c])
    BY <1>1 DEF ChatInv, ReqSound, Over
<1>6. t.pc \notin SigningIn /\ ReqSound(challenges, t, req[c])
    BY <1>4, <1>5 DEF SigningIn, ReqSound
<1>7. QED
    BY <1>1, <1>2, <1>3, <1>4, <1>5, <1>6, PressKeeps

\* A step that changes the browser's side of a press and no challenge.
LEMMA BrowserKeeps ==
    ASSUME ChatInv, NEW c \in Clicks, NEW t \in TaskType, NEW q \in ReqType,
           task' = [task EXCEPT ![c] = t], req' = [req EXCEPT ![c] = q],
           UNCHANGED <<account, session, challenges, epoch, chat_feed>>,
           TaskSound(challenges, t), ReqSound(challenges, t, q),
           t.pc \in SigningIn => task[c].pc \in SigningIn /\ t.ch = task[c].ch,
           Over(task[c], req[c]) => Over(t, q) /\ t.wallet = task[c].wallet
    PROVE  ChatInv'
<1>1. epoch \in Nat /\ session \in Nat /\ (session # 0 => Minted(challenges, session))
    BY DEF ChatInv, ChatTypes
<1>2. Extends(challenges, challenges) /\ \A x \in Clicks : TaskSound(challenges, task[x])
    BY ExtendsItself DEF ChatInv
<1>3. QED
    BY <1>1, <1>2, PressKeeps

\* What is known of the press itself.
LEMMA PressTypes ==
    ASSUME ChatInv, NEW c \in Clicks
    PROVE  /\ task \in [Clicks -> TaskType] /\ task[c] \in TaskType
           /\ req \in [Clicks -> ReqType] /\ req[c] \in ReqType /\ req = [req EXCEPT ![c] = req[c]]
           /\ epoch \in Nat /\ challenges \in Seq(ChallengeType)
           /\ TaskSound(challenges, task[c]) /\ ReqSound(challenges, task[c], req[c])
           /\ task[c].pc \notin {"answer", "failed"} => req[c].pc = "none" /\ (Over(task[c], req[c]) => task[c].pc = "sent")
BY DEF ChatInv, ChatTypes, ReqSound, Over

LEMMA RestoreKeeps == ASSUME ChatInv, NEW c \in Clicks, Chat!restore(c) PROVE ChatInv'
<1> DEFINE t == [task[c] EXCEPT !.pc = "failed"]
<1>1. task' = [task EXCEPT ![c] = t] /\ UNCHANGED <<account, session, req, challenges, epoch, chat_feed>>
    BY PressTypes DEF Chat!restore, Chat!server
<1>2. t \in TaskType /\ t.pc = "failed" /\ t.wallet = task[c].wallet
    BY PressTypes DEF TaskType
<1> HIDE DEF t
<1>3. TaskSound(challenges, t) /\ t.pc \notin SigningIn
    BY <1>2 DEF TaskSound, SigningIn, Fetching
<1>4. ReqSound(challenges, t, req[c])
    BY <1>2, PressTypes DEF ReqSound
<1>5. Over(task[c], req[c]) => Over(t, req[c])
    BY <1>2 DEF Over
<1>6. req' = [req EXCEPT ![c] = req[c]] /\ req[c] \in ReqType
    BY <1>1, PressTypes
<1>7. QED
    BY <1>1, <1>2, <1>3, <1>4, <1>5, <1>6, BrowserKeeps

LEMMA ReadEpochKeeps == ASSUME ChatInv, NEW c \in Clicks, Chat!readEpoch(c) PROVE ChatInv'
<1> DEFINE t == [task[c] EXCEPT !.pc = "challenge", !.ch = epoch]
<1>1. /\ task[c].pc = "nonce" /\ task' = [task EXCEPT ![c] = t]
      /\ UNCHANGED <<account, session, req, challenges, epoch, chat_feed>>
    BY PressTypes DEF Chat!readEpoch, Chat!server
<1>2. t \in TaskType /\ t.pc = "challenge" /\ t.wallet = task[c].wallet
    BY PressTypes DEF TaskType
<1> HIDE DEF t
<1>3. TaskSound(challenges, t) /\ t.pc \notin SigningIn
    BY <1>1, <1>2, PressTypes DEF TaskSound, SigningIn, Fetching
<1>4. req[c].pc = "none" /\ ~Over(task[c], req[c])
    BY <1>1, PressTypes
<1>5. ReqSound(challenges, t, req[c])
    BY <1>4 DEF ReqSound
<1>6. req' = [req EXCEPT ![c] = req[c]] /\ req[c] \in ReqType
    BY <1>1, PressTypes
<1>7. QED
    BY <1>1, <1>2, <1>3, <1>4, <1>5, <1>6, BrowserKeeps

LEMMA SessionFetchKeeps == ASSUME ChatInv, NEW c \in Clicks, Chat!fetchJson(c) PROVE ChatInv'
<1> DEFINE t == [task[c] EXCEPT !.pc = "answer"]
           q == [pc |-> "auth", ch |-> task[c].ch, status |-> 0]
<1>1. /\ task[c].pc = "fetch" /\ task' = [task EXCEPT ![c] = t] /\ req' = [req EXCEPT ![c] = q]
      /\ UNCHANGED <<account, session, challenges, epoch, chat_feed>>
    BY PressTypes DEF Chat!fetchJson
<1>2. t \in TaskType /\ t.pc = "answer" /\ t.wallet = task[c].wallet /\ t.ch = task[c].ch
    BY PressTypes DEF TaskType, Fetching
<1>3. q \in ReqType /\ q.ch = task[c].ch
    BY PressTypes DEF TaskType, ReqType, Places, Answers
<1> HIDE DEF t, q
<1>4. Minted(challenges, task[c].ch) /\ challenges[task[c].ch].wallet = task[c].wallet
    BY <1>1, PressTypes DEF TaskSound, Fetching
<1>5. TaskSound(challenges, t) /\ t.pc \notin SigningIn
    BY <1>2, <1>4 DEF TaskSound, SigningIn, Fetching
<1>6. ReqSound(challenges, t, q)
    BY <1>2, <1>3, <1>4 DEF ReqSound
<1>7. ~Over(task[c], req[c])
    BY <1>1, PressTypes
<1>8. QED
    BY <1>1, <1>2, <1>3, <1>5, <1>6, <1>7, BrowserKeeps

\* A step of the server's side of a press.
LEMMA StepIs ==
    ASSUME ChatInv, NEW c \in Clicks, NEW at, NEW code, Chat!Step(c, at, code)
    PROVE  req' = [req EXCEPT ![c] = [pc |-> at, ch |-> req[c].ch, status |-> code]]
<1> DEFINE q == [pc |-> at, ch |-> req[c].ch, status |-> code]
<1>1. req \in [Clicks -> ReqType] /\ req[c] \in ReqType
    BY PressTypes
<1>2. [[req[c] EXCEPT !.pc = at] EXCEPT !.status = code] = q
    <2>1. PICK r \in ReqType : r = req[c]
        BY <1>1
    <2>2. [r EXCEPT !.pc = at] = [pc |-> at, ch |-> r.ch, status |-> r.status]
        BY DEF ReqType
    <2>3. [[pc |-> at, ch |-> r.ch, status |-> r.status] EXCEPT !.status = code]
             = [pc |-> at, ch |-> r.ch, status |-> code]
        OBVIOUS
    <2>4. QED
        BY <2>1, <2>2, <2>3
<1>3. req' = [req EXCEPT ![c] = [[req[c] EXCEPT !.pc = at] EXCEPT !.status = code]]
    BY <1>1 DEF Chat!Step
<1>4. QED
    BY <1>2, <1>3

LEMMA RequestKeeps ==
    ASSUME ChatInv, NEW c \in Clicks, NEW q \in ReqType, req[c].pc \in {"auth", "gate", "insert"},
           req' = [req EXCEPT ![c] = q], q.ch = req[c].ch,
           UNCHANGED <<account, session, task, challenges, epoch, chat_feed>>
    PROVE  ChatInv'
<1>1. PICK t \in TaskType : t = task[c] /\ task' = [task EXCEPT ![c] = t]
    BY PressTypes
<1>2. ReqSound(challenges, t, q) /\ TaskSound(challenges, t)
    BY <1>1, PressTypes DEF ReqSound
<1>3. ~Over(task[c], req[c])
    BY DEF Over
<1>4. t.pc \in SigningIn => task[c].pc \in SigningIn /\ t.ch = task[c].ch
    BY <1>1
<1>5. QED
    BY <1>1, <1>2, <1>3, <1>4, BrowserKeeps

LEMMA RequestsKeep ==
    ASSUME ChatInv, NEW c \in Clicks, Chat!requireSession(c) \/ Chat!refuse(c) \/ Chat!readProfile(c) PROVE ChatInv'
<1>1. req[c].pc \in {"auth", "gate", "insert"} /\ UNCHANGED <<account, session, task, challenges, epoch, chat_feed>>
    BY DEF Chat!requireSession, Chat!refuse, Chat!readProfile, Chat!browser
<1>2. PICK at \in Places, code \in Answers : Chat!Step(c, at, code)
    BY DEF Chat!requireSession, Chat!refuse, Chat!readProfile, Places, Answers
<1>3. PICK q \in ReqType : req' = [req EXCEPT ![c] = q] /\ q.ch = req[c].ch
    <2> DEFINE q == [pc |-> at, ch |-> req[c].ch, status |-> code]
    <2>1. req' = [req EXCEPT ![c] = q] /\ q.ch = req[c].ch
        BY <1>2, StepIs
    <2>2. q \in ReqType
        BY PressTypes DEF ReqType
    <2>3. QED
        BY <2>1, <2>2
<1>4. QED
    BY <1>1, <1>3, RequestKeeps

LEMMA InsertKeeps == ASSUME ChatInv, NEW c \in Clicks, Chat!insertMessage(c) PROVE ChatInv'
<1> DEFINE row == [click |-> c, wallet |-> Chat!Wallet(req[c].ch), ch |-> req[c].ch]
<1>1. /\ req[c].pc = "insert" /\ chat_feed' = Append(chat_feed, row)
      /\ UNCHANGED <<account, session, task, challenges, epoch>>
    BY DEF Chat!insertMessage, Chat!browser
<1>2. PICK code \in {200, 500} : Chat!Step(c, "done", code)
    BY DEF Chat!insertMessage
<1> DEFINE q == [pc |-> "done", ch |-> req[c].ch, status |-> code]
<1>3. req' = [req EXCEPT ![c] = q] /\ q.pc = "done" /\ q.status \in {200, 500} /\ q.ch = req[c].ch
    BY <1>2, StepIs
<1>4. q \in ReqType
    BY PressTypes DEF ReqType, Places, Answers
<1> HIDE DEF q
<1>5. /\ Minted(challenges, req[c].ch) /\ Chat!Wallet(req[c].ch) = task[c].wallet
      /\ task[c].pc \in {"answer", "failed"}
    BY <1>1, PressTypes DEF ReqSound, Chat!Wallet
<1>6. /\ task \in [Clicks -> TaskType] /\ req \in [Clicks -> ReqType] /\ challenges \in Seq(ChallengeType)
      /\ account \in Wallets \cup {NoWallet} /\ session \in Nat /\ epoch \in Nat /\ chat_feed \in Seq(RowType)
    BY DEF ChatInv, ChatTypes
<1>7. row \in RowType
    <2>1. req[c].ch \in DOMAIN challenges
        BY <1>5 DEF Minted
    <2>2. challenges[req[c].ch] \in ChallengeType
        BY <1>6, <2>1
    <2>3. QED
        BY <2>1, <2>2, <1>6 DEF RowType, ChallengeType, Chat!Wallet
<1>8. row.click = c /\ row.ch = req[c].ch /\ row.wallet = task[c].wallet
    BY <1>5
<1> HIDE DEF row
<1>9. /\ chat_feed' \in Seq(RowType) /\ Len(chat_feed') = Len(chat_feed) + 1 /\ Len(chat_feed) \in Nat
      /\ DOMAIN chat_feed' = 1 .. Len(chat_feed) + 1 /\ DOMAIN chat_feed = 1 .. Len(chat_feed)
      /\ chat_feed'[Len(chat_feed) + 1] = row /\ \A i \in DOMAIN chat_feed : chat_feed'[i] = chat_feed[i]
    BY <1>1, <1>6, <1>7
<1>10. \A i \in DOMAIN chat_feed : chat_feed[i].click # c /\ RowSound(challenges, task, req', chat_feed[i])
    <2> SUFFICES ASSUME NEW i \in DOMAIN chat_feed
                 PROVE  chat_feed[i].click # c /\ RowSound(challenges, task, req', chat_feed[i])
        OBVIOUS
    <2>1. RowSound(challenges, task, req, chat_feed[i])
        BY DEF ChatInv
    <2>2. chat_feed[i].click # c
        BY <2>1, <1>1 DEF RowSound, Over
    <2>3. req'[chat_feed[i].click] = req[chat_feed[i].click]
        <3>1. chat_feed[i] \in RowType
            BY <1>6
        <3>2. chat_feed[i].click \in Clicks
            BY <3>1 DEF RowType
        <3>3. QED
            BY <1>3, <1>6, <2>2, <3>2
    <2>4. QED
        BY <2>1, <2>2, <2>3 DEF RowSound
<1>11. RowSound(challenges, task, req', row)
    BY <1>3, <1>5, <1>6, <1>8 DEF RowSound, Over
<1>12. \A i \in DOMAIN chat_feed' : RowSound(challenges', task', req', chat_feed'[i])
    BY <1>1, <1>9, <1>10, <1>11
<1>13. OncePerPress'
    <2> SUFFICES ASSUME NEW i \in DOMAIN chat_feed', NEW j \in DOMAIN chat_feed', chat_feed'[i].click = chat_feed'[j].click
                 PROVE  i = j
        BY DEF OncePerPress
    <2>1. \A k, l \in DOMAIN chat_feed : chat_feed[k].click = chat_feed[l].click => k = l
        BY DEF ChatInv, OncePerPress
    <2>2. CASE i \in DOMAIN chat_feed /\ j \in DOMAIN chat_feed
        BY <1>9, <2>1, <2>2
    <2>3. CASE ~(i \in DOMAIN chat_feed /\ j \in DOMAIN chat_feed)
        BY <1>8, <1>9, <1>10, <2>3
    <2>4. QED
        BY <2>2, <2>3
<1>14. \A x \in Clicks : ReqSound(challenges', task'[x], req'[x])
    <2> SUFFICES ASSUME NEW x \in Clicks PROVE ReqSound(challenges, task[x], req'[x])
        BY <1>1
    <2>1. CASE x = c
        BY <1>3, <1>5, <1>6, <2>1 DEF ReqSound, Chat!Wallet
    <2>2. CASE x # c
        BY <1>3, <1>6, <2>2 DEF ChatInv
    <2>3. QED
        BY <2>1, <2>2
<1>15. ChatTypes'
    BY <1>1, <1>3, <1>4, <1>6, <1>9 DEF ChatTypes
<1>16. QED
    BY <1>1, <1>12, <1>13, <1>14, <1>15 DEF ChatInv

-----------------------------------------------------------------------------
(* The steps that change a challenge: it is the press's own.               *)

LEMMA ChallengeKeeps ==
    ASSUME ChatInv, NEW c \in Clicks, NEW t \in TaskType, NEW chs, task[c].pc \in SigningIn,
           task' = [task EXCEPT ![c] = t], challenges' = chs, Extends(chs, challenges),
           UNCHANGED <<account, req, epoch, chat_feed>>, session' \in Nat,
           session' # 0 => Minted(chs, session'),
           \A ch \in DOMAIN challenges : ch # task[c].ch => chs[ch] = challenges[ch],
           TaskSound(chs, t), t.pc \in SigningIn => t.ch = task[c].ch
    PROVE  ChatInv'
<1>1. \A x \in Clicks \ {c} : TaskSound(chs, task[x])
    <2> SUFFICES ASSUME NEW x \in Clicks \ {c} PROVE TaskSound(chs, task[x])
        OBVIOUS
    <2>1. TaskSound(challenges, task[x])
        BY DEF ChatInv
    <2>2. task[x].pc \in SigningIn => chs[task[x].ch] = challenges[task[x].ch] /\ task[x].ch \in DOMAIN chs
        BY <2>1 DEF ChatInv, Exclusive, TaskSound, Extends
    <2>3. task[x].pc \in Fetching => Minted(chs, task[x].ch) /\ chs[task[x].ch].wallet = challenges[task[x].ch].wallet
        BY <2>1, MintedStays DEF TaskSound
    <2>4. QED
        BY <2>1, <2>2, <2>3 DEF TaskSound, SigningIn
<1>2. req' = [req EXCEPT ![c] = req[c]] /\ req[c] \in ReqType /\ epoch' \in Nat
    BY PressTypes
<1>3. req[c].pc = "none" /\ ~Over(task[c], req[c])
    BY PressTypes DEF SigningIn
<1>4. ReqSound(chs, t, req[c])
    BY <1>3 DEF ReqSound
<1>5. QED
    BY <1>1, <1>2, <1>3, <1>4, PressKeeps

LEMMA SignKeeps == ASSUME ChatInv, NEW c \in Clicks, Chat!signMessage(c) PROVE ChatInv'
<1> DEFINE t == [task[c] EXCEPT !.pc = "verify"]
<1>1. /\ task[c].pc = "sign" /\ task' = [task EXCEPT ![c] = t]
      /\ challenges' = [challenges EXCEPT ![task[c].ch].signed = TRUE]
      /\ UNCHANGED <<account, session, req, epoch, chat_feed>>
    BY PressTypes DEF Chat!signMessage
<1>2. t \in TaskType /\ t.pc = "verify" /\ t.ch = task[c].ch /\ t.wallet = task[c].wallet
    BY PressTypes DEF TaskType, SigningIn
<1> HIDE DEF t
<1>3. PICK ch \in DOMAIN challenges : ch = task[c].ch
    BY <1>1, PressTypes DEF TaskSound, SigningIn
<1>4. PICK was \in ChallengeType : was = challenges[ch] /\ was.wallet = task[c].wallet /\ was.minted = 0
    BY <1>1, <1>3, PressTypes DEF TaskSound, SigningIn
<1>5. PICK now \in ChallengeType :
         /\ challenges' = [challenges EXCEPT ![ch] = now]
         /\ now.wallet = was.wallet /\ now.minted = 0 /\ now.signed
    <2>1. [was EXCEPT !.signed = TRUE] \in ChallengeType
        BY DEF ChallengeType
    <2>2. challenges' = [challenges EXCEPT ![ch] = [was EXCEPT !.signed = TRUE]]
        BY <1>1, <1>3, <1>4
    <2>3. QED
        BY <1>4, <2>1, <2>2 DEF ChallengeType
<1>6. /\ DOMAIN challenges' = DOMAIN challenges /\ challenges' \in Seq(ChallengeType)
      /\ challenges'[ch] = now /\ \A x \in DOMAIN challenges : x # ch => challenges'[x] = challenges[x]
    BY <1>5, PressTypes
<1>7. Extends(challenges', challenges)
    BY <1>4, <1>5, <1>6 DEF Extends
<1>8. TaskSound(challenges', t)
    BY <1>2, <1>3, <1>4, <1>5, <1>6 DEF TaskSound, SigningIn, Fetching
<1>9. session' \in Nat /\ (session' # 0 => Minted(challenges', session'))
    BY <1>1, <1>7, MintedStays DEF ChatInv, ChatTypes
<1>10. task[c].pc \in SigningIn
    BY <1>1 DEF SigningIn
<1>11. QED
    BY <1>1, <1>2, <1>3, <1>6, <1>7, <1>8, <1>9, <1>10, ChallengeKeeps

LEMMA VerifyKeeps == ASSUME ChatInv, NEW c \in Clicks, Chat!solanaVerify(c) PROVE ChatInv'
<1>1. /\ task[c].pc = "verify" /\ UNCHANGED <<account, session, req, epoch, chat_feed>>
    BY DEF Chat!solanaVerify
<1>2. CASE Chat!Consumable(task[c].ch)
    <2> DEFINE t == [task[c] EXCEPT !.pc = "consumed"]
    <2>1. /\ task' = [task EXCEPT ![c] = t]
          /\ challenges' = [challenges EXCEPT ![task[c].ch].used = TRUE]
        BY <1>2, PressTypes DEF Chat!solanaVerify
    <2>2. t \in TaskType /\ t.pc = "consumed" /\ t.ch = task[c].ch /\ t.wallet = task[c].wallet
        BY PressTypes DEF TaskType, SigningIn
    <2> HIDE DEF t
    <2>3. PICK ch \in DOMAIN challenges : ch = task[c].ch
        BY <1>1, PressTypes DEF TaskSound, SigningIn
    <2>4. PICK was \in ChallengeType :
             was = challenges[ch] /\ was.wallet = task[c].wallet /\ was.minted = 0 /\ was.signed
        BY <1>1, <2>3, PressTypes DEF TaskSound, SigningIn
    <2>5. PICK now \in ChallengeType :
             /\ challenges' = [challenges EXCEPT ![ch] = now]
             /\ now.wallet = was.wallet /\ now.minted = 0 /\ now.signed
        <3>1. [was EXCEPT !.used = TRUE] \in ChallengeType
            BY DEF ChallengeType
        <3>2. challenges' = [challenges EXCEPT ![ch] = [was EXCEPT !.used = TRUE]]
            BY <2>1, <2>3, <2>4
        <3>3. QED
            BY <2>4, <3>1, <3>2 DEF ChallengeType
    <2>6. /\ DOMAIN challenges' = DOMAIN challenges /\ challenges' \in Seq(ChallengeType)
          /\ challenges'[ch] = now /\ \A x \in DOMAIN challenges : x # ch => challenges'[x] = challenges[x]
        BY <2>5, PressTypes
    <2>7. Extends(challenges', challenges)
        BY <2>4, <2>5, <2>6 DEF Extends
    <2>8. TaskSound(challenges', t)
        BY <2>2, <2>3, <2>4, <2>5, <2>6 DEF TaskSound, SigningIn, Fetching
    <2>9. session' \in Nat /\ (session' # 0 => Minted(challenges', session'))
        BY <1>1, <2>7, MintedStays DEF ChatInv, ChatTypes
    <2>10. task[c].pc \in SigningIn
        BY <1>1 DEF SigningIn
    <2>11. QED
        BY <1>1, <2>1, <2>2, <2>3, <2>6, <2>7, <2>8, <2>9, <2>10, ChallengeKeeps
<1>3. CASE ~Chat!Consumable(task[c].ch)
    <2> DEFINE t == [task[c] EXCEPT !.pc = "failed"]
    <2>1. task' = [task EXCEPT ![c] = t] /\ UNCHANGED challenges
        BY <1>3, PressTypes DEF Chat!solanaVerify
    <2>2. t \in TaskType /\ t.pc = "failed"
        BY PressTypes DEF TaskType
    <2> HIDE DEF t
    <2>3. TaskSound(challenges, t) /\ t.pc \notin SigningIn
        BY <2>2 DEF TaskSound, SigningIn, Fetching
    <2>4. req[c].pc = "none" /\ ~Over(task[c], req[c])
        BY <1>1, PressTypes
    <2>5. ReqSound(challenges, t, req[c]) /\ req' = [req EXCEPT ![c] = req[c]] /\ req[c] \in ReqType
        BY <1>1, <2>4, PressTypes DEF ReqSound
    <2>6. QED
        BY <1>1, <2>1, <2>2, <2>3, <2>4, <2>5, BrowserKeeps
<1>4. QED
    BY <1>2, <1>3

LEMMA SaveKeeps == ASSUME ChatInv, NEW c \in Clicks, Chat!saveSession(c) PROVE ChatInv'
<1>1. /\ task[c].pc = "consumed" /\ UNCHANGED <<account, req, epoch, chat_feed>>
    BY DEF Chat!saveSession
<1>2. CASE Chat!isChatSessionCurrent(task[c].ch)
    <2> DEFINE t == [task[c] EXCEPT !.pc = "fetch"]
    <2>1. /\ task' = [task EXCEPT ![c] = t] /\ session' = task[c].ch
          /\ challenges' = [challenges EXCEPT ![task[c].ch].minted = @ + 1]
        BY <1>2, PressTypes DEF Chat!saveSession
    <2>2. /\ t \in TaskType /\ t.pc = "fetch" /\ t.ch = task[c].ch /\ t.wallet = task[c].wallet
          /\ session' \in Nat
        BY <2>1, PressTypes DEF TaskType, Fetching
    <2> HIDE DEF t
    <2>3. PICK ch \in DOMAIN challenges : ch = task[c].ch
        BY <1>1, PressTypes DEF TaskSound, SigningIn
    <2>4. PICK was \in ChallengeType :
             was = challenges[ch] /\ was.wallet = task[c].wallet /\ was.minted = 0 /\ was.signed
        BY <1>1, <2>3, PressTypes DEF TaskSound, SigningIn
    <2>5. PICK now \in ChallengeType :
             /\ challenges' = [challenges EXCEPT ![ch] = now]
             /\ now.wallet = was.wallet /\ now.minted = 1 /\ now.signed
        <3>1. [was EXCEPT !.minted = 1] \in ChallengeType
            BY DEF ChallengeType
        <3>2. challenges' = [challenges EXCEPT ![ch] = [was EXCEPT !.minted = 1]]
            BY <2>1, <2>3, <2>4
        <3>3. QED
            BY <2>4, <3>1, <3>2 DEF ChallengeType
    <2>6. /\ DOMAIN challenges' = DOMAIN challenges /\ challenges' \in Seq(ChallengeType)
          /\ challenges'[ch] = now /\ \A x \in DOMAIN challenges : x # ch => challenges'[x] = challenges[x]
        BY <2>5, PressTypes
    <2>7. Extends(challenges', challenges)
        BY <2>4, <2>5, <2>6 DEF Extends
    <2>8. TaskSound(challenges', t) /\ Minted(challenges', session')
        BY <2>1, <2>2, <2>3, <2>4, <2>5, <2>6 DEF TaskSound, Minted, SigningIn, Fetching
    <2>9. task[c].pc \in SigningIn /\ t.pc \notin SigningIn
        BY <1>1, <2>2 DEF SigningIn
    <2>10. QED
        BY <1>1, <2>1, <2>2, <2>3, <2>6, <2>7, <2>8, <2>9, ChallengeKeeps
<1>3. CASE ~Chat!isChatSessionCurrent(task[c].ch)
    <2> DEFINE t == [task[c] EXCEPT !.pc = "failed"]
    <2>1. task' = [task EXCEPT ![c] = t] /\ UNCHANGED <<challenges, session>>
        BY <1>3, PressTypes DEF Chat!saveSession
    <2>2. t \in TaskType /\ t.pc = "failed"
        BY PressTypes DEF TaskType
    <2> HIDE DEF t
    <2>3. TaskSound(challenges, t) /\ t.pc \notin SigningIn
        BY <2>2 DEF TaskSound, SigningIn, Fetching
    <2>4. req[c].pc = "none" /\ ~Over(task[c], req[c])
        BY <1>1, PressTypes
    <2>5. ReqSound(challenges, t, req[c]) /\ req' = [req EXCEPT ![c] = req[c]] /\ req[c] \in ReqType
        BY <1>1, <2>4, PressTypes DEF ReqSound
    <2>6. QED
        BY <1>1, <2>1, <2>2, <2>3, <2>4, <2>5, BrowserKeeps
<1>4. QED
    BY <1>2, <1>3

LEMMA NonceKeeps == ASSUME ChatInv, NEW c \in Clicks, Chat!solanaNonce(c) PROVE ChatInv'
<1> DEFINE row == [wallet |-> task[c].wallet, epoch |-> task[c].ch, used |-> FALSE,
                   signed |-> FALSE, minted |-> 0]
           n == Len(challenges) + 1
           t == [[task[c] EXCEPT !.pc = "sign"] EXCEPT !.ch = n]
<1>1. /\ task[c].pc = "challenge" /\ challenges' = Append(challenges, row)
      /\ task' = [task EXCEPT ![c].pc = "sign", ![c].ch = n]
      /\ UNCHANGED <<account, session, req, epoch, chat_feed>>
    BY DEF Chat!solanaNonce
<1>2. task' = [task EXCEPT ![c] = t]
    BY <1>1, PressTypes
<1>3. n \in Nat /\ n >= 1 /\ n \notin DOMAIN challenges /\ DOMAIN challenges = 1 .. Len(challenges)
    BY PressTypes
<1>4. t \in TaskType /\ t.pc = "sign" /\ t.ch = n /\ t.wallet = task[c].wallet
    BY <1>3, PressTypes DEF TaskType, SigningIn
<1>5. row \in ChallengeType /\ row.wallet = task[c].wallet /\ row.minted = 0
    BY <1>1, PressTypes DEF ChallengeType, TaskType, TaskSound
<1> HIDE DEF row, t
<1>6. /\ challenges' \in Seq(ChallengeType) /\ DOMAIN challenges' = 1 .. n /\ challenges'[n] = row
      /\ \A ch \in DOMAIN challenges : ch \in DOMAIN challenges' /\ challenges'[ch] = challenges[ch]
    BY <1>1, <1>3, <1>5, PressTypes
<1> HIDE DEF n
<1>7. Extends(challenges', challenges)
    BY <1>6 DEF Extends
<1>8. n \in DOMAIN challenges'
    BY <1>3, <1>6
<1>9. TaskSound(challenges', t)
    BY <1>4, <1>5, <1>6, <1>8 DEF TaskSound, SigningIn, Fetching
<1>10. \A x \in Clicks \ {c} :
          /\ TaskSound(challenges', task[x])
          /\ task[x].pc \in SigningIn => task[x].ch # n
    <2> SUFFICES ASSUME NEW x \in Clicks \ {c}
                 PROVE  TaskSound(challenges', task[x]) /\ (task[x].pc \in SigningIn => task[x].ch # n)
        OBVIOUS
    <2>1. TaskSound(challenges, task[x])
        BY DEF ChatInv
    <2>2. QED
        BY <1>3, <1>6, <2>1 DEF TaskSound, Minted, SigningIn
<1>11. session' \in Nat /\ epoch' \in Nat /\ (session' # 0 => Minted(challenges', session'))
    BY <1>1, <1>7, MintedStays DEF ChatInv, ChatTypes
<1>12. req[c].pc = "none" /\ ~Over(task[c], req[c])
    BY <1>1, PressTypes
<1>13. ReqSound(challenges', t, req[c]) /\ req' = [req EXCEPT ![c] = req[c]] /\ req[c] \in ReqType
    BY <1>1, <1>12, PressTypes DEF ReqSound
<1>14. QED
    BY <1>1, <1>2, <1>4, <1>7, <1>9, <1>10, <1>11, <1>12, <1>13, PressKeeps

-----------------------------------------------------------------------------
(* The user, the operators, and all steps together.                        *)

LEMMA FaultsKeep ==
    ASSUME ChatInv, Chat!syncAccount \/ Chat!switchWallet \/ Chat!ban \/ Chat!rotateEpoch \/ Chat!expireSession PROVE ChatInv'
<1>1. account \in Wallets \cup {NoWallet} /\ epoch \in Nat
    BY DEF ChatInv, ChatTypes
<1>2. UNCHANGED <<task, req, challenges, chat_feed>>
    BY DEF Chat!syncAccount, Chat!switchWallet, Chat!ban, Chat!rotateEpoch, Chat!expireSession, Chat!server, Chat!browser
<1>3. account' \in Wallets \cup {NoWallet} /\ epoch' \in Nat /\ session' \in {0, session}
    BY <1>1 DEF Chat!syncAccount, Chat!switchWallet, Chat!ban, Chat!rotateEpoch, Chat!expireSession, Chat!server, Chat!browser
<1>4. QED
    BY <1>2, <1>3, ChatRests

LEMMA ChatStep == ChatInv /\ [Chat!Next]_(Chat!vars) => ChatInv'
<1> SUFFICES ASSUME ChatInv, [Chat!Next]_(Chat!vars) PROVE ChatInv'
    OBVIOUS
<1>1. ASSUME NEW c \in Clicks,
             \/ Chat!sendChatMessage(c) \/ Chat!restore(c) \/ Chat!readEpoch(c) \/ Chat!solanaNonce(c) \/ Chat!signMessage(c)
             \/ Chat!solanaVerify(c) \/ Chat!saveSession(c) \/ Chat!fetchJson(c) \/ Chat!receive(c)
             \/ Chat!requireSession(c) \/ Chat!refuse(c) \/ Chat!readProfile(c) \/ Chat!insertMessage(c)
      PROVE  ChatInv'
    BY <1>1, SendKeeps, RestoreKeeps, ReadEpochKeeps, NonceKeeps, SignKeeps, VerifyKeeps, SaveKeeps,
       SessionFetchKeeps, ReceiveKeeps, RequestsKeep, InsertKeeps
<1>2. CASE Chat!syncAccount \/ Chat!switchWallet \/ Chat!ban \/ Chat!rotateEpoch \/ Chat!expireSession
    BY <1>2, FaultsKeep
<1>3. CASE UNCHANGED Chat!vars
    <2>1. account \in Wallets \cup {NoWallet} /\ epoch \in Nat
        BY DEF ChatInv, ChatTypes
    <2>2. QED
        BY <1>3, <2>1, ChatRests DEF Chat!vars
<1>4. QED
    BY <1>1, <1>2, <1>3 DEF Chat!Next

-----------------------------------------------------------------------------
(* The wallet's history and claims.                                        *)

\* The standard operators an instance brings along are the standard ones.
LEMMA StandardInWallet ==
    /\ \A S : Wallet!Cardinality(S) = Cardinality(S)
    /\ \A S : Wallet!IsFiniteSet(S) <=> IsFiniteSet(S)
    /\ \A seq : Wallet!ToSet(seq) = ToSet(seq)
    /\ \A S : Wallet!Min(S) = Min(S)
    /\ \A S : Wallet!SetToSeq(S) = SetToSeq(S)
<1>1. \A S : Wallet!Cardinality(S) = Cardinality(S)
    BY DEF Wallet!Cardinality, Cardinality
<1>2. \A S : Wallet!IsFiniteSet(S) <=> IsFiniteSet(S)
    BY DEF Wallet!IsFiniteSet, IsFiniteSet
<1>3. \A seq : Wallet!ToSet(seq) = ToSet(seq)
    BY DEF Wallet!ToSet, ToSet
<1>4. \A S : Wallet!Min(S) = Min(S)
    BY DEF Wallet!Min, Min
<1>5. \A S : Wallet!SetToSeq(S) = SetToSeq(S)
  <2>1. \A f : Wallet!IsInjective(f) <=> IsInjective(f)
    BY DEF Wallet!IsInjective, IsInjective
  <2> QED BY <1>1, <2>1 DEF Wallet!SetToSeq, SetToSeq
<1> QED BY <1>1, <1>2, <1>3, <1>4, <1>5

Status == {"open", "claimed", "closed"}
LoadType ==
    [ pc : {"idle", "wallet", "status", "build"}, before : SUBSET Wallet!Rounds, recent : SUBSET Wallet!Rounds,
      wallet : SUBSET Wallet!Rounds, known : BOOLEAN, mine : SUBSET Wallet!Rounds ]
ClaimType ==
    [ pc : {"idle", "send", "reconcile"}, requested : SUBSET Wallet!Rounds, claims : Seq(Receipts),
      confirmed : SUBSET Receipts ]
ShownType == [unknown : {0, 1}, before : SUBSET Wallet!Rounds, claimable : SUBSET Wallet!Rounds]
WalletTypes ==
    /\ settled \in SUBSET Wallet!Rounds /\ winners \in SUBSET Receipts /\ st \in [Receipts -> Status]

HasWin(r) == \E p \in Wallet!OfRounds(winners, {r}) : st[p] = "open"

\* What a load has read of the rounds that were settled when it began.
LoadSound ==
    /\ load \in LoadType /\ told \in ShownType
    /\ load.pc # "idle" => load.before \in SUBSET settled
    /\ load.pc = "status" /\ load.known => \A r \in load.before : HasWin(r) => r \in load.wallet
    /\ load.pc = "build" /\ load.known => \A r \in load.before : HasWin(r) => r \in load.mine

\* Every open receipt of the rounds asked for is among the claims, and none of
\* the confirmed ones is open.
ClaimTypes == claim \in ClaimType /\ claim.confirmed \in SUBSET ToSet(claim.claims)
ClaimSound ==
    /\ claim.confirmed \cap Wallet!Open = {}
    /\ claim.pc # "idle" => Wallet!OfRounds(Wallet!Open, claim.requested) \subseteq ToSet(claim.claims)

WalletInv ==
    /\ WalletTypes /\ LoadSound /\ Wallet!NoHiddenWin
    /\ ClaimTypes /\ ClaimSound /\ Wallet!ClaimReportSound

LEMMA WalletBegins == Wallet!WalletAssumption /\ Wallet!Init => WalletInv
<1> SUFFICES ASSUME Wallet!WalletAssumption, Wallet!Init PROVE WalletInv
    OBVIOUS
<1>1. WalletTypes
    BY DEF Wallet!Init, WalletTypes, Status
<1>2. LoadSound /\ Wallet!NoHiddenWin
    BY DEF Wallet!Init, Wallet!NoLoad, LoadSound, Wallet!NoHiddenWin, LoadType, ShownType
<1>3. ClaimTypes /\ ClaimSound
    BY DEF Wallet!Init, Wallet!NoClaim, ClaimTypes, ClaimType, ClaimSound
<1>4. Wallet!ClaimReportSound
    BY DEF Wallet!Init, Wallet!ClaimReportSound, Wallet!OfRounds
<1>5. QED
    BY <1>1, <1>2, <1>3, <1>4 DEF WalletInv

-----------------------------------------------------------------------------
(* The chain: a receipt that is not open never is again.                   *)

OnlyCloses ==
    /\ winners' = winners /\ settled \subseteq settled' /\ st' \in [Receipts -> Status]
    /\ \A p \in Receipts : st'[p] = "open" => st[p] = "open"

LEMMA OpenShrinks == ASSUME WalletTypes, OnlyCloses
    PROVE /\ Wallet!Open' \subseteq Wallet!Open /\ \A r : HasWin(r)' => HasWin(r)
          /\ \A rs : Wallet!OfRounds(Wallet!Open', rs) \subseteq Wallet!OfRounds(Wallet!Open, rs)
<1>1. Wallet!Open' \subseteq Wallet!Open
    BY DEF Wallet!Open, OnlyCloses
<1>2. \A r : HasWin(r)' => HasWin(r)
    BY DEF HasWin, Wallet!OfRounds, OnlyCloses, WalletTypes
<1>3. QED
    BY <1>1, <1>2 DEF Wallet!OfRounds

LEMMA LoadStays ==
    ASSUME WalletTypes, OnlyCloses, LoadSound, Wallet!NoHiddenWin, UNCHANGED <<load, told>>
    PROVE  LoadSound' /\ Wallet!NoHiddenWin'
<1>1. \A r : HasWin(r)' => HasWin(r)
    BY OpenShrinks
<1>2. LoadSound'
    BY <1>1 DEF LoadSound, OnlyCloses
<1>3. Wallet!NoHiddenWin'
    BY <1>1 DEF Wallet!NoHiddenWin, HasWin
<1>4. QED
    BY <1>2, <1>3

LEMMA ReportStays ==
    ASSUME WalletTypes, OnlyCloses, Wallet!ClaimReportSound, UNCHANGED report
    PROVE  Wallet!ClaimReportSound'
BY OpenShrinks DEF Wallet!ClaimReportSound

LEMMA ClaimStays ==
    ASSUME WalletTypes, OnlyCloses, ClaimTypes, ClaimSound, Wallet!ClaimReportSound, UNCHANGED <<claim, report>>
    PROVE  ClaimTypes' /\ ClaimSound' /\ Wallet!ClaimReportSound'
BY OpenShrinks, ReportStays DEF ClaimTypes, ClaimSound

LEMMA ChainKeeps == ASSUME WalletInv, Wallet!settleRound \/ Wallet!keeper PROVE WalletInv'
<1>1. OnlyCloses /\ WalletTypes'
    BY DEF WalletInv, WalletTypes, Wallet!settleRound, Wallet!keeper, OnlyCloses, Status
<1>2. UNCHANGED <<load, told, claim, report>>
    BY DEF Wallet!settleRound, Wallet!keeper, Wallet!history
<1>3. QED
    BY <1>1, <1>2, LoadStays, ClaimStays DEF WalletInv

-----------------------------------------------------------------------------
(* The history load.                                                       *)

\* A scan never omits a receipt that is still open.
LEMMA ScanHasOpen == \A scan \in Wallet!decodedReceipts : \A p \in Receipts : st[p] = "open" => scan[p] = "open"
BY DEF Wallet!decodedReceipts

LEMMA LoadKeeps ==
    ASSUME WalletInv, Wallet!readRecent \/ Wallet!readWalletReceiptRounds \/ Wallet!readMyClaimStatus \/ Wallet!buildClaimable \/ Wallet!loadFails
    PROVE  WalletInv'
<1>1. UNCHANGED <<settled, winners, st, claim, report>>
    BY DEF Wallet!readRecent, Wallet!readWalletReceiptRounds, Wallet!readMyClaimStatus, Wallet!buildClaimable, Wallet!loadFails, Wallet!chain
<1>2. WalletTypes' /\ ClaimTypes' /\ ClaimSound' /\ Wallet!ClaimReportSound'
    BY <1>1 DEF WalletInv, WalletTypes, ClaimTypes, ClaimSound, Wallet!ClaimReportSound, Wallet!Open
<1>3. \A r : HasWin(r)' <=> HasWin(r)
    BY <1>1 DEF HasWin
<1>4. load \in LoadType /\ told \in ShownType /\ settled \in SUBSET Wallet!Rounds
    BY DEF WalletInv, LoadSound, WalletTypes
<1>5. CASE Wallet!readRecent
    <2>1. PICK recent \in SUBSET Wallet!Rounds :
             load' = [Wallet!NoLoad EXCEPT !.pc = "wallet", !.before = settled, !.recent = recent]
        BY <1>4, <1>5 DEF Wallet!readRecent
    <2>2. load' \in LoadType /\ load'.pc = "wallet" /\ load'.before = settled /\ told' = told
        BY <1>4, <1>5, <2>1 DEF Wallet!readRecent, Wallet!NoLoad, LoadType
    <2>3. LoadSound' /\ Wallet!NoHiddenWin'
        BY <1>1, <1>4, <2>2 DEF LoadSound, Wallet!NoHiddenWin, WalletInv
    <2>4. QED
        BY <1>2, <2>3 DEF WalletInv
<1>6. CASE Wallet!readWalletReceiptRounds
    <2>1. told' = told /\ load.pc = "wallet" /\ load.before \in SUBSET settled
        BY <1>6 DEF Wallet!readWalletReceiptRounds, WalletInv, LoadSound
    <2>2. PICK ok \in BOOLEAN : Wallet!WalletScan(ok)
        BY <1>6 DEF Wallet!readWalletReceiptRounds
    <2>3. CASE ok
        <3>1. PICK scan \in Wallet!decodedReceipts :
                 load' = [load EXCEPT !.pc = "status",
                              !.wallet = settled \cap Wallet!RoundsOf({p \in Receipts : scan[p] = "open"})]
            BY <2>2, <2>3 DEF Wallet!WalletScan
        <3> DEFINE found == settled \cap Wallet!RoundsOf({p \in Receipts : scan[p] = "open"})
        <3>2. found \in SUBSET Wallet!Rounds
            BY <1>4
        <3>3. \A r \in load.before : HasWin(r) => r \in found
            BY <2>1, ScanHasOpen DEF HasWin, Wallet!OfRounds, Wallet!RoundsOf, WalletInv, WalletTypes
        <3>4. load' = [load EXCEPT !.pc = "status", !.wallet = found]
            BY <3>1
        <3> HIDE DEF found
        <3>5. load' \in LoadType /\ load'.pc = "status" /\ load'.before = load.before /\ load'.wallet = found
            BY <1>4, <3>2, <3>4 DEF LoadType
        <3>6. LoadSound' /\ Wallet!NoHiddenWin'
            BY <1>1, <1>3, <1>4, <2>1, <3>3, <3>5 DEF LoadSound, Wallet!NoHiddenWin, WalletInv
        <3>7. QED
            BY <1>2, <3>6 DEF WalletInv
    <2>4. CASE ~ok
        <3>1. load' = [load EXCEPT !.pc = "status", !.known = FALSE]
            BY <2>2, <2>4 DEF Wallet!WalletScan
        <3>2. load' \in LoadType /\ load'.pc = "status" /\ load'.before = load.before /\ ~load'.known
            BY <1>4, <3>1 DEF LoadType
        <3>3. LoadSound' /\ Wallet!NoHiddenWin'
            BY <1>1, <1>4, <2>1, <3>2 DEF LoadSound, Wallet!NoHiddenWin, WalletInv
        <3>4. QED
            BY <1>2, <3>3 DEF WalletInv
    <2>5. QED
        BY <2>3, <2>4
<1>7. CASE Wallet!readMyClaimStatus
    <2>1. told' = told /\ load.pc = "status" /\ load.before \in SUBSET settled
        BY <1>7 DEF Wallet!readMyClaimStatus, WalletInv, LoadSound
    <2>2. CASE load.known
        <3>1. PICK scan \in Wallet!decodedReceipts :
                 load' = [load EXCEPT !.pc = "build",
                              !.mine = {r \in Wallet!mergeSettledClaimRounds : Wallet!Actionable(scan, r)}]
            BY <1>7, <2>2 DEF Wallet!readMyClaimStatus
        <3> DEFINE found == {r \in Wallet!mergeSettledClaimRounds : Wallet!Actionable(scan, r)}
        <3>2. found \in SUBSET Wallet!Rounds
            BY <1>4 DEF Wallet!mergeSettledClaimRounds, LoadType
        <3>3. \A r \in load.before : HasWin(r) => r \in load.wallet
            BY <2>1, <2>2 DEF WalletInv, LoadSound
        <3>4. \A r \in load.before : HasWin(r) => r \in found
            BY <3>3, ScanHasOpen
            DEF HasWin, Wallet!OfRounds, Wallet!Actionable, Wallet!mergeSettledClaimRounds, WalletInv, WalletTypes
        <3>5. load' = [load EXCEPT !.pc = "build", !.mine = found]
            BY <3>1
        <3> HIDE DEF found
        <3>6. load' \in LoadType /\ load'.pc = "build" /\ load'.before = load.before /\ load'.mine = found
            BY <1>4, <3>2, <3>5 DEF LoadType
        <3>7. LoadSound' /\ Wallet!NoHiddenWin'
            BY <1>1, <1>3, <1>4, <2>1, <3>4, <3>6 DEF LoadSound, Wallet!NoHiddenWin, WalletInv
        <3>8. QED
            BY <1>2, <3>7 DEF WalletInv
    <2>3. CASE ~load.known
        <3>1. load' = [load EXCEPT !.pc = "build"]
            BY <1>7, <2>3 DEF Wallet!readMyClaimStatus
        <3>2. load' \in LoadType /\ load'.pc = "build" /\ load'.before = load.before /\ ~load'.known
            BY <1>4, <2>3, <3>1 DEF LoadType
        <3>3. LoadSound' /\ Wallet!NoHiddenWin'
            BY <1>1, <1>4, <2>1, <3>2 DEF LoadSound, Wallet!NoHiddenWin, WalletInv
        <3>4. QED
            BY <1>2, <3>3 DEF WalletInv
    <2>4. QED
        BY <2>2, <2>3
<1>8. Wallet!NoLoad \in LoadType /\ Wallet!NoLoad.pc = "idle"
    BY DEF Wallet!NoLoad, LoadType
<1>9. CASE Wallet!buildClaimable
    <2>1. /\ load.pc = "build" /\ load' = Wallet!NoLoad
          /\ told' = [unknown |-> IF load.known THEN 0 ELSE 1, before |-> load.before, claimable |-> load.mine]
        BY <1>9 DEF Wallet!buildClaimable
    <2>2. told' \in ShownType /\ told'.before = load.before /\ told'.claimable = load.mine
        BY <1>4, <2>1 DEF LoadType, ShownType
    <2>3. told'.unknown = 0 => load.known
        BY <1>4, <2>1 DEF LoadType
    <2>4. load.known => \A r \in load.before : HasWin(r) => r \in load.mine
        BY <2>1 DEF WalletInv, LoadSound
    <2>5. LoadSound'
        BY <1>8, <2>1, <2>2 DEF LoadSound
    <2>6. Wallet!NoHiddenWin'
        BY <1>1, <2>2, <2>3, <2>4 DEF Wallet!NoHiddenWin, HasWin
    <2>7. QED
        BY <1>2, <2>5, <2>6 DEF WalletInv
<1>10. CASE Wallet!loadFails
    <2>1. load' = Wallet!NoLoad /\ told' = told
        BY <1>10 DEF Wallet!loadFails
    <2>2. LoadSound' /\ Wallet!NoHiddenWin'
        BY <1>1, <1>4, <1>8, <2>1 DEF LoadSound, Wallet!NoHiddenWin, WalletInv
    <2>3. QED
        BY <1>2, <2>2 DEF WalletInv
<1>11. QED
    BY <1>5, <1>6, <1>7, <1>9, <1>10

-----------------------------------------------------------------------------
(* The claim.                                                              *)

\* The claims are the rows found, in some order.
LEMMA ListOfRows ==
    ASSUME NEW S, IsFiniteSet(S)
    PROVE  SetToSeq(S) \in Seq(S) /\ ToSet(SetToSeq(S)) = S
<1> DEFINE N == Cardinality(S)
           Listed(f) == f \in [1..N -> S] /\ IsInjective(f)
<1>1. N \in Nat /\ ExistsBijection(1..N, S)
    BY FS_CardinalityType
<1>2. IsFiniteSet(1..N) /\ Cardinality(1..N) = N
    BY <1>1, FS_Interval
<1> HIDE DEF N
<1>3. \E f : Listed(f)
    BY <1>1 DEF ExistsBijection, Bijection, Injection
<1>4. SetToSeq(S) = CHOOSE f : Listed(f)
    BY DEF SetToSeq, N
<1>5. Listed(SetToSeq(S))
  <2> HIDE DEF Listed
  <2> QED BY <1>3, <1>4
<1>6. PICK f : f = SetToSeq(S)
    OBVIOUS
<1>7. f \in Injection(1..N, S)
    BY <1>5, <1>6 DEF Injection, IsInjective
<1>8. f \in Surjection(1..N, S)
    BY <1>2, <1>7, FS_Injection DEF N
<1>9. f \in Seq(S) /\ ToSet(f) = S
    BY <1>1, <1>8 DEF Surjection, ToSet
<1>10. QED
    BY <1>6, <1>9

\* A sequence has at most as many elements as its length.
LEMMA AllConfirmed ==
    ASSUME NEW S, NEW s \in Seq(S), NEW T \in SUBSET ToSet(s), Cardinality(T) = Len(s)
    PROVE  T = ToSet(s)
<1>1. s \in Surjection(1..Len(s), ToSet(s))
    BY DEF Surjection, ToSet
<1>2. IsFiniteSet(1..Len(s)) /\ Cardinality(1..Len(s)) = Len(s)
  <2>1. PICK n : n = Len(s)
    OBVIOUS
  <2>2. n \in Nat
    BY <2>1
  <2>3. IsFiniteSet(1..n) /\ Cardinality(1..n) = n
    <3>1. IsFiniteSet(1..n) /\ Cardinality(1..n) = IF 1 > n THEN 0 ELSE n - 1 + 1
      BY <2>2, FS_Interval, 1 \in Int, n \in Int
    <3>2. n = IF 1 > n THEN 0 ELSE n - 1 + 1
      BY <2>2
    <3> QED BY <3>1, <3>2
  <2> QED BY <2>1, <2>3
<1>3. IsFiniteSet(ToSet(s)) /\ Cardinality(ToSet(s)) <= Len(s)
    BY <1>1, <1>2, FS_Surjection
<1>4. /\ Cardinality(T) <= Cardinality(ToSet(s))
      /\ Cardinality(ToSet(s)) = Cardinality(T) => ToSet(s) = T
    BY <1>3, FS_Subset
<1>5. Cardinality(ToSet(s)) \in Nat /\ Len(s) \in Nat
    BY <1>3, FS_CardinalityType
<1>6. QED
    BY <1>3, <1>4, <1>5

\* A chunk holds claims.
LEMMA ChunkOfClaims ==
    ASSUME Wallet!WalletAssumption, WalletTypes, ClaimTypes
    PROVE  ToSet(Wallet!Chunk) \subseteq ToSet(claim.claims)
<1>1. PICK s : s = claim.claims
    OBVIOUS
<1>2. PICK n : n = Cardinality(claim.confirmed)
    OBVIOUS
<1>3. s \in Seq(Receipts) /\ claim.confirmed \in SUBSET Receipts
    BY <1>1 DEF ClaimTypes, ClaimType
<1>4. n \in Nat
    BY <1>2, <1>3, FS_Subset, FS_CardinalityType, StandardInWallet DEF Wallet!WalletAssumption
<1>5. PICK m : m = Min({n + CHUNK_SIZE, Len(s)})
    OBVIOUS
<1>6. m \in Nat /\ m <= Len(s)
  <2>1. \E x \in {n + CHUNK_SIZE, Len(s)} : \A y \in {n + CHUNK_SIZE, Len(s)} : x <= y
    BY <1>3, <1>4 DEF Wallet!WalletAssumption
  <2>2. m \in {n + CHUNK_SIZE, Len(s)} /\ \A y \in {n + CHUNK_SIZE, Len(s)} : m <= y
    BY <1>5, <2>1 DEF Min
  <2> QED BY <1>3, <1>4, <2>2 DEF Wallet!WalletAssumption
<1>7. \A i \in n + 1 .. m : s[i] \in ToSet(s)
    BY <1>3, <1>4, <1>6 DEF ToSet
<1>8. Wallet!Chunk = SubSeq(s, n + 1, m)
    BY <1>1, <1>2, <1>5, StandardInWallet DEF Wallet!Chunk
<1>9. SubSeq(s, n + 1, m) \in Seq(ToSet(s))
    BY <1>4, <1>6, <1>7, SubSeqProperties
<1>10. PICK ch : ch = SubSeq(s, n + 1, m)
    OBVIOUS
<1>11. \A i \in DOMAIN ch : ch[i] \in ToSet(s)
    BY <1>9, <1>10
<1>12. ToSet(ch) \subseteq ToSet(s)
  <2> DEFINE elements == ToSet(s)
  <2>1. \A i \in DOMAIN ch : ch[i] \in elements
    BY <1>11
  <2> HIDE DEF elements
  <2>2. ToSet(ch) \subseteq elements
    BY <2>1 DEF ToSet
  <2> QED BY <2>2 DEF elements
<1>13. QED
    BY <1>1, <1>8, <1>10, <1>12

\* What a claim finds on the chain is what its scan says of open receipts.
LEMMA ClaimBegins == ASSUME Wallet!WalletAssumption, WalletInv, Wallet!claimManyRounds PROVE WalletInv'
<1>1. UNCHANGED <<settled, winners, st, load, told, loads, report>>
    BY DEF Wallet!claimManyRounds, Wallet!chain, Wallet!history
<1>2. OnlyCloses /\ WalletTypes'
    BY <1>1 DEF WalletInv, WalletTypes, OnlyCloses
<1>3. LoadSound' /\ Wallet!NoHiddenWin' /\ Wallet!ClaimReportSound'
    BY <1>1, <1>2, LoadStays, ReportStays DEF WalletInv
<1>4. PICK rs \in {told.claimable} \cup {{r} : r \in told.claimable}, scan \in Wallet!decodedReceipts :
         claim' = [Wallet!NoClaim EXCEPT !.pc = "send", !.requested = rs,
                      !.claims = SetToSeq(Wallet!OfRounds({p \in Receipts : scan[p] = "open"}, rs))]
    BY StandardInWallet DEF Wallet!claimManyRounds
<1>5. rs \in SUBSET Wallet!Rounds
    BY <1>4 DEF WalletInv, LoadSound, ShownType
<1>6. PICK listing : listing = Wallet!OfRounds({p \in Receipts : scan[p] = "open"}, rs)
    OBVIOUS
<1>7. listing \in SUBSET Receipts /\ IsFiniteSet(listing)
    BY <1>6, FS_Subset, StandardInWallet DEF Wallet!OfRounds, Wallet!WalletAssumption
<1>8. SetToSeq(listing) \in Seq(Receipts) /\ ToSet(SetToSeq(listing)) = listing
    BY <1>7, ListOfRows
<1>9. PICK list : list = SetToSeq(listing)
    OBVIOUS
<1>10. /\ claim'.pc = "send" /\ claim'.requested = rs /\ claim'.claims = list
       /\ claim'.confirmed = {} /\ claim' \in ClaimType
    BY <1>4, <1>5, <1>6, <1>8, <1>9 DEF Wallet!NoClaim, ClaimType
<1>11. Wallet!OfRounds(Wallet!Open', rs) \subseteq listing
    BY <1>1, <1>6, ScanHasOpen DEF Wallet!OfRounds, Wallet!Open
<1>12. ClaimTypes'
    BY <1>10 DEF ClaimTypes
<1>13. ClaimSound'
    BY <1>8, <1>9, <1>10, <1>11 DEF ClaimSound
<1>14. QED
    BY <1>2, <1>3, <1>12, <1>13 DEF WalletInv

LEMMA ChunkKeeps == ASSUME Wallet!WalletAssumption, WalletInv, Wallet!sendChunk PROVE WalletInv'
<1>1. UNCHANGED <<settled, winners, load, told, loads, report>>
    BY DEF Wallet!sendChunk, Wallet!history
<1>2. PICK chunk : chunk = ToSet(Wallet!Chunk)
    OBVIOUS
<1>3. chunk \subseteq ToSet(claim.claims)
    BY <1>2, ChunkOfClaims DEF WalletInv
<1>4. claim \in ClaimType /\ claim.confirmed \in SUBSET ToSet(claim.claims)
    BY DEF WalletInv, ClaimTypes
<1>5. ToSet(claim.claims) \subseteq Receipts
    BY <1>4 DEF ClaimType, ToSet
<1>6. \/ claim' = [claim EXCEPT !.confirmed = claim.confirmed \cup chunk] /\ Wallet!Claimed
      \/ claim' = [claim EXCEPT !.pc = "reconcile"] /\ (Wallet!Claimed \/ UNCHANGED st)
    BY <1>2, StandardInWallet DEF Wallet!sendChunk
<1>7. st \in [Receipts -> Status]
    BY DEF WalletInv, WalletTypes
<1>8. Wallet!Claimed => st' \in [Receipts -> Status] /\ Wallet!Open' = Wallet!Open \ chunk
    BY <1>2, <1>7, StandardInWallet DEF Wallet!Claimed, Wallet!Open, Status
<1>9. Wallet!Claimed \/ UNCHANGED st => OnlyCloses /\ WalletTypes'
    BY <1>1, <1>7, <1>8 DEF WalletInv, WalletTypes, OnlyCloses, Wallet!Open
<1>10. OnlyCloses /\ WalletTypes' /\ LoadSound' /\ Wallet!NoHiddenWin' /\ Wallet!ClaimReportSound'
    BY <1>1, <1>6, <1>9, LoadStays, ReportStays DEF WalletInv
<1>11. Wallet!Open' \subseteq Wallet!Open /\ \A rs : Wallet!OfRounds(Wallet!Open', rs) \subseteq Wallet!OfRounds(Wallet!Open, rs)
    BY <1>10, OpenShrinks DEF WalletInv
<1>12. CASE claim' = [claim EXCEPT !.confirmed = claim.confirmed \cup chunk] /\ Wallet!Claimed
  <2>1. /\ claim'.pc = claim.pc /\ claim'.requested = claim.requested
        /\ claim'.claims = claim.claims /\ claim'.confirmed = claim.confirmed \cup chunk
        /\ claim' \in ClaimType
    BY <1>3, <1>4, <1>5, <1>12 DEF ClaimType
  <2>2. ClaimTypes' /\ ClaimSound'
    BY <1>3, <1>4, <1>8, <1>11, <1>12, <2>1 DEF WalletInv, ClaimTypes, ClaimSound, Wallet!OfRounds
  <2> QED BY <1>10, <2>2 DEF WalletInv
<1>13. CASE claim' = [claim EXCEPT !.pc = "reconcile"]
  <2>1. /\ claim'.pc = "reconcile" /\ claim'.requested = claim.requested
        /\ claim'.claims = claim.claims /\ claim'.confirmed = claim.confirmed
        /\ claim' \in ClaimType
    BY <1>4, <1>13 DEF ClaimType
  <2>2. claim.pc = "send"
    BY DEF Wallet!sendChunk
  <2>3. ClaimTypes' /\ ClaimSound'
    BY <1>4, <1>11, <2>1, <2>2 DEF WalletInv, ClaimTypes, ClaimSound
  <2> QED BY <1>10, <2>3 DEF WalletInv
<1> QED BY <1>6, <1>12, <1>13

\* A claim ends with what it can prove.
LEMMA ClaimEnds ==
    ASSUME WalletInv, UNCHANGED <<Wallet!chain, Wallet!history>>, claim' = Wallet!NoClaim,
           Wallet!OfRounds(Wallet!Open, report'.processed) = {}
    PROVE  WalletInv'
<1>1. UNCHANGED <<settled, winners, st, load, told, loads>>
    BY DEF Wallet!chain, Wallet!history
<1>2. OnlyCloses /\ WalletTypes' /\ Wallet!Open' = Wallet!Open
    BY <1>1 DEF WalletInv, WalletTypes, OnlyCloses, Wallet!Open
<1>3. LoadSound' /\ Wallet!NoHiddenWin'
    BY <1>1, <1>2, LoadStays DEF WalletInv
<1>4. ClaimTypes' /\ ClaimSound'
    BY DEF Wallet!NoClaim, ClaimTypes, ClaimType, ClaimSound
<1>5. Wallet!ClaimReportSound'
    BY <1>2 DEF Wallet!ClaimReportSound
<1> QED BY <1>2, <1>3, <1>4, <1>5 DEF WalletInv

LEMMA ReportsKeep ==
    ASSUME WalletInv, Wallet!allChunksConfirmed \/ Wallet!reconcileRemaining \/ Wallet!rescanFails
    PROVE  WalletInv'
<1>1. /\ claim.confirmed \cap Wallet!Open = {}
      /\ claim.pc # "idle" => Wallet!OfRounds(Wallet!Open, claim.requested) \subseteq ToSet(claim.claims)
      /\ claim.claims \in Seq(Receipts) /\ claim.confirmed \in SUBSET ToSet(claim.claims)
    BY DEF WalletInv, ClaimTypes, ClaimType, ClaimSound
<1>2. CASE Wallet!allChunksConfirmed
  <2>1. claim.pc = "send" /\ Cardinality(claim.confirmed) = Len(claim.claims)
    BY <1>2, StandardInWallet DEF Wallet!allChunksConfirmed
  <2>2. claim.confirmed = ToSet(claim.claims)
    BY <1>1, <2>1, AllConfirmed
  <2>3. Wallet!OfRounds(Wallet!Open, claim.requested) = {}
    BY <1>1, <2>1, <2>2 DEF Wallet!OfRounds
  <2>4. report'.processed = claim.requested /\ claim' = Wallet!NoClaim /\ UNCHANGED <<Wallet!chain, Wallet!history>>
    BY <1>2 DEF Wallet!allChunksConfirmed, Wallet!Report
  <2> QED BY <2>3, <2>4, ClaimEnds
<1>3. CASE Wallet!reconcileRemaining
  <2>1. /\ report'.processed = claim.requested \ Wallet!RoundsOf(Wallet!Open)
        /\ claim' = Wallet!NoClaim /\ UNCHANGED <<Wallet!chain, Wallet!history>>
    BY <1>3 DEF Wallet!reconcileRemaining, Wallet!Report
  <2>2. Wallet!OfRounds(Wallet!Open, claim.requested \ Wallet!RoundsOf(Wallet!Open)) = {}
    BY DEF Wallet!OfRounds, Wallet!RoundsOf
  <2> QED BY <2>1, <2>2, ClaimEnds
<1>4. CASE Wallet!rescanFails
  <2>1. /\ claim.pc = "reconcile" /\ report'.processed = {r \in claim.requested : Wallet!ProvenByChunks(r)}
        /\ claim' = Wallet!NoClaim /\ UNCHANGED <<Wallet!chain, Wallet!history>>
    BY <1>4 DEF Wallet!rescanFails, Wallet!Report
  <2>2. \A p \in Wallet!Open : ~(RoundOf[p] \in claim.requested /\ Wallet!ProvenByChunks(RoundOf[p]))
    BY <1>1, <2>1, StandardInWallet DEF Wallet!ProvenByChunks, Wallet!OfRounds
  <2>3. Wallet!OfRounds(Wallet!Open, {r \in claim.requested : Wallet!ProvenByChunks(r)}) = {}
    BY <2>2 DEF Wallet!OfRounds
  <2> QED BY <2>1, <2>3, ClaimEnds
<1> QED BY <1>2, <1>3, <1>4

LEMMA WalletStep == Wallet!WalletAssumption /\ WalletInv /\ [Wallet!Next]_(Wallet!vars) => WalletInv'
<1> SUFFICES ASSUME Wallet!WalletAssumption, WalletInv, [Wallet!Next]_(Wallet!vars) PROVE WalletInv'
    OBVIOUS
<1>1. CASE Wallet!settleRound \/ Wallet!keeper
    BY <1>1, ChainKeeps
<1>2. CASE Wallet!readRecent \/ Wallet!readWalletReceiptRounds \/ Wallet!readMyClaimStatus \/ Wallet!buildClaimable \/ Wallet!loadFails
    BY <1>2, LoadKeeps
<1>3. CASE Wallet!claimManyRounds
    BY <1>3, ClaimBegins
<1>4. CASE Wallet!sendChunk
    BY <1>4, ChunkKeeps
<1>5. CASE Wallet!allChunksConfirmed \/ Wallet!reconcileRemaining \/ Wallet!rescanFails
    BY <1>5, ReportsKeep
<1>6. CASE UNCHANGED Wallet!vars
  <2>1. UNCHANGED <<settled, winners, st, load, told, claim, report>>
    BY <1>6 DEF Wallet!vars
  <2>2. OnlyCloses /\ WalletTypes'
    BY <2>1 DEF WalletInv, WalletTypes, OnlyCloses
  <2> QED BY <2>1, <2>2, LoadStays, ClaimStays DEF WalletInv
<1> QED BY <1>1, <1>2, <1>3, <1>4, <1>5, <1>6 DEF Wallet!Next

LEMMA WalletInvSound == WalletInv => Wallet!NoHiddenWin /\ Wallet!ClaimReportSound
BY DEF WalletInv

-----------------------------------------------------------------------------
(* The Switchboard keeper.                                                 *)

RoundType == [exists : BOOLEAN, account : Accounts \cup {NoAccount}, commit_slot : Nat,
              settled : BOOLEAN, last_bet : Nat]
FeedType == [seed : Nat, reveal : Nat, oracle : Oracles \cup {NoOracle}]

DrawTypes ==
    /\ slot \in Nat /\ round \in RoundType /\ randomness \in [Accounts -> FeedType]
    /\ \A tx \in sent : tx.kind = "prepare" => tx.account \in Accounts
    /\ \A tx \in sent : tx.kind = "commit" => tx.oracle \in Oracles
    /\ healthy \in SUBSET Oracles
    /\ hindered \in BOOLEAN

\* Nothing is drawn from an account before a round is bound to it.
DrawSound ==
    /\ ~round.exists => \A a \in Accounts : randomness[a].seed = 0 /\ randomness[a].reveal = 0
    /\ round.exists =>
        /\ round.account \in Accounts
        /\ \A a \in Accounts \ {round.account} : randomness[a].seed = 0 /\ randomness[a].reveal = 0
        /\ randomness[round.account].seed = round.commit_slot
        /\ round.last_bet < BETTING_ENDS_AT
        /\ round.commit_slot # 0 => BETTING_ENDS_AT <= round.commit_slot + 1

DrawInv == DrawTypes /\ DrawSound /\ Switchboard!FairDraw

LEMMA DrawBegins == Switchboard!SwitchboardAssumption /\ Switchboard!Init => DrawInv
<1> SUFFICES ASSUME Switchboard!SwitchboardAssumption, Switchboard!Init PROVE DrawInv
    OBVIOUS
<1>1. DrawTypes
  <2>1. round \in RoundType /\ randomness \in [Accounts -> FeedType]
    BY DEF Switchboard!Init, RoundType, FeedType, Switchboard!NoRound, Switchboard!Unused
  <2>2. OPENED_AT - 1 \in Nat
    BY DEF Switchboard!SwitchboardAssumption
  <2>3. slot \in Nat /\ sent = {} /\ healthy \in SUBSET Oracles /\ hindered \in BOOLEAN
    BY <2>2 DEF Switchboard!Init
  <2> QED BY <2>1, <2>3 DEF DrawTypes
<1>2. ~round.exists /\ \A a \in Accounts : randomness[a].seed = 0 /\ randomness[a].reveal = 0
    BY DEF Switchboard!Init, Switchboard!NoRound, Switchboard!Unused
<1> QED BY <1>1, <1>2 DEF DrawInv, DrawSound, Switchboard!FairDraw

\* What only the keeper, its queue or the world's other state sees.
LEMMA DrawRests ==
    ASSUME DrawInv, UNCHANGED <<round, randomness>>, slot' \in Nat, healthy' \in SUBSET Oracles,
           hindered' \in BOOLEAN, hindered => hindered',
           \A tx \in sent' : tx.kind = "prepare" => tx.account \in Accounts,
           \A tx \in sent' : tx.kind = "commit" => tx.oracle \in Oracles
    PROVE  DrawInv'
<1>1. DrawTypes'
    BY DEF DrawInv, DrawTypes
<1>2. DrawSound'
    BY DEF DrawInv, DrawSound
<1>3. Switchboard!FairDraw'
    BY DEF DrawInv, Switchboard!FairDraw, DrawTypes
<1> QED BY <1>1, <1>2, <1>3 DEF DrawInv

LEMMA LandKeeps == ASSUME Switchboard!SwitchboardAssumption, DrawInv, NEW tx \in sent, Switchboard!Land(tx) PROVE DrawInv'
<1> USE DEF DrawInv
<1>1. /\ slot \in Nat /\ round \in RoundType /\ randomness \in [Accounts -> FeedType]
      /\ OPENED_AT \in Nat /\ BETTING_ENDS_AT \in Nat /\ OPENED_AT < BETTING_ENDS_AT
    BY DEF DrawTypes, Switchboard!SwitchboardAssumption
<1>2. /\ slot' = slot /\ healthy' = healthy /\ hindered' = hindered /\ sent' \in SUBSET sent
    BY DEF Switchboard!Land
<1>3. CASE tx.kind = "prepare" /\ Switchboard!PrepareTx(tx.account)
  <2>1. PICK a \in Accounts : a = tx.account
    BY <1>3 DEF DrawTypes
  <2>2. ~round.exists /\ randomness' = randomness /\ round' = [Switchboard!NoRound EXCEPT !.exists = TRUE, !.account = a]
    BY <1>3, <2>1 DEF Switchboard!PrepareTx
  <2>3. /\ round' \in RoundType /\ round'.account = a
        /\ round'.commit_slot = 0 /\ round'.last_bet = 0
    BY <2>2 DEF Switchboard!NoRound, RoundType
  <2>4. DrawTypes'
    BY <1>1, <1>2, <2>2, <2>3 DEF DrawTypes
  <2>5. \A c \in Accounts : randomness[c].seed = 0 /\ randomness[c].reveal = 0
    BY <2>2 DEF DrawSound
  <2>6. DrawSound'
    BY <1>1, <2>2, <2>3, <2>5 DEF DrawSound, Switchboard!NoRound
  <2>7. Switchboard!FairDraw'
    BY <2>2, <2>3, <2>5 DEF Switchboard!FairDraw
  <2> QED BY <2>4, <2>6, <2>7
<1>4. CASE tx.kind = "commit" /\ Switchboard!CommitTx(tx.account, tx.oracle)
  <2>1. PICK a, o : a = tx.account /\ o = tx.oracle
    OBVIOUS
  <2>2. /\ round.exists /\ slot >= BETTING_ENDS_AT /\ round.account = a /\ round.commit_slot = 0
        /\ randomness[a].reveal = 0 /\ ~round.settled
        /\ randomness' = [randomness EXCEPT ![a].seed = slot - 1, ![a].oracle = o]
        /\ round' = [round EXCEPT !.commit_slot = slot - 1]
    BY <1>4, <2>1 DEF Switchboard!CommitTx
  <2>3. a \in Accounts /\ round.last_bet < BETTING_ENDS_AT
        /\ \A c \in Accounts \ {a} : randomness[c].seed = 0 /\ randomness[c].reveal = 0
    BY <2>2 DEF DrawSound
  <2>4. o \in Oracles
    BY <1>4, <2>1 DEF DrawTypes
  <2>5. PICK n \in Nat : n = slot - 1
    BY <1>1, <2>2
  <2>6. /\ randomness' \in [Accounts -> FeedType] /\ randomness'[a].seed = n /\ randomness'[a].reveal = 0
        /\ \A c \in Accounts \ {a} : randomness'[c] = randomness[c]
    <3>1. randomness[a] \in FeedType /\ randomness' = [randomness EXCEPT ![a] = [randomness[a] EXCEPT !.seed = n, !.oracle = o]]
      BY <1>1, <2>2, <2>3, <2>5 DEF FeedType
    <3>2. PICK g : g = [randomness[a] EXCEPT !.seed = n, !.oracle = o]
      OBVIOUS
    <3>3. g \in FeedType /\ g.seed = n /\ g.reveal = 0
      BY <2>2, <2>4, <3>1, <3>2 DEF FeedType
    <3> QED BY <1>1, <2>3, <3>1, <3>2, <3>3
  <2>7. /\ round' \in RoundType /\ round'.exists /\ round'.account = a /\ round'.commit_slot = n
        /\ round'.last_bet = round.last_bet /\ ~round'.settled
    BY <1>1, <2>2, <2>5 DEF RoundType
  <2>8. round.last_bet \in Nat
    BY <1>1 DEF RoundType
  <2>9. BETTING_ENDS_AT <= n + 1 /\ round.last_bet <= n
    BY <1>1, <2>2, <2>3, <2>5, <2>8
  <2>10. DrawTypes'
    BY <1>1, <1>2, <2>6, <2>7 DEF DrawTypes
  <2>11. DrawSound'
    BY <2>3, <2>6, <2>7, <2>9 DEF DrawSound
  <2>12. Switchboard!FairDraw'
    BY <2>6, <2>7, <2>9 DEF Switchboard!FairDraw
  <2> QED BY <2>10, <2>11, <2>12
<1>5. CASE tx.kind = "settle" /\ Switchboard!SettleTx(tx.account)
  <2>1. PICK a : a = tx.account
    OBVIOUS
  <2>2. /\ round.exists /\ round.account = a /\ randomness[a].seed < slot
        /\ randomness' = [randomness EXCEPT ![a].reveal = slot]
        /\ round' = [round EXCEPT !.settled = TRUE]
    BY <1>5, <2>1 DEF Switchboard!SettleTx
  <2>3. a \in Accounts
    BY <2>2 DEF DrawSound
  <2>4. /\ randomness' \in [Accounts -> FeedType] /\ randomness'[a].seed = randomness[a].seed /\ randomness'[a].reveal = slot
        /\ \A c \in Accounts \ {a} : randomness'[c] = randomness[c]
    BY <1>1, <2>2, <2>3 DEF FeedType
  <2>5. /\ round' \in RoundType /\ round'.exists /\ round'.account = a
        /\ round'.commit_slot = round.commit_slot /\ round'.last_bet = round.last_bet /\ round'.settled
    BY <1>1, <2>2 DEF RoundType
  <2>6. DrawTypes'
    BY <1>1, <1>2, <2>4, <2>5 DEF DrawTypes
  <2>7. DrawSound'
    BY <2>2, <2>3, <2>4, <2>5 DEF DrawSound
  <2>8. Switchboard!FairDraw'
    <3>1. randomness[a].seed # 0 => randomness[a].seed >= round.last_bet /\ randomness[a].seed = round.commit_slot
      BY <2>2 DEF Switchboard!FairDraw
    <3>2. slot > randomness[a].seed
      BY <1>1, <2>2, <2>3 DEF FeedType
    <3> QED BY <2>4, <2>5, <3>1, <3>2 DEF Switchboard!FairDraw
  <2> QED BY <2>6, <2>7, <2>8
<1> QED BY <1>3, <1>4, <1>5 DEF Switchboard!Land, Switchboard!Execute

\* The keeper's process binds accounts of its own and healthy oracles.
LEMMA KeeperDraws == ASSUME DrawInv, Switchboard!KeeperStep PROVE DrawInv'
<1>1. UNCHANGED <<slot, round, randomness, healthy, hindered>>
    BY DEF Switchboard!KeeperStep, Switchboard!KeeperOnly, Switchboard!start, Switchboard!loadRound, Switchboard!checkRecovery, Switchboard!waitForBettingEnd,
           Switchboard!commitRandomness, Switchboard!settleRound, Switchboard!confirm
<1> DEFINE Sends(txs) ==
        \A tx \in txs : /\ tx.kind = "prepare" => tx.account \in Accounts
                        /\ tx.kind = "commit" => tx.oracle \in Oracles
<1>2. Sends(sent) /\ healthy \in SUBSET Oracles
    BY DEF DrawInv, DrawTypes
<1>3. \A tx, next : Switchboard!sendKeeperInstructions(tx, next) => sent' \in {sent, sent \cup {tx}}
    BY DEF Switchboard!sendKeeperInstructions
<1>4. Sends(sent')
  <2>1. CASE UNCHANGED sent
    BY <1>2, <2>1
  <2>2. CASE Switchboard!loadRound
    <3>1. ASSUME NEW a \in Accounts, Switchboard!sendKeeperInstructions(Switchboard!Tx("prepare", a, NoOracle), "preparing")
          PROVE  Sends(sent')
      <4>1. PICK tx : tx = Switchboard!Tx("prepare", a, NoOracle)
        OBVIOUS
      <4>2. tx.kind = "prepare" /\ tx.account = a
        BY <4>1 DEF Switchboard!Tx
      <4> QED BY <1>2, <1>3, <3>1, <4>1, <4>2
    <3>2. sent' = sent \/ \E a \in Accounts : Switchboard!sendKeeperInstructions(Switchboard!Tx("prepare", a, NoOracle), "preparing")
      BY <2>2 DEF Switchboard!loadRound
    <3> QED BY <1>2, <3>1, <3>2
  <2>3. CASE Switchboard!commitRandomness
    <3>1. ASSUME NEW o \in Oracles,
                 Switchboard!sendKeeperInstructions(Switchboard!Tx("commit", keeper.account, o), "committing")
          PROVE  Sends(sent')
      <4>1. PICK tx : tx = Switchboard!Tx("commit", keeper.account, o)
        OBVIOUS
      <4>2. tx.kind = "commit" /\ tx.oracle = o
        BY <4>1 DEF Switchboard!Tx
      <4> QED BY <1>2, <1>3, <3>1, <4>1, <4>2
    <3>2. sent' = sent \/ \E o \in Oracles :
                Switchboard!sendKeeperInstructions(Switchboard!Tx("commit", keeper.account, o), "committing")
      BY <1>2, <2>3 DEF Switchboard!commitRandomness, Switchboard!selectDirectlyHealthyRandomnessOracle
    <3> QED BY <1>2, <3>1, <3>2
  <2>4. CASE Switchboard!settleRound
    <3>1. PICK tx : tx = Switchboard!Tx("settle", keeper.account, NoOracle)
      OBVIOUS
    <3>2. tx.kind = "settle"
      BY <3>1 DEF Switchboard!Tx
    <3>3. sent' = sent \/ Switchboard!sendKeeperInstructions(tx, "settling")
      BY <2>4, <3>1 DEF Switchboard!settleRound
    <3> QED BY <1>2, <1>3, <3>2, <3>3
  <2> QED BY <2>1, <2>2, <2>3, <2>4
          DEF Switchboard!KeeperStep, Switchboard!start, Switchboard!checkRecovery, Switchboard!waitForBettingEnd, Switchboard!confirm
<1>5. slot \in Nat /\ hindered \in BOOLEAN
    BY DEF DrawInv, DrawTypes
<1> HIDE DEF Sends
<1>6. /\ \A tx \in sent' : tx.kind = "prepare" => tx.account \in Accounts
      /\ \A tx \in sent' : tx.kind = "commit" => tx.oracle \in Oracles
    BY <1>4 DEF Sends
<1> QED BY <1>1, <1>2, <1>5, <1>6, DrawRests

\* A bet is taken in the window only, when no seed is fixed.
LEMMA BetKeeps == ASSUME DrawInv, Switchboard!SwitchboardAssumption, Switchboard!deploy PROVE DrawInv'
<1>1. /\ round.exists /\ slot < BETTING_ENDS_AT /\ round.commit_slot = 0
      /\ round' = [round EXCEPT !.last_bet = slot]
      /\ UNCHANGED <<slot, randomness, healthy, sent, hindered>>
    BY DEF Switchboard!deploy
<1>2. slot \in Nat /\ round \in RoundType
    BY DEF DrawInv, DrawTypes
<1>3. /\ round' \in RoundType /\ round'.exists = round.exists /\ round'.account = round.account
      /\ round'.commit_slot = round.commit_slot /\ round'.settled = round.settled /\ round'.last_bet = slot
    BY <1>1, <1>2 DEF RoundType
<1>4. DrawTypes'
    BY <1>1, <1>3 DEF DrawInv, DrawTypes
<1>5. DrawSound'
    BY <1>1, <1>3 DEF DrawInv, DrawSound
<1>6. Switchboard!FairDraw'
    BY <1>1, <1>3 DEF DrawInv, DrawSound, Switchboard!FairDraw
<1> QED BY <1>4, <1>5, <1>6 DEF DrawInv

LEMMA RevealKeeps == ASSUME DrawInv, Switchboard!ForeignReveal PROVE DrawInv'
<1>1. PICK a : a = round.account
    OBVIOUS
<1>2. /\ round.exists /\ slot > round.commit_slot /\ hindered' = TRUE
      /\ randomness' = [randomness EXCEPT ![a].reveal = slot]
      /\ UNCHANGED <<slot, round, healthy, sent>>
    BY <1>1 DEF Switchboard!ForeignReveal
<1>3. a \in Accounts /\ slot \in Nat /\ randomness \in [Accounts -> FeedType] /\ randomness[a].seed = round.commit_slot
    BY <1>1, <1>2 DEF DrawInv, DrawSound, DrawTypes
<1>4. /\ randomness' \in [Accounts -> FeedType] /\ randomness'[a].seed = randomness[a].seed /\ randomness'[a].reveal = slot
      /\ \A c \in Accounts \ {a} : randomness'[c] = randomness[c]
    BY <1>2, <1>3 DEF FeedType
<1>5. DrawTypes'
    BY <1>2, <1>4 DEF DrawInv, DrawTypes
<1>6. DrawSound'
    BY <1>1, <1>2, <1>3, <1>4 DEF DrawInv, DrawSound
<1>7. Switchboard!FairDraw'
    BY <1>1, <1>2, <1>3, <1>4 DEF DrawInv, Switchboard!FairDraw
<1> QED BY <1>5, <1>6, <1>7 DEF DrawInv

LEMMA DrawStep == Switchboard!SwitchboardAssumption /\ DrawInv /\ [Switchboard!Next]_(Switchboard!vars) => DrawInv'
<1> SUFFICES ASSUME Switchboard!SwitchboardAssumption, DrawInv, [Switchboard!Next]_(Switchboard!vars) PROVE DrawInv'
    OBVIOUS
<1>1. /\ slot \in Nat /\ healthy \in SUBSET Oracles /\ hindered \in BOOLEAN
      /\ \A tx \in sent : tx.kind = "prepare" => tx.account \in Accounts
      /\ \A tx \in sent : tx.kind = "commit" => tx.oracle \in Oracles
    BY DEF DrawInv, DrawTypes
<1>2. CASE Switchboard!KeeperStep
    BY <1>2, KeeperDraws
<1>3. CASE \E tx \in sent : Switchboard!Land(tx) \/ Switchboard!Lose(tx)
  <2>1. PICK tx \in sent : Switchboard!Land(tx) \/ Switchboard!Lose(tx)
    BY <1>3
  <2>2. CASE Switchboard!Land(tx)
    BY <2>2, LandKeeps
  <2>3. CASE Switchboard!Lose(tx)
    <3>1. UNCHANGED <<slot, round, randomness, healthy, hindered>> /\ sent' \in SUBSET sent
      BY <2>3 DEF Switchboard!Lose
    <3> QED BY <1>1, <3>1, DrawRests
  <2> QED BY <2>1, <2>2, <2>3
<1>4. CASE Switchboard!deploy
    BY <1>4, BetKeeps
<1>5. CASE Switchboard!ForeignReveal
    BY <1>5, RevealKeeps
<1>6. CASE Switchboard!Crash \/ Switchboard!SetPaused \/ Switchboard!Unpause \/ Switchboard!NextSlot \/ UNCHANGED Switchboard!vars
  <2>1. UNCHANGED <<round, randomness, healthy, sent>>
    BY <1>6 DEF Switchboard!Crash, Switchboard!SetPaused, Switchboard!Unpause, Switchboard!NextSlot, Switchboard!vars
  <2>2. slot' = slot \/ slot' = slot + 1
    BY <1>6 DEF Switchboard!Crash, Switchboard!SetPaused, Switchboard!Unpause, Switchboard!NextSlot, Switchboard!vars
  <2>3. hindered' = hindered \/ hindered' = TRUE
    BY <1>6 DEF Switchboard!Crash, Switchboard!SetPaused, Switchboard!Unpause, Switchboard!NextSlot, Switchboard!vars
  <2>4. slot' \in Nat
    BY <1>1, <2>2
  <2>5. hindered' \in BOOLEAN /\ (hindered => hindered')
    BY <1>1, <2>3
  <2> QED BY <1>1, <2>1, <2>4, <2>5, DrawRests
<1>7. CASE Switchboard!GatewayChange
  <2>1. UNCHANGED <<slot, round, randomness, sent>> /\ healthy' \in SUBSET Oracles
    BY <1>1, <1>7 DEF Switchboard!GatewayChange
  <2>2. hindered' \in BOOLEAN /\ (hindered => hindered')
    BY <1>1, <1>7 DEF Switchboard!GatewayChange
  <2> QED BY <1>1, <2>1, <2>2, DrawRests
<1> QED BY <1>2, <1>3, <1>4, <1>5, <1>6, <1>7 DEF Switchboard!Next

-----------------------------------------------------------------------------
(* The budget of slots.                                                    *)

Kinds == {"prepare", "commit", "settle"}
Stages == {"off", "load", "preparing", "check", "betting", "commit", "committing", "settle",
           "settling", "done"}
TxType == [kind : Kinds, account : Accounts \cup {NoAccount}, oracle : Oracles \cup {NoOracle}]
KeeperType == [pc : Stages, account : Accounts \cup {NoAccount}, seen : RoundType,
               tx : Kinds \cup {"none", "landed", "failed"}]

KeeperTypes ==
    /\ sent \in SUBSET TxType /\ keeper \in KeeperType /\ past \in RoundType
    /\ game_paused \in BOOLEAN /\ draw_faults \in Nat

Passed(r) == r.commit_slot = 0 \/ r.commit_slot < slot

\* A keeper is done when its round is, and waits for nothing else that the
\* chain has not shown yet.
KeeperSound ==
    /\ round.settled => round.exists
    /\ Passed(round) /\ Passed(past) /\ Passed(keeper.seen)
    /\ keeper.pc = "settling" => /\ keeper.tx \in {"settle", "landed", "failed"}
                                 /\ keeper.tx = "landed" => round.settled
    /\ keeper.pc = "done" => round.settled
    /\ game_paused => hindered

Due == IF SETTLES_AT > BETTING_ENDS_AT THEN SETTLES_AT ELSE BETTING_ENDS_AT

\* Every slot that passes between the time due and the result is a fault.
Budget ==
    /\ draw_faults <= MaxDrawFaults
    /\ round.exists /\ ~round.settled /\ ~hindered => slot <= Due + draw_faults

BudgetInv == DrawInv /\ KeeperTypes /\ KeeperSound /\ Budget

LEMMA DueBounds ==
    ASSUME Switchboard!SwitchboardAssumption
    PROVE  /\ Due \in Nat /\ SETTLES_AT <= Due /\ BETTING_ENDS_AT <= Due /\ 0 < Due
           /\ Due + MaxDrawFaults < REFUND_AT /\ MaxDrawFaults \in Nat /\ REFUND_AT \in Nat
BY DEF Switchboard!SwitchboardAssumption, Due

LEMMA BudgetSound == Switchboard!SwitchboardAssumption /\ BudgetInv => Switchboard!FairDraw /\ Switchboard!SettledDespiteFaults
<1> SUFFICES ASSUME Switchboard!SwitchboardAssumption, BudgetInv PROVE Switchboard!FairDraw /\ Switchboard!SettledDespiteFaults
    OBVIOUS
<1>1. draw_faults \in Nat /\ draw_faults <= MaxDrawFaults /\ slot \in Nat
    BY DEF BudgetInv, KeeperTypes, Budget, DrawInv, DrawTypes
<1>2. ~(slot <= Due + draw_faults) \/ ~(slot >= REFUND_AT)
    BY <1>1, DueBounds
<1>3. Switchboard!SettledDespiteFaults
    BY <1>2 DEF Switchboard!SettledDespiteFaults, BudgetInv, Budget
<1> QED BY <1>3 DEF BudgetInv, DrawInv

LEMMA BudgetBegins == Switchboard!SwitchboardAssumption /\ Switchboard!Init => BudgetInv
<1> SUFFICES ASSUME Switchboard!SwitchboardAssumption, Switchboard!Init PROVE BudgetInv
    OBVIOUS
<1>1. DrawInv
    BY DrawBegins
<1>2. Switchboard!NoRound \in RoundType /\ Switchboard!NoRound.commit_slot = 0 /\ ~Switchboard!NoRound.settled /\ ~Switchboard!NoRound.exists
    BY DEF Switchboard!NoRound, RoundType
<1>3. keeper \in KeeperType /\ keeper.seen = Switchboard!NoRound /\ keeper.pc = "off"
    BY <1>2 DEF Switchboard!Init, Switchboard!Off, KeeperType, Stages
<1>4. KeeperTypes
    BY <1>2, <1>3 DEF Switchboard!Init, KeeperTypes
<1>5. KeeperSound
    BY <1>2, <1>3 DEF Switchboard!Init, KeeperSound, Passed
<1>6. Budget
    BY <1>2, DueBounds DEF Switchboard!Init, Budget
<1> QED BY <1>1, <1>4, <1>5, <1>6 DEF BudgetInv

\* What the round's result and its stages owe to an execution.
LEMMA ExecutionKeeps ==
    ASSUME Switchboard!SwitchboardAssumption, BudgetInv, NEW tx \in sent, Switchboard!Execute(tx), DrawInv'
    PROVE  /\ round.settled => round'.settled
           /\ round'.settled => round'.exists
           /\ round'.commit_slot = 0 \/ round'.commit_slot < slot
           /\ tx.kind = "settle" => round'.settled
           /\ round'.exists /\ ~round'.settled /\ ~hindered => slot <= Due + draw_faults
<1>1. /\ slot \in Nat /\ round \in RoundType /\ draw_faults \in Nat
      /\ round.commit_slot = 0 \/ round.commit_slot < slot
      /\ round.settled => round.exists
      /\ round.exists /\ ~round.settled /\ ~hindered => slot <= Due + draw_faults
    BY DEF BudgetInv, DrawInv, DrawTypes, KeeperTypes, KeeperSound, Passed, Budget
<1>2. CASE tx.kind = "prepare" /\ Switchboard!PrepareTx(tx.account)
  <2>1. PICK a : a = tx.account
    OBVIOUS
  <2>2. ~round.exists /\ slot < BETTING_ENDS_AT /\ round' = [Switchboard!NoRound EXCEPT !.exists = TRUE, !.account = a]
    BY <1>2, <2>1 DEF Switchboard!PrepareTx
  <2>3. round'.commit_slot = 0 /\ ~round'.settled /\ round'.exists
    BY <2>2 DEF Switchboard!NoRound
  <2>4. slot <= Due + draw_faults
    BY <1>1, <2>2, DueBounds DEF Switchboard!SwitchboardAssumption
  <2> QED BY <1>1, <1>2, <2>2, <2>3, <2>4
<1>3. CASE tx.kind = "commit" /\ Switchboard!CommitTx(tx.account, tx.oracle)
  <2>1. PICK n : n = slot - 1
    OBVIOUS
  <2>2. round.exists /\ ~round.settled /\ round' = [round EXCEPT !.commit_slot = n]
    BY <1>3, <2>1 DEF Switchboard!CommitTx
  <2>3. round'.commit_slot = n /\ round'.settled = round.settled /\ round'.exists = round.exists
    BY <1>1, <2>2 DEF RoundType
  <2>4. n < slot
    BY <1>1, <2>1
  <2> QED BY <1>1, <1>3, <2>2, <2>3, <2>4
<1>4. CASE tx.kind = "settle" /\ Switchboard!SettleTx(tx.account)
  <2>1. round.exists /\ round' = [round EXCEPT !.settled = TRUE]
    BY <1>4 DEF Switchboard!SettleTx
  <2>2. round'.commit_slot = round.commit_slot /\ round'.settled /\ round'.exists = round.exists
    BY <1>1, <2>1 DEF RoundType
  <2> QED BY <1>1, <2>1, <2>2
<1> QED BY <1>2, <1>3, <1>4 DEF Switchboard!Execute

LEMMA LandBudget == ASSUME Switchboard!SwitchboardAssumption, BudgetInv, NEW tx \in sent, Switchboard!Land(tx) PROVE BudgetInv'
<1>1. DrawInv'
    BY LandKeeps DEF BudgetInv
<1>2. /\ Switchboard!Execute(tx) /\ sent' \in SUBSET sent /\ UNCHANGED <<slot, past, game_paused, draw_faults, hindered>>
      /\ keeper' = IF keeper.tx = tx.kind /\ keeper.account = tx.account
                   THEN [keeper EXCEPT !.tx = "landed"] ELSE keeper
    BY DEF Switchboard!Land
<1>3. /\ round.settled => round'.settled
      /\ round'.settled => round'.exists
      /\ round'.commit_slot = 0 \/ round'.commit_slot < slot
      /\ tx.kind = "settle" => round'.settled
      /\ round'.exists /\ ~round'.settled /\ ~hindered => slot <= Due + draw_faults
    BY <1>1, <1>2, ExecutionKeeps
<1>4. keeper \in KeeperType /\ tx.kind \in Kinds
    BY DEF BudgetInv, KeeperTypes, TxType
<1>5. /\ keeper' \in KeeperType /\ keeper'.pc = keeper.pc /\ keeper'.seen = keeper.seen
      /\ keeper'.tx = keeper.tx \/ (keeper.tx = tx.kind /\ keeper'.tx = "landed")
    BY <1>2, <1>4 DEF KeeperType
<1>6. KeeperTypes'
    BY <1>2, <1>5 DEF BudgetInv, KeeperTypes
<1>7. KeeperSound'
  <2>1. keeper.pc = "settling" /\ keeper.tx = tx.kind => tx.kind = "settle"
    BY <1>4 DEF BudgetInv, KeeperSound, Kinds
  <2> QED BY <1>2, <1>3, <1>5, <2>1 DEF BudgetInv, KeeperSound, Passed
<1>8. Budget'
    BY <1>2, <1>3 DEF BudgetInv, Budget
<1> QED BY <1>1, <1>6, <1>7, <1>8 DEF BudgetInv

LEMMA BudgetRests ==
    ASSUME Budget, UNCHANGED <<slot, round, hindered>>, draw_faults \in Nat, slot \in Nat,
           draw_faults' = draw_faults \/ (draw_faults < MaxDrawFaults /\ draw_faults' = draw_faults + 1),
           Switchboard!SwitchboardAssumption
    PROVE  Budget'
<1>1. Due \in Nat /\ MaxDrawFaults \in Nat
    BY DueBounds
<1>2. draw_faults' <= MaxDrawFaults /\ (slot <= Due + draw_faults => slot' <= Due' + draw_faults')
  <2>1. Due' = Due
    BY DEF Due
  <2> QED BY <1>1, <2>1 DEF Budget
<1>3. round'.exists /\ ~round'.settled /\ ~hindered' => round.exists /\ ~round.settled /\ ~hindered
    OBVIOUS
<1> QED BY <1>2, <1>3 DEF Budget

LEMMA LoseBudget ==
    ASSUME Switchboard!SwitchboardAssumption, BudgetInv, DrawInv', NEW tx \in sent, Switchboard!Lose(tx) PROVE BudgetInv'
<1>1. /\ sent' \in SUBSET sent /\ UNCHANGED <<slot, round, past, game_paused, hindered>>
      /\ keeper' = IF keeper.tx = tx.kind /\ keeper.account = tx.account
                   THEN [keeper EXCEPT !.tx = "failed"] ELSE keeper
    BY DEF Switchboard!Lose
<1>2. draw_faults' = draw_faults \/ (draw_faults < MaxDrawFaults /\ draw_faults' = draw_faults + 1)
    BY DEF Switchboard!Lose
<1>3. keeper \in KeeperType
    BY DEF BudgetInv, KeeperTypes
<1>4. /\ keeper' \in KeeperType /\ keeper'.pc = keeper.pc /\ keeper'.seen = keeper.seen
      /\ keeper'.tx = keeper.tx \/ keeper'.tx = "failed"
    BY <1>1, <1>3 DEF KeeperType
<1>5. draw_faults \in Nat /\ slot \in Nat
    BY DEF BudgetInv, KeeperTypes, DrawInv, DrawTypes
<1>6. KeeperTypes'
    BY <1>1, <1>2, <1>4, <1>5 DEF BudgetInv, KeeperTypes
<1>7. KeeperSound'
    BY <1>1, <1>4 DEF BudgetInv, KeeperSound, Passed
<1>8. Budget'
    BY <1>1, <1>2, <1>5, BudgetRests DEF BudgetInv
<1> QED BY <1>6, <1>7, <1>8, DrawInv' DEF BudgetInv

\* A keeper that exits, and one that goes on to another stage.
LEMMA OffSound == Switchboard!Off \in KeeperType /\ Switchboard!Off.pc = "off" /\ Switchboard!Off.seen = Switchboard!NoRound /\ Switchboard!NoRound.commit_slot = 0
BY DEF Switchboard!Off, KeeperType, RoundType, Switchboard!NoRound, Stages, Kinds

LEMMA KeeperGoesOn ==
    ASSUME keeper \in KeeperType, Switchboard!KeeperStep, BudgetInv
    PROVE  /\ keeper' \in KeeperType /\ sent' \in SUBSET TxType
           /\ keeper'.seen \in {Switchboard!NoRound, round, past, keeper.seen}
           /\ keeper'.pc = "settling" => keeper'.tx = "settle"
           /\ keeper'.pc = "done" => round.settled
<1>1. /\ round \in RoundType /\ past \in RoundType /\ sent \in SUBSET TxType
      /\ healthy \in SUBSET Oracles
    BY DEF BudgetInv, KeeperTypes, DrawInv, DrawTypes
<1> DEFINE Goal == /\ keeper' \in KeeperType /\ sent' \in SUBSET TxType
                   /\ keeper'.seen \in {Switchboard!NoRound, round, past, keeper.seen}
                   /\ keeper'.pc = "settling" => keeper'.tx = "settle"
                   /\ keeper'.pc = "done" => round.settled
<1> SUFFICES Goal
    OBVIOUS
<1>2. Switchboard!Exit /\ UNCHANGED sent => Goal
    BY <1>1, OffSound DEF Switchboard!Exit
<1>3. ASSUME NEW tx \in TxType, NEW next \in Stages, Switchboard!sendKeeperInstructions(tx, next),
             next # "done", next = "settling" => tx.kind = "settle"
      PROVE  Goal
  <2>1. CASE Switchboard!Exit /\ UNCHANGED sent
    BY <1>2, <2>1
  <2>2. CASE /\ sent' = sent \cup {tx}
             /\ keeper' = [keeper EXCEPT !.pc = next, !.tx = tx.kind, !.account = tx.account]
    <3>1. tx.kind \in Kinds /\ tx.account \in Accounts \cup {NoAccount}
      BY DEF TxType
    <3>2. /\ keeper' \in KeeperType /\ keeper'.pc = next /\ keeper'.tx = tx.kind
          /\ keeper'.seen = keeper.seen
      BY <2>2, <3>1 DEF KeeperType
    <3> QED BY <1>1, <1>3, <2>2, <3>2
  <2> QED BY <1>3, <2>1, <2>2 DEF Switchboard!sendKeeperInstructions
<1>4. \A k \in Kinds, a \in Accounts \cup {NoAccount}, o \in Oracles \cup {NoOracle} :
        Switchboard!Tx(k, a, o) \in TxType /\ Switchboard!Tx(k, a, o).kind = k
    BY DEF Switchboard!Tx, TxType
<1> HIDE DEF Goal
<1>5. CASE Switchboard!start
  <2>1. keeper' = [Switchboard!Off EXCEPT !.pc = "load"] /\ sent' = sent
    BY <1>5 DEF Switchboard!start
  <2>2. keeper' \in KeeperType /\ keeper'.pc = "load" /\ keeper'.seen = Switchboard!NoRound
    BY <2>1, OffSound DEF KeeperType, Stages
  <2> QED BY <1>1, <2>1, <2>2 DEF Goal
<1>6. CASE Switchboard!loadRound
  <2>1. PICK noticed \in {round, past} :
         \/ Switchboard!Exit /\ UNCHANGED sent
         \/ \E a \in Accounts : Switchboard!sendKeeperInstructions(Switchboard!Tx("prepare", a, NoOracle), "preparing")
         \/ /\ keeper' = [keeper EXCEPT !.pc = "check", !.account = noticed.account, !.seen = noticed]
            /\ UNCHANGED sent
    BY <1>6 DEF Switchboard!loadRound, Switchboard!Visible
  <2>2. ASSUME NEW a \in Accounts, Switchboard!sendKeeperInstructions(Switchboard!Tx("prepare", a, NoOracle), "preparing")
        PROVE  Goal
    <3>1. Switchboard!Tx("prepare", a, NoOracle) \in TxType /\ "preparing" \in Stages
      BY <1>4 DEF Kinds, Stages
    <3> QED BY <1>3, <2>2, <3>1
  <2>3. CASE /\ keeper' = [keeper EXCEPT !.pc = "check", !.account = noticed.account, !.seen = noticed]
             /\ UNCHANGED sent
    <3>1. noticed \in RoundType /\ noticed.account \in Accounts \cup {NoAccount}
      BY <1>1 DEF RoundType
    <3>2. keeper' \in KeeperType /\ keeper'.pc = "check" /\ keeper'.seen = noticed
      BY <2>3, <3>1 DEF KeeperType, Stages
    <3> QED BY <1>1, <2>3, <3>2 DEF Goal
  <2> QED BY <1>2, <2>1, <2>2, <2>3
<1>7. CASE Switchboard!checkRecovery
  <2>1. CASE Switchboard!Exit /\ UNCHANGED sent
    BY <1>2, <2>1
  <2>2. CASE keeper' = [keeper EXCEPT !.pc = "betting"] /\ UNCHANGED sent
    <3>1. keeper' \in KeeperType /\ keeper'.pc = "betting" /\ keeper'.seen = keeper.seen
      BY <2>2 DEF KeeperType, Stages
    <3> QED BY <1>1, <2>2, <3>1 DEF Goal
  <2> QED BY <1>7, <2>1, <2>2 DEF Switchboard!checkRecovery
<1>8. CASE Switchboard!waitForBettingEnd
  <2>1. PICK noticed \in {round, past} : keeper' = [keeper EXCEPT !.pc = "commit", !.seen = noticed]
    BY <1>8 DEF Switchboard!waitForBettingEnd, Switchboard!Visible
  <2>2. keeper' \in KeeperType /\ keeper'.pc = "commit" /\ keeper'.seen = noticed
    BY <1>1, <2>1 DEF KeeperType, Stages
  <2> QED BY <1>1, <1>8, <2>2 DEF Goal, Switchboard!waitForBettingEnd
<1>9. CASE Switchboard!commitRandomness
  <2>1. ASSUME NEW o \in Oracles, Switchboard!sendKeeperInstructions(Switchboard!Tx("commit", keeper.account, o), "committing")
        PROVE  Goal
    <3>1. Switchboard!Tx("commit", keeper.account, o) \in TxType /\ "committing" \in Stages
      BY <1>4 DEF Kinds, Stages, KeeperType
    <3> QED BY <1>3, <2>1, <3>1
  <2>2. CASE keeper' = [keeper EXCEPT !.pc = "settle"] /\ UNCHANGED sent
    <3>1. keeper' \in KeeperType /\ keeper'.pc = "settle" /\ keeper'.seen = keeper.seen
      BY <2>2 DEF KeeperType, Stages
    <3> QED BY <1>1, <2>2, <3>1 DEF Goal
  <2> QED BY <1>1, <1>2, <1>9, <2>1, <2>2 DEF Switchboard!commitRandomness, Switchboard!selectDirectlyHealthyRandomnessOracle
<1>10. CASE Switchboard!settleRound
  <2>1. Switchboard!Tx("settle", keeper.account, NoOracle) \in TxType /\ "settling" \in Stages
        /\ Switchboard!Tx("settle", keeper.account, NoOracle).kind = "settle"
    BY <1>4 DEF Kinds, Stages, KeeperType
  <2>2. Switchboard!sendKeeperInstructions(Switchboard!Tx("settle", keeper.account, NoOracle), "settling") => Goal
    BY <1>3, <2>1
  <2> QED BY <1>2, <1>10, <2>2 DEF Switchboard!settleRound
<1>11. ASSUME NEW from \in {"preparing", "committing", "settling"}, NEW to \in Stages,
              Switchboard!confirm(from, to), to # "settling", to = "done" => from = "settling"
       PROVE  Goal
  <2>1. CASE keeper.tx = "landed" /\ keeper' = [keeper EXCEPT !.pc = to, !.tx = "none", !.seen = round]
    <3>1. keeper' \in KeeperType /\ keeper'.pc = to /\ keeper'.seen = round
      BY <1>1, <2>1 DEF KeeperType
    <3>2. sent' = sent /\ keeper.pc = from
      BY <1>11 DEF Switchboard!confirm
    <3>3. to = "done" => round.settled
      BY <1>11, <2>1, <3>2 DEF BudgetInv, KeeperSound
    <3> QED BY <1>1, <1>11, <3>1, <3>2, <3>3 DEF Goal
  <2> QED BY <1>2, <1>11, <2>1 DEF Switchboard!confirm
<1>12. Switchboard!confirm("preparing", "check") => Goal
    BY <1>11 DEF Stages
<1>13. Switchboard!confirm("committing", "settle") => Goal
    BY <1>11 DEF Stages
<1>14. Switchboard!confirm("settling", "done") => Goal
    BY <1>11 DEF Stages
<1> QED BY <1>5, <1>6, <1>7, <1>8, <1>9, <1>10, <1>12, <1>13, <1>14 DEF Switchboard!KeeperStep

LEMMA KeeperBudget == ASSUME Switchboard!SwitchboardAssumption, BudgetInv, Switchboard!KeeperStep PROVE BudgetInv'
<1>1. DrawInv'
    BY KeeperDraws DEF BudgetInv
<1>2. UNCHANGED <<slot, round, past, game_paused, draw_faults, hindered>>
    BY DEF Switchboard!KeeperStep, Switchboard!KeeperOnly, Switchboard!start, Switchboard!loadRound, Switchboard!checkRecovery, Switchboard!waitForBettingEnd,
           Switchboard!commitRandomness, Switchboard!settleRound, Switchboard!confirm
<1>3. keeper \in KeeperType /\ draw_faults \in Nat /\ slot \in Nat
    BY DEF BudgetInv, KeeperTypes, DrawInv, DrawTypes
<1>4. /\ keeper' \in KeeperType /\ sent' \in SUBSET TxType
      /\ keeper'.seen \in {Switchboard!NoRound, round, past, keeper.seen}
      /\ keeper'.pc = "settling" => keeper'.tx = "settle"
      /\ keeper'.pc = "done" => round.settled
    BY <1>3, KeeperGoesOn
<1>5. KeeperTypes'
    BY <1>2, <1>4 DEF BudgetInv, KeeperTypes
<1>6. KeeperSound'
  <2>1. Passed(keeper'.seen)
    BY <1>4, OffSound DEF BudgetInv, KeeperSound, Passed
  <2> QED BY <1>2, <1>4, <2>1 DEF BudgetInv, KeeperSound, Passed
<1>7. Budget'
    BY <1>2, <1>3, BudgetRests DEF BudgetInv
<1> QED BY <1>1, <1>5, <1>6, <1>7 DEF BudgetInv

\* Slots pass: while the result is due, only by a fault.
LEMMA SlotBudget == ASSUME Switchboard!SwitchboardAssumption, BudgetInv, Switchboard!NextSlot PROVE BudgetInv'
<1>1. DrawInv'
    BY DrawStep DEF BudgetInv, Switchboard!Next
<1>2. /\ slot < REFUND_AT /\ slot' = slot + 1 /\ past' = round
      /\ UNCHANGED <<round, game_paused, sent, keeper, hindered>>
      /\ (Switchboard!Waiting /\ draw_faults' = draw_faults) \/ (draw_faults < MaxDrawFaults /\ draw_faults' = draw_faults + 1)
    BY DEF Switchboard!NextSlot
<1>3. /\ draw_faults \in Nat /\ slot \in Nat /\ draw_faults <= MaxDrawFaults
      /\ round \in RoundType /\ keeper \in KeeperType /\ past \in RoundType
    BY DEF BudgetInv, KeeperTypes, DrawInv, DrawTypes, Budget
<1>4. KeeperTypes'
    BY <1>2, <1>3 DEF BudgetInv, KeeperTypes
<1>5. \A r \in RoundType : Passed(r) => Passed(r)'
    BY <1>2, <1>3 DEF Passed, RoundType
<1>6. KeeperSound'
    BY <1>2, <1>3, <1>5 DEF BudgetInv, KeeperSound, KeeperType
<1>7. draw_faults' <= MaxDrawFaults
    BY <1>2, <1>3, DueBounds
<1>8. ASSUME round.exists, ~round.settled, ~hindered
      PROVE  slot + 1 <= Due + draw_faults'
  <2>1. CASE draw_faults' = draw_faults + 1
    BY <1>3, <1>8, <2>1, DueBounds DEF BudgetInv, Budget
  <2>2. CASE slot < Due /\ draw_faults' = draw_faults
    BY <1>3, <2>2, DueBounds
  <2>3. CASE Switchboard!Waiting /\ ~(slot < Due)
    <3>1. slot >= SETTLES_AT /\ slot >= BETTING_ENDS_AT /\ slot > 0
      BY <1>3, <2>3, DueBounds DEF Switchboard!SwitchboardAssumption
    <3>2. ~(slot < BETTING_ENDS_AT) /\ ~(slot < SETTLES_AT) /\ ~(slot >= REFUND_AT)
      BY <1>2, <1>3, <3>1 DEF Switchboard!SwitchboardAssumption
    <3>3. keeper.seen.commit_slot < slot
      BY <1>3, <3>1 DEF BudgetInv, KeeperSound, Passed
    <3>4. ~(slot <= keeper.seen.commit_slot)
      BY <1>3, <3>3 DEF KeeperType, RoundType
    <3>5. ~game_paused /\ keeper.pc # "done"
      BY <1>8 DEF BudgetInv, KeeperSound
    <3> QED BY <1>8, <2>3, <3>2, <3>4, <3>5 DEF Switchboard!Waiting
  <2> QED BY <1>2, <2>1, <2>2, <2>3
<1>9. Budget'
  <2>1. Due' = Due
    BY DEF Due
  <2> QED BY <1>2, <1>7, <1>8, <2>1 DEF Budget
<1> QED BY <1>1, <1>4, <1>6, <1>9 DEF BudgetInv

LEMMA WorldBudget ==
    ASSUME Switchboard!SwitchboardAssumption, BudgetInv, DrawInv',
           Switchboard!deploy \/ Switchboard!Crash \/ Switchboard!ForeignReveal \/ Switchboard!SetPaused \/ Switchboard!Unpause \/ Switchboard!GatewayChange \/ UNCHANGED Switchboard!vars
    PROVE  BudgetInv'
<1>1. UNCHANGED <<slot, past, sent>>
    BY DEF Switchboard!deploy, Switchboard!Crash, Switchboard!ForeignReveal, Switchboard!SetPaused, Switchboard!Unpause, Switchboard!GatewayChange, Switchboard!vars
<1>2. keeper' = keeper \/ keeper' = Switchboard!Off
    BY DEF Switchboard!deploy, Switchboard!Crash, Switchboard!ForeignReveal, Switchboard!SetPaused, Switchboard!Unpause, Switchboard!GatewayChange, Switchboard!vars
<1>3. draw_faults' = draw_faults \/ (draw_faults < MaxDrawFaults /\ draw_faults' = draw_faults + 1)
    BY DEF Switchboard!deploy, Switchboard!Crash, Switchboard!ForeignReveal, Switchboard!SetPaused, Switchboard!Unpause, Switchboard!GatewayChange, Switchboard!vars
<1>4. round' = round \/ (round.exists /\ round' = [round EXCEPT !.last_bet = slot])
    BY DEF Switchboard!deploy, Switchboard!Crash, Switchboard!ForeignReveal, Switchboard!SetPaused, Switchboard!Unpause, Switchboard!GatewayChange, Switchboard!vars
<1>5. hindered => hindered'
    BY DEF Switchboard!deploy, Switchboard!Crash, Switchboard!ForeignReveal, Switchboard!SetPaused, Switchboard!Unpause, Switchboard!GatewayChange, Switchboard!vars
<1>6. game_paused' = game_paused \/ game_paused' = FALSE \/ (game_paused' = TRUE /\ hindered' = TRUE)
    BY DEF Switchboard!deploy, Switchboard!Crash, Switchboard!ForeignReveal, Switchboard!SetPaused, Switchboard!Unpause, Switchboard!GatewayChange, Switchboard!vars
<1>7. /\ draw_faults \in Nat /\ slot \in Nat /\ draw_faults <= MaxDrawFaults /\ round \in RoundType
      /\ keeper \in KeeperType /\ game_paused \in BOOLEAN
    BY DEF BudgetInv, KeeperTypes, DrawInv, DrawTypes, Budget
<1>8. /\ round'.exists = round.exists /\ round'.settled = round.settled
      /\ round'.commit_slot = round.commit_slot
    BY <1>4, <1>7 DEF RoundType
<1>9. KeeperTypes'
  <2>1. draw_faults' \in Nat
    BY <1>3, <1>7
  <2>2. keeper' \in KeeperType /\ game_paused' \in BOOLEAN
    BY <1>2, <1>6, <1>7, OffSound
  <2> QED BY <1>1, <2>1, <2>2 DEF BudgetInv, KeeperTypes
<1>10. game_paused' => hindered'
    BY <1>5, <1>6 DEF BudgetInv, KeeperSound
<1>11. KeeperSound'
    BY <1>1, <1>2, <1>8, <1>10, OffSound DEF BudgetInv, KeeperSound, Passed
<1>12. draw_faults' <= MaxDrawFaults /\ draw_faults <= draw_faults' /\ Due' = Due
    BY <1>3, <1>7, DueBounds DEF Due
<1>13. slot <= Due + draw_faults => slot <= Due + draw_faults'
    BY <1>3, <1>7, <1>12, DueBounds
<1>14. Budget'
    BY <1>1, <1>5, <1>8, <1>12, <1>13 DEF BudgetInv, Budget
<1> QED BY DrawInv', <1>9, <1>11, <1>14 DEF BudgetInv

LEMMA BudgetStep == Switchboard!SwitchboardAssumption /\ BudgetInv /\ [Switchboard!Next]_(Switchboard!vars) => BudgetInv'
<1> SUFFICES ASSUME Switchboard!SwitchboardAssumption, BudgetInv, [Switchboard!Next]_(Switchboard!vars) PROVE BudgetInv'
    OBVIOUS
<1>1. DrawInv'
    BY DrawStep DEF BudgetInv
<1> QED BY <1>1, KeeperBudget, LandBudget, LoseBudget, SlotBudget, WorldBudget DEF Switchboard!Next

-----------------------------------------------------------------------------
(* Rosters.                                                                *)

\* The standard operators an instance brings along are the standard ones.
LEMMA StandardInRoster ==
    /\ \A S : Roster!Cardinality(S) = Cardinality(S)
    /\ \A f : Roster!Range(f) = Range(f)
    /\ \A S : Roster!Max(S) = Max(S)
<1>1. \A S : Roster!Cardinality(S) = Cardinality(S)
    BY DEF Roster!Cardinality, Cardinality
<1>2. \A f : Roster!Range(f) = Range(f)
    BY DEF Roster!Range, Range
<1>3. \A S : Roster!Max(S) = Max(S)
    BY DEF Roster!Max, Max
<1> QED BY <1>1, <1>2, <1>3

MaybeRound == Roster!Rounds \cup {Roster!NoRound}
ChainType ==
    [ deployed : Seq(Receipts), open : SUBSET Receipts, settled : BOOLEAN, live : BOOLEAN,
      tile : Tiles, mode : Roster!Modes, sample : Nat ]
IndexType == [wagers : Nat, resolved : BOOLEAN, complete : BOOLEAN]
KnownType == [last : MaybeRound, played : MaybeRound]
DirectType ==
    [request : MaybeRound, retry : MaybeRound, attempt : Nat, timer : MaybeRound, reads : SUBSET Roster!Rounds]
RefreshType == [pc : {"off", "row", "wagers"}, round : MaybeRound]
HistoryType == [pc : {"idle", "projection", "counts"}, round : MaybeRound, complete : BOOLEAN]

RosterTypes ==
    /\ chain \in [Roster!Rounds -> ChainType] /\ index \in [Roster!Rounds -> IndexType]
    /\ known \in KnownType /\ direct \in DirectType /\ refresh \in RefreshType
    /\ history \in HistoryType /\ shown = [r \in Roster!Rounds |-> shown[r]]

\* A row resolves a settled round only, and once it is complete too it has
\* every wager.
TablesSound ==
    \A r \in Roster!Rounds :
        /\ chain[r].open \subseteq Roster!Deployed(r)
        /\ index[r].wagers <= Len(chain[r].deployed)
        /\ index[r].resolved => chain[r].settled
        /\ index[r].resolved /\ index[r].complete => index[r].wagers = Len(chain[r].deployed)

\* What is known is settled, and the newest played round is known as such.
KnownSound ==
    /\ known.last # Roster!NoRound => chain[known.last].settled
    /\ known.played # Roster!NoRound => chain[known.played].settled /\ known.played <= known.last
    /\ known.played = Roster!NoRound /\ known.last # Roster!NoRound => ~Roster!Played(known.last)

\* A roster shown is the one of a settled round.
CardSound(c) ==
    /\ c.key \in MaybeRound
    /\ c.key # Roster!NoRound =>
          chain[c.key].settled /\ c.rows = Roster!readRoundWinners(Roster!Outcome(c.key), Roster!Deployed(c.key))

Whole(r) == r \in Roster!Rounds /\ chain[r].settled /\ index[r].wagers = Len(chain[r].deployed)

RowsSound ==
    /\ refresh.pc = "wagers" => Whole(refresh.round)
    /\ history.pc # "idle" => history.round \in Roster!Rounds /\ chain[history.round].settled
    /\ history.pc = "counts" /\ history.complete => Whole(history.round)
    /\ \A r \in Roster!Rounds : shown[r].winners # Unknown =>
            /\ chain[r].settled
            /\ shown[r].winners = Roster!winnerCountsFromIndexedBets(Roster!Outcome(r), Roster!Deployed(r))

\* The rounds that a timer or a read of the card is about.
Asked == direct.reads \cup ({direct.timer} \ {Roster!NoRound})

\* Each was known when it was asked for; the one the card wants is asked for
\* once at a time, with attempts left, and never again while it is pending.
AskedSound ==
    /\ direct.attempt <= MAX_ATTEMPTS
    /\ \A s \in Asked : /\ chain[s].settled /\ s <= known.last
                        /\ Roster!Played(s) => s <= known.played
    /\ Roster!confirmedMinerSource \in Asked =>
          /\ direct.retry = Roster!confirmedMinerSource /\ direct.attempt < MAX_ATTEMPTS
          /\ ~(direct.timer = Roster!confirmedMinerSource /\ Roster!confirmedMinerSource \in direct.reads)
          /\ direct.request # Roster!confirmedMinerSource =>
                /\ Roster!confirmedMinerSource <= card.key
                /\ refresh.pc = "wagers" => Roster!confirmedMinerSource <= refresh.round

RosterInv ==
    /\ RosterTypes /\ TablesSound /\ KnownSound /\ CardSound(card) /\ CardSound(stored)
    /\ RowsSound /\ AskedSound

LEMMA RosterInvSound == RosterInv => Roster!TypeOK /\ Roster!RosterExact
<1> SUFFICES ASSUME RosterInv PROVE Roster!TypeOK /\ Roster!RosterExact
    OBVIOUS
<1>1. direct.reads \subseteq Roster!Rounds /\ direct.attempt \in 0..MAX_ATTEMPTS
    BY DEF RosterInv, RosterTypes, DirectType, AskedSound
<1>2. Roster!TypeOK
    BY <1>1 DEF Roster!TypeOK, RosterInv, CardSound, MaybeRound
<1>3. Roster!RosterExact
    BY DEF Roster!RosterExact, RosterInv, CardSound, RowsSound
<1> QED BY <1>2, <1>3

LEMMA RoundBounds ==
    ASSUME Roster!RosterAssumption
    PROVE  /\ Roster!Rounds \subseteq Nat /\ Roster!NoRound = -1 /\ Roster!NoRound \notin Roster!Rounds /\ MAX_ATTEMPTS \in Nat
           /\ MaybeRound \subseteq Int /\ \A r \in MaybeRound : r # Roster!NoRound => r \in Roster!Rounds
BY DEF Roster!RosterAssumption, Roster!Rounds, Roster!NoRound, MaybeRound

LEMMA WatchedRounds == Roster!RosterAssumption => Roster!Watched \subseteq Roster!Rounds
BY DEF Roster!RosterAssumption, Roster!Watched, Roster!Rounds

LEMMA RosterBegins == Roster!RosterAssumption /\ Roster!Init => RosterInv
<1> SUFFICES ASSUME Roster!RosterAssumption, Roster!Init PROVE RosterInv
    OBVIOUS
<1>1. /\ \A r \in Roster!Rounds : chain[r].deployed = <<>> /\ chain[r].open = {} /\ ~chain[r].settled
      /\ chain \in [Roster!Rounds -> ChainType]
    BY DEF Roster!Init, ChainType, Roster!Modes, Roster!RosterAssumption
<1>2. /\ \A r \in Roster!Rounds : index[r].wagers = 0 /\ ~index[r].resolved
      /\ index \in [Roster!Rounds -> IndexType]
    BY DEF Roster!Init, IndexType
<1>3. known \in KnownType /\ known.last = Roster!NoRound /\ known.played = Roster!NoRound
    BY DEF Roster!Init, KnownType, MaybeRound
<1>4. direct \in DirectType /\ direct.reads = {} /\ direct.timer = Roster!NoRound /\ direct.attempt = 0
    BY DEF Roster!Init, Roster!NoDirect, DirectType, MaybeRound
<1>5. refresh \in RefreshType /\ refresh.pc = "off" /\ history \in HistoryType /\ history.pc = "idle"
    BY DEF Roster!Init, Roster!NoRefresh, Roster!NoHistory, RefreshType, HistoryType, MaybeRound
<1>6. card.key = Roster!NoRound /\ stored.key = Roster!NoRound /\ Roster!NoRound \in MaybeRound
    BY DEF Roster!Init, Roster!NoCard, MaybeRound
<1>7. shown = [r \in Roster!Rounds |-> Roster!NoRow] /\ Roster!NoRow.winners = Unknown
    BY DEF Roster!Init, Roster!NoRow
<1>8. RosterTypes
  <2>1. shown = [r \in Roster!Rounds |-> shown[r]]
    BY <1>7
  <2> QED BY <1>1, <1>2, <1>3, <1>4, <1>5, <2>1 DEF RosterTypes
<1>9. TablesSound
    BY <1>1, <1>2 DEF TablesSound
<1>10. KnownSound /\ CardSound(card) /\ CardSound(stored) /\ RowsSound
    BY <1>3, <1>5, <1>6, <1>7 DEF KnownSound, CardSound, RowsSound
<1>11. AskedSound
  <2>1. Asked = {}
    BY <1>4 DEF Asked
  <2> QED BY <1>4, <2>1, RoundBounds DEF AskedSound
<1> QED BY <1>8, <1>9, <1>10, <1>11 DEF RosterInv

-----------------------------------------------------------------------------
(* The chain and the index: what is settled stays as it is.                *)

Frozen(r) ==
    /\ chain'[r].settled /\ chain'[r].deployed = chain[r].deployed /\ chain'[r].tile = chain[r].tile
    /\ chain'[r].mode = chain[r].mode /\ chain'[r].sample = chain[r].sample
    /\ index[r].wagers = Len(chain[r].deployed) => index'[r].wagers = index[r].wagers
SettledFrozen ==
    \A r \in Roster!Rounds : chain[r].settled => Frozen(r)

LEMMA FrozenMeans ==
    ASSUME NEW r, Frozen(r)
    PROVE  /\ Roster!Outcome(r)' = Roster!Outcome(r) /\ Roster!Deployed(r)' = Roster!Deployed(r)
           /\ Roster!Played(r)' <=> Roster!Played(r)
           /\ Whole(r) => Whole(r)'
BY DEF Frozen, Roster!Outcome, Roster!Deployed, Roster!Played, Whole

LEMMA CardFrozen ==
    ASSUME SettledFrozen, Roster!RosterAssumption, NEW c, CardSound(c)
    PROVE  /\ c.key \in MaybeRound
           /\ c.key # Roster!NoRound =>
                 chain'[c.key].settled /\ c.rows = Roster!readRoundWinners(Roster!Outcome(c.key)', Roster!Deployed(c.key)')
<1>1. c.key # Roster!NoRound => c.key \in Roster!Rounds /\ Frozen(c.key)
    BY RoundBounds DEF CardSound, SettledFrozen
<1>2. c.key # Roster!NoRound => Roster!Outcome(c.key)' = Roster!Outcome(c.key) /\ Roster!Deployed(c.key)' = Roster!Deployed(c.key)
    BY <1>1, FrozenMeans
<1> QED BY <1>1, <1>2 DEF CardSound, Frozen

LEMMA CardsRest ==
    ASSUME SettledFrozen, Roster!RosterAssumption, CardSound(card), CardSound(stored), UNCHANGED <<card, stored>>
    PROVE  CardSound(card)' /\ CardSound(stored)'
<1>1. CardSound(card)'
    BY CardFrozen DEF CardSound
<1>2. CardSound(stored)'
    BY CardFrozen DEF CardSound
<1> QED BY <1>1, <1>2

LEMMA RowsRest ==
    ASSUME SettledFrozen, Roster!RosterAssumption, RosterTypes, RowsSound, UNCHANGED <<refresh, history, shown>>
    PROVE  RowsSound'
<1>1. \A r \in Roster!Rounds : chain[r].settled =>
         /\ chain'[r].settled /\ (Whole(r) => Whole(r)')
         /\ Roster!Outcome(r)' = Roster!Outcome(r) /\ Roster!Deployed(r)' = Roster!Deployed(r)
    BY FrozenMeans DEF SettledFrozen, Frozen
<1>2. \A r : Whole(r) => Whole(r)'
    BY <1>1 DEF Whole
<1>3. \A r \in Roster!Rounds : shown'[r].winners # Unknown =>
            /\ chain'[r].settled
            /\ shown'[r].winners = Roster!winnerCountsFromIndexedBets(Roster!Outcome(r)', Roster!Deployed(r)')
    BY <1>1 DEF RowsSound
<1> QED BY <1>1, <1>2, <1>3 DEF RowsSound

LEMMA KnownRests ==
    ASSUME SettledFrozen, Roster!RosterAssumption, RosterTypes, KnownSound, UNCHANGED known
    PROVE  KnownSound'
<1>1. known.last \in MaybeRound /\ known.played \in MaybeRound
    BY DEF RosterTypes, KnownType
<1>2. \A r \in Roster!Rounds : chain[r].settled => chain'[r].settled /\ (Roster!Played(r)' <=> Roster!Played(r))
    BY FrozenMeans DEF SettledFrozen, Frozen
<1> QED BY <1>1, <1>2, RoundBounds DEF KnownSound

LEMMA AskedRests ==
    ASSUME SettledFrozen, Roster!RosterAssumption, RosterTypes, AskedSound,
           UNCHANGED <<known, card, direct, refresh>>
    PROVE  AskedSound'
<1>1. Asked' = Asked /\ Asked \subseteq Roster!Rounds
    BY RoundBounds DEF Asked, RosterTypes, DirectType
<1>2. Roster!confirmedMinerSource' = Roster!confirmedMinerSource
    BY DEF Roster!confirmedMinerSource
<1>3. \A r \in Roster!Rounds : chain[r].settled => chain'[r].settled /\ (Roster!Played(r)' <=> Roster!Played(r))
    BY FrozenMeans DEF SettledFrozen, Frozen
<1>4. \A s \in Asked' : /\ chain'[s].settled /\ s <= known'.last
                        /\ Roster!Played(s)' => s <= known'.played
    BY <1>1, <1>3 DEF AskedSound
<1> QED BY <1>1, <1>2, <1>4 DEF AskedSound

LEMMA ChainRests ==
    ASSUME Roster!RosterAssumption, RosterInv, SettledFrozen, TablesSound',
           chain' \in [Roster!Rounds -> ChainType], index' \in [Roster!Rounds -> IndexType],
           UNCHANGED <<Roster!cardVars, Roster!rowVars>>
    PROVE  RosterInv'
<1>1. UNCHANGED <<known, card, stored, direct, refresh, history, shown>>
    BY DEF Roster!cardVars, Roster!rowVars
<1>2. RosterTypes'
    BY <1>1 DEF RosterInv, RosterTypes
<1> QED BY <1>1, <1>2, CardsRest, RowsRest, KnownRests, AskedRests DEF RosterInv

LEMMA DeployKeeps == ASSUME Roster!RosterAssumption, RosterInv, Roster!deploy PROVE RosterInv'
<1>1. PICK p \in Receipts, r \in Roster!Rounds :
        /\ ~chain[r].settled
        /\ chain' = [chain EXCEPT ![r].deployed = Append(@, p), ![r].open = @ \cup {p}]
    BY WatchedRounds DEF Roster!deploy
<1>2. UNCHANGED <<index, Roster!cardVars, Roster!rowVars>>
    BY DEF Roster!deploy
<1>3. chain \in [Roster!Rounds -> ChainType] /\ index \in [Roster!Rounds -> IndexType]
    BY DEF RosterInv, RosterTypes
<1>4. PICK s : s = chain[r].deployed
    OBVIOUS
<1>5. s \in Seq(Receipts) /\ chain[r].open \in SUBSET Receipts
    BY <1>3, <1>4 DEF ChainType
<1>6. PICK s2 : s2 = Append(s, p)
    OBVIOUS
<1>7. /\ s2 \in Seq(Receipts) /\ Len(s2) = Len(s) + 1 /\ Range(s) \subseteq Range(s2) /\ p \in Range(s2)
  <2>1. s2 \in Seq(Receipts) /\ Len(s2) = Len(s) + 1 /\ \A i \in 1..Len(s) : s2[i] = s[i]
    BY <1>5, <1>6
  <2>2. s2[Len(s) + 1] = p
    BY <1>5, <1>6
  <2>3. Len(s) \in Nat /\ DOMAIN s2 = 1..Len(s2) /\ DOMAIN s = 1..Len(s)
    BY <1>5, <2>1
  <2> QED BY <2>1, <2>2, <2>3 DEF Range
<1>8. PICK c : c = [chain[r] EXCEPT !.deployed = s2, !.open = chain[r].open \cup {p}]
    OBVIOUS
<1>9. c \in ChainType /\ c.deployed = s2 /\ c.open = chain[r].open \cup {p} /\ c.settled = chain[r].settled
    BY <1>3, <1>5, <1>7, <1>8 DEF ChainType
<1>10. chain' = [chain EXCEPT ![r] = c]
    BY <1>1, <1>3, <1>4, <1>6, <1>8
<1>11. chain' \in [Roster!Rounds -> ChainType] /\ chain'[r] = c /\ \A q \in Roster!Rounds \ {r} : chain'[q] = chain[q]
    BY <1>3, <1>9, <1>10
<1>12. SettledFrozen
    BY <1>1, <1>2, <1>11 DEF SettledFrozen, Frozen
<1>13. TablesSound'
  <2>1. ~index[r].resolved /\ index[r].wagers <= Len(s) /\ chain[r].open \subseteq Range(s)
    BY <1>1, <1>4, StandardInRoster DEF RosterInv, TablesSound, Roster!Deployed
  <2>2. index[r].wagers <= Len(s2)
    BY <1>3, <1>5, <1>7, <2>1 DEF IndexType
  <2>3. c.open \subseteq Range(s2)
    BY <1>7, <1>9, <2>1
  <2> QED BY <1>2, <1>9, <1>11, <2>1, <2>2, <2>3, StandardInRoster DEF RosterInv, TablesSound, Roster!Deployed
<1> QED BY <1>2, <1>3, <1>11, <1>12, <1>13, ChainRests

LEMMA SettleKeeps == ASSUME Roster!RosterAssumption, RosterInv, Roster!settleRound PROVE RosterInv'
<1>1. PICK r \in Roster!Watched : \E d \in Results[r] :
        ~chain[r].settled /\ (r > 0 => chain[r - 1].settled) /\ chain' = [chain EXCEPT ![r] = Roster!Drawn(@, d)]
    BY DEF Roster!settleRound
<1>2. UNCHANGED <<index, Roster!cardVars, Roster!rowVars>>
    BY DEF Roster!settleRound
<1>3. chain \in [Roster!Rounds -> ChainType] /\ index \in [Roster!Rounds -> IndexType] /\ r \in Roster!Rounds
    BY WatchedRounds DEF RosterInv, RosterTypes
<1>4. PICK d \in Results[r] : chain' = [chain EXCEPT ![r] = Roster!Drawn(@, d)]
    BY <1>1
<1>5. d.tile \in Tiles /\ d.mode \in Roster!Modes /\ d.sample \in Nat
    BY <1>3, <1>4 DEF Roster!RosterAssumption
<1>6. PICK c : c = Roster!Drawn(chain[r], d)
    OBVIOUS
<1>7. /\ c \in ChainType /\ c.deployed = chain[r].deployed /\ c.open = chain[r].open /\ c.settled
      /\ chain' = [chain EXCEPT ![r] = c]
  <2>1. c \in ChainType /\ c.deployed = chain[r].deployed /\ c.open = chain[r].open /\ c.settled
    BY <1>3, <1>5, <1>6 DEF ChainType, Roster!Drawn
  <2> QED BY <1>4, <1>6, <2>1
<1>8. chain' \in [Roster!Rounds -> ChainType] /\ chain'[r] = c /\ \A q \in Roster!Rounds \ {r} : chain'[q] = chain[q]
    BY <1>3, <1>7
<1>9. SettledFrozen
    BY <1>1, <1>2, <1>8 DEF SettledFrozen, Frozen
<1>10. TablesSound'
    BY <1>2, <1>7, <1>8 DEF RosterInv, TablesSound, Roster!Deployed
<1> QED BY <1>2, <1>3, <1>8, <1>9, <1>10, ChainRests

LEMMA CloseKeeps == ASSUME Roster!RosterAssumption, RosterInv, Roster!closeAccounts PROVE RosterInv'
<1>1. PICK r \in Roster!Rounds :
        \/ \E p \in chain[r].open : chain' = [chain EXCEPT ![r].open = @ \ {p}]
        \/ chain' = [chain EXCEPT ![r].live = FALSE]
    BY WatchedRounds DEF Roster!closeAccounts
<1>2. UNCHANGED <<index, Roster!cardVars, Roster!rowVars>>
    BY DEF Roster!closeAccounts
<1>3. chain \in [Roster!Rounds -> ChainType] /\ index \in [Roster!Rounds -> IndexType]
    BY DEF RosterInv, RosterTypes
<1>4. PICK c : /\ chain' = [chain EXCEPT ![r] = c]
               /\ \/ \E p : c = [chain[r] EXCEPT !.open = chain[r].open \ {p}]
                  \/ c = [chain[r] EXCEPT !.live = FALSE]
    BY <1>1, <1>3
<1>5. /\ c \in ChainType /\ c.deployed = chain[r].deployed /\ c.open \subseteq chain[r].open
      /\ c.settled = chain[r].settled /\ c.tile = chain[r].tile
      /\ c.mode = chain[r].mode /\ c.sample = chain[r].sample
    BY <1>3, <1>4 DEF ChainType
<1>6. /\ chain' \in [Roster!Rounds -> ChainType]
      /\ \A q \in Roster!Rounds : /\ chain'[q].deployed = chain[q].deployed /\ chain'[q].open \subseteq chain[q].open
                           /\ chain'[q].settled = chain[q].settled /\ chain'[q].tile = chain[q].tile
                           /\ chain'[q].mode = chain[q].mode /\ chain'[q].sample = chain[q].sample
    BY <1>3, <1>4, <1>5
<1>7. SettledFrozen
    BY <1>2, <1>6 DEF SettledFrozen, Frozen
<1>8. TablesSound'
    BY <1>2, <1>6 DEF RosterInv, TablesSound, Roster!Deployed
<1> QED BY <1>2, <1>3, <1>6, <1>7, <1>8, ChainRests

LEMMA IndexKeeps ==
    ASSUME Roster!RosterAssumption, RosterInv, Roster!indexDeployment \/ Roster!publishRow \/ Roster!withdrawRow
    PROVE  RosterInv'
<1>1. UNCHANGED <<chain, Roster!cardVars, Roster!rowVars>>
    BY DEF Roster!indexDeployment, Roster!publishRow, Roster!withdrawRow
<1>2. chain \in [Roster!Rounds -> ChainType] /\ index \in [Roster!Rounds -> IndexType]
    BY DEF RosterInv, RosterTypes
<1>3. \A r \in Roster!Rounds : Len(chain[r].deployed) \in Nat
    BY <1>2 DEF ChainType
<1> SUFFICES index' \in [Roster!Rounds -> IndexType] /\ SettledFrozen /\ TablesSound'
    BY <1>1, <1>2, ChainRests
<1>4. ASSUME NEW r \in Roster!Rounds, NEW e \in IndexType, index' = [index EXCEPT ![r] = e],
             e.wagers <= Len(chain[r].deployed), index[r].wagers <= e.wagers,
             e.resolved => chain[r].settled,
             e.resolved /\ e.complete => e.wagers = Len(chain[r].deployed)
      PROVE  index' \in [Roster!Rounds -> IndexType] /\ SettledFrozen /\ TablesSound'
  <2>1. /\ index' \in [Roster!Rounds -> IndexType] /\ index'[r] = e
        /\ \A q \in Roster!Rounds \ {r} : index'[q] = index[q]
    BY <1>2, <1>4
  <2>2. index[r].wagers = Len(chain[r].deployed) => e.wagers = index[r].wagers
    BY <1>2, <1>3, <1>4 DEF IndexType
  <2>3. SettledFrozen
    BY <1>1, <2>1, <2>2 DEF SettledFrozen, Frozen
  <2>4. TablesSound'
    BY <1>1, <1>4, <2>1 DEF RosterInv, TablesSound, Roster!Deployed
  <2> QED BY <2>1, <2>3, <2>4
<1>5. \A r \in Roster!Rounds :
        /\ index[r].wagers \in Nat /\ index[r].resolved \in BOOLEAN /\ index[r].complete \in BOOLEAN
        /\ index[r].wagers <= Len(chain[r].deployed)
        /\ index[r].resolved => chain[r].settled
        /\ index[r].resolved /\ index[r].complete => index[r].wagers = Len(chain[r].deployed)
    BY <1>2 DEF RosterInv, TablesSound, IndexType
<1>6. CASE Roster!indexDeployment
  <2>1. PICK r \in Roster!Rounds :
          /\ index[r].wagers < Len(chain[r].deployed)
          /\ index' = [index EXCEPT ![r].wagers = @ + 1, ![r].complete = FALSE]
    BY <1>6, WatchedRounds DEF Roster!indexDeployment
  <2>2. PICK e : e = [index[r] EXCEPT !.wagers = index[r].wagers + 1, !.complete = FALSE]
    OBVIOUS
  <2>3. e \in IndexType /\ e.wagers = index[r].wagers + 1 /\ ~e.complete /\ e.resolved = index[r].resolved
    <3>1. index[r] \in IndexType /\ index[r].wagers + 1 \in Nat
      BY <1>2, <1>5
    <3> QED BY <2>2, <3>1 DEF IndexType
  <2>4. index' = [index EXCEPT ![r] = e]
    BY <1>2, <2>1, <2>2
  <2>5. e.wagers <= Len(chain[r].deployed) /\ index[r].wagers <= e.wagers
    BY <1>3, <1>5, <2>1, <2>3
  <2>6. /\ e.resolved => chain[r].settled
        /\ e.resolved /\ e.complete => e.wagers = Len(chain[r].deployed)
    BY <1>5, <2>3
  <2> QED BY <1>4, <2>3, <2>4, <2>5, <2>6
<1>7. CASE Roster!publishRow
  <2>1. PICK r \in Roster!Rounds :
          \/ ~index[r].resolved /\ index' = [index EXCEPT ![r].complete = TRUE]
          \/ /\ chain[r].settled
             /\ index' = [index EXCEPT ![r].resolved = TRUE,
                              ![r].complete = (index[r].wagers = Len(chain[r].deployed))]
    BY <1>7, WatchedRounds DEF Roster!publishRow
  <2>2. CASE ~index[r].resolved /\ index' = [index EXCEPT ![r].complete = TRUE]
    <3>1. PICK e : e = [index[r] EXCEPT !.complete = TRUE]
      OBVIOUS
    <3>2. e \in IndexType /\ e.wagers = index[r].wagers /\ e.resolved = index[r].resolved
      BY <1>2, <3>1 DEF IndexType
    <3>3. index' = [index EXCEPT ![r] = e]
      BY <1>2, <2>2, <3>1
    <3>4. /\ e.wagers <= Len(chain[r].deployed) /\ index[r].wagers <= e.wagers
          /\ e.resolved => chain[r].settled
          /\ e.resolved /\ e.complete => e.wagers = Len(chain[r].deployed)
      BY <1>5, <2>2, <3>2
    <3> QED BY <1>4, <3>2, <3>3, <3>4
  <2>3. CASE /\ chain[r].settled
             /\ index' = [index EXCEPT ![r].resolved = TRUE,
                              ![r].complete = (index[r].wagers = Len(chain[r].deployed))]
    <3>1. PICK e : e = [index[r] EXCEPT !.resolved = TRUE,
                                        !.complete = (index[r].wagers = Len(chain[r].deployed))]
      OBVIOUS
    <3>2. /\ e \in IndexType /\ e.wagers = index[r].wagers
          /\ e.complete => index[r].wagers = Len(chain[r].deployed)
      BY <1>2, <3>1 DEF IndexType
    <3>3. index' = [index EXCEPT ![r] = e]
      BY <1>2, <2>3, <3>1
    <3>4. /\ e.wagers <= Len(chain[r].deployed) /\ index[r].wagers <= e.wagers
          /\ e.resolved => chain[r].settled
          /\ e.resolved /\ e.complete => e.wagers = Len(chain[r].deployed)
      BY <1>5, <2>3, <3>2
    <3> QED BY <1>4, <3>2, <3>3, <3>4
  <2> QED BY <2>1, <2>2, <2>3
<1>8. CASE Roster!withdrawRow
  <2>1. PICK r \in Roster!Rounds : index' = [index EXCEPT ![r].complete = FALSE]
    BY <1>8 DEF Roster!withdrawRow
  <2>2. PICK e : e = [index[r] EXCEPT !.complete = FALSE]
    OBVIOUS
  <2>3. e \in IndexType /\ e.wagers = index[r].wagers /\ e.resolved = index[r].resolved /\ ~e.complete
    BY <1>2, <2>2 DEF IndexType
  <2>4. index' = [index EXCEPT ![r] = e]
    BY <1>2, <2>1, <2>2
  <2>5. /\ e.wagers <= Len(chain[r].deployed) /\ index[r].wagers <= e.wagers
        /\ e.resolved => chain[r].settled
        /\ e.resolved /\ e.complete => e.wagers = Len(chain[r].deployed)
    BY <1>5, <2>3
  <2> QED BY <1>4, <2>3, <2>4, <2>5
<1> QED BY <1>6, <1>7, <1>8

-----------------------------------------------------------------------------
(* The pages: the chain and the index stay as they are.                    *)

LEMMA TablesFixed ==
    ASSUME Roster!RosterAssumption, UNCHANGED <<chain, index>>
    PROVE  /\ \A r : /\ Roster!Outcome(r)' = Roster!Outcome(r) /\ Roster!Deployed(r)' = Roster!Deployed(r)
                     /\ Roster!Played(r)' <=> Roster!Played(r)
                     /\ Whole(r)' <=> Whole(r)
           /\ TablesSound => TablesSound'
<1>1. \A r : /\ Roster!Outcome(r)' = Roster!Outcome(r) /\ Roster!Deployed(r)' = Roster!Deployed(r)
             /\ Roster!Played(r)' <=> Roster!Played(r)
             /\ Whole(r)' <=> Whole(r)
    BY DEF Roster!Outcome, Roster!Deployed, Roster!Played, Whole
<1>2. TablesSound => TablesSound'
    BY DEF TablesSound, Roster!Deployed
<1> QED BY <1>1, <1>2

LEMMA CardFixed ==
    ASSUME Roster!RosterAssumption, UNCHANGED <<chain, index>>, NEW c, CardSound(c)
    PROVE  CardSound(c)'
BY TablesFixed DEF CardSound

LEMMA KnownFixed ==
    ASSUME Roster!RosterAssumption, UNCHANGED <<chain, index, known>>, KnownSound
    PROVE  KnownSound' /\ Roster!confirmedMinerSource' = Roster!confirmedMinerSource
<1>1. \A r : Roster!Played(r)' <=> Roster!Played(r)
    BY TablesFixed
<1>2. KnownSound'
    BY <1>1 DEF KnownSound
<1> QED BY <1>2 DEF Roster!confirmedMinerSource

LEMMA RowsFixed ==
    ASSUME Roster!RosterAssumption, UNCHANGED <<chain, index, history, shown>>, RowsSound,
           refresh'.pc = "wagers" => Whole(refresh'.round)
    PROVE  RowsSound'
<1>1. refresh'.pc = "wagers" => Whole(refresh.round)'
  <2>1. PICK r : r = refresh'.round
    OBVIOUS
  <2> QED BY <2>1 DEF Whole
<1>2. history.pc = "counts" /\ history.complete => Whole(history.round)'
  <2>1. PICK r : r = history.round
    OBVIOUS
  <2>2. history.pc = "counts" /\ history.complete => Whole(r)
    BY <2>1 DEF RowsSound
  <2> QED BY <2>1, <2>2 DEF Whole
<1>3. \A r \in Roster!Rounds : shown'[r].winners # Unknown =>
            /\ chain'[r].settled
            /\ shown'[r].winners = Roster!winnerCountsFromIndexedBets(Roster!Outcome(r)', Roster!Deployed(r)')
    BY TablesFixed DEF RowsSound
<1> QED BY <1>1, <1>2, <1>3 DEF RowsSound

\* The source is a round that was asked for by right.
LEMMA SourceSound ==
    ASSUME Roster!RosterAssumption, RosterTypes, KnownSound, Roster!confirmedMinerSource # Roster!NoRound
    PROVE  /\ Roster!confirmedMinerSource \in Roster!Rounds /\ chain[Roster!confirmedMinerSource].settled
           /\ Roster!confirmedMinerSource <= known.last
           /\ Roster!Played(Roster!confirmedMinerSource) => Roster!confirmedMinerSource <= known.played
<1>1. known.last \in MaybeRound /\ known.played \in MaybeRound
    BY DEF RosterTypes, KnownType
<1>2. known.last \in Int /\ known.played \in Int
    BY <1>1, RoundBounds
<1>3. CASE known.played # Roster!NoRound
    BY <1>1, <1>2, <1>3, RoundBounds DEF Roster!confirmedMinerSource, KnownSound
<1>4. CASE known.played = Roster!NoRound
    BY <1>1, <1>2, <1>4, RoundBounds DEF Roster!confirmedMinerSource, KnownSound
<1> QED BY <1>3, <1>4

\* A newer round becomes known; it has not been asked for.
LEMMA PublishKeeps == ASSUME Roster!RosterAssumption, RosterInv, Roster!publishResolvedRound PROVE RosterInv'
<1>1. UNCHANGED <<chain, index, card, stored, direct, refresh, history, shown>>
    BY DEF Roster!publishResolvedRound, Roster!rowVars
<1>2. PICK r \in Roster!Rounds :
        /\ chain[r].settled
        /\ known' = [last |-> Roster!Newer(known.last, r),
                     played |-> IF Roster!Played(r) THEN Roster!Newer(known.played, r) ELSE known.played]
    BY DEF Roster!publishResolvedRound
<1>3. /\ known \in KnownType /\ known.last \in MaybeRound /\ known.played \in MaybeRound
      /\ r \in MaybeRound
    BY DEF RosterInv, RosterTypes, KnownType, MaybeRound
<1>4. known.last \in Int /\ known.played \in Int /\ r \in Nat /\ Roster!NoRound = -1
    BY <1>3, RoundBounds
<1>5. PICK last, played : last = known'.last /\ played = known'.played
    OBVIOUS
<1>6. /\ last = (IF known.last > r THEN known.last ELSE r)
      /\ played = (IF Roster!Played(r) THEN IF known.played > r THEN known.played ELSE r ELSE known.played)
    BY <1>2, <1>5 DEF Roster!Newer
<1>7. last \in MaybeRound /\ played \in MaybeRound /\ known' \in KnownType
    BY <1>2, <1>3, <1>5, <1>6 DEF KnownType
<1>8. last \in Int /\ played \in Int /\ known.last <= last /\ known.played <= played /\ last # Roster!NoRound
    BY <1>4, <1>6
<1>9. KnownSound'
  <2>1. chain[last].settled
    BY <1>2, <1>4, <1>6 DEF RosterInv, KnownSound
  <2>2. played # Roster!NoRound => chain[played].settled /\ played <= last
    BY <1>2, <1>4, <1>6 DEF RosterInv, KnownSound
  <2>3. played = Roster!NoRound => ~Roster!Played(last)
    <3>1. played = Roster!NoRound => known.played = Roster!NoRound /\ ~Roster!Played(r)
      BY <1>3, <1>4, <1>6
    <3> QED BY <1>4, <1>6, <3>1 DEF RosterInv, KnownSound
  <2>4. Roster!Played(last)' <=> Roster!Played(last)
    BY <1>1, TablesFixed
  <2> QED BY <1>1, <1>5, <2>1, <2>2, <2>3, <2>4 DEF KnownSound
<1>10. /\ CardSound(card)' /\ CardSound(stored)'
  <2>1. PICK k, t : k = card /\ t = stored
    OBVIOUS
  <2>2. CardSound(k)' /\ CardSound(t)'
    BY <1>1, <2>1, CardFixed DEF RosterInv
  <2> QED BY <1>1, <2>1, <2>2 DEF CardSound
<1>11. RowsSound'
    BY <1>1, RowsFixed DEF RosterInv, RowsSound
<1>12. RosterTypes' /\ TablesSound'
    BY <1>1, <1>7, TablesFixed DEF RosterInv, RosterTypes
<1>13. PICK src : src = Roster!confirmedMinerSource
    OBVIOUS
<1>14. PICK new : new = Roster!confirmedMinerSource'
    OBVIOUS
<1>15. /\ src = (IF known.played # Roster!NoRound THEN known.played ELSE known.last)
       /\ new = (IF played # Roster!NoRound THEN played ELSE last)
    BY <1>5, <1>13, <1>14 DEF Roster!confirmedMinerSource
<1>16. Asked' = Asked /\ Asked \subseteq Roster!Rounds
    BY <1>1, RoundBounds DEF Asked, RosterInv, RosterTypes, DirectType
<1>17. \A s \in Asked : /\ s \in Nat /\ chain[s].settled /\ s <= known.last
                        /\ Roster!Played(s) => s <= known.played
    BY <1>16, RoundBounds DEF RosterInv, AskedSound
<1>18. new = src \/ new \notin Asked
  <2>1. CASE played # Roster!NoRound /\ played # known.played
    <3>1. Roster!Played(r) /\ new = r /\ r > known.played
      BY <1>4, <1>6, <1>15, <2>1
    <3>2. r \in Asked => r <= known.played
      BY <1>17, <3>1
    <3> QED BY <1>4, <3>1, <3>2
  <2>2. CASE played # Roster!NoRound /\ played = known.played
    BY <1>15, <2>2
  <2>3. CASE played = Roster!NoRound
    <3>1. known.played = Roster!NoRound
      BY <1>4, <1>6, <2>3
    <3>2. new = last /\ src = known.last
      BY <1>15, <2>3, <3>1
    <3>3. last # known.last => last = r /\ r > known.last
      BY <1>4, <1>6
    <3>4. r \in Asked => r <= known.last
      BY <1>17
    <3> QED BY <1>4, <3>2, <3>3, <3>4
  <2> QED BY <2>1, <2>2, <2>3
<1>19. \A s \in Asked : chain[s].settled /\ s <= last /\ (Roster!Played(s)' => s <= played)
  <2>1. \A s : Roster!Played(s)' <=> Roster!Played(s)
    BY <1>1, TablesFixed
  <2> QED BY <1>4, <1>8, <1>17, <2>1
<1>20. AskedSound'
    BY <1>1, <1>5, <1>13, <1>14, <1>16, <1>18, <1>19 DEF RosterInv, AskedSound
<1> QED BY <1>9, <1>10, <1>11, <1>12, <1>20 DEF RosterInv

\* What a step of the card must show: the chain, the index and what is known
\* stay, so the rosters asked for change only with the reads.
LEMMA CardRests ==
    ASSUME Roster!RosterAssumption, RosterInv,
           UNCHANGED <<chain, index, known, history, shown>>,
           direct' \in DirectType, refresh' \in RefreshType,
           CardSound(card)', CardSound(stored)',
           refresh'.pc = "wagers" => Whole(refresh'.round), AskedSound'
    PROVE  RosterInv'
<1>1. KnownSound' /\ TablesSound' /\ RowsSound'
    BY KnownFixed, TablesFixed, RowsFixed DEF RosterInv
<1>2. RosterTypes'
    BY DEF RosterInv, RosterTypes
<1> QED BY <1>1, <1>2 DEF RosterInv

LEMMA CardsKept ==
    ASSUME Roster!RosterAssumption, RosterInv, UNCHANGED <<chain, index, card, stored>>
    PROVE  CardSound(card)' /\ CardSound(stored)'
<1>1. PICK k, t : k = card /\ t = stored
    OBVIOUS
<1>2. CardSound(k)' /\ CardSound(t)'
    BY <1>1, CardFixed DEF RosterInv
<1> QED BY <1>1, <1>2 DEF CardSound

LEMMA CardRendered ==
    ASSUME Roster!RosterAssumption, UNCHANGED <<chain, index>>, NEW r \in Roster!Rounds, chain[r].settled,
           NEW P, P = Roster!Deployed(r), Roster!renderConfirmedMiners(r, Roster!readRoundWinners(Roster!Outcome(r), P))
    PROVE  CardSound(card)' /\ CardSound(stored)' /\ card'.key = r
<1>1. PICK k : k = [key |-> r, rows |-> Roster!readRoundWinners(Roster!Outcome(r), Roster!Deployed(r))]
    OBVIOUS
<1>2. k.key = r /\ k.rows = Roster!readRoundWinners(Roster!Outcome(r), Roster!Deployed(r)) /\ r \in MaybeRound
    BY <1>1 DEF MaybeRound
<1>3. CardSound(k)
    BY <1>2 DEF CardSound
<1>4. CardSound(k)'
    BY <1>3, CardFixed
<1>5. card' = k /\ stored' = k
    BY <1>1 DEF Roster!renderConfirmedMiners
<1> QED BY <1>2, <1>4, <1>5 DEF CardSound

LEMMA ReleasedFields ==
    ASSUME NEW d \in DirectType, NEW s
    PROVE  /\ Roster!Released(d, s) \in DirectType
           /\ Roster!Released(d, s).request = (IF d.request = s THEN Roster!NoRound ELSE d.request)
           /\ Roster!Released(d, s).retry = d.retry /\ Roster!Released(d, s).attempt = d.attempt
           /\ Roster!Released(d, s).timer = d.timer /\ Roster!Released(d, s).reads = d.reads
<1>1. (IF d.request = s THEN Roster!NoRound ELSE d.request) \in MaybeRound
    BY DEF DirectType, MaybeRound
<1> QED BY <1>1 DEF Roster!Released, DirectType

\* What is pending for the card, in the fields of direct.
LEMMA AskedMeans ==
    ASSUME Roster!RosterAssumption, RosterInv
    PROVE  /\ direct \in DirectType /\ refresh \in RefreshType /\ Asked \subseteq Roster!Rounds
           /\ direct.attempt \in Nat /\ direct.attempt <= MAX_ATTEMPTS /\ MAX_ATTEMPTS \in Nat
           /\ direct.reads \in SUBSET Roster!Rounds /\ direct.timer \in MaybeRound
           /\ \A s \in Asked : /\ chain[s].settled /\ s <= known.last
                               /\ Roster!Played(s) => s <= known.played
BY RoundBounds DEF RosterInv, RosterTypes, AskedSound, Asked, DirectType

\* A step of the card that asks for nothing new.
LEMMA AskedShrinks ==
    ASSUME Roster!RosterAssumption, RosterInv, UNCHANGED <<chain, index, known>>,
           direct'.attempt <= MAX_ATTEMPTS, Asked' \subseteq Asked,
           Roster!confirmedMinerSource \in Asked' =>
              /\ direct'.retry = direct.retry /\ direct'.attempt = direct.attempt
              /\ ~(direct'.timer = Roster!confirmedMinerSource /\ Roster!confirmedMinerSource \in direct'.reads)
              /\ direct'.request # Roster!confirmedMinerSource =>
                    /\ Roster!confirmedMinerSource <= card'.key
                    /\ refresh'.pc = "wagers" => Roster!confirmedMinerSource <= refresh'.round
    PROVE  AskedSound'
<1>1. \A s : Roster!Played(s)' <=> Roster!Played(s)
    BY TablesFixed
<1>2. Roster!confirmedMinerSource' = Roster!confirmedMinerSource
    BY DEF Roster!confirmedMinerSource
<1>3. \A s \in Asked' : /\ chain'[s].settled /\ s <= known'.last
                        /\ Roster!Played(s)' => s <= known'.played
    BY <1>1 DEF RosterInv, AskedSound
<1> QED BY <1>2, <1>3 DEF RosterInv, AskedSound

LEMMA ScheduleKeeps == ASSUME Roster!RosterAssumption, RosterInv, Roster!scheduleRoundMinersRefresh PROVE RosterInv'
<1>1. UNCHANGED <<chain, index, known, card, stored, refresh, history, shown>>
    BY DEF Roster!scheduleRoundMinersRefresh, Roster!rowVars
<1>2. PICK s : s = Roster!confirmedMinerSource
    OBVIOUS
<1>3. PICK n : n = IF direct.retry = s THEN direct.attempt ELSE 0
    OBVIOUS
<1>4. /\ s # Roster!NoRound /\ s # direct.request /\ s > card.key /\ n < MAX_ATTEMPTS
      /\ direct' = [direct EXCEPT !.request = s, !.retry = s, !.attempt = n, !.timer = s]
    BY <1>2, <1>3 DEF Roster!scheduleRoundMinersRefresh, Roster!shouldRefreshConfirmedMiners
<1>5. /\ direct \in DirectType /\ direct.attempt \in Nat /\ MAX_ATTEMPTS \in Nat
      /\ direct.reads \in SUBSET Roster!Rounds
    BY AskedMeans
<1>6. /\ s \in Roster!Rounds /\ chain[s].settled /\ s <= known.last
      /\ Roster!Played(s) => s <= known.played
    BY <1>2, <1>4, SourceSound DEF RosterInv
<1>7. n \in Nat /\ s \in MaybeRound
    BY <1>3, <1>5, <1>6 DEF MaybeRound
<1>8. /\ direct' \in DirectType /\ direct'.request = s /\ direct'.retry = s /\ direct'.attempt = n
      /\ direct'.timer = s /\ direct'.reads = direct.reads
    BY <1>4, <1>5, <1>7 DEF DirectType
<1>9. s \notin direct.reads
  <2>1. s \in Asked => s <= card.key
    BY <1>2, <1>4 DEF RosterInv, AskedSound
  <2>2. card.key \in Int /\ s \in Int
    BY <1>6, RoundBounds DEF RosterInv, CardSound
  <2> QED BY <1>4, <2>1, <2>2 DEF Asked
<1>10. \A q : Roster!Played(q)' <=> Roster!Played(q)
    BY <1>1, TablesFixed
<1>11. Asked' = direct.reads \cup {s}
    BY <1>4, <1>8 DEF Asked
<1>12. \A q \in Asked' : /\ chain'[q].settled /\ q <= known'.last
                         /\ Roster!Played(q)' => q <= known'.played
  <2>1. \A q \in direct.reads : /\ chain[q].settled /\ q <= known.last
                                /\ Roster!Played(q) => q <= known.played
    BY AskedMeans DEF Asked
  <2> QED BY <1>1, <1>6, <1>10, <1>11, <2>1
<1>13. Roster!confirmedMinerSource' = s
    BY <1>1, <1>2 DEF Roster!confirmedMinerSource
<1>14. n <= MAX_ATTEMPTS
    BY <1>4, <1>5, <1>7
<1>15. AskedSound'
    BY <1>4, <1>8, <1>9, <1>12, <1>13, <1>14 DEF AskedSound
<1>16. refresh' \in RefreshType /\ (refresh'.pc = "wagers" => Whole(refresh'.round))
    BY <1>1 DEF RosterInv, RosterTypes, RowsSound
<1> QED BY <1>1, <1>8, <1>15, <1>16, CardsKept, CardRests

LEMMA FetchKeeps == ASSUME Roster!RosterAssumption, RosterInv, Roster!fetchConfirmedMiners PROVE RosterInv'
<1>1. UNCHANGED <<chain, index, known, card, stored, refresh, history, shown>>
    BY DEF Roster!fetchConfirmedMiners, Roster!rowVars
<1>2. PICK s : s = Roster!confirmedMinerSource
    OBVIOUS
<1>3. PICK t : t = direct.timer
    OBVIOUS
<1>4. /\ t # Roster!NoRound
      /\ direct' = IF s = t THEN [direct EXCEPT !.timer = Roster!NoRound, !.reads = direct.reads \cup {t}]
                   ELSE Roster!Released([direct EXCEPT !.timer = Roster!NoRound], t)
    BY <1>2, <1>3 DEF Roster!fetchConfirmedMiners
<1>5. /\ direct \in DirectType /\ direct.attempt \in Nat /\ direct.attempt <= MAX_ATTEMPTS
      /\ direct.reads \in SUBSET Roster!Rounds /\ direct.timer \in MaybeRound /\ Roster!NoRound \in MaybeRound
      /\ t \in Roster!Rounds
    BY <1>3, <1>4, AskedMeans, RoundBounds DEF MaybeRound
<1>6. refresh' \in RefreshType /\ (refresh'.pc = "wagers" => Whole(refresh'.round))
    BY <1>1 DEF RosterInv, RosterTypes, RowsSound
<1>7. t \in Asked /\ Roster!NoRound \notin Roster!Rounds
    BY <1>3, <1>4, RoundBounds DEF Asked
<1>8. CASE s = t
  <2>1. /\ direct' \in DirectType /\ direct'.timer = Roster!NoRound /\ direct'.reads = direct.reads \cup {t}
        /\ direct'.request = direct.request /\ direct'.retry = direct.retry
        /\ direct'.attempt = direct.attempt
    BY <1>4, <1>5, <1>8 DEF DirectType
  <2>2. Asked' = Asked
    BY <1>3, <1>4, <2>1 DEF Asked
  <2>3. s \in Asked /\ s # Roster!NoRound
    BY <1>4, <1>7, <1>8
  <2>4. AskedSound'
    BY <1>1, <1>2, <1>5, <2>1, <2>2, <2>3, AskedShrinks DEF RosterInv, AskedSound
  <2> QED BY <1>1, <1>6, <2>1, <2>4, CardsKept, CardRests
<1>9. CASE s # t
  <2>1. PICK d : d = [direct EXCEPT !.timer = Roster!NoRound]
    OBVIOUS
  <2>2. /\ d \in DirectType /\ d.timer = Roster!NoRound /\ d.reads = direct.reads
        /\ d.request = direct.request /\ d.retry = direct.retry /\ d.attempt = direct.attempt
    BY <1>5, <2>1 DEF DirectType
  <2>3. direct' = Roster!Released(d, t)
    BY <1>4, <1>9, <2>1
  <2>4. /\ direct' \in DirectType /\ direct'.timer = Roster!NoRound /\ direct'.reads = direct.reads
        /\ direct'.request = (IF direct.request = t THEN Roster!NoRound ELSE direct.request)
        /\ direct'.retry = direct.retry /\ direct'.attempt = direct.attempt
    BY <2>2, <2>3, ReleasedFields
  <2>5. Asked' = direct.reads
    BY <2>4 DEF Asked
  <2>6. s \in direct.reads => s # Roster!NoRound
    BY <1>5, <1>7
  <2>7. AskedSound'
    BY <1>1, <1>2, <1>5, <1>9, <2>4, <2>5, <2>6, AskedShrinks DEF RosterInv, AskedSound, Asked
  <2> QED BY <1>1, <1>6, <2>4, <2>7, CardsKept, CardRests
<1> QED BY <1>8, <1>9

-----------------------------------------------------------------------------
(* Answers.                                                                *)

\* A direct read counts only if it has every receipt of the round.
LEMMA DecodedIsWhole ==
    ASSUME Roster!RosterAssumption, RosterInv, NEW r \in Roster!Rounds, NEW P \in Roster!decodedReceipts(r),
           P # {} \/ Roster!isConfirmedEmptyRound(r)
    PROVE  P = Roster!Deployed(r)
<1>1. PICK s : s = chain[r].deployed
    OBVIOUS
<1>2. s \in Seq(Receipts) /\ Roster!Deployed(r) = Range(s) /\ chain[r].open \subseteq Range(s)
    BY <1>1, StandardInRoster DEF RosterInv, RosterTypes, ChainType, TablesSound, Roster!Deployed
<1>3. P \in {Roster!scanReceipts(r), Roster!loadReceiptIndex(r)}
      /\ Cardinality(P) = IF chain[r].live THEN Len(s) ELSE 0
    BY <1>1, StandardInRoster DEF Roster!decodedReceipts
<1>4. P \subseteq Range(s)
    BY <1>2, <1>3 DEF Roster!scanReceipts, Roster!loadReceiptIndex
<1>5. CASE chain[r].live
    BY <1>2, <1>3, <1>4, <1>5, AllConfirmed DEF Range, ToSet
<1>6. CASE ~chain[r].live
  <2>1. IsFiniteSet(Range(s))
    <3>1. s \in Surjection(1..Len(s), Range(s)) /\ Len(s) \in Nat
      BY <1>2 DEF Surjection, Range
    <3>2. IsFiniteSet(1..Len(s))
      BY <3>1, FS_Interval
    <3> QED BY <3>1, <3>2, FS_Surjection
  <2>2. P = {}
    BY <1>3, <1>4, <1>6, <2>1, FS_Subset, FS_EmptySet
  <2>3. s = <<>>
    BY <1>1, <2>2 DEF Roster!isConfirmedEmptyRound, Roster!Played
  <2>4. Range(s) = {}
    BY <2>3 DEF Range
  <2> QED BY <1>2, <2>2, <2>4
<1> QED BY <1>5, <1>6

\* A whole index lists every receipt.
LEMMA IndexedIsWhole ==
    ASSUME RosterInv, NEW r, Whole(r)
    PROVE  Roster!Indexed(r) = Roster!Deployed(r)
<1>1. PICK s : s = chain[r].deployed
    OBVIOUS
<1>2. s \in Seq(Receipts) /\ index[r].wagers = Len(s)
    BY <1>1 DEF RosterInv, RosterTypes, ChainType, Whole
<1>3. DOMAIN s = 1..index[r].wagers
    BY <1>2
<1> QED BY <1>1, <1>3, StandardInRoster DEF Roster!Indexed, Roster!Deployed, Range

LEMMA ArriveKeeps == ASSUME Roster!RosterAssumption, RosterInv, Roster!confirmedMinersArrive PROVE RosterInv'
<1>1. UNCHANGED <<chain, index, known, history, shown>>
    BY DEF Roster!confirmedMinersArrive, Roster!rowVars
<1>2. PICK src : src = Roster!confirmedMinerSource
    OBVIOUS
<1>3. PICK s \in direct.reads : Roster!supersededRead(s) \/ Roster!retryLater(s) \/ Roster!rosterRead(s)
    BY DEF Roster!confirmedMinersArrive
<1>4. /\ direct \in DirectType /\ direct.attempt \in Nat /\ direct.attempt <= MAX_ATTEMPTS
      /\ direct.reads \in SUBSET Roster!Rounds /\ direct.timer \in MaybeRound /\ MAX_ATTEMPTS \in Nat
      /\ refresh \in RefreshType
    BY AskedMeans
<1>5. s \in Roster!Rounds /\ s \in Asked /\ s # Roster!NoRound
    BY <1>4, RoundBounds DEF Asked
<1>6. refresh.pc = "wagers" => Whole(refresh.round)
    BY DEF RosterInv, RowsSound
<1>7. PICK d : d = [direct EXCEPT !.reads = direct.reads \ {s}]
    OBVIOUS
<1>8. /\ d \in DirectType /\ d.reads = direct.reads \ {s} /\ d.timer = direct.timer
      /\ d.request = direct.request /\ d.retry = direct.retry /\ d.attempt = direct.attempt
    BY <1>4, <1>7 DEF DirectType
<1>9. src = s => /\ direct.attempt < MAX_ATTEMPTS /\ direct.timer # s
    BY <1>2, <1>5 DEF RosterInv, AskedSound
<1>10. CASE Roster!supersededRead(s)
  <2>0. src # s /\ direct' = Roster!Released(d, s) /\ UNCHANGED <<card, stored, refresh>>
    BY <1>2, <1>7, <1>10 DEF Roster!supersededRead
  <2>1. /\ direct' \in DirectType /\ direct'.reads = direct.reads \ {s} /\ direct'.timer = direct.timer
        /\ direct'.request = (IF direct.request = s THEN Roster!NoRound ELSE direct.request)
        /\ direct'.retry = direct.retry /\ direct'.attempt = direct.attempt
    BY <1>8, <2>0, ReleasedFields
  <2>2. Asked' \subseteq Asked
    BY <2>1 DEF Asked
  <2>3. direct'.request # src => direct.request # src
    BY <2>0, <2>1
  <2>4. AskedSound'
    BY <1>1, <1>2, <1>4, <2>0, <2>1, <2>2, <2>3, AskedShrinks DEF RosterInv, AskedSound
  <2> QED BY <1>1, <1>4, <1>6, <2>0, <2>1, <2>4, CardsKept, CardRests
<1>11. CASE Roster!retryLater(s)
  <2>0. src = s
    BY <1>2, <1>11 DEF Roster!retryLater
  <2>1. PICK e : e = [direct EXCEPT !.reads = direct.reads \ {s}, !.attempt = direct.attempt + 1]
    OBVIOUS
  <2>2. /\ e \in DirectType /\ e.reads = direct.reads \ {s} /\ e.timer = direct.timer
        /\ e.attempt = direct.attempt + 1
    <3>1. direct.attempt + 1 \in Nat
      BY <1>4
    <3>2. PICK n : n = direct.attempt + 1
      OBVIOUS
    <3>3. e = [direct EXCEPT !.reads = direct.reads \ {s}, !.attempt = n] /\ n \in Nat
      BY <2>1, <3>1, <3>2
    <3>4. direct.reads \ {s} \in SUBSET Roster!Rounds
      BY <1>4
    <3> QED BY <1>4, <3>2, <3>3, <3>4 DEF DirectType
  <2>3. direct' = Roster!Released(e, s) /\ UNCHANGED <<card, stored>>
        /\ (refresh' = refresh \/ refresh' = [Roster!NoRefresh EXCEPT !.pc = "row"])
    BY <1>11, <2>1 DEF Roster!retryLater
  <2>4. /\ direct' \in DirectType /\ direct'.reads = direct.reads \ {s} /\ direct'.timer = direct.timer
        /\ direct'.attempt = direct.attempt + 1
    BY <2>2, <2>3, ReleasedFields
  <2>5. direct'.attempt <= MAX_ATTEMPTS
    BY <1>4, <1>9, <2>0, <2>4
  <2>6. Asked' \subseteq Asked /\ s \notin Asked'
    BY <1>9, <2>0, <2>4 DEF Asked
  <2>7. AskedSound'
    BY <1>1, <1>2, <2>0, <2>5, <2>6, AskedShrinks
  <2>8. refresh' \in RefreshType /\ (refresh'.pc = "wagers" => Whole(refresh'.round))
    BY <1>4, <1>6, <2>3 DEF Roster!NoRefresh, RefreshType, MaybeRound
  <2> QED BY <1>1, <2>3, <2>4, <2>7, <2>8, CardsKept, CardRests
<1>12. CASE Roster!rosterRead(s)
  <2>1. PICK P \in Roster!decodedReceipts(s) :
          /\ P # {} \/ Roster!isConfirmedEmptyRound(s)
          /\ Roster!renderConfirmedMiners(s, Roster!readRoundWinners(Roster!Outcome(s), P))
    BY <1>12 DEF Roster!rosterRead
  <2>2. /\ src = s /\ UNCHANGED refresh
        /\ direct' = Roster!Released([direct EXCEPT !.reads = @ \ {s}, !.attempt = 0], s)
    BY <1>2, <1>12 DEF Roster!rosterRead
  <2>3. PICK e : e = [direct EXCEPT !.reads = direct.reads \ {s}, !.attempt = 0]
    OBVIOUS
  <2>4. /\ e \in DirectType /\ e.reads = direct.reads \ {s} /\ e.timer = direct.timer /\ e.attempt = 0
    BY <1>4, <2>3 DEF DirectType
  <2>5. direct' = Roster!Released(e, s)
    BY <2>2, <2>3
  <2>6. /\ direct' \in DirectType /\ direct'.reads = direct.reads \ {s} /\ direct'.timer = direct.timer
        /\ direct'.attempt = 0
    BY <2>4, <2>5, ReleasedFields
  <2>7. Asked' \subseteq Asked /\ s \notin Asked'
    BY <1>9, <2>2, <2>6 DEF Asked
  <2>8. 0 <= MAX_ATTEMPTS
    BY <1>4
  <2>9. AskedSound'
    BY <1>1, <1>2, <2>2, <2>6, <2>7, <2>8, AskedShrinks
  <2>10. chain[s].settled
    BY <1>5 DEF RosterInv, AskedSound
  <2>11. P = Roster!Deployed(s)
    BY <1>5, <2>1, DecodedIsWhole
  <2>12. CardSound(card)' /\ CardSound(stored)'
    BY <1>1, <1>5, <2>1, <2>10, <2>11, CardRendered
  <2> QED BY <1>1, <1>4, <1>6, <2>2, <2>6, <2>9, <2>12, CardRests
<1> QED BY <1>3, <1>10, <1>11, <1>12

\* The latest of some rounds is one of them.
LEMMA LatestRound ==
    ASSUME Roster!RosterAssumption, NEW S, S \subseteq Roster!Rounds, S # {}
    PROVE  Max(S) \in S
<1> DEFINE T == {LastRound - x : x \in S}
<1>1. \A x \in S : x \in Nat /\ LastRound - x \in Nat
    BY DEF Roster!Rounds, Roster!RosterAssumption
<1>2. T \subseteq Nat /\ T # {}
    BY <1>1
<1>3. Min(T) \in T /\ \A y \in T : Min(T) <= y
    <2> HIDE DEF T
    <2> QED BY <1>2, LeastNatural
<1>4. PICK x \in S : Min(T) = LastRound - x
    BY <1>3
<1>5. ASSUME NEW y \in S PROVE x >= y
    <2>1. LastRound - x <= LastRound - y
        BY <1>3, <1>4
    <2> QED BY <1>1, <2>1 DEF Roster!RosterAssumption
<1> QED BY <1>5 DEF Max

\* The refresh alone.
LEMMA RefreshKeeps ==
    ASSUME Roster!RosterAssumption, RosterInv,
           Roster!refreshIndexedConfirmedMiners \/ Roster!loadLatestPlayedSettledRound \/ Roster!requestFails
    PROVE  RosterInv'
<1>1. UNCHANGED <<chain, index, known, card, stored, direct, history, shown>>
    BY DEF Roster!refreshIndexedConfirmedMiners, Roster!loadLatestPlayedSettledRound, Roster!requestFails, Roster!rowVars
<1>2. \/ refresh' \in {Roster!NoRefresh, [Roster!NoRefresh EXCEPT !.pc = "row"]}
      \/ /\ Roster!ResolvedAndPlayed # {} /\ Max(Roster!ResolvedAndPlayed) > card.key
         /\ index[Max(Roster!ResolvedAndPlayed)].complete
         /\ refresh' = [pc |-> "wagers", round |-> Max(Roster!ResolvedAndPlayed)]
    BY StandardInRoster DEF Roster!refreshIndexedConfirmedMiners, Roster!loadLatestPlayedSettledRound, Roster!requestFails
<1>3. direct \in DirectType /\ direct.attempt <= MAX_ATTEMPTS /\ Asked' = Asked
    BY <1>1, AskedMeans DEF Asked
<1>4. CASE refresh' \in {Roster!NoRefresh, [Roster!NoRefresh EXCEPT !.pc = "row"]}
  <2>1. refresh' \in RefreshType /\ refresh'.pc # "wagers"
    BY <1>4 DEF Roster!NoRefresh, RefreshType, MaybeRound
  <2>2. AskedSound'
    BY <1>1, <1>3, <2>1, AskedShrinks DEF RosterInv, AskedSound
  <2> QED BY <1>1, <1>3, <2>1, <2>2, CardsKept, CardRests
<1>5. CASE /\ Roster!ResolvedAndPlayed # {} /\ Max(Roster!ResolvedAndPlayed) > card.key
           /\ index[Max(Roster!ResolvedAndPlayed)].complete
           /\ refresh' = [pc |-> "wagers", round |-> Max(Roster!ResolvedAndPlayed)]
  <2>1. PICK s : s = Max(Roster!ResolvedAndPlayed)
    OBVIOUS
  <2>2. s \in Roster!ResolvedAndPlayed
    BY <1>5, <2>1, LatestRound DEF Roster!ResolvedAndPlayed
  <2>3. s \in Roster!Rounds /\ index[s].resolved /\ index[s].complete /\ s > card.key
    BY <1>5, <2>1, <2>2 DEF Roster!ResolvedAndPlayed
  <2>4. refresh' = [pc |-> "wagers", round |-> s]
    BY <1>5, <2>1
  <2>5. refresh' \in RefreshType /\ refresh'.round = s /\ Whole(s)
    BY <2>3, <2>4 DEF RosterInv, TablesSound, Whole, RefreshType, MaybeRound
  <2>6. Roster!confirmedMinerSource \in Asked /\ direct.request # Roster!confirmedMinerSource
          => Roster!confirmedMinerSource <= card.key
    BY DEF RosterInv, AskedSound
  <2>7. Roster!confirmedMinerSource <= card.key => Roster!confirmedMinerSource <= s
    <3>1. card.key \in Int /\ s \in Int
      BY <2>3, RoundBounds DEF RosterInv, CardSound
    <3>2. Roster!confirmedMinerSource \in Int
      BY RoundBounds DEF Roster!confirmedMinerSource, RosterInv, RosterTypes, KnownType
    <3> QED BY <2>3, <3>1, <3>2
  <2>8. AskedSound'
    BY <1>1, <1>3, <2>5, <2>6, <2>7, AskedShrinks DEF RosterInv, AskedSound
  <2> QED BY <1>1, <1>3, <2>5, <2>8, CardsKept, CardRests
<1> QED BY <1>2, <1>4, <1>5

\* The indexed roster of a round that was whole when its row was read.
LEMMA IndexedRosterKeeps == ASSUME Roster!RosterAssumption, RosterInv, Roster!loadIndexedMinerRoster PROVE RosterInv'
<1>1. UNCHANGED <<chain, index, known, history, shown>>
    BY DEF Roster!loadIndexedMinerRoster, Roster!rowVars
<1>2. PICK r : r = refresh.round
    OBVIOUS
<1>3. /\ Whole(r) /\ Roster!renderConfirmedMiners(r, Roster!readRoundWinners(Roster!Outcome(r), Roster!Indexed(r)))
      /\ direct' = Roster!Released(direct, r) /\ refresh' = Roster!NoRefresh /\ refresh.pc = "wagers"
    BY <1>2 DEF Roster!loadIndexedMinerRoster, RosterInv, RowsSound
<1>4. r \in Roster!Rounds /\ chain[r].settled /\ Roster!Indexed(r) = Roster!Deployed(r)
    BY <1>3, IndexedIsWhole DEF Whole
<1>5. CardSound(card)' /\ CardSound(stored)' /\ card'.key = r
    BY <1>1, <1>3, <1>4, CardRendered
<1>6. direct \in DirectType /\ direct.attempt <= MAX_ATTEMPTS
    BY AskedMeans
<1>7. /\ direct' \in DirectType /\ direct'.reads = direct.reads /\ direct'.timer = direct.timer
      /\ direct'.request = (IF direct.request = r THEN Roster!NoRound ELSE direct.request)
      /\ direct'.retry = direct.retry /\ direct'.attempt = direct.attempt
    BY <1>3, <1>6, ReleasedFields
<1>8. Asked' = Asked
    BY <1>7 DEF Asked
<1>9. refresh' \in RefreshType /\ refresh'.pc # "wagers"
    BY <1>3 DEF Roster!NoRefresh, RefreshType, MaybeRound
<1>10. Roster!confirmedMinerSource \in Asked /\ direct'.request # Roster!confirmedMinerSource
         => Roster!confirmedMinerSource <= r
  <2>1. CASE Roster!confirmedMinerSource = r
    BY <1>4, <2>1, RoundBounds
  <2>2. CASE Roster!confirmedMinerSource # r
    <3>1. direct'.request # Roster!confirmedMinerSource => direct.request # Roster!confirmedMinerSource
      BY <1>7, <2>2
    <3> QED BY <1>2, <1>3, <3>1 DEF RosterInv, AskedSound
  <2> QED BY <2>1, <2>2
<1>11. AskedSound'
    BY <1>1, <1>5, <1>6, <1>7, <1>8, <1>9, <1>10, AskedShrinks DEF RosterInv, AskedSound
<1> QED BY <1>1, <1>5, <1>7, <1>9, <1>11, CardRests

LEMMA ReloadKeeps == ASSUME Roster!RosterAssumption, RosterInv, Roster!reload PROVE RosterInv'
<1>1. /\ UNCHANGED <<chain, index, stored, history, shown>> /\ card' = stored
      /\ known' = [last |-> Roster!NoRound, played |-> Roster!NoRound]
      /\ direct' = Roster!NoDirect /\ refresh' = Roster!NoRefresh
    BY DEF Roster!reload, Roster!rowVars
<1>2. known' \in KnownType /\ known'.last = Roster!NoRound /\ known'.played = Roster!NoRound
    BY <1>1 DEF KnownType, MaybeRound
<1>3. direct' \in DirectType /\ direct'.reads = {} /\ direct'.timer = Roster!NoRound /\ direct'.attempt = 0
    BY <1>1 DEF Roster!NoDirect, DirectType, MaybeRound
<1>4. refresh' \in RefreshType /\ refresh'.pc # "wagers"
    BY <1>1 DEF Roster!NoRefresh, RefreshType, MaybeRound
<1>5. CardSound(card)' /\ CardSound(stored)'
  <2>1. PICK k : k = stored
    OBVIOUS
  <2>2. CardSound(k)'
    BY <1>1, <2>1, CardFixed DEF RosterInv
  <2> QED BY <1>1, <2>1, <2>2 DEF CardSound
<1>6. KnownSound'
    BY <1>2 DEF KnownSound
<1>7. AskedSound'
  <2>1. Asked' = {}
    BY <1>3 DEF Asked
  <2> QED BY <1>3, <2>1, RoundBounds DEF AskedSound
<1>8. RosterTypes' /\ TablesSound'
    BY <1>1, <1>2, <1>3, <1>4, TablesFixed DEF RosterInv, RosterTypes
<1>9. RowsSound'
    BY <1>1, <1>4, RowsFixed DEF RosterInv
<1> QED BY <1>5, <1>6, <1>7, <1>8, <1>9 DEF RosterInv

-----------------------------------------------------------------------------
(* The history rows.                                                       *)

LEMMA RowRests ==
    ASSUME Roster!RosterAssumption, RosterInv,
           UNCHANGED <<chain, index, Roster!cardVars>>,
           history' \in HistoryType, shown' = [r \in Roster!Rounds |-> shown'[r]], RowsSound'
    PROVE  RosterInv'
<1>1. UNCHANGED <<known, card, stored, direct, refresh>>
    BY DEF Roster!cardVars
<1>2. RosterTypes' /\ TablesSound'
    BY <1>1, TablesFixed DEF RosterInv, RosterTypes
<1>3. CardSound(card)' /\ CardSound(stored)'
    BY <1>1, CardsKept DEF RosterInv
<1>4. KnownSound' /\ Roster!confirmedMinerSource' = Roster!confirmedMinerSource
    BY <1>1, KnownFixed DEF RosterInv
<1>5. AskedSound'
  <2>1. Asked' = Asked
    BY <1>1 DEF Asked
  <2>2. \A r : Roster!Played(r)' <=> Roster!Played(r)
    BY TablesFixed
  <2>3. \A s \in Asked' : /\ chain'[s].settled /\ s <= known'.last
                          /\ Roster!Played(s)' => s <= known'.played
    BY <1>1, <2>1, <2>2 DEF RosterInv, AskedSound
  <2> QED BY <1>1, <1>4, <2>1, <2>3 DEF RosterInv, AskedSound
<1> QED BY <1>2, <1>3, <1>4, <1>5 DEF RosterInv

\* A row is settled, and whole if it is read as complete.
LEMMA HistoryKeeps ==
    ASSUME Roster!RosterAssumption, RosterInv, Roster!loadRoundHistory \/ Roster!loadIndexedRoundProjectionRows
    PROVE  RosterInv'
<1>1. UNCHANGED <<chain, index, Roster!cardVars, shown>>
    BY DEF Roster!loadRoundHistory, Roster!loadIndexedRoundProjectionRows
<1>2. refresh' = refresh
    BY <1>1 DEF Roster!cardVars
<1>3. /\ history \in HistoryType /\ index \in [Roster!Rounds -> IndexType]
      /\ shown = [r \in Roster!Rounds |-> shown[r]]
    BY DEF RosterInv, RosterTypes
<1>4. PICK h : h = history'
    OBVIOUS
<1>5. /\ h \in HistoryType /\ h.round \in Roster!Rounds /\ chain[h.round].settled
      /\ (h.pc = "counts" /\ h.complete => Whole(h.round))
  <2>1. CASE Roster!loadRoundHistory
    <3>1. PICK r \in Roster!Rounds :
            \/ /\ chain[r].settled
               /\ h = [pc |-> "projection", round |-> r, complete |-> FALSE]
            \/ /\ index[r].resolved
               /\ h = [pc |-> "counts", round |-> r, complete |-> index[r].complete]
      BY <1>4, <2>1 DEF Roster!loadRoundHistory
    <3>2. CASE chain[r].settled /\ h = [pc |-> "projection", round |-> r, complete |-> FALSE]
      BY <3>2 DEF HistoryType, MaybeRound
    <3>3. CASE /\ index[r].resolved
               /\ h = [pc |-> "counts", round |-> r, complete |-> index[r].complete]
      <4>1. h \in HistoryType /\ h.round = r /\ h.complete = index[r].complete
        BY <1>3, <3>3 DEF HistoryType, IndexType, MaybeRound
      <4> QED BY <3>3, <4>1 DEF RosterInv, TablesSound, Whole
    <3> QED BY <3>1, <3>2, <3>3
  <2>2. CASE Roster!loadIndexedRoundProjectionRows
    <3>1. PICK r, b : r = history.round /\ b = Roster!mergedProjectionComplete(index[r])
      OBVIOUS
    <3>2. r \in Roster!Rounds /\ chain[r].settled
      BY <2>2, <3>1 DEF Roster!loadIndexedRoundProjectionRows, RosterInv, RowsSound
    <3>3. b \in BOOLEAN /\ (b => Whole(r))
      <4>1. index[r].complete \in BOOLEAN /\ index[r].resolved \in BOOLEAN
        BY <1>3, <3>2 DEF IndexType
      <4>2. b = (index[r].complete /\ index[r].resolved)
        BY <3>1 DEF Roster!mergedProjectionComplete
      <4> QED BY <3>2, <4>1, <4>2 DEF RosterInv, TablesSound, Whole
    <3>4. h = [history EXCEPT !.pc = "counts", !.complete = b]
      BY <1>4, <2>2, <3>1 DEF Roster!loadIndexedRoundProjectionRows
    <3>5. h \in HistoryType /\ h.round = r /\ h.complete = b
      BY <1>3, <3>1, <3>3, <3>4 DEF HistoryType
    <3> QED BY <3>2, <3>3, <3>5
  <2> QED BY <2>1, <2>2
<1>6. RowsSound'
  <2>1. Whole(h.round)' <=> Whole(h.round)
    BY <1>1, TablesFixed
  <2>2. h.pc = "counts" /\ h.complete => Whole(h.round)'
    BY <1>5, <2>1
  <2>3. refresh'.pc = "wagers" => Whole(refresh.round)'
    <3>1. PICK q : q = refresh.round
      OBVIOUS
    <3> QED BY <1>1, <1>2, <3>1 DEF RosterInv, RowsSound, Whole
  <2>4. \A r \in Roster!Rounds : shown'[r].winners # Unknown =>
              /\ chain'[r].settled
              /\ shown'[r].winners = Roster!winnerCountsFromIndexedBets(Roster!Outcome(r)', Roster!Deployed(r)')
    BY <1>1, TablesFixed DEF RosterInv, RowsSound
  <2>5. h.pc # "idle" => h.round \in Roster!Rounds /\ chain'[h.round].settled
    BY <1>1, <1>5
  <2> QED BY <1>4, <2>2, <2>3, <2>4, <2>5 DEF RowsSound, Whole
<1> QED BY <1>1, <1>3, <1>4, <1>5, <1>6, RowRests

\* Winners are counted over every receipt of the round, or not at all.
LEMMA DecorateKeeps == ASSUME Roster!RosterAssumption, RosterInv, Roster!decorateRow PROVE RosterInv'
<1>1. UNCHANGED <<chain, index, Roster!cardVars>> /\ history' = Roster!NoHistory
    BY DEF Roster!decorateRow
<1>2. PICK r : r = history.round
    OBVIOUS
<1>3. r \in Roster!Rounds /\ chain[r].settled /\ (history.complete => Whole(r))
    BY <1>2 DEF Roster!decorateRow, RosterInv, RowsSound
<1>4. PICK answered, e :
        /\ e.winners = Roster!loadIndexedWinnerCounts(r, history.complete, answered)
        /\ shown' = [shown EXCEPT ![r] = e]
  <2>1. PICK signedIn, answered :
          shown' = [shown EXCEPT ![history.round] =
              [listed |-> TRUE,
               winners |-> Roster!loadIndexedWinnerCounts(history.round, history.complete, answered),
               position |-> Roster!selectWalletRoundDecoration(history.round, history.complete, signedIn)]]
    BY DEF Roster!decorateRow
  <2>2. PICK e : e = [listed |-> TRUE,
               winners |-> Roster!loadIndexedWinnerCounts(history.round, history.complete, answered),
               position |-> Roster!selectWalletRoundDecoration(history.round, history.complete, signedIn)]
    OBVIOUS
  <2> QED BY <1>2, <2>1, <2>2
<1>5. shown = [q \in Roster!Rounds |-> shown[q]]
    BY DEF RosterInv, RosterTypes
<1>6. shown' = [q \in Roster!Rounds |-> shown'[q]] /\ \A q \in Roster!Rounds : shown'[q] = IF q = r THEN e ELSE shown[q]
    BY <1>3, <1>4, <1>5
<1>7. e.winners # Unknown => e.winners = Roster!winnerCountsFromIndexedBets(Roster!Outcome(r), Roster!Deployed(r))
    BY <1>3, <1>4, IndexedIsWhole DEF Roster!loadIndexedWinnerCounts
<1>8. history' \in HistoryType /\ history'.pc = "idle"
    BY <1>1 DEF Roster!NoHistory, HistoryType, MaybeRound
<1>9. RowsSound'
  <2>1. refresh'.pc = "wagers" => Whole(refresh.round)'
    <3>1. PICK q : q = refresh.round
      OBVIOUS
    <3> QED BY <1>1, <3>1 DEF Roster!cardVars, RosterInv, RowsSound, Whole
  <2>2. \A q \in Roster!Rounds : shown'[q].winners # Unknown =>
              /\ chain'[q].settled
              /\ shown'[q].winners = Roster!winnerCountsFromIndexedBets(Roster!Outcome(q)', Roster!Deployed(q)')
    <3>1. \A q \in Roster!Rounds : Roster!Outcome(q)' = Roster!Outcome(q) /\ Roster!Deployed(q)' = Roster!Deployed(q)
      BY <1>1, TablesFixed
    <3> QED BY <1>1, <1>3, <1>6, <1>7, <3>1 DEF RosterInv, RowsSound
  <2> QED BY <1>8, <2>1, <2>2 DEF RowsSound, Whole
<1> QED BY <1>1, <1>6, <1>8, <1>9, RowRests

LEMMA PanelKeeps ==
    ASSUME Roster!RosterAssumption, RosterInv,
           UNCHANGED <<chain, index, Roster!cardVars, history, shown>>
    PROVE  RosterInv'
<1>1. refresh' = refresh
    BY DEF Roster!cardVars
<1>2. RowsSound'
  <2>1. refresh'.pc = "wagers" => Whole(refresh'.round)
    BY <1>1 DEF RosterInv, RowsSound
  <2> QED BY <2>1, RowsFixed DEF RosterInv
<1>3. history' \in HistoryType /\ shown' = [r \in Roster!Rounds |-> shown'[r]]
    BY DEF RosterInv, RosterTypes
<1> QED BY <1>2, <1>3, RowRests

LEMMA RosterStep == Roster!RosterAssumption /\ RosterInv /\ [Roster!Next]_(Roster!vars) => RosterInv'
<1> SUFFICES ASSUME Roster!RosterAssumption, RosterInv, [Roster!Next]_(Roster!vars) PROVE RosterInv'
    OBVIOUS
<1>1. CASE Roster!deploy \/ Roster!settleRound \/ Roster!closeAccounts
    BY <1>1, DeployKeeps, SettleKeeps, CloseKeeps
<1>2. CASE Roster!indexDeployment \/ Roster!publishRow \/ Roster!withdrawRow
    BY <1>2, IndexKeeps
<1>3. CASE Roster!publishResolvedRound \/ Roster!scheduleRoundMinersRefresh \/ Roster!fetchConfirmedMiners \/ Roster!confirmedMinersArrive
    BY <1>3, PublishKeeps, ScheduleKeeps, FetchKeeps, ArriveKeeps
<1>4. CASE Roster!refreshIndexedConfirmedMiners \/ Roster!loadLatestPlayedSettledRound \/ Roster!requestFails
    BY <1>4, RefreshKeeps
<1>5. CASE Roster!loadIndexedMinerRoster \/ Roster!reload
    BY <1>5, IndexedRosterKeeps, ReloadKeeps
<1>6. CASE Roster!loadRoundHistory \/ Roster!loadIndexedRoundProjectionRows \/ Roster!decorateRow
    BY <1>6, HistoryKeeps, DecorateKeeps
<1>7. CASE Roster!loadMiners \/ Roster!loadRoundBets \/ UNCHANGED Roster!vars
  <2>1. UNCHANGED <<chain, index, Roster!cardVars, history, shown>>
    BY <1>7 DEF Roster!loadMiners, Roster!loadRoundBets, Roster!vars, Roster!cardVars
  <2> QED BY <2>1, PanelKeeps
<1> QED BY <1>1, <1>2, <1>3, <1>4, <1>5, <1>6, <1>7 DEF Roster!Next, Roster!ChainStep, Roster!CardStep, Roster!RowStep

-----------------------------------------------------------------------------
(* The components, one in focus.                                           *)

LEMMA FocusStays == [ClientsNext]_clientVars => focus' = focus
BY DEF ClientsNext, clientVars

LEMMA ChatInFocus == ClientsSpec => [](focus = "chat" => ChatInv)
<1>1. ClientsInit => (focus = "chat" => ChatInv)
    BY ChatBegins DEF ClientsInit
<1>2. (focus = "chat" => ChatInv) /\ [ClientsNext]_clientVars => (focus = "chat" => ChatInv)'
    <2> SUFFICES ASSUME focus = "chat" => ChatInv, [ClientsNext]_clientVars, focus' = "chat"
                 PROVE  ChatInv'
        OBVIOUS
    <2>1. focus = "chat" /\ ChatInv
        BY FocusStays
    <2>2. Chat!Next \/ UNCHANGED chatVars
        BY <2>1 DEF ClientsNext, clientVars
    <2>3. [Chat!Next]_(Chat!vars)
        BY <2>2 DEF chatVars, Chat!vars
    <2> QED BY <2>1, <2>3, ChatStep
<1> QED BY <1>1, <1>2, PTL DEF ClientsSpec

LEMMA WalletInFocus == ClientsSpec => [](focus = "wallet" => WalletInv)
<1>1. ClientsInit => (focus = "wallet" => WalletInv)
    BY WalletBegins, ClientInstances DEF ClientsInit
<1>2. (focus = "wallet" => WalletInv) /\ [ClientsNext]_clientVars => (focus = "wallet" => WalletInv)'
    <2> SUFFICES ASSUME focus = "wallet" => WalletInv, [ClientsNext]_clientVars, focus' = "wallet"
                 PROVE  WalletInv'
        OBVIOUS
    <2>1. focus = "wallet" /\ WalletInv
        BY FocusStays
    <2>2. Wallet!Next \/ UNCHANGED walletVars
        BY <2>1 DEF ClientsNext, clientVars
    <2>3. [Wallet!Next]_(Wallet!vars)
        BY <2>2 DEF walletVars, Wallet!vars
    <2> QED BY <2>1, <2>3, WalletStep, ClientInstances
<1> QED BY <1>1, <1>2, PTL DEF ClientsSpec

LEMMA SwitchboardInFocus == ClientsSpec => [](focus = "switchboard" => BudgetInv)
<1>1. ClientsInit => (focus = "switchboard" => BudgetInv)
    BY BudgetBegins, ClientInstances DEF ClientsInit
<1>2. (focus = "switchboard" => BudgetInv) /\ [ClientsNext]_clientVars => (focus = "switchboard" => BudgetInv)'
    <2> SUFFICES ASSUME focus = "switchboard" => BudgetInv, [ClientsNext]_clientVars, focus' = "switchboard"
                 PROVE  BudgetInv'
        OBVIOUS
    <2>1. focus = "switchboard" /\ BudgetInv
        BY FocusStays
    <2>2. Switchboard!Next \/ UNCHANGED drawVars
        BY <2>1 DEF ClientsNext, clientVars
    <2>3. [Switchboard!Next]_(Switchboard!vars)
        BY <2>2 DEF drawVars, Switchboard!vars
    <2> QED BY <2>1, <2>3, BudgetStep, ClientInstances
<1> QED BY <1>1, <1>2, PTL DEF ClientsSpec

LEMMA RosterInFocus == ClientsSpec => [](focus = "roster" => RosterInv)
<1>1. ClientsInit => (focus = "roster" => RosterInv)
    BY RosterBegins, ClientInstances DEF ClientsInit
<1>2. (focus = "roster" => RosterInv) /\ [ClientsNext]_clientVars => (focus = "roster" => RosterInv)'
    <2> SUFFICES ASSUME focus = "roster" => RosterInv, [ClientsNext]_clientVars, focus' = "roster"
                 PROVE  RosterInv'
        OBVIOUS
    <2>1. focus = "roster" /\ RosterInv
        BY FocusStays
    <2>2. Roster!Next \/ UNCHANGED rosterVars
        BY <2>1 DEF ClientsNext, clientVars
    <2>3. [Roster!Next]_(Roster!vars)
        BY <2>2 DEF rosterVars, Roster!vars
    <2> QED BY <2>1, <2>3, RosterStep, ClientInstances
<1> QED BY <1>1, <1>2, PTL DEF ClientsSpec

\* A press of Send stores at most one message, whatever is retried, refused or
\* answered late (performTimedSend, ensureSession, chat-send).
THEOREM MessagesAreSentOnce == ClientsSpec => []SentOnce
<1>1. (focus = "chat" => ChatInv) => SentOnce
    BY ChatInvSound DEF SentOnce
<1> QED BY <1>1, ChatInFocus, PTL

\* A stored message names the wallet that was connected when the press of Send,
\* or its retry, asked for a session, and that session was made once, from a
\* challenge the wallet signed (getSession, solana-verify, chat-send).
THEOREM MessagesArePostedAsConnected == ClientsSpec => []PostedAsConnected
<1>1. (focus = "chat" => ChatInv) => PostedAsConnected
    BY ChatInvSound DEF PostedAsConnected
<1> QED BY <1>1, ChatInFocus, PTL

\* A history load that admits no missing claim status shows every round that
\* was settled when it began and still holds a win to claim, whatever settles,
\* is claimed or is closed meanwhile (loadWalletHistory).
THEOREM HistoryHidesNoWin == ClientsSpec => []NoHiddenWin
<1>1. (focus = "wallet" => WalletInv) => NoHiddenWin
    BY WalletInvSound, ClientInstances DEF NoHiddenWin
<1> QED BY <1>1, WalletInFocus, PTL

\* A round that a finished claim reports as processed has no open receipt left,
\* whichever chunks landed, failed or were never answered (claimWalletRounds).
THEOREM ClaimReportsAreSound == ClientsSpec => []ClaimReportSound
<1>1. (focus = "wallet" => WalletInv) => ClaimReportSound
    BY WalletInvSound, ClientInstances DEF ClaimReportSound
<1> QED BY <1>1, WalletInFocus, PTL

\* No bet is placed once the seed of the draw is fixed, and a round that no
\* pause, outage or foreign reveal hindered uses the value the world has seen and
\* is not refunded by faults alone, for any slots that leave the faults room
\* (checkRecovery, commitRandomness, settleRound).
THEOREM OracleDrawIsSound == ClientsSpec => []OracleDrawSound
<1>1. (focus = "switchboard" => BudgetInv) => OracleDrawSound
    BY BudgetSound, ClientInstances DEF OracleDrawSound
<1> QED BY <1>1, SwitchboardInFocus, PTL

\* A roster on the card and a count of winners are those of the settled round's
\* receipts, whether they came from the scan, the lookups, the index or the last
\* visit (confirmedMinersArrive, loadIndexedMinerRoster, decorateRow).
THEOREM RostersAreExact == ClientsSpec => []RosterExact
<1>1. (focus = "roster" => RosterInv) => RosterExact
    BY RosterInvSound, ClientInstances DEF RosterExact
<1> QED BY <1>1, RosterInFocus, PTL
=============================================================================
