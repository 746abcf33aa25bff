---------------------------- MODULE LedgerLemmas ----------------------------
(***************************************************************************)
(* The arithmetic of ledgers: integer division, and sums.                  *)
(*                                                                         *)
(* Sums of natural numbers over a finite set, as FiniteSetsExt defines     *)
(* them: by recursion over the subsets, taking a chosen element at a time. *)
(* The recursion is solved by counting: f[x] units for each x.  From there *)
(* the sum no longer depends on the order of the choices, and the lemmas   *)
(* say what it does when one entry changes, when every entry grows, and    *)
(* when entries are combined linearly.                                     *)
(***************************************************************************)
EXTENDS FiniteSetsExt, FiniteSetTheorems, TLAPS

-----------------------------------------------------------------------------
(* Division and products of naturals.                                      *)

\* A quotient is the largest multiple that fits.
LEMMA DivBounds ==
    ASSUME NEW a \in Nat, NEW b \in Nat \ {0}
    PROVE  a \div b \in Nat /\ b * (a \div b) <= a /\ a < b * (a \div b) + b
OBVIOUS

\* It grows with what is divided.
LEMMA DivMonotone ==
    ASSUME NEW a \in Nat, NEW c \in Nat, NEW b \in Nat \ {0}, a <= c
    PROVE  a \div b <= c \div b
OBVIOUS

\* It is at most q when a is at most q times the divisor.
LEMMA DivBelow ==
    ASSUME NEW a \in Nat, NEW q \in Nat, NEW b \in Nat \ {0}, a <= q * b
    PROVE  a \div b <= q
OBVIOUS

\* Products of naturals grow with either factor.
LEMMA ProductMonotone ==
    ASSUME NEW a \in Nat, NEW b \in Nat, NEW c \in Nat, NEW d \in Nat, a <= c, b <= d
    PROVE  a * b \in Nat /\ a * b <= c * d
OBVIOUS

\* A common factor can be left out of a comparison.
LEMMA ProductCancels ==
    ASSUME NEW a \in Nat, NEW b \in Nat, NEW k \in Nat \ {0}, k * a <= k * b
    PROVE  a <= b
OBVIOUS

\* Some natural numbers have a least one among them.
LEMMA LeastNatural ==
    ASSUME NEW T, T \subseteq Nat, T # {}
    PROVE  Min(T) \in T /\ \A y \in T : Min(T) <= y
<1> DEFINE below(n) == 1 .. n
           I == {below(n) : n \in T}
<1>1. \A n \in Nat : below(n) \in FiniteSubsetsOf(Nat)
  BY FS_Interval DEF FiniteSubsetsOf
<1>2. I \subseteq FiniteSubsetsOf(Nat) /\ I # {}
  <2> HIDE DEF below
  <2> QED BY <1>1
<1>3. PICK i \in I : \A j \in I : <<j, i>> \notin StrictSubsetOrdering(Nat)
  <2>1. IsWellFoundedOn(StrictSubsetOrdering(Nat), FiniteSubsetsOf(Nat))
    BY FS_StrictSubsetOrderingWellFounded
  <2> HIDE DEF I
  <2> QED BY <1>2, <2>1, WFMin
<1>4. PICK x \in T : i = below(x)
  OBVIOUS
<1>5. \A y \in T : x <= y
  <2> SUFFICES ASSUME NEW y \in T, y < x PROVE FALSE
    OBVIOUS
  <2>1. x \in below(x) /\ x \notin below(y) /\ below(y) \subseteq below(x)
    OBVIOUS
  <2>2. <<below(y), below(x)>> \in StrictSubsetOrdering(Nat)
    BY <2>1 DEF StrictSubsetOrdering
  <2> QED BY <1>3, <1>4, <2>2
<1> QED BY <1>5 DEF Min

-----------------------------------------------------------------------------
(* Sums.                                                                   *)

SumOf(f, S) == MapThenSumSet(LAMBDA x : f[x], S)

\* f[x] units for each x of S.
Units(f, S) == UNION {{x} \X (1 .. f[x]) : x \in S}

\* The units are finite in number.
LEMMA UnitsFinite ==
    ASSUME NEW S, IsFiniteSet(S), NEW f, \A x \in S : f[x] \in Nat
    PROVE  IsFiniteSet(Units(f, S)) /\ Cardinality(Units(f, S)) \in Nat
<1> DEFINE U == {{x} \X (1 .. f[x]) : x \in S}
           g == [x \in S |-> {x} \X (1 .. f[x])]
<1>1. g \in Surjection(S, U)
  BY DEF Surjection
<1>2. IsFiniteSet(U)
  BY <1>1, FS_Surjection
<1>3. ASSUME NEW T \in U PROVE IsFiniteSet(T)
  <2>1. PICK x \in S : T = {x} \X (1 .. f[x])
    OBVIOUS
  <2>2. IsFiniteSet({x})
    BY FS_Singleton
  <2>3. f[x] \in Int /\ 1 \in Int
    OBVIOUS
  <2>4. IsFiniteSet(1 .. f[x])
    BY <2>3, FS_Interval
  <2> QED BY <2>1, <2>2, <2>4, FS_Product
<1>4. IsFiniteSet(UNION U)
  BY <1>2, <1>3, FS_UNION
<1> QED BY <1>4, FS_CardinalityType DEF Units

\* Taking an element out takes its units out.
LEMMA UnitsRemove ==
    ASSUME NEW S, IsFiniteSet(S), NEW f, \A x \in S : f[x] \in Nat, NEW x \in S
    PROVE  Cardinality(Units(f, S)) = f[x] + Cardinality(Units(f, S \ {x}))
<1> DEFINE A == {x} \X (1 .. f[x])
           B == Units(f, S \ {x})
<1>1. Units(f, S) = A \cup B
  BY DEF Units
<1>2. A \cap B = {}
  BY DEF Units
<1>3. IsFiniteSet(A) /\ Cardinality(A) = f[x]
  <2>1. IsFiniteSet({x}) /\ Cardinality({x}) = 1
    BY FS_Singleton
  <2>2. IsFiniteSet(1 .. f[x]) /\ Cardinality(1 .. f[x]) = f[x]
    BY FS_Interval
  <2> QED BY <2>1, <2>2, FS_Product
<1>4. IsFiniteSet(S \ {x})
  BY FS_RemoveElement
<1>5. IsFiniteSet(B) /\ Cardinality(B) \in Nat
  BY <1>4, UnitsFinite
<1>6. Cardinality(A \cap B) = 0
  BY <1>2, FS_EmptySet
<1>7. Cardinality(A \cup B) = Cardinality(A) + Cardinality(B) - Cardinality(A \cap B)
  BY <1>3, <1>5, FS_Union
<1> QED BY <1>1, <1>3, <1>5, <1>6, <1>7

\* The recursion that defines the sum has one solution, the number of units.
LEMMA SumCounts ==
    ASSUME NEW S, IsFiniteSet(S), NEW f, \A x \in S : f[x] \in Nat
    PROVE  SumOf(f, S) = Cardinality(Units(f, S))
<1> DEFINE first(s) == CHOOSE x \in s : TRUE
           step(g, s) == IF s = {} THEN 0 ELSE f[first(s)] + g[s \ {first(s)}]
           Solves(g) == g = [s \in SUBSET S |-> step(g, s)]
           h == [s \in SUBSET S |-> Cardinality(Units(f, s))]
           g0 == CHOOSE g : Solves(g)
<1>1. \A s \in SUBSET S : s # {} => first(s) \in s
  OBVIOUS
<1>2. ASSUME NEW s \in SUBSET S PROVE h[s] = step(h, s)
  <2>1. CASE s = {}
    <3>1. Units(f, {}) = {}
      BY DEF Units
    <3> QED BY <2>1, <3>1, FS_EmptySet
  <2>2. CASE s # {}
    <3>1. first(s) \in s /\ s \ {first(s)} \in SUBSET S
      BY <1>1, <2>2
    <3>2. IsFiniteSet(s)
      BY FS_Subset
    <3>3. \A x \in s : f[x] \in Nat
      OBVIOUS
    <3> HIDE DEF first
    <3>4. Cardinality(Units(f, s)) = f[first(s)] + Cardinality(Units(f, s \ {first(s)}))
      BY <3>1, <3>2, <3>3, UnitsRemove
    <3> QED BY <2>2, <3>1, <3>4
  <2> QED BY <2>1, <2>2
<1>3. Solves(h)
  <2> HIDE DEF step
  <2> QED BY <1>2
<1>4. Solves(g0)
  <2> HIDE DEF step, h
  <2> QED BY <1>3
<1>5. SumOf(f, S) = g0[S]
  BY DEF SumOf, MapThenSumSet, MapThenFoldSet
<1>6. \A s \in SUBSET S : g0[s] = h[s]
  <2> DEFINE Bad == {s \in SUBSET S : g0[s] # h[s]}
  <2> SUFFICES ASSUME Bad # {} PROVE FALSE
    OBVIOUS
  <2>1. Bad \subseteq FiniteSubsetsOf(S)
    BY FS_Subset DEF FiniteSubsetsOf
  <2>2. IsWellFoundedOn(StrictSubsetOrdering(S), FiniteSubsetsOf(S))
    BY FS_StrictSubsetOrderingWellFounded
  <2> HIDE DEF h, g0
  <2>3. PICK s \in Bad : \A t \in Bad : <<t, s>> \notin StrictSubsetOrdering(S)
    <3> HIDE DEF Bad
    <3> QED BY <2>1, <2>2, WFMin
  <2>4. g0[s] = step(g0, s) /\ h[s] = step(h, s)
    <3> HIDE DEF step
    <3>1. g0[s] = step(g0, s)
      BY <1>4
    <3> QED BY <3>1, <1>2
  <2>5. s # {}
    BY <2>4
  <2>6. first(s) \in s
    BY <1>1, <2>5
  <2> DEFINE t == s \ {first(s)}
  <2> HIDE DEF first
  <2>7. t \in SUBSET S /\ <<t, s>> \in StrictSubsetOrdering(S)
    BY <2>6 DEF StrictSubsetOrdering
  <2>8. g0[t] = h[t]
    BY <2>3, <2>7
  <2> QED BY <2>3, <2>4, <2>5, <2>8
<1> QED BY <1>5, <1>6

-----------------------------------------------------------------------------
(* What the proofs use of sums.                                            *)

\* A sum of naturals is a natural, zero over the empty set.
LEMMA SumType ==
    ASSUME NEW S, IsFiniteSet(S), NEW f, \A x \in S : f[x] \in Nat
    PROVE  SumOf(f, S) \in Nat /\ (S = {} => SumOf(f, S) = 0)
<1>1. S = {} => Units(f, S) = {}
  BY DEF Units
<1> QED BY <1>1, SumCounts, UnitsFinite, FS_EmptySet

\* One element at a time, whichever comes first.
LEMMA SumRemove ==
    ASSUME NEW S, IsFiniteSet(S), NEW f, \A x \in S : f[x] \in Nat, NEW x \in S
    PROVE  SumOf(f, S) = f[x] + SumOf(f, S \ {x})
<1>1. IsFiniteSet(S \ {x})
  BY FS_RemoveElement
<1>2. SumOf(f, S) = Cardinality(Units(f, S))
  BY SumCounts
<1>3. SumOf(f, S \ {x}) = Cardinality(Units(f, S \ {x}))
  BY <1>1, SumCounts
<1> QED BY <1>2, <1>3, UnitsRemove

\* Only the entries in S matter.
LEMMA SumCongruent ==
    ASSUME NEW S, IsFiniteSet(S), NEW f, NEW g, \A x \in S : f[x] \in Nat /\ g[x] = f[x]
    PROVE  SumOf(g, S) = SumOf(f, S)
<1>1. Units(f, S) = Units(g, S)
  BY DEF Units
<1> QED BY <1>1, SumCounts

\* Changing one entry changes the sum by as much.
LEMMA SumChange ==
    ASSUME NEW S, IsFiniteSet(S), NEW x \in S, NEW f, NEW g,
           \A y \in S : f[y] \in Nat, g[x] \in Nat,
           \A y \in S \ {x} : g[y] = f[y]
    PROVE  SumOf(g, S) = SumOf(f, S) - f[x] + g[x]
<1> DEFINE T == S \ {x}
<1>1. IsFiniteSet(T)
  BY FS_RemoveElement
<1>2. SumOf(f, S) = f[x] + SumOf(f, T)
  BY SumRemove
<1>3. \A y \in S : g[y] \in Nat
  OBVIOUS
<1>4. SumOf(g, S) = g[x] + SumOf(g, T)
  BY <1>3, SumRemove
<1>5. SumOf(g, T) = SumOf(f, T) /\ SumOf(f, T) \in Nat
  BY <1>1, SumCongruent, SumType
<1> QED BY <1>2, <1>4, <1>5

\* A sum grows with its entries.
LEMMA SumMonotone ==
    ASSUME NEW S, IsFiniteSet(S), NEW f, NEW g,
           \A x \in S : f[x] \in Nat /\ g[x] \in Nat /\ f[x] <= g[x]
    PROVE  SumOf(f, S) <= SumOf(g, S)
<1>1. Units(f, S) \subseteq Units(g, S)
  BY DEF Units
<1>2. IsFiniteSet(Units(g, S))
  BY UnitsFinite
<1>3. Cardinality(Units(f, S)) <= Cardinality(Units(g, S))
  BY <1>1, <1>2, FS_Subset
<1> QED BY <1>3, SumCounts

\* No entry is larger than the sum.
LEMMA SumElement ==
    ASSUME NEW S, IsFiniteSet(S), NEW f, \A y \in S : f[y] \in Nat, NEW x \in S
    PROVE  f[x] <= SumOf(f, S)
<1>1. IsFiniteSet(S \ {x})
  BY FS_RemoveElement
<1>2. SumOf(f, S \ {x}) \in Nat
  BY <1>1, SumType
<1> QED BY <1>2, SumRemove

\* Two entries together are not larger than the sum.
LEMMA SumTwoElements ==
    ASSUME NEW S, IsFiniteSet(S), NEW f, \A z \in S : f[z] \in Nat,
           NEW x \in S, NEW y \in S \ {x}
    PROVE  f[x] + f[y] <= SumOf(f, S)
<1>1. IsFiniteSet(S \ {x})
  BY FS_RemoveElement
<1>2. f[y] <= SumOf(f, S \ {x})
  BY <1>1, SumElement
<1>3. SumOf(f, S \ {x}) \in Nat
  BY <1>1, SumType
<1> QED BY <1>2, <1>3, SumRemove

\* Sums are linear.
LEMMA SumLinear ==
    ASSUME NEW S, IsFiniteSet(S), NEW f, NEW g, NEW h, NEW k \in Nat,
           \A x \in S : f[x] \in Nat /\ g[x] \in Nat /\ h[x] = f[x] + k * g[x]
    PROVE  SumOf(h, S) = SumOf(f, S) + k * SumOf(g, S)
<1> DEFINE Bad == {s \in SUBSET S : SumOf(h, s) # SumOf(f, s) + k * SumOf(g, s)}
<1> SUFFICES ASSUME Bad # {} PROVE FALSE
  OBVIOUS
<1>1. \A s \in SUBSET S : IsFiniteSet(s)
  BY FS_Subset
<1>2. Bad \subseteq FiniteSubsetsOf(S)
  BY <1>1 DEF FiniteSubsetsOf
<1>3. IsWellFoundedOn(StrictSubsetOrdering(S), FiniteSubsetsOf(S))
  BY FS_StrictSubsetOrderingWellFounded
<1>4. PICK s \in Bad : \A t \in Bad : <<t, s>> \notin StrictSubsetOrdering(S)
  <2> HIDE DEF Bad
  <2> QED BY <1>2, <1>3, WFMin
<1>5. \A x \in S : f[x] \in Nat /\ g[x] \in Nat /\ h[x] \in Nat
  <2> SUFFICES ASSUME NEW x \in S PROVE h[x] \in Nat
    OBVIOUS
  <2>1. \A m, n \in Nat : m * n \in Nat /\ m + n \in Nat
    OBVIOUS
  <2> QED BY <2>1
<1>6. s \in SUBSET S /\ IsFiniteSet(s)
  BY <1>1
<1>7. s # {}
  <2> SUFFICES ASSUME s = {} PROVE FALSE
    OBVIOUS
  <2>1. SumOf(f, s) = 0 /\ SumOf(g, s) = 0 /\ SumOf(h, s) = 0
    BY <1>5, <1>6, SumType
  <2> QED BY <2>1
<1>8. PICK x \in s : TRUE
  BY <1>7
<1> DEFINE t == s \ {x}
<1>9. t \in SUBSET S /\ IsFiniteSet(t) /\ <<t, s>> \in StrictSubsetOrdering(S)
  BY <1>1 DEF StrictSubsetOrdering
<1>10. SumOf(h, t) = SumOf(f, t) + k * SumOf(g, t)
  BY <1>4, <1>9
<1>11. /\ SumOf(f, s) = f[x] + SumOf(f, t)
       /\ SumOf(g, s) = g[x] + SumOf(g, t)
       /\ SumOf(h, s) = h[x] + SumOf(h, t)
  BY <1>5, <1>6, SumRemove
<1>12. SumOf(f, t) \in Nat /\ SumOf(g, t) \in Nat
  BY <1>5, <1>9, SumType
<1>13. f[x] \in Nat /\ g[x] \in Nat /\ h[x] = f[x] + k * g[x]
  BY <1>6
<1>14. \A a, b, c, d \in Nat : a + k * b + (c + k * d) = a + c + k * (b + d)
  OBVIOUS
<1>15. SumOf(h, s) = SumOf(f, s) + k * SumOf(g, s)
  <2> HIDE DEF t
  <2> QED BY <1>10, <1>11, <1>12, <1>13, <1>14
<1> QED BY <1>15

\* Counting is a sum.
LEMMA SumOfOnes ==
    ASSUME NEW S, IsFiniteSet(S), NEW T, NEW f,
           \A x \in S : f[x] = IF x \in T THEN 1 ELSE 0
    PROVE  SumOf(f, S) = Cardinality(S \cap T)
<1>1. IsFiniteSet(S \cap T)
  BY FS_Intersection
<1>2. Units(f, S) = (S \cap T) \X {1}
  <2>1. \A x \in S \cap T : 1 .. f[x] = {1}
    OBVIOUS
  <2>2. \A x \in S \ T : 1 .. f[x] = {}
    OBVIOUS
  <2> QED BY <2>1, <2>2 DEF Units
<1>3. IsFiniteSet({1}) /\ Cardinality({1}) = 1
  BY FS_Singleton
<1>4. Cardinality((S \cap T) \X {1}) = Cardinality(S \cap T) * 1
  BY <1>1, <1>3, FS_Product
<1>5. Cardinality(S \cap T) \in Nat
  BY <1>1, FS_CardinalityType
<1>6. SumOf(f, S) = Cardinality(Units(f, S))
  BY SumCounts
<1> QED BY <1>2, <1>4, <1>5, <1>6

-----------------------------------------------------------------------------
(* Sums over part of a set.                                                *)

\* The sums of the community modules over a function's domain are these sums.
LEMMA SumFunctionIsSumOf ==
    ASSUME NEW f
    PROVE  SumFunction(f) = SumOf(f, DOMAIN f)
BY DEF SumFunction, SumFunctionOnSet, FoldFunctionOnSet, SumOf, MapThenSumSet

\* Entries that are zero can be left out.
LEMMA SumZeros ==
    ASSUME NEW S, IsFiniteSet(S), NEW A \in SUBSET S, NEW f, NEW g,
           \A x \in A : f[x] \in Nat /\ g[x] = f[x], \A x \in S \ A : f[x] = 0
    PROVE  SumOf(f, S) = SumOf(g, A)
<1>1. \A x \in S : f[x] \in Nat
  OBVIOUS
<1>2. \A x \in A : g[x] \in Nat
  OBVIOUS
<1>3. IsFiniteSet(A)
  BY FS_Subset
<1>4. Units(f, S) = Units(g, A)
  <2>1. \A x \in S \ A : {x} \X (1 .. f[x]) = {}
    OBVIOUS
  <2>2. \A x \in A : {x} \X (1 .. f[x]) = {x} \X (1 .. g[x])
    OBVIOUS
  <2> QED BY <2>1, <2>2 DEF Units
<1>5. SumOf(f, S) = Cardinality(Units(f, S))
  BY <1>1, SumCounts
<1>6. SumOf(g, A) = Cardinality(Units(g, A))
  BY <1>2, <1>3, SumCounts
<1> QED BY <1>4, <1>5, <1>6

\* A sum of sums.
LEMMA SumAdds ==
    ASSUME NEW S, IsFiniteSet(S), NEW f, NEW g, NEW h,
           \A x \in S : f[x] \in Nat /\ g[x] \in Nat /\ h[x] = f[x] + g[x]
    PROVE  SumOf(h, S) = SumOf(f, S) + SumOf(g, S)
<1>1. \A x \in S : f[x] \in Nat /\ g[x] \in Nat /\ h[x] = f[x] + 1 * g[x]
  OBVIOUS
<1>2. SumOf(h, S) = SumOf(f, S) + 1 * SumOf(g, S)
  BY <1>1, SumLinear
<1>3. SumOf(f, S) \in Nat /\ SumOf(g, S) \in Nat
  BY SumType
<1> QED BY <1>2, <1>3

\* Entries that all change in a part of the set change the sum by what the part
\* gains, where the part was zero.
LEMMA SumFills ==
    ASSUME NEW S, IsFiniteSet(S), NEW A \in SUBSET S, NEW f, NEW g, NEW h,
           \A x \in S : f[x] \in Nat, \A x \in A : h[x] \in Nat,
           \A x \in A : f[x] = 0 /\ g[x] = h[x],
           \A x \in S \ A : g[x] = f[x]
    PROVE  SumOf(g, S) = SumOf(f, S) + SumOf(h, A)
<1> DEFINE k == [x \in S |-> IF x \in A THEN h[x] ELSE 0]
<1>1. \A x \in S : f[x] \in Nat /\ k[x] \in Nat /\ g[x] = f[x] + k[x]
  OBVIOUS
<1>2. \A x \in A : k[x] \in Nat /\ h[x] = k[x]
  OBVIOUS
<1>3. \A x \in S \ A : k[x] = 0
  OBVIOUS
<1> HIDE DEF k
<1>4. SumOf(g, S) = SumOf(f, S) + SumOf(k, S)
  BY <1>1, SumAdds
<1>5. SumOf(k, S) = SumOf(h, A)
  BY <1>2, <1>3, SumZeros
<1> QED BY <1>4, <1>5

-----------------------------------------------------------------------------
(* Adjacent intervals.                                                     *)

Growing == {F \in [Nat -> Nat] : \A a, b \in Nat : a <= b => F[a] <= F[b]}

\* The interval of x goes from st[x] over am[x] tickets.  Whatever grows with the
\* ticket number grows over the intervals by as much as over all of 0 .. top.
Slice(F, st, am, x) == F[st[x] + am[x]] - F[st[x]]

Telescopes(S, st, am, top) ==
    \A F \in Growing : F[0] + SumOf([x \in S |-> Slice(F, st, am, x)], S) = F[top]

\* A slice is a natural, and zero where there is no ticket.
LEMMA SliceType ==
    ASSUME NEW F \in Growing, NEW st, NEW am, NEW x, st[x] \in Nat, am[x] \in Nat
    PROVE  Slice(F, st, am, x) \in Nat /\ (am[x] = 0 => Slice(F, st, am, x) = 0)
<1>1. st[x] <= st[x] + am[x] /\ st[x] + am[x] \in Nat
  OBVIOUS
<1>2. F[st[x]] \in Nat /\ F[st[x] + am[x]] \in Nat /\ F[st[x]] <= F[st[x] + am[x]]
  BY <1>1 DEF Growing
<1>3. am[x] = 0 => st[x] + am[x] = st[x]
  OBVIOUS
<1> QED BY <1>2, <1>3 DEF Slice

\* Without tickets there is nothing to sum.
LEMMA TelescopeEmpty ==
    ASSUME NEW S, IsFiniteSet(S), NEW st, NEW am,
           \A x \in S : st[x] \in Nat /\ am[x] = 0
    PROVE  Telescopes(S, st, am, 0)
<1> SUFFICES ASSUME NEW F \in Growing
             PROVE  F[0] + SumOf([x \in S |-> Slice(F, st, am, x)], S) = F[0]
  BY DEF Telescopes
<1> DEFINE f == [x \in S |-> Slice(F, st, am, x)]
           none == {}
<1>1. \A x \in S \ none : f[x] = 0
  BY SliceType
<1>2. F[0] \in Nat
  BY DEF Growing
<1> HIDE DEF f
<1>3. SumOf(f, S) = SumOf(f, none)
  BY <1>1, SumZeros
<1>4. SumOf(f, none) = 0
  BY SumType, FS_EmptySet
<1> QED BY <1>2, <1>3, <1>4 DEF f

\* A holder of no ticket takes the next a of them.
LEMMA TelescopeExtend ==
    ASSUME NEW S, IsFiniteSet(S), NEW st, NEW am, NEW top \in Nat, Telescopes(S, st, am, top),
           \A x \in S : st[x] \in Nat /\ am[x] \in Nat,
           NEW z \in S, am[z] = 0, NEW a \in Nat, NEW st2, NEW am2,
           st2[z] = top, am2[z] = a,
           \A x \in S \ {z} : st2[x] = st[x] /\ am2[x] = am[x]
    PROVE  Telescopes(S, st2, am2, top + a)
<1> SUFFICES ASSUME NEW F \in Growing
             PROVE  F[0] + SumOf([x \in S |-> Slice(F, st2, am2, x)], S) = F[top + a]
  BY DEF Telescopes
<1> DEFINE f == [x \in S |-> Slice(F, st, am, x)]
           g == [x \in S |-> Slice(F, st2, am2, x)]
<1>1. \A x \in S : f[x] \in Nat
  BY SliceType
<1>2. f[z] = 0
  BY SliceType
<1>3. g[z] \in Nat /\ g[z] = F[top + a] - F[top]
  <2>1. g[z] \in Nat
    BY SliceType
  <2> QED BY <2>1 DEF Slice
<1>4. \A x \in S \ {z} : g[x] = f[x]
  BY DEF Slice
<1>5. F[0] + SumOf(f, S) = F[top]
  BY DEF Telescopes
<1>6. F[0] \in Nat /\ F[top] \in Nat /\ F[top + a] \in Nat
  <2>1. top + a \in Nat
    OBVIOUS
  <2> QED BY <2>1 DEF Growing
<1> HIDE DEF f, g
<1>7. SumOf(g, S) = SumOf(f, S) - f[z] + g[z] /\ SumOf(f, S) \in Nat
  BY <1>1, <1>3, <1>4, SumChange, SumType
<1>8. F[0] + SumOf(g, S) = F[top + a]
  BY <1>2, <1>3, <1>5, <1>6, <1>7
<1> QED BY <1>8 DEF g

\* The part of a pool that lies before a ticket, rounded down, grows with it.
LEMMA PoolGrows ==
    ASSUME NEW pool \in Nat, NEW d \in Nat \ {0}
    PROVE  [x \in Nat |-> (pool * x) \div d] \in Growing
<1> DEFINE F == [x \in Nat |-> (pool * x) \div d]
<1>1. \A x \in Nat : pool * x \in Nat /\ (pool * x) \div d \in Nat
  <2> SUFFICES ASSUME NEW x \in Nat PROVE pool * x \in Nat /\ (pool * x) \div d \in Nat
    OBVIOUS
  <2>1. pool * x \in Nat
    BY ProductMonotone
  <2> QED BY <2>1, DivBounds
<1>2. ASSUME NEW a \in Nat, NEW b \in Nat, a <= b PROVE F[a] <= F[b]
  <2>1. pool * a \in Nat /\ pool * b \in Nat /\ pool * a <= pool * b
    BY <1>1, <1>2, ProductMonotone
  <2>2. (pool * a) \div d <= (pool * b) \div d
    BY <2>1, DivMonotone
  <2> QED BY <2>2
<1>3. F \in [Nat -> Nat]
  BY <1>1
<1> QED BY <1>2, <1>3 DEF Growing

\* The whole of it lies before the last one.
LEMMA PoolSpent ==
    ASSUME NEW pool \in Nat, NEW d \in Nat \ {0}
    PROVE  (pool * d) \div d = pool /\ (pool * 0) \div d = 0
OBVIOUS
=============================================================================
