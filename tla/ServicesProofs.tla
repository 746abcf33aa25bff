--------------------------- MODULE ServicesProofs ---------------------------
(***************************************************************************)
(* Three off-chain services, each for all values of its constants.  The    *)
(* buyback keepers exclude one another by their lease, for any number of   *)
(* replicas, and spend and burn every allocation once.  The worker host    *)
(* never has two keepers of a round, whatever exits, timers and pruning do *)
(* to its table, and shows a green health only when no missed deadline     *)
(* waits for review.  A Claim All that reports success left nothing behind, *)
(* in whatever order reads, notices, keepers and the user interfere.       *)
(***************************************************************************)
EXTENDS MCServices, Sequences, LedgerLemmas

-----------------------------------------------------------------------------
(* The buyback keeper.  A tick's remaining time stays below the remaining  *)
(* time of the lease it holds.                                             *)

TickType == [pc : PCs, round : Rounds \cup {NoRound}, left : Nat]

\* What the argument needs of the types.
TimesAreNaturals ==
    /\ settled \subseteq Rounds /\ completed \subseteq Rounds
    /\ lease \in [holder : Keepers \cup {NoKeeper}, left : Nat]
    /\ keeper \in [Keepers -> TickType]

LeaseOutlivesTick ==
    \A k \in Keepers : keeper[k].pc # "idle" =>
        lease.holder = k /\ keeper[k].left < lease.left

LeaseInv == TimesAreNaturals /\ LeaseOutlivesTick

\* A keeper inside a tick may end it or go on in it, with the lease and the
\* remaining time as they were.
Continues(k) ==
    /\ keeper[k].pc # "idle"
    /\ UNCHANGED <<lease, settled, completed>>
    /\ \E t \in TickType :
          /\ t.pc = "idle" \/ t.left = keeper[k].left
          /\ keeper' = [keeper EXCEPT ![k] = t]

\* Ending a tick continues in this sense.
LEMMA EndTickContinues ==
    ASSUME NEW k \in Keepers, keeper[k].pc # "idle", UNCHANGED <<lease, settled, completed>>, EndTick(k)
    PROVE  Continues(k)
<1>1. Idle \in TickType /\ Idle.pc = "idle"
  BY DEF Idle, TickType, PCs
<1> QED BY <1>1 DEF Continues, EndTick

\* So does moving on to another place of the tick.
LEMMA GoToContinues ==
    ASSUME NEW k \in Keepers, NEW pc \in PCs, TimesAreNaturals,
           keeper[k].pc # "idle", UNCHANGED <<lease, settled, completed>>, GoTo(k, pc)
    PROVE  Continues(k)
<1> DEFINE t == [keeper[k] EXCEPT !.pc = pc]
<1>1. keeper[k] \in TickType
  BY DEF TimesAreNaturals
<1>2. t \in TickType /\ t.left = keeper[k].left
  BY <1>1 DEF TickType
<1>3. keeper' = [keeper EXCEPT ![k] = t]
  BY DEF GoTo
<1> QED BY <1>2, <1>3 DEF Continues

\* A keeper that continues keeps the invariant.
LEMMA ContinuingKeepsLease ==
    ASSUME NEW k \in Keepers, LeaseInv, Continues(k)
    PROVE  LeaseInv'
<1>1. PICK t \in TickType : /\ t.pc = "idle" \/ t.left = keeper[k].left
                            /\ keeper' = [keeper EXCEPT ![k] = t]
  BY DEF Continues
<1>2. TimesAreNaturals'
  BY <1>1 DEF LeaseInv, TimesAreNaturals, Continues
<1>3. ASSUME NEW j \in Keepers, keeper'[j].pc # "idle"
      PROVE  lease'.holder = j /\ keeper'[j].left < lease'.left
  <2>1. CASE j = k
    <3>1. keeper'[j] = t
      BY <1>1, <2>1 DEF LeaseInv, TimesAreNaturals
    <3> QED BY <1>1, <1>3, <2>1, <3>1 DEF LeaseInv, LeaseOutlivesTick, Continues
  <2>2. CASE j # k
    <3>1. keeper'[j] = keeper[j]
      BY <1>1, <2>2 DEF LeaseInv, TimesAreNaturals
    <3> QED BY <1>3, <3>1 DEF LeaseInv, LeaseOutlivesTick, Continues
  <2> QED BY <2>1, <2>2
<1> QED BY <1>2, <1>3 DEF LeaseInv, LeaseOutlivesTick

\* Every step of a tick after its first continues it.
LEMMA StepsContinue ==
    ASSUME NEW k \in Keepers, TimesAreNaturals, KeeperStep(k) \/ Die(k), ~Tick(k)
    PROVE  Continues(k)
<1> DEFINE Same == UNCHANGED <<lease, settled, completed>>
<1>1. ASSUME Select(k) PROVE Continues(k)
  <2>1. keeper[k].pc # "idle" /\ Same
    BY <1>1 DEF Select, chain
  <2>2. CASE EndTick(k)
    BY <2>1, <2>2, EndTickContinues
  <2>3. ASSUME NEW r \in Rounds, NEW pc \in {"plan", "recover"},
               keeper' = [keeper EXCEPT ![k] = [keeper[k] EXCEPT !.round = r, !.pc = pc]]
        PROVE  Continues(k)
    <3> DEFINE t == [keeper[k] EXCEPT !.round = r, !.pc = pc]
    <3>1. keeper[k] \in TickType
      BY DEF TimesAreNaturals
    <3>2. t \in TickType /\ t.left = keeper[k].left
      BY <3>1 DEF TickType, PCs
    <3>3. keeper' = [keeper EXCEPT ![k] = t]
      BY <2>3
    <3> QED BY <2>1, <3>2, <3>3 DEF Continues
  <2>4. EndTick(k) \/ \E r \in Rounds, pc \in {"plan", "recover"} :
                         keeper' = [keeper EXCEPT ![k] = [keeper[k] EXCEPT !.round = r, !.pc = pc]]
    BY <1>1 DEF Select, selectIndexedBuybackRound, OpenRows, TimesAreNaturals
  <2> QED BY <2>2, <2>3, <2>4
<1>2. ASSUME PlanSwap(k) PROVE Continues(k)
  <2>1. keeper[k].pc # "idle" /\ Same
    BY <1>2 DEF PlanSwap, chain
  <2>2. EndTick(k) \/ GoTo(k, "mark") \/ GoTo(k, "recover")
    BY <1>2 DEF PlanSwap
  <2> QED BY <2>1, <2>2, EndTickContinues, GoToContinues DEF PCs
<1>3. ASSUME Recover(k) PROVE Continues(k)
  <2>1. keeper[k].pc # "idle" /\ Same
    BY <1>3 DEF Recover, chain
  <2>2. EndTick(k) \/ GoTo(k, "output") \/ GoTo(k, "send_swap")
    BY <1>3 DEF Recover, SaveSwapped
  <2> QED BY <2>1, <2>2, EndTickContinues, GoToContinues DEF PCs
<1>4. ASSUME SendSwap(k) PROVE Continues(k)
  <2>1. keeper[k].pc # "idle" /\ Same
    BY <1>4 DEF SendSwap, chain
  <2>2. EndTick(k) \/ GoTo(k, "confirm_swap") \/ GoTo(k, "verdict")
    BY <1>4 DEF SendSwap
  <2> QED BY <2>1, <2>2, EndTickContinues, GoToContinues DEF PCs
<1>5. ASSUME ConfirmSwap(k) PROVE Continues(k)
  <2>1. keeper[k].pc # "idle" /\ Same
    BY <1>5 DEF ConfirmSwap, chain
  <2>2. EndTick(k) \/ GoTo(k, "output") \/ GoTo(k, "verdict")
    BY <1>5 DEF ConfirmSwap, SaveSwapped
  <2> QED BY <2>1, <2>2, EndTickContinues, GoToContinues DEF PCs
<1>6. ASSUME ReadStatus(k) PROVE Continues(k)
  <2>1. keeper[k].pc # "idle" /\ Same
    BY <1>6 DEF ReadStatus, chain
  <2>2. EndTick(k) \/ GoTo(k, "output") \/ GoTo(k, "height")
    BY <1>6 DEF ReadStatus, SaveSwapped, Abandon
  <2> QED BY <2>1, <2>2, EndTickContinues, GoToContinues DEF PCs
<1>7. ASSUME ReadHeight(k) PROVE Continues(k)
  <2>1. keeper[k].pc # "idle" /\ Same
    BY <1>7 DEF ReadHeight, chain
  <2>2. EndTick(k)
    BY <1>7 DEF ReadHeight, Abandon
  <2> QED BY <2>1, <2>2, EndTickContinues, GoToContinues DEF PCs
<1>8. ASSUME AwaitOutput(k) PROVE Continues(k)
  <2>1. keeper[k].pc # "idle" /\ Same
    BY <1>8 DEF AwaitOutput, chain
  <2>2. EndTick(k) \/ GoTo(k, "send_burn")
    BY <1>8 DEF AwaitOutput
  <2> QED BY <2>1, <2>2, EndTickContinues, GoToContinues DEF PCs
<1>9. ASSUME SendBurn(k) PROVE Continues(k)
  <2>1. keeper[k].pc # "idle" /\ Same
    BY <1>9 DEF SendBurn, chain
  <2>2. EndTick(k) \/ GoTo(k, "confirm_burn")
    BY <1>9 DEF SendBurn
  <2> QED BY <2>1, <2>2, EndTickContinues, GoToContinues DEF PCs
<1>10. ASSUME RecordExecution(k) PROVE Continues(k)
  <2>1. keeper[k].pc # "idle" /\ Same
    BY <1>10 DEF RecordExecution, chain
  <2>2. EndTick(k) \/ GoTo(k, "evidence")
    BY <1>10 DEF RecordExecution
  <2> QED BY <2>1, <2>2, EndTickContinues, GoToContinues DEF PCs
<1>11. ASSUME upsertBuybackEvidence(k) PROVE Continues(k)
  <2>1. keeper[k].pc # "idle" /\ Same
    BY <1>11 DEF upsertBuybackEvidence, chain
  <2>2. EndTick(k) \/ GoTo(k, "mark")
    BY <1>11 DEF upsertBuybackEvidence
  <2> QED BY <2>1, <2>2, EndTickContinues, GoToContinues DEF PCs
<1>12. ASSUME SendMark(k) PROVE Continues(k)
  <2>1. keeper[k].pc # "idle" /\ Same
    BY <1>12 DEF SendMark, chain
  <2>2. EndTick(k) \/ GoTo(k, "confirm_mark")
    BY <1>12 DEF SendMark
  <2> QED BY <2>1, <2>2, EndTickContinues, GoToContinues DEF PCs
<1>13. ASSUME ConfirmMark(k) PROVE Continues(k)
  <2>1. keeper[k].pc # "idle" /\ Same
    BY <1>13 DEF ConfirmMark, chain
  <2>2. EndTick(k)
    BY <1>13 DEF ConfirmMark
  <2> QED BY <2>1, <2>2, EndTickContinues, GoToContinues DEF PCs
<1>14. ASSUME Die(k) PROVE Continues(k)
  <2>1. keeper[k].pc # "idle" /\ Same
    BY <1>14 DEF Die, chain, Working
  <2>2. EndTick(k)
    BY <1>14 DEF Die
  <2> QED BY <2>1, <2>2, EndTickContinues, GoToContinues DEF PCs
<1> QED
  BY <1>1, <1>2, <1>3, <1>4, <1>5, <1>6, <1>7, <1>8, <1>9, <1>10, <1>11, <1>12, <1>13, <1>14
     DEF KeeperStep

\* Whoever is in a tick holds the lease, and for longer than the tick can take.
LEMMA LeaseInvariant == Spec => []LeaseInv
<1>1. Init => LeaseInv
  <2> SUFFICES ASSUME Init PROVE LeaseInv
    OBVIOUS
  <2>1. Idle \in TickType /\ Idle.pc = "idle"
    BY DEF Idle, TickType, PCs
  <2>2. TimesAreNaturals
    BY <2>1 DEF Init, TimesAreNaturals
  <2>3. LeaseOutlivesTick
    BY <2>1 DEF Init, LeaseOutlivesTick
  <2> QED BY <2>2, <2>3 DEF LeaseInv
<1>2. LeaseInv /\ [Next]_vars => LeaseInv'
  <2> SUFFICES ASSUME LeaseInv, [Next]_vars PROVE LeaseInv'
    OBVIOUS
  <2> DEFINE Same == UNCHANGED <<lease, settled, completed, keeper>>
  <2>1. ASSUME Same PROVE LeaseInv'
    BY <2>1 DEF LeaseInv, TimesAreNaturals, LeaseOutlivesTick
  <2>2. CASE UNCHANGED vars
    BY <2>1, <2>2 DEF vars, chain
  <2>3. ASSUME NEW r \in Rounds, Settle(r) \/ mark_buyback_completed(r) \/ LoseMark(r)
        PROVE  LeaseInv'
    BY <2>3 DEF Settle, mark_buyback_completed, LoseMark, chain, LeaseInv, TimesAreNaturals,
                LeaseOutlivesTick
  <2>4. ASSUME NEW s \in Signatures, Land(s) PROVE LeaseInv'
    BY <2>1, <2>4 DEF Land
  <2>5. CASE Clock
    <3> DEFINE after(k) == [keeper[k] EXCEPT !.left = Less(keeper[k].left)]
    <3>1. ASSUME NEW n \in Nat PROVE Less(n) \in Nat /\ (n > 0 => Less(n) = n - 1)
      BY DEF Less
    <3>2. ASSUME NEW k \in Keepers
          PROVE  /\ after(k) \in TickType /\ after(k).pc = keeper[k].pc
                 /\ after(k).left = Less(keeper[k].left)
      <4>1. keeper[k] \in TickType /\ keeper[k].left \in Nat
        BY DEF LeaseInv, TimesAreNaturals, TickType
      <4> QED BY <3>1, <4>1 DEF TickType
    <3>3. /\ lease'.left = Less(lease.left) /\ lease'.holder = lease.holder
          /\ lease' \in [holder : Keepers \cup {NoKeeper}, left : Nat]
      BY <2>5, <3>1 DEF Clock, LeaseInv, TimesAreNaturals
    <3> HIDE DEF after
    <3>4. keeper' = [k \in Keepers |-> after(k)]
      BY <2>5 DEF Clock, after
    <3>5. TimesAreNaturals'
      BY <2>5, <3>2, <3>3, <3>4 DEF Clock, chain, LeaseInv, TimesAreNaturals
    <3>6. ASSUME NEW k \in Keepers, keeper'[k].pc # "idle"
          PROVE  lease'.holder = k /\ keeper'[k].left < lease'.left
      <4>1. keeper[k].pc # "idle" /\ keeper'[k].left = Less(keeper[k].left)
        BY <3>2, <3>4, <3>6
      <4>2. keeper[k].left \in Nat /\ lease.left \in Nat
        BY DEF LeaseInv, TimesAreNaturals, TickType
      <4>3. keeper[k].left > 0
        BY <2>5, <4>1 DEF Clock, Working
      <4>4. lease.holder = k /\ keeper[k].left < lease.left
        BY <4>1 DEF LeaseInv, LeaseOutlivesTick
      <4> QED BY <3>1, <3>3, <4>1, <4>2, <4>3, <4>4
    <3> QED BY <3>5, <3>6 DEF LeaseInv, LeaseOutlivesTick
  <2>6. ASSUME NEW k \in Keepers, Tick(k) PROVE LeaseInv'
    <3> DEFINE t == [pc |-> "select", round |-> NoRound, left |-> TICK_TIMEOUT]
    <3>1. t \in TickType /\ t.left < LEASE_TTL
      BY BuybackAssumption DEF TickType, PCs
    <3>2. /\ keeper' = [keeper EXCEPT ![k] = t]
          /\ lease' = [holder |-> k, left |-> LEASE_TTL]
          /\ UNCHANGED <<settled, completed>>
      BY <2>6 DEF Tick, chain
    <3>3. ASSUME NEW j \in Keepers, j # k PROVE keeper[j].pc = "idle"
      <4>1. lease.left = 0 \/ lease.holder = k
        BY <2>6 DEF Tick, LeaseAvailable
      <4>2. keeper[j].left \in Nat /\ lease.left \in Nat
        BY DEF LeaseInv, TimesAreNaturals, TickType
      <4> QED BY <3>3, <4>1, <4>2 DEF LeaseInv, LeaseOutlivesTick
    <3>4. TimesAreNaturals'
      BY <3>1, <3>2, BuybackAssumption DEF LeaseInv, TimesAreNaturals
    <3>5. LeaseOutlivesTick'
      BY <3>1, <3>2, <3>3 DEF LeaseInv, TimesAreNaturals, LeaseOutlivesTick
    <3> QED BY <3>4, <3>5 DEF LeaseInv
  <2>7. ASSUME NEW k \in Keepers, KeeperStep(k) \/ Die(k), ~Tick(k) PROVE LeaseInv'
    BY <2>7, StepsContinue, ContinuingKeepsLease DEF LeaseInv
  <2> QED BY <2>2, <2>3, <2>4, <2>5, <2>6, <2>7 DEF Next
<1> QED BY <1>1, <1>2, PTL DEF Spec

LEMMA LeaseSeparates == LeaseInv => OneKeeperAtWork
BY DEF LeaseInv, LeaseOutlivesTick, OneKeeperAtWork, Working

\* The lease and the timeout keep any two replicas of the buyback keeper out of
\* a tick at the same time (acquire_mine_keeper_lease, runWorkerTick).
THEOREM LeaseExcludes == Spec => []OneKeeperAtWork
BY LeaseInvariant, LeaseSeparates, PTL

-----------------------------------------------------------------------------
(* The books: the allocation, the tokens and the marks of every round.     *)

Entered(r) == journal.rounds[r].pending.phase # "none"
Done(r)    == ~Entered(r) /\ journal.rounds[r].processed = Allocation[r]

\* What the entry e of round r says of the transactions ts, of the lamports
\* spent and of the tokens got and burned (gone).
Clear(e, r, spent, got, gone) ==
    /\ e.pending = NoPending /\ e.processed <= Allocation[r]
    /\ spent = e.processed /\ gone = got

SwapNamed(e, r, ts) ==
    /\ e.pending.spend > 0 /\ e.processed + e.pending.spend <= Allocation[r]
    /\ e.pending.before = 0
    /\ e.pending.swap \in Signatures
    /\ ts[e.pending.swap].kind = "swap" /\ ts[e.pending.swap].round = r
    /\ ts[e.pending.swap].amount = e.pending.spend

Waiting(e, ts, spent, got, gone) ==
    /\ e.pending.phase = "swap-ready" /\ e.pending.burn = NoSignature
    /\ ts[e.pending.swap].status \in {"signed", "sent", "failed"}
    /\ spent = e.processed /\ gone = got

Holding(e, ts, spent, got, gone) ==
    /\ e.pending.phase \in {"swap-ready", "swapped"} /\ e.pending.burn = NoSignature
    /\ ts[e.pending.swap].status = "landed"
    /\ spent = e.processed + e.pending.spend /\ gone < got

Burning(e, r, ts, spent, got, gone) ==
    /\ e.pending.phase = "burn-ready"
    /\ e.pending.burn \in Signatures \ {e.pending.swap}
    /\ ts[e.pending.swap].status = "landed"
    /\ ts[e.pending.burn].kind = "burn" /\ ts[e.pending.burn].round = r
    /\ spent = e.processed + e.pending.spend
    /\ \/ /\ ts[e.pending.burn].status \in {"signed", "sent"} /\ ts[e.pending.burn].amount > 0
          /\ gone + ts[e.pending.burn].amount = got
       \/ ts[e.pending.burn].status = "landed" /\ gone = got

EntryIs(e, r, ts, spent, got, gone) ==
    \/ Clear(e, r, spent, got, gone)
    \/ /\ SwapNamed(e, r, ts)
       /\ \/ Waiting(e, ts, spent, got, gone)
          \/ Holding(e, ts, spent, got, gone)
          \/ Burning(e, r, ts, spent, got, gone)

EntriesSound ==
    \A r \in Rounds : EntryIs(journal.rounds[r], r, tx, swapped[r], bought[r], burned[r])

\* Rounds settle in order, and each waits for the ones before it.
InOrder ==
    /\ \A r \in settled, q \in Rounds : q < r => q \in settled
    /\ \A r \in Rounds : Entered(r) => r \in settled /\ \A q \in Rounds : q < r => q \in completed

OnlyNamed == \A s \in Signatures : tx[s] # NoTx => s \in Named(journal.rounds)
MarksDone == \A r \in marks \cup completed : Done(r) /\ evidence[r] = Allocation[r]

\* The cursor has only completed rounds behind it.
CursorBehind == \A q \in Rounds : q < journal.nextRound => q \in completed

\* Where a tick stands, when it looks after round r.
At(r, pc) ==
    pc \notin {"idle", "select"} =>
        /\ r \in settled /\ \A q \in Rounds : q < r => q \in completed
        /\ pc \in {"plan", "evidence"} => ~Entered(r)
        /\ pc = "recover" => Entered(r)
        /\ pc \in {"send_swap", "confirm_swap", "verdict", "height"} =>
               journal.rounds[r].pending.phase = "swap-ready"
        /\ pc = "height" => tx[journal.rounds[r].pending.swap].status # "landed"
        /\ pc = "output" => journal.rounds[r].pending.phase \in {"swapped", "burn-ready"}
        /\ pc \in {"send_burn", "confirm_burn"} =>
               journal.rounds[r].pending.phase = "burn-ready"
        /\ pc \in {"mark", "confirm_mark"} => Done(r) /\ evidence[r] = Allocation[r]

Placed == \A k \in Keepers : At(keeper[k].round, keeper[k].pc)

BookType ==
    /\ settled \subseteq Rounds /\ completed \subseteq settled /\ marks \subseteq settled
    /\ swapped \in [Rounds -> Nat] /\ bought \in [Rounds -> Nat] /\ burned \in [Rounds -> Nat]
    /\ tx \in [Signatures -> TxType]
    /\ journal \in [nextRound : Nat, rounds : [Rounds -> EntryType]]
    /\ evidence \in [Rounds -> Nat]

Books == BookType /\ EntriesSound /\ InOrder /\ OnlyNamed /\ MarksDone /\ CursorBehind

KeeperType == [pc : PCs, round : Rounds \cup {NoRound}, left : 0 .. TICK_TIMEOUT]

TickTypes ==
    /\ lease \in [holder : Keepers \cup {NoKeeper}, left : 0 .. LEASE_TTL]
    /\ keeper \in [Keepers -> KeeperType]
    /\ deaths \in 0 .. MaxDeaths

BooksInv == Books /\ TickTypes /\ Placed

\* What the argument asks of the constants and of the chain: see the module's
\* two assumptions on settlement and landing.
Regular ==
    /\ OrderedSettlement /\ ~LandsBetweenReads
    /\ \E s, t \in Signatures : s # t

\* An entry is either clear or entered, as its phase says.
LEMMA EntryCases ==
    ASSUME NEW e \in EntryType, NEW r \in Rounds, NEW ts \in [Signatures -> TxType],
           NEW spent \in Nat, NEW got \in Nat, NEW gone \in Nat,
           EntryIs(e, r, ts, spent, got, gone)
    PROVE  /\ e.pending.phase = "none" => Clear(e, r, spent, got, gone)
           /\ e.pending.phase # "none" => SwapNamed(e, r, ts)
           /\ e.pending.phase = "swap-ready" =>
                 Waiting(e, ts, spent, got, gone) \/ Holding(e, ts, spent, got, gone)
           /\ e.pending.phase = "swapped" => Holding(e, ts, spent, got, gone)
           /\ e.pending.phase = "burn-ready" => Burning(e, r, ts, spent, got, gone)
           /\ gone <= got /\ spent <= Allocation[r]
<1>1. NoPending.phase = "none"
  BY DEF NoPending
<1>2. e.processed \in Nat /\ e.pending.spend \in Nat /\ Allocation[r] \in Nat
  BY BuybackAssumption DEF EntryType, PendingType
<1>3. CASE Clear(e, r, spent, got, gone)
  BY <1>1, <1>2, <1>3 DEF Clear
<1>4. CASE SwapNamed(e, r, ts)
  <2>1. CASE Waiting(e, ts, spent, got, gone)
    BY <1>2, <1>4, <2>1 DEF Waiting, SwapNamed
  <2>2. CASE Holding(e, ts, spent, got, gone)
    BY <1>2, <1>4, <2>2 DEF Holding, SwapNamed
  <2>3. CASE Burning(e, r, ts, spent, got, gone)
    <3>1. e.pending.burn \in Signatures
      BY <2>3 DEF Burning
    <3>2. ts[e.pending.burn].amount \in Nat
      BY <3>1 DEF TxType
    <3> QED BY <1>2, <1>4, <2>3, <3>2 DEF Burning, SwapNamed
  <2> QED BY <2>1, <2>2, <2>3, <1>1, <1>4 DEF EntryIs, Clear
<1> QED BY <1>3, <1>4 DEF EntryIs

\* The types of what belongs to one round.
LEMMA RoundTypes ==
    ASSUME Books, NEW r \in Rounds
    PROVE  /\ journal.rounds[r] \in EntryType /\ journal.rounds[r].pending \in PendingType
           /\ journal.rounds[r].processed \in Nat
           /\ swapped[r] \in Nat /\ bought[r] \in Nat /\ burned[r] \in Nat
           /\ Allocation[r] \in Nat \ {0} /\ r \in Nat
           /\ EntryIs(journal.rounds[r], r, tx, swapped[r], bought[r], burned[r])
           /\ Entered(r) = (journal.rounds[r].pending.phase # "none")
BY BuybackAssumption DEF Books, BookType, EntriesSound, EntryType, Entered

\* While a round is entered, or is the first without its mark, no other is entered.
LEMMA NoOtherEntered ==
    ASSUME Books, NEW r \in Rounds,
           \/ Entered(r)
           \/ r \notin completed /\ \A q \in Rounds : q < r => q \in completed,
           NEW q \in Rounds \ {r}
    PROVE  ~Entered(q)
<1>1. \A x \in completed : ~Entered(x)
  BY DEF Books, MarksDone, Done
<1>2. r \in Nat /\ q \in Nat
  BY BuybackAssumption
<1>3. CASE q < r
  BY <1>1, <1>3 DEF Books, InOrder
<1>4. CASE r < q
  BY <1>1, <1>4 DEF Books, InOrder
<1> QED BY <1>2, <1>3, <1>4

Quiet(r) == \A q \in Rounds \ {r} : ~Entered(q)

\* Then the tokens are those of that round, and the transactions those its
\* entry names.
LEMMA TokensOfOne ==
    ASSUME Books, NEW r \in Rounds, Quiet(r)
    PROVE  TokenAmount = bought[r] - burned[r]
<1>1. IsFiniteSet(Rounds)
  BY BuybackAssumption
<1>2. \A q \in Rounds : bought[q] \in Nat /\ burned[q] \in Nat
  BY DEF Books, BookType
<1>3. \A q \in Rounds \ {r} : burned[q] = bought[q]
  <2> SUFFICES ASSUME NEW q \in Rounds \ {r} PROVE burned[q] = bought[q]
    OBVIOUS
  <2>1. journal.rounds[q].pending.phase = "none" /\ tx \in [Signatures -> TxType]
    BY RoundTypes DEF Quiet, Books, BookType
  <2>2. Clear(journal.rounds[q], q, swapped[q], bought[q], burned[q])
    BY <2>1, RoundTypes, EntryCases
  <2> QED BY <2>2 DEF Clear
<1>4. SumOf(burned, Rounds) = SumOf(bought, Rounds) - bought[r] + burned[r]
  BY <1>1, <1>2, <1>3, SumChange
<1>5. SumOf(bought, Rounds) \in Nat
  BY <1>1, <1>2, SumType
<1>6. TokenAmount = SumOf(bought, Rounds) - SumOf(burned, Rounds)
  BY DEF TokenAmount, Total, SumOf
<1> QED BY <1>2, <1>4, <1>5, <1>6

LEMMA NamedByOne ==
    ASSUME Books, NEW r \in Rounds, Quiet(r)
    PROVE  \A s \in Signatures : tx[s] # NoTx =>
              s \in {journal.rounds[r].pending.swap, journal.rounds[r].pending.burn}
<1> SUFFICES ASSUME NEW s \in Signatures, tx[s] # NoTx
             PROVE  s \in {journal.rounds[r].pending.swap, journal.rounds[r].pending.burn}
  OBVIOUS
<1>1. PICK q \in Rounds : s \in {journal.rounds[q].pending.swap, journal.rounds[q].pending.burn}
  BY DEF Books, OnlyNamed, Named
<1>2. CASE q = r
  BY <1>1, <1>2
<1>3. CASE q # r
  <2>1. journal.rounds[q].pending = NoPending
    BY <1>3, RoundTypes, EntryCases DEF Quiet, Clear, Books, BookType
  <2> QED BY <1>1, <2>1, BuybackAssumption DEF NoPending
<1> QED BY <1>2, <1>3

\* A signature is free whenever at most one is in use.
LEMMA FreshIsFree ==
    ASSUME Regular, NEW s, \A u \in Signatures : tx[u] # NoTx => u = s
    PROVE  Fresh \in Signatures /\ tx[Fresh] = NoTx /\ (tx[s] # NoTx => Fresh # s)
<1> DEFINE T == {u \in Signatures : tx[u] = NoTx}
<1>1. T # {} /\ T \subseteq Nat
  BY BuybackAssumption DEF Regular
<1>2. Min(T) \in T
  <2> HIDE DEF T
  <2> QED BY <1>1, LeastNatural
<1> QED BY <1>2 DEF Fresh

\* What a step of the keeper on round r leaves alone.
Aside ==
    /\ UNCHANGED <<settled, completed, swapped, bought, burned>>
    /\ UNCHANGED lease /\ deaths' \in 0 .. MaxDeaths

\* A step of one keeper: only that keeper's place in its tick has to be looked at.
LEMMA PlacedStays ==
    ASSUME TickTypes, LeaseInv, NEW k \in Keepers,
           NEW r \in Rounds \cup {NoRound}, NEW pc \in PCs,
           keeper[k].pc # "idle", NEW left \in 0 .. TICK_TIMEOUT,
           keeper' = [keeper EXCEPT ![k] = [pc |-> pc, round |-> r, left |-> left]],
           UNCHANGED lease, deaths' \in 0 .. MaxDeaths, At(r, pc)'
    PROVE  TickTypes' /\ Placed'
<1>1. TickTypes'
  BY DEF TickTypes, KeeperType
<1>2. ASSUME NEW j \in Keepers \ {k} PROVE keeper'[j].pc = "idle"
  BY <1>2, LeaseSeparates DEF TickTypes, OneKeeperAtWork, Working
<1>3. keeper'[k].round = r /\ keeper'[k].pc = pc
  BY DEF TickTypes, KeeperType
<1>4. ASSUME NEW j \in Keepers PROVE At(keeper[j].round, keeper[j].pc)'
  <2>1. CASE j = k
    BY <1>3, <2>1 DEF At, Entered, Done
  <2>2. CASE j # k
    BY <1>2, <2>2 DEF At
  <2> QED BY <2>1, <2>2
<1> QED BY <1>1, <1>4 DEF Placed

\* The end of a tick.
LEMMA EndTickPlaced ==
    ASSUME TickTypes, LeaseInv, NEW k \in Keepers, keeper[k].pc # "idle", EndTick(k),
           UNCHANGED lease, deaths' \in 0 .. MaxDeaths
    PROVE  TickTypes' /\ Placed'
<1>1. At(NoRound, "idle")'
  BY DEF At
<1>2. keeper' = [keeper EXCEPT ![k] = [pc |-> "idle", round |-> NoRound, left |-> 0]]
  BY DEF EndTick, Idle
<1>3. "idle" \in PCs /\ NoRound \in Rounds \cup {NoRound} /\ 0 \in 0 .. TICK_TIMEOUT
  BY BuybackAssumption DEF PCs
<1> QED BY <1>1, <1>2, <1>3, PlacedStays

\* On to another place of the tick.
LEMMA GoToPlaced ==
    ASSUME TickTypes, LeaseInv, NEW k \in Keepers, keeper[k].pc # "idle",
           NEW r, keeper[k].round = r, NEW pc \in PCs, GoTo(k, pc),
           UNCHANGED lease, deaths' \in 0 .. MaxDeaths, At(r, pc)'
    PROVE  TickTypes' /\ Placed'
<1>1. PICK left \in 0 .. TICK_TIMEOUT : left = keeper[k].left
  BY DEF TickTypes, KeeperType
<1>2. r \in Rounds \cup {NoRound}
  BY DEF TickTypes, KeeperType
<1>3. keeper' = [keeper EXCEPT ![k] = [pc |-> pc, round |-> r, left |-> left]]
  <2>1. keeper[k] \in KeeperType
    BY DEF TickTypes
  <2>2. [keeper[k] EXCEPT !.pc = pc] = [pc |-> pc, round |-> r, left |-> left]
    BY <1>1, <2>1 DEF KeeperType
  <2> QED BY <2>2 DEF GoTo
<1> QED BY <1>2, <1>3, PlacedStays

\* The books keep when only marks or evidence grow, as marking and its
\* evidence require.
LEMMA EvidenceKeepsBooks ==
    ASSUME Books, NEW r \in Rounds, NEW n \in Nat,
           UNCHANGED <<settled, completed, swapped, bought, burned, tx, journal>>,
           marks' \subseteq settled, evidence' = [evidence EXCEPT ![r] = n],
           Done(r) => n = Allocation[r],
           \A q \in marks' : q \in marks \/ (q = r /\ Done(r))
    PROVE  Books'
<1>1. BookType'
  BY DEF Books, BookType
<1>2. EntriesSound' /\ OnlyNamed' /\ CursorBehind' /\ InOrder'
  BY DEF Books, EntriesSound, OnlyNamed, CursorBehind, InOrder, Entered
<1>3. MarksDone'
  <2> SUFFICES ASSUME NEW q \in marks' \cup completed'
               PROVE  Done(q)' /\ evidence'[q] = Allocation[q]
    BY DEF MarksDone
  <2>1. q \in Rounds /\ Done(q) /\ (q # r => evidence[q] = Allocation[q])
    BY DEF Books, BookType, MarksDone
  <2> QED BY <2>1 DEF Done, Entered, Books, BookType
<1> QED BY <1>1, <1>2, <1>3 DEF Books

\* So do the books when nothing of them changes.
LEMMA SameBooks ==
    ASSUME Books, UNCHANGED <<settled, chain, tx, journal, evidence>>
    PROVE  Books'
BY DEF Books, BookType, EntriesSound, OnlyNamed, CursorBehind, InOrder, MarksDone, Done, Entered,
       chain

\* Two transactions that differ in age only.
Alike(t, u) == t.kind = u.kind /\ t.round = u.round /\ t.amount = u.amount /\ t.status = u.status

\* An entry looks only at the transactions it names, and not at their age.
LEMMA EntryAgrees ==
    ASSUME NEW e \in EntryType, NEW r, NEW ts, NEW us, NEW spent, NEW got, NEW gone,
           EntryIs(e, r, ts, spent, got, gone),
           \A s \in Signatures : s \in {e.pending.swap, e.pending.burn} => Alike(us[s], ts[s])
    PROVE  EntryIs(e, r, us, spent, got, gone)
<1>1. CASE Clear(e, r, spent, got, gone)
  BY <1>1 DEF EntryIs
<1>2. CASE SwapNamed(e, r, ts)
  <2>1. Alike(us[e.pending.swap], ts[e.pending.swap])
    BY <1>2 DEF SwapNamed
  <2>2. SwapNamed(e, r, us)
    BY <1>2, <2>1 DEF SwapNamed, Alike
  <2>3. Waiting(e, ts, spent, got, gone) => Waiting(e, us, spent, got, gone)
    BY <2>1 DEF Waiting, Alike
  <2>4. Holding(e, ts, spent, got, gone) => Holding(e, us, spent, got, gone)
    BY <2>1 DEF Holding, Alike
  <2>5. Burning(e, r, ts, spent, got, gone) => Burning(e, r, us, spent, got, gone)
    BY <2>1 DEF Burning, Alike
  <2> QED BY <1>1, <2>2, <2>3, <2>4, <2>5 DEF EntryIs
<1> QED BY <1>1, <1>2 DEF EntryIs

\* A round that is not entered is sound whatever the transactions are.
LEMMA ClearStays ==
    ASSUME Books, NEW q \in Rounds, ~Entered(q), NEW ts
    PROVE  EntryIs(journal.rounds[q], q, ts, swapped[q], bought[q], burned[q])
<1>1. journal.rounds[q].pending.phase = "none" /\ tx \in [Signatures -> TxType]
  BY DEF Entered, Books, BookType
<1>2. Clear(journal.rounds[q], q, swapped[q], bought[q], burned[q])
  BY <1>1, RoundTypes, EntryCases
<1> QED BY <1>2 DEF EntryIs

\* The books keep when the transactions of the entered round move on.
LEMMA LandingKeepsBooks ==
    ASSUME Books, NEW r \in Rounds, Quiet(r),
           UNCHANGED <<settled, completed, marks, journal, evidence>>,
           tx' \in [Signatures -> TxType],
           swapped' \in [Rounds -> Nat], bought' \in [Rounds -> Nat], burned' \in [Rounds -> Nat],
           EntryIs(journal.rounds[r], r, tx', swapped'[r], bought'[r], burned'[r]),
           \A q \in Rounds \ {r} :
              swapped'[q] = swapped[q] /\ bought'[q] = bought[q] /\ burned'[q] = burned[q],
           \A s \in Signatures : tx'[s] # NoTx => tx[s] # NoTx
    PROVE  Books'
<1>1. BookType'
  BY DEF Books, BookType
<1>2. InOrder' /\ OnlyNamed' /\ MarksDone' /\ CursorBehind'
  BY DEF Books, InOrder, OnlyNamed, MarksDone, CursorBehind, Entered, Done
<1>3. ASSUME NEW q \in Rounds
      PROVE  EntryIs(journal.rounds[q], q, tx', swapped'[q], bought'[q], burned'[q])
  <2>1. CASE q = r
    BY <2>1
  <2>2. CASE q # r
    <3>1. EntryIs(journal.rounds[q], q, tx', swapped[q], bought[q], burned[q])
      BY <2>2, ClearStays DEF Quiet
    <3> QED BY <2>2, <3>1
  <2> QED BY <2>1, <2>2
<1>4. EntriesSound'
  BY <1>3 DEF EntriesSound
<1> QED BY <1>1, <1>2, <1>4 DEF Books

\* What Remember leaves: the named transactions and those that can land.
LEMMA Remembered ==
    ASSUME NEW ts \in [Signatures -> TxType], NEW entries, BookType
    PROVE  /\ Remember(ts, entries) \in [Signatures -> TxType]
           /\ \A s \in Signatures :
                 /\ s \in Named(entries) => Remember(ts, entries)[s] = ts[s]
                 /\ Remember(ts, entries)[s] # NoTx =>
                       (s \in Named(entries) \/ CanLand(ts[s])) /\ ts[s] # NoTx
<1>1. NoTx \in TxType
  BY BuybackAssumption DEF NoTx, TxType
<1> QED BY <1>1 DEF Remember

\* The books keep when the entry of the first unmarked round changes soundly.
LEMMA EntryKeepsBooks ==
    ASSUME Books, NEW r \in settled, Quiet(r), r \notin completed, r \notin marks,
           \A q \in Rounds : q < r => q \in completed,
           NEW e \in EntryType, NEW ts \in [Signatures -> TxType],
           UNCHANGED <<settled, chain>>,
           evidence' \in [Rounds -> Nat], \A q \in Rounds \ {r} : evidence'[q] = evidence[q],
           journal' = [journal EXCEPT !.rounds[r] = e],
           tx' = Remember(ts, journal'.rounds),
           EntryIs(e, r, ts, swapped[r], bought[r], burned[r]),
           \A s \in Signatures : CanLand(ts[s]) => s \in {e.pending.swap, e.pending.burn}
    PROVE  /\ Books'
           /\ journal'.rounds[r] = e
           /\ \A s \in Signatures : s \in {e.pending.swap, e.pending.burn} => tx'[s] = ts[s]
<1>1. /\ journal' \in [nextRound : Nat, rounds : [Rounds -> EntryType]]
      /\ journal'.rounds[r] = e /\ journal'.nextRound = journal.nextRound
      /\ \A q \in Rounds \ {r} : journal'.rounds[q] = journal.rounds[q]
      /\ r \in Rounds
  BY DEF Books, BookType
<1>2. \A s \in Signatures :
         s \in {e.pending.swap, e.pending.burn} => s \in Named(journal'.rounds)
  BY <1>1 DEF Named
<1>3. tx' \in [Signatures -> TxType]
  BY Remembered DEF Books
<1>4. \A s \in Signatures :
         /\ s \in {e.pending.swap, e.pending.burn} => tx'[s] = ts[s]
         /\ tx'[s] # NoTx => s \in Named(journal'.rounds)
  BY <1>2, Remembered DEF Books
<1>5. BookType'
  BY <1>1, <1>3 DEF Books, BookType, chain
<1>6. ASSUME NEW q \in Rounds
      PROVE  EntryIs(journal'.rounds[q], q, tx', swapped[q], bought[q], burned[q])
  <2>1. CASE q = r
    BY <1>1, <1>4, <2>1, EntryAgrees DEF Alike
  <2>2. CASE q # r
    BY <1>1, <2>2, ClearStays DEF Quiet
  <2> QED BY <2>1, <2>2
<1>7. EntriesSound'
  BY <1>6 DEF EntriesSound, chain
<1>8. OnlyNamed'
  BY <1>4 DEF OnlyNamed
<1>9. InOrder'
  <2>1. ASSUME NEW q \in Rounds, Entered(q)'
        PROVE  q \in settled /\ \A x \in Rounds : x < q => x \in completed
    BY <1>1, <2>1 DEF Books, InOrder, Entered
  <2> QED BY <2>1 DEF InOrder, Books, chain
<1>10. MarksDone'
  <2> SUFFICES ASSUME NEW q \in marks' \cup completed'
               PROVE  Done(q)' /\ evidence'[q] = Allocation[q]
    BY DEF MarksDone
  <2>1. q \in Rounds \ {r} /\ Done(q) /\ evidence[q] = Allocation[q]
    BY DEF Books, BookType, MarksDone, chain
  <2> QED BY <1>1, <2>1 DEF Done, Entered
<1>11. CursorBehind'
  BY <1>1 DEF Books, CursorBehind, chain
<1> QED BY <1>1, <1>4, <1>5, <1>7, <1>8, <1>9, <1>10, <1>11 DEF Books

-----------------------------------------------------------------------------
(* The steps of a tick.                                                    *)

LEMMA AtWork ==
    ASSUME BooksInv, NEW k \in Keepers, keeper[k].pc \notin {"idle", "select"}
    PROVE  \E r \in settled : /\ r = keeper[k].round /\ r \in Rounds
                              /\ At(r, keeper[k].pc)
                              /\ \A q \in Rounds : q < r => q \in completed
BY DEF BooksInv, Placed, At, Books, BookType

\* What is known of a round that is entered.
LEMMA EnteredFacts ==
    ASSUME Books, NEW r \in Rounds, Entered(r)
    PROVE  /\ r \in settled /\ r \notin completed /\ r \notin marks /\ Quiet(r)
           /\ \A q \in Rounds : q < r => q \in completed
           /\ TokenAmount = bought[r] - burned[r]
           /\ SwapNamed(journal.rounds[r], r, tx)
           /\ \A s \in Signatures : CanLand(tx[s]) =>
                 s \in {journal.rounds[r].pending.swap, journal.rounds[r].pending.burn}
<1>1. r \in settled /\ r \notin completed /\ r \notin marks
      /\ \A q \in Rounds : q < r => q \in completed
  BY DEF Books, InOrder, MarksDone, Done
<1>2. Quiet(r)
  BY NoOtherEntered DEF Quiet
<1>3. \A s \in Signatures : CanLand(tx[s]) => tx[s] # NoTx
  BY DEF CanLand, NoTx
<1>4. SwapNamed(journal.rounds[r], r, tx)
  <2>1. tx \in [Signatures -> TxType] /\ journal.rounds[r].pending.phase # "none"
    BY DEF Books, BookType, Entered
  <2> QED BY <2>1, RoundTypes, EntryCases
<1> QED BY <1>1, <1>2, <1>3, <1>4, TokensOfOne, NamedByOne

\* A journaled swap still waits, or its output is in the account.
LEMMA SwapReadyFacts ==
    ASSUME Books, NEW r \in Rounds, journal.rounds[r].pending.phase = "swap-ready"
    PROVE  /\ journal.rounds[r].pending.burn = NoSignature /\ Entered(r)
           /\ \/ /\ Waiting(journal.rounds[r], tx, swapped[r], bought[r], burned[r])
                 /\ TokenAmount = 0
                 /\ tx[journal.rounds[r].pending.swap].status # "landed"
              \/ /\ Holding(journal.rounds[r], tx, swapped[r], bought[r], burned[r])
                 /\ TokenAmount > 0
                 /\ tx[journal.rounds[r].pending.swap].status = "landed"
<1>1. Entered(r)
  BY DEF Entered
<1>2. TokenAmount = bought[r] - burned[r] /\ bought[r] \in Nat /\ burned[r] \in Nat
  BY <1>1, EnteredFacts, RoundTypes
<1>3. \/ Waiting(journal.rounds[r], tx, swapped[r], bought[r], burned[r])
      \/ Holding(journal.rounds[r], tx, swapped[r], bought[r], burned[r])
  <2>1. tx \in [Signatures -> TxType]
    BY DEF Books, BookType
  <2> QED BY <2>1, RoundTypes, EntryCases
<1>4. CASE Waiting(journal.rounds[r], tx, swapped[r], bought[r], burned[r])
  BY <1>1, <1>2, <1>4 DEF Waiting
<1>5. CASE Holding(journal.rounds[r], tx, swapped[r], bought[r], burned[r])
  BY <1>1, <1>2, <1>5 DEF Holding
<1> QED BY <1>3, <1>4, <1>5

\* The entry of the round at work is replaced.
LEMMA SaveKeeps ==
    ASSUME BooksInv, NEW k \in Keepers, NEW r \in settled, keeper[k].round = r,
           Quiet(r), r \notin completed, r \notin marks, \A q \in Rounds : q < r => q \in completed,
           NEW e \in EntryType, NEW ts \in [Signatures -> TxType], Save(k, e, ts),
           UNCHANGED <<settled, chain>>,
           evidence' \in [Rounds -> Nat], \A q \in Rounds \ {r} : evidence'[q] = evidence[q],
           EntryIs(e, r, ts, swapped[r], bought[r], burned[r]),
           \A s \in Signatures : CanLand(ts[s]) => s \in {e.pending.swap, e.pending.burn}
    PROVE  Books' /\ journal'.rounds[r] = e
<1>1. journal' = [journal EXCEPT !.rounds[r] = e] /\ tx' = Remember(ts, journal'.rounds)
  BY DEF Save
<1>2. Books
  BY DEF BooksInv
<1> QED BY <1>1, <1>2, EntryKeepsBooks

LEMMA SaveSwappedKeeps ==
    ASSUME BooksInv, LeaseInv, NEW k \in Keepers, keeper[k].pc # "idle",
           NEW r \in Rounds, keeper[k].round = r,
           journal.rounds[r].pending.phase = "swap-ready",
           OutputSeen(k) \/ tx[journal.rounds[r].pending.swap].status = "landed",
           SaveSwapped(k), UNCHANGED <<settled, chain, evidence, lease, deaths>>
    PROVE  BooksInv'
<1> DEFINE d == journal.rounds[r]
<1>1. Books /\ TickTypes
  BY DEF BooksInv
<1>2. SwapNamed(d, r, tx) /\ Holding(d, tx, swapped[r], bought[r], burned[r])
  <2>1. /\ Entered(r)
        /\ \/ TokenAmount = 0 /\ tx[d.pending.swap].status # "landed"
           \/ Holding(d, tx, swapped[r], bought[r], burned[r])
    BY <1>1, SwapReadyFacts
  <2>2. SwapNamed(d, r, tx)
    BY <1>1, <2>1, EnteredFacts
  <2>3. OutputSeen(k) => TokenAmount > 0
    BY <2>2 DEF OutputSeen, Pending, Entry, SwapNamed
  <2> QED BY <2>1, <2>2, <2>3
<1>3. PICK e : e = [d EXCEPT !.pending = [d.pending EXCEPT !.phase = "swapped"]]
  OBVIOUS
<1>4. /\ e \in EntryType /\ e.processed = d.processed /\ e.pending.phase = "swapped"
      /\ e.pending.spend = d.pending.spend /\ e.pending.before = d.pending.before
      /\ e.pending.swap = d.pending.swap /\ e.pending.burn = d.pending.burn
  BY <1>1, <1>3, RoundTypes DEF EntryType, PendingType
<1>5. EntryIs(e, r, tx, swapped[r], bought[r], burned[r])
  BY <1>2, <1>4 DEF EntryIs, SwapNamed, Holding
<1>6. Save(k, e, tx)
  BY <1>3 DEF SaveSwapped, SavePending, Pending, Entry
<1>7. Books' /\ journal'.rounds[r] = e
  <2>1. /\ r \in settled /\ r \notin completed /\ r \notin marks /\ Quiet(r)
        /\ \A q \in Rounds : q < r => q \in completed
        /\ \A s \in Signatures : CanLand(tx[s]) => s \in {e.pending.swap, e.pending.burn}
    BY <1>1, <1>4, SwapReadyFacts, EnteredFacts
  <2>2. tx \in [Signatures -> TxType] /\ evidence' \in [Rounds -> Nat] /\ evidence' = evidence
    BY <1>1 DEF Books, BookType
  <2> QED BY <1>4, <1>5, <1>6, <2>1, <2>2, SaveKeeps
<1>8. At(r, "output")'
  <2>1. r \in settled /\ \A q \in Rounds : q < r => q \in completed
    BY <1>1, SwapReadyFacts, EnteredFacts
  <2> QED BY <1>4, <1>7, <2>1 DEF At, chain
<1>9. TickTypes' /\ Placed'
  <2>1. GoTo(k, "output") /\ "output" \in PCs /\ deaths' \in 0 .. MaxDeaths
    BY <1>1 DEF SaveSwapped, PCs, TickTypes
  <2> QED BY <1>1, <1>8, <2>1, GoToPlaced
<1> QED BY <1>7, <1>9 DEF BooksInv

\* A swap that can no longer land is abandoned.
LEMMA AbandonKeeps ==
    ASSUME BooksInv, LeaseInv, NEW k \in Keepers, keeper[k].pc # "idle",
           NEW r \in Rounds, keeper[k].round = r,
           journal.rounds[r].pending.phase = "swap-ready",
           tx[journal.rounds[r].pending.swap].status # "landed",
           ~CanLand(tx[journal.rounds[r].pending.swap]),
           Abandon(k), UNCHANGED <<settled, chain, evidence, lease, deaths>>
    PROVE  BooksInv'
<1> DEFINE d == journal.rounds[r]
<1>1. Books /\ TickTypes
  BY DEF BooksInv
<1>2. SwapNamed(d, r, tx) /\ Waiting(d, tx, swapped[r], bought[r], burned[r])
  BY <1>1, SwapReadyFacts, EnteredFacts
<1>3. PICK e : e = [d EXCEPT !.pending = NoPending]
  OBVIOUS
<1>4. e \in EntryType /\ e.processed = d.processed /\ e.pending = NoPending
  BY <1>1, <1>3, RoundTypes DEF EntryType, PendingType, NoPending
<1>5. EntryIs(e, r, tx, swapped[r], bought[r], burned[r])
  <2>1. d.processed <= Allocation[r]
    <3>1. d.processed \in Nat /\ d.pending.spend \in Nat /\ Allocation[r] \in Nat
      BY <1>1, RoundTypes DEF PendingType
    <3> QED BY <1>2, <3>1 DEF SwapNamed
  <2> QED BY <1>2, <1>4, <2>1 DEF EntryIs, Clear, Waiting
<1>6. Save(k, e, tx)
  BY <1>3 DEF Abandon, SavePending, Entry
<1>7. Books'
  <2>1. /\ r \in settled /\ r \notin completed /\ r \notin marks /\ Quiet(r)
        /\ \A q \in Rounds : q < r => q \in completed
    BY <1>1, SwapReadyFacts, EnteredFacts
  <2>2. tx \in [Signatures -> TxType] /\ evidence' \in [Rounds -> Nat] /\ evidence' = evidence
    BY <1>1 DEF Books, BookType
  <2>3. ASSUME NEW s \in Signatures, CanLand(tx[s]) PROVE FALSE
    <3>1. s = d.pending.swap
      BY <1>1, <2>3, SwapReadyFacts, EnteredFacts, BuybackAssumption
    <3> QED BY <2>3, <3>1
  <2> QED BY <1>4, <1>5, <1>6, <2>1, <2>2, <2>3, SaveKeeps
<1>8. TickTypes' /\ Placed'
  <2>1. EndTick(k) /\ deaths' \in 0 .. MaxDeaths
    BY <1>1 DEF Abandon, TickTypes
  <2> QED BY <1>1, <2>1, EndTickPlaced
<1> QED BY <1>7, <1>8 DEF BooksInv

\* A step that only moves the keeper on.
LEMMA GoToKeeps ==
    ASSUME BooksInv, LeaseInv, NEW k \in Keepers, keeper[k].pc # "idle",
           NEW r, keeper[k].round = r, NEW pc \in PCs, GoTo(k, pc), At(r, pc),
           UNCHANGED <<settled, chain, tx, journal, evidence, lease, deaths>>
    PROVE  BooksInv'
<1>1. Books' /\ At(r, pc)'
  BY SameBooks DEF BooksInv, At, Entered, Done, chain
<1>2. deaths' \in 0 .. MaxDeaths
  BY DEF BooksInv, TickTypes
<1> QED BY <1>1, <1>2, GoToPlaced DEF BooksInv

LEMMA EndTickKeeps ==
    ASSUME BooksInv, LeaseInv, NEW k \in Keepers, keeper[k].pc # "idle", EndTick(k),
           UNCHANGED <<settled, chain, tx, journal, evidence, lease>>,
           deaths' \in 0 .. MaxDeaths
    PROVE  BooksInv'
BY SameBooks, EndTickPlaced DEF BooksInv

LEMMA TickKeeps ==
    ASSUME BooksInv, NEW k \in Keepers, Tick(k)
    PROVE  BooksInv'
<1> DEFINE t == [pc |-> "select", round |-> NoRound, left |-> TICK_TIMEOUT]
<1>1. Books'
  BY SameBooks DEF BooksInv, Tick
<1>2. keeper' = [keeper EXCEPT ![k] = t] /\ t \in KeeperType /\ t.pc = "select"
  BY BuybackAssumption DEF Tick, KeeperType, PCs
<1>3. TickTypes'
  BY <1>2, BuybackAssumption DEF Tick, BooksInv, TickTypes
<1>4. ASSUME NEW j \in Keepers PROVE At(keeper[j].round, keeper[j].pc)'
  <2>1. CASE j = k
    <3>1. keeper'[j].pc = "select"
      BY <1>2, <2>1 DEF BooksInv, TickTypes
    <3> QED BY <3>1, Zenon DEF At
  <2>2. CASE j # k
    <3>1. keeper'[j] = keeper[j]
      BY <1>2, <2>2 DEF BooksInv, TickTypes
    <3>2. At(keeper[j].round, keeper[j].pc)
      BY DEF BooksInv, Placed
    <3>3. UNCHANGED <<settled, chain, tx, journal, evidence>>
      BY DEF Tick
    <3> QED BY <3>1, <3>2, <3>3 DEF At, Entered, Done, chain
  <2> QED BY <2>1, <2>2
<1> QED BY <1>1, <1>3, <1>4 DEF BooksInv, Placed

\* Of the rows a selection reads, the oldest has none open before it.
LEMMA OldestIsNext ==
    ASSUME Books, NEW stale \in SUBSET completed,
           NEW r \in selectIndexedBuybackRound((settled \ completed) \cup stale)
    PROVE  r \in settled /\ \A q \in Rounds : q < r => q \in completed
<1> DEFINE rows == (settled \ completed) \cup stale
<1>1. r \in rows /\ r >= journal.nextRound /\ \A q \in rows : q >= journal.nextRound => r <= q
  BY DEF selectIndexedBuybackRound, OpenRows
<1>2. r \in settled /\ settled \subseteq Rounds
  BY <1>1 DEF Books, BookType
<1>3. ASSUME NEW q \in Rounds, q < r PROVE q \in completed
  <2>1. q \in settled
    BY <1>2, <1>3 DEF Books, InOrder
  <2>2. q \in Nat /\ r \in Nat /\ journal.nextRound \in Nat
    BY <1>2, BuybackAssumption DEF Books, BookType
  <2>3. CASE q < journal.nextRound
    BY <2>1, <2>3 DEF Books, CursorBehind
  <2>4. CASE q >= journal.nextRound
    BY <1>1, <1>3, <2>1, <2>2, <2>4
  <2> QED BY <2>2, <2>3, <2>4
<1> QED BY <1>2, <1>3

\* The cursor moves past a completed round.
LEMMA CursorKeepsBooks ==
    ASSUME Books, NEW r \in completed, \A q \in Rounds : q < r => q \in completed,
           journal' = [journal EXCEPT !.nextRound = r + 1],
           UNCHANGED <<settled, chain, tx, evidence>>
    PROVE  Books'
<1>1. r \in Rounds /\ r \in Nat
  BY BuybackAssumption DEF Books, BookType
<1>2. journal'.nextRound = r + 1 /\ journal'.rounds = journal.rounds
  BY DEF Books, BookType
<1>3. BookType'
  BY <1>1 DEF Books, BookType, chain
<1>4. CursorBehind'
  <2> SUFFICES ASSUME NEW q \in Rounds, q < r + 1 PROVE q \in completed
    BY <1>2 DEF CursorBehind, chain
  <2>1. q \in Nat
    BY BuybackAssumption DEF Books, BookType
  <2> QED BY <1>1, <2>1
<1>5. EntriesSound' /\ InOrder' /\ OnlyNamed' /\ MarksDone'
  BY <1>2 DEF Books, EntriesSound, InOrder, OnlyNamed, MarksDone, Entered, Done, chain
<1> QED BY <1>3, <1>4, <1>5 DEF Books

LEMMA SelectKeeps ==
    ASSUME BooksInv, LeaseInv, NEW k \in Keepers, Select(k)
    PROVE  BooksInv'
<1>1. /\ keeper[k].pc # "idle" /\ UNCHANGED lease /\ deaths' \in 0 .. MaxDeaths
      /\ UNCHANGED <<settled, chain, tx, evidence>> /\ Books /\ TickTypes
  BY DEF Select, BooksInv, TickTypes
<1>2. CASE EndTick(k) /\ UNCHANGED journal
  BY <1>1, <1>2, EndTickKeeps
<1>3. ASSUME NEW stale \in SUBSET completed,
             NEW r \in selectIndexedBuybackRound((settled \ completed) \cup stale),
             r \in completed, EndTick(k), journal' = [journal EXCEPT !.nextRound = r + 1]
      PROVE  BooksInv'
  <2>1. \A q \in Rounds : q < r => q \in completed
    BY <1>1, OldestIsNext
  <2>2. Books'
    BY <1>1, <1>3, <2>1, CursorKeepsBooks
  <2> QED BY <1>1, <1>3, <2>2, EndTickPlaced DEF BooksInv
<1>4. ASSUME NEW stale \in SUBSET completed,
             NEW r \in selectIndexedBuybackRound((settled \ completed) \cup stale),
             r \notin completed, UNCHANGED journal,
             keeper' = [keeper EXCEPT ![k] = [keeper[k] EXCEPT !.round = r, !.pc =
                           IF journal.rounds[r].pending.phase = "none" THEN "plan" ELSE "recover"]]
      PROVE  BooksInv'
  <2>1. r \in settled /\ r \in Rounds /\ \A q \in Rounds : q < r => q \in completed
    BY <1>1, OldestIsNext DEF Books, BookType
  <2>2. PICK pc \in PCs :
           pc = IF journal.rounds[r].pending.phase = "none" THEN "plan" ELSE "recover"
    BY DEF PCs
  <2>3. PICK left \in 0 .. TICK_TIMEOUT : left = keeper[k].left
    BY <1>1 DEF TickTypes, KeeperType
  <2>4. keeper' = [keeper EXCEPT ![k] = [pc |-> pc, round |-> r, left |-> left]]
    <3>1. keeper[k] \in KeeperType
      BY <1>1 DEF TickTypes
    <3>2. PICK u : u = [keeper[k] EXCEPT !.round = r]
      OBVIOUS
    <3>3. u \in KeeperType /\ u.round = r /\ u.left = left
      BY <2>1, <2>3, <3>1, <3>2 DEF KeeperType
    <3>4. [u EXCEPT !.pc = pc] = [pc |-> pc, round |-> r, left |-> left]
      BY <3>3 DEF KeeperType
    <3>5. [keeper[k] EXCEPT !.round = r, !.pc = pc] = [u EXCEPT !.pc = pc]
      BY <3>1, <3>2 DEF KeeperType
    <3> QED BY <1>4, <2>2, <3>4, <3>5
  <2>5. Books' /\ At(r, pc)'
    BY <1>1, <1>4, <2>1, <2>2, SameBooks DEF At, Entered, chain
  <2>6. TickTypes' /\ Placed'
    BY <1>1, <2>1, <2>4, <2>5, PlacedStays
  <2> QED BY <2>5, <2>6 DEF BooksInv
<1> QED BY <1>2, <1>3, <1>4 DEF Select

\* The spend is one of three amounts, and at most what is left of the allocation.
LEMMA SpendBounded ==
    ASSUME Books, NEW k \in Keepers, NEW r \in Rounds, keeper[k].round = r,
           ~(calculateSpend(k) < MIN_BUYBACK)
    PROVE  calculateSpend(k) \in Nat \ {0} /\ calculateSpend(k) <= Remaining(k)
<1> DEFINE T == {MAX_BUYBACK, Remaining(k), Balance}
<1>1. MAX_BUYBACK \in Int /\ Remaining(k) \in Int /\ Balance \in Int
  <2>1. Remaining(k) \in Int
    BY RoundTypes DEF Remaining, Entry
  <2>2. SumOf(Allocation, settled) \in Nat
    <3>1. IsFiniteSet(settled) /\ \A q \in settled : Allocation[q] \in Nat
      BY BuybackAssumption, FS_Subset DEF Books, BookType
    <3> QED BY <3>1, SumType
  <2>3. SumOf(swapped, Rounds) \in Nat
    <3>1. IsFiniteSet(Rounds) /\ \A q \in Rounds : swapped[q] \in Nat
      BY BuybackAssumption DEF Books, BookType
    <3> QED BY <3>1, SumType
  <2>4. Balance = SumOf(Allocation, settled) - SumOf(swapped, Rounds)
    BY DEF Balance, Total, SumOf
  <2> QED BY <2>1, <2>2, <2>3, <2>4, BuybackAssumption
<1>2. \E x \in T : \A y \in T : x <= y
  <2> HIDE DEF Balance, Remaining
  <2> QED BY <1>1
<1>3. Min(T) \in T /\ \A y \in T : Min(T) <= y
  <2> HIDE DEF T
  <2> QED BY <1>2 DEF Min
<1>4. calculateSpend(k) = Min(T)
  BY DEF calculateSpend
<1> QED BY <1>1, <1>3, <1>4, BuybackAssumption

LEMMA PlanSwapKeeps ==
    ASSUME BooksInv, LeaseInv, Regular, NEW k \in Keepers, PlanSwap(k)
    PROVE  BooksInv'
<1>1. /\ keeper[k].pc = "plan" /\ UNCHANGED <<settled, chain, lease, deaths>>
      /\ Books /\ TickTypes /\ deaths' \in 0 .. MaxDeaths
  BY DEF PlanSwap, BooksInv, TickTypes
<1>2. PICK r \in settled : /\ r = keeper[k].round /\ r \in Rounds
                           /\ At(r, "plan") /\ \A q \in Rounds : q < r => q \in completed
  BY <1>1, AtWork
<1> DEFINE d == journal.rounds[r]
<1>3. ~Entered(r) /\ Clear(d, r, swapped[r], bought[r], burned[r]) /\ d.processed \in Nat
      /\ Allocation[r] \in Nat
  <2>1. ~Entered(r) /\ d.pending.phase = "none" /\ tx \in [Signatures -> TxType]
    BY <1>1, <1>2 DEF At, Entered, Books, BookType
  <2> QED BY <1>1, <1>2, <2>1, RoundTypes, EntryCases
<1>4. Remaining(k) = Allocation[r] - d.processed
  BY <1>2 DEF Remaining, Entry
<1>5. evidence' = [evidence EXCEPT ![r] = d.processed]
  BY <1>2 DEF PlanSwap, Entry
<1>6. ASSUME UNCHANGED <<journal, tx>> PROVE Books' /\ evidence'[r] = d.processed
  <2>1. Done(r) => d.processed = Allocation[r]
    BY DEF Done
  <2>2. marks \subseteq settled /\ marks' = marks
    BY <1>1 DEF Books, BookType, chain
  <2>3. evidence'[r] = d.processed
    BY <1>1, <1>2, <1>5 DEF Books, BookType
  <2> QED BY <1>1, <1>2, <1>3, <1>5, <1>6, <2>1, <2>2, <2>3, EvidenceKeepsBooks DEF chain
<1>7. CASE Remaining(k) = 0
  <2>1. GoTo(k, "mark") /\ UNCHANGED <<journal, tx>>
    BY <1>7 DEF PlanSwap
  <2>2. Done(r) /\ d.processed = Allocation[r]
    BY <1>3, <1>4, <1>7 DEF Done
  <2>3. At(r, "mark")'
    BY <1>1, <1>2, <1>6, <2>1, <2>2 DEF At, Done, Entered, chain
  <2>4. TickTypes' /\ Placed'
    BY <1>1, <1>2, <2>1, <2>3, GoToPlaced DEF PCs
  <2> QED BY <1>6, <2>1, <2>4 DEF BooksInv
<1>8. CASE Remaining(k) # 0 /\ calculateSpend(k) < MIN_BUYBACK
  <2>1. EndTick(k) /\ UNCHANGED <<journal, tx>>
    BY <1>8 DEF PlanSwap
  <2> QED BY <1>1, <1>6, <2>1, EndTickPlaced DEF BooksInv
<1>9. CASE Remaining(k) # 0 /\ ~(calculateSpend(k) < MIN_BUYBACK)
  <2>1. PICK n \in Nat \ {0} : n = calculateSpend(k) /\ n <= Allocation[r] - d.processed
    BY <1>1, <1>2, <1>4, <1>9, SpendBounded
  <2>2. r \notin completed /\ r \notin marks /\ Quiet(r)
    <3>1. ~Done(r)
      BY <1>3, <1>4, <1>9 DEF Done
    <3>2. r \notin completed /\ r \notin marks
      BY <1>1, <3>1 DEF Books, MarksDone
    <3> QED BY <1>1, <1>2, <3>2, NoOtherEntered DEF Quiet
  <2>3. TokenAmount = 0 /\ \A s \in Signatures : tx[s] = NoTx
    <3>1. TokenAmount = bought[r] - burned[r] /\ bought[r] \in Nat /\ burned[r] \in Nat
      BY <1>1, <1>2, <2>2, TokensOfOne, RoundTypes
    <3>2. d.pending = NoPending /\ burned[r] = bought[r]
      BY <1>3 DEF Clear
    <3>3. ASSUME NEW s \in Signatures, tx[s] # NoTx PROVE FALSE
      BY <1>1, <1>2, <2>2, <3>2, <3>3, NamedByOne, BuybackAssumption DEF NoPending
    <3> QED BY <3>1, <3>2, <3>3
  <2>4. PICK f \in Signatures : f = Fresh
    BY <2>3, FreshIsFree
  <2>5. PICK t : t = [ kind |-> "swap", round |-> r, amount |-> n,
                       status |-> "signed", left |-> BLOCKHASH_VALIDITY ]
    OBVIOUS
  <2>6. PICK p : p = [ phase |-> "swap-ready", spend |-> n, before |-> 0,
                       swap |-> f, burn |-> NoSignature ]
    OBVIOUS
  <2>7. t \in TxType /\ p \in PendingType
    BY <1>2, <2>1, <2>5, <2>6, BuybackAssumption DEF TxType, PendingType
  <2>8. PICK ts : ts = [tx EXCEPT ![f] = t]
    OBVIOUS
  <2>9. PICK e : e = [d EXCEPT !.pending = p]
    OBVIOUS
  <2>10. e \in EntryType /\ e.processed = d.processed /\ e.pending = p
    BY <1>1, <1>2, <2>7, <2>9, RoundTypes DEF EntryType
  <2>11. ts \in [Signatures -> TxType] /\ ts[f] = t /\ \A s \in Signatures \ {f} : ts[s] = NoTx
    BY <1>1, <2>3, <2>7, <2>8 DEF Books, BookType
  <2>12. Save(k, e, ts) /\ GoTo(k, "recover")
    <3>1. /\ SavePending(k, [ phase |-> "swap-ready", spend |-> calculateSpend(k),
                              before |-> TokenAmount, swap |-> Fresh, burn |-> NoSignature ],
                         Signed(k, "swap", calculateSpend(k)))
          /\ GoTo(k, "recover")
      BY <1>9 DEF PlanSwap
    <3>2. SavePending(k, p, Signed(k, "swap", n))
      BY <2>1, <2>3, <2>4, <2>6, <3>1
    <3>3. Signed(k, "swap", n) = ts
      BY <1>2, <2>4, <2>5, <2>8 DEF Signed
    <3>4. [Entry(k) EXCEPT !.pending = p] = e
      BY <1>2, <2>9 DEF Entry
    <3> QED BY <3>1, <3>2, <3>3, <3>4 DEF SavePending
  <2>13. EntryIs(e, r, ts, swapped[r], bought[r], burned[r])
    <3>1. e.processed + n <= Allocation[r]
      BY <1>3, <2>1, <2>10
    <3>2. SwapNamed(e, r, ts)
      BY <2>1, <2>5, <2>6, <2>10, <2>11, <3>1 DEF SwapNamed
    <3>3. Waiting(e, ts, swapped[r], bought[r], burned[r])
      BY <1>3, <2>5, <2>6, <2>10, <2>11 DEF Waiting, Clear
    <3> QED BY <3>2, <3>3 DEF EntryIs
  <2>14. \A s \in Signatures : CanLand(ts[s]) => s \in {e.pending.swap, e.pending.burn}
    BY <2>6, <2>10, <2>11 DEF CanLand, NoTx
  <2>15. evidence' \in [Rounds -> Nat] /\ \A q \in Rounds \ {r} : evidence'[q] = evidence[q]
    BY <1>1, <1>3, <1>5 DEF Books, BookType
  <2>16. Books' /\ journal'.rounds[r] = e
    BY <1>1, <1>2, <2>2, <2>10, <2>11, <2>12, <2>13, <2>14, <2>15, SaveKeeps
  <2>17. At(r, "recover")'
    BY <1>1, <1>2, <2>6, <2>10, <2>16 DEF At, Entered, chain
  <2>18. TickTypes' /\ Placed'
    BY <1>1, <1>2, <2>12, <2>17, GoToPlaced DEF PCs
  <2> QED BY <2>16, <2>18 DEF BooksInv
<1> QED BY <1>7, <1>8, <1>9

LEMMA RecoverKeeps ==
    ASSUME BooksInv, LeaseInv, NEW k \in Keepers, Recover(k)
    PROVE  BooksInv'
<1>1. /\ keeper[k].pc = "recover" /\ UNCHANGED <<settled, chain, evidence, lease, deaths>>
      /\ Books /\ TickTypes
  BY DEF Recover, BooksInv
<1>2. PICK r \in settled : /\ r = keeper[k].round /\ r \in Rounds
                           /\ At(r, "recover") /\ \A q \in Rounds : q < r => q \in completed
  BY <1>1, AtWork
<1>3. Pending(k) = journal.rounds[r].pending /\ Entered(r)
      /\ journal.rounds[r].pending \in PendingType
  BY <1>1, <1>2, RoundTypes DEF Pending, Entry, At
<1>4. CASE Pending(k).phase # "swap-ready"
  <2>1. GoTo(k, "output") /\ UNCHANGED <<journal, tx>>
    BY <1>4 DEF Recover
  <2>2. At(r, "output") /\ "output" \in PCs
    BY <1>2, <1>3, <1>4 DEF At, Entered, PendingType, PCs
  <2> QED BY <1>1, <1>2, <2>1, <2>2, GoToKeeps
<1>5. CASE Pending(k).phase = "swap-ready" /\ OutputSeen(k)
  <2>1. SaveSwapped(k)
    BY <1>5 DEF Recover
  <2> QED BY <1>1, <1>2, <1>3, <1>5, <2>1, SaveSwappedKeeps
<1>6. CASE Pending(k).phase = "swap-ready" /\ ~OutputSeen(k)
  <2>1. GoTo(k, "send_swap") /\ UNCHANGED <<journal, tx>>
    BY <1>6 DEF Recover
  <2>2. At(r, "send_swap") /\ "send_swap" \in PCs
    BY <1>2, <1>3, <1>6 DEF At, PCs
  <2> QED BY <1>1, <1>2, <2>1, <2>2, GoToKeeps
<1> QED BY <1>4, <1>5, <1>6

\* Sending the journaled transaction leaves the books as they are.
LEMMA SubmitKeeps ==
    ASSUME Books, NEW r \in Rounds, Entered(r), NEW s \in Signatures,
           s \in {journal.rounds[r].pending.swap, journal.rounds[r].pending.burn},
           Submit(s), UNCHANGED <<settled, chain, journal, evidence>>
    PROVE  Books'
<1> DEFINE d == journal.rounds[r]
<1>1. CASE UNCHANGED tx
  BY <1>1, SameBooks
<1>2. CASE tx[s].status = "signed" /\ tx' = [tx EXCEPT ![s].status = "sent"]
  <2>1. tx \in [Signatures -> TxType] /\ tx[s] \in TxType
    BY DEF Books, BookType
  <2>2. PICK t : t = [tx[s] EXCEPT !.status = "sent"]
    OBVIOUS
  <2>3. /\ t \in TxType /\ t.kind = tx[s].kind /\ t.round = tx[s].round
        /\ t.amount = tx[s].amount /\ t.status = "sent"
    BY <2>1, <2>2 DEF TxType
  <2>4. tx' = [tx EXCEPT ![s] = t]
    BY <1>2, <2>2
  <2>5. tx' \in [Signatures -> TxType] /\ tx'[s] = t /\ \A u \in Signatures \ {s} : tx'[u] = tx[u]
    BY <2>1, <2>3, <2>4
  <2>6. SwapNamed(d, r, tx) /\ d.pending.phase # "none" /\ d \in EntryType /\ d.pending \in PendingType
    BY EnteredFacts, RoundTypes
  <2>7. SwapNamed(d, r, tx')
    BY <2>3, <2>5, <2>6 DEF SwapNamed
  <2>8. EntryIs(d, r, tx', swapped[r], bought[r], burned[r])
    <3>1. \/ Waiting(d, tx, swapped[r], bought[r], burned[r])
          \/ Holding(d, tx, swapped[r], bought[r], burned[r])
          \/ Burning(d, r, tx, swapped[r], bought[r], burned[r])
      BY <2>1, <2>6, RoundTypes DEF EntryIs, Clear, NoPending
    <3>2. CASE Waiting(d, tx, swapped[r], bought[r], burned[r])
      <4>1. Waiting(d, tx', swapped[r], bought[r], burned[r])
        BY <2>3, <2>5, <2>6, <3>2 DEF Waiting, SwapNamed
      <4> QED BY <2>7, <4>1 DEF EntryIs
    <3>3. CASE Holding(d, tx, swapped[r], bought[r], burned[r])
      <4>1. s = d.pending.swap
        BY <3>3, BuybackAssumption DEF Holding
      <4> QED BY <1>2, <3>3, <4>1 DEF Holding
    <3>4. CASE Burning(d, r, tx, swapped[r], bought[r], burned[r])
      <4>1. s = d.pending.burn
        BY <1>2, <3>4 DEF Burning
      <4>2. Burning(d, r, tx', swapped[r], bought[r], burned[r])
        <5>1. tx'[d.pending.burn] = t /\ tx[d.pending.burn] = tx[s] /\ t.amount = tx[d.pending.burn].amount
          BY <2>3, <2>5, <4>1
        <5>2. tx'[d.pending.swap] = tx[d.pending.swap]
          BY <2>5, <2>6, <3>4, <4>1 DEF Burning, SwapNamed
        <5>3. tx[d.pending.burn].status = "signed" /\ t.status = "sent" /\ t.kind = "burn" /\ t.round = r
          BY <1>2, <2>3, <3>4, <4>1 DEF Burning
        <5> HIDE DEF d
        <5> QED BY <3>4, <5>1, <5>2, <5>3 DEF Burning
      <4> QED BY <2>7, <4>2 DEF EntryIs
    <3> QED BY <3>1, <3>2, <3>3, <3>4
  <2>9. \A u \in Signatures : tx'[u] # NoTx => tx[u] # NoTx
    BY <1>2, <2>5 DEF NoTx
  <2>10. Quiet(r) /\ bought' \in [Rounds -> Nat] /\ burned' \in [Rounds -> Nat]
         /\ swapped' \in [Rounds -> Nat]
    BY EnteredFacts DEF Books, BookType, chain
  <2>11. UNCHANGED <<settled, completed, marks, journal, evidence>> /\ UNCHANGED <<swapped, bought, burned>>
    BY DEF chain
  <2> QED BY <2>5, <2>8, <2>9, <2>10, <2>11, LandingKeepsBooks
<1> QED BY <1>1, <1>2 DEF Submit

LEMMA SendSwapKeeps ==
    ASSUME BooksInv, LeaseInv, NEW k \in Keepers, SendSwap(k)
    PROVE  BooksInv'
<1>1. /\ keeper[k].pc = "send_swap" /\ UNCHANGED <<settled, chain, journal, evidence, lease, deaths>>
      /\ Books /\ TickTypes /\ deaths' \in 0 .. MaxDeaths
  BY DEF SendSwap, BooksInv, TickTypes
<1>2. PICK r \in settled : /\ r = keeper[k].round /\ r \in Rounds
                           /\ At(r, "send_swap") /\ \A q \in Rounds : q < r => q \in completed
  BY <1>1, AtWork
<1>3. Pending(k) = journal.rounds[r].pending /\ Entered(r) /\ Pending(k).phase = "swap-ready"
  BY <1>2 DEF Pending, Entry, At, Entered
<1>4. Books'
  <2>1. Pending(k).swap \in Signatures
    BY <1>1, <1>2, <1>3, EnteredFacts DEF SwapNamed
  <2>2. Submit(Pending(k).swap)
    BY DEF SendSwap
  <2> QED BY <1>1, <1>2, <1>3, <2>1, <2>2, SubmitKeeps
<1>5. PICK pc \in {"confirm_swap", "verdict"} : GoTo(k, pc)
  BY DEF SendSwap
<1>6. At(r, pc)' /\ pc \in PCs
  BY <1>1, <1>2, <1>3, <1>5 DEF At, chain, PCs
<1>7. TickTypes' /\ Placed'
  BY <1>1, <1>2, <1>5, <1>6, GoToPlaced
<1> QED BY <1>4, <1>7 DEF BooksInv

LEMMA ConfirmSwapKeeps ==
    ASSUME BooksInv, LeaseInv, NEW k \in Keepers, ConfirmSwap(k)
    PROVE  BooksInv'
<1>1. /\ keeper[k].pc = "confirm_swap" /\ UNCHANGED <<settled, chain, evidence, lease, deaths>>
      /\ Books /\ TickTypes
  BY DEF ConfirmSwap, BooksInv
<1>2. PICK r \in settled : /\ r = keeper[k].round /\ r \in Rounds
                           /\ At(r, "confirm_swap") /\ \A q \in Rounds : q < r => q \in completed
  BY <1>1, AtWork
<1>3. Pending(k) = journal.rounds[r].pending /\ Pending(k).phase = "swap-ready"
  BY <1>2 DEF Pending, Entry, At
<1>4. CASE tx[Pending(k).swap].status = "landed" /\ SaveSwapped(k)
  BY <1>1, <1>2, <1>3, <1>4, SaveSwappedKeeps
<1>5. CASE GoTo(k, "verdict") /\ UNCHANGED <<journal, tx>>
  <2>1. At(r, "verdict") /\ "verdict" \in PCs
    BY <1>2, <1>3 DEF At, PCs
  <2> QED BY <1>1, <1>2, <1>5, <2>1, GoToKeeps
<1> QED BY <1>4, <1>5 DEF ConfirmSwap

LEMMA ReadStatusKeeps ==
    ASSUME BooksInv, LeaseInv, NEW k \in Keepers, ReadStatus(k)
    PROVE  BooksInv'
<1>1. /\ keeper[k].pc = "verdict" /\ UNCHANGED <<settled, chain, evidence, lease, deaths>>
      /\ Books /\ TickTypes /\ deaths' \in 0 .. MaxDeaths
  BY DEF ReadStatus, BooksInv, TickTypes
<1>2. PICK r \in settled : /\ r = keeper[k].round /\ r \in Rounds
                           /\ At(r, "verdict") /\ \A q \in Rounds : q < r => q \in completed
  BY <1>1, AtWork
<1>3. Pending(k) = journal.rounds[r].pending /\ Pending(k).phase = "swap-ready"
  BY <1>2 DEF Pending, Entry, At
<1>4. CASE OutputSeen(k)
  <2>1. SaveSwapped(k)
    BY <1>4 DEF ReadStatus
  <2> QED BY <1>1, <1>2, <1>3, <1>4, <2>1, SaveSwappedKeeps
<1>5. CASE ~OutputSeen(k) /\ tx[Pending(k).swap].status = "failed"
  <2>1. Abandon(k)
    BY <1>5 DEF ReadStatus
  <2>2. ~CanLand(tx[Pending(k).swap])
    BY <1>5 DEF CanLand
  <2> QED BY <1>1, <1>2, <1>3, <1>5, <2>1, <2>2, AbandonKeeps
<1>6. CASE ~OutputSeen(k) /\ tx[Pending(k).swap].status = "landed"
  <2>1. EndTick(k) /\ UNCHANGED <<journal, tx>>
    BY <1>6 DEF ReadStatus
  <2> QED BY <1>1, <2>1, EndTickKeeps
<1>7. CASE ~OutputSeen(k) /\ tx[Pending(k).swap].status \notin {"failed", "landed"}
  <2>1. GoTo(k, "height") /\ UNCHANGED <<journal, tx>>
    BY <1>7 DEF ReadStatus
  <2>2. At(r, "height") /\ "height" \in PCs
    BY <1>2, <1>3, <1>7 DEF At, PCs
  <2> QED BY <1>1, <1>2, <2>1, <2>2, GoToKeeps
<1> QED BY <1>4, <1>5, <1>6, <1>7

LEMMA ReadHeightKeeps ==
    ASSUME BooksInv, LeaseInv, NEW k \in Keepers, ReadHeight(k)
    PROVE  BooksInv'
<1>1. /\ keeper[k].pc = "height" /\ UNCHANGED <<settled, chain, evidence, lease, deaths>>
      /\ Books /\ TickTypes /\ deaths' \in 0 .. MaxDeaths
  BY DEF ReadHeight, BooksInv, TickTypes
<1>2. PICK r \in settled : /\ r = keeper[k].round /\ r \in Rounds
                           /\ At(r, "height") /\ \A q \in Rounds : q < r => q \in completed
  BY <1>1, AtWork
<1>3. Pending(k) = journal.rounds[r].pending /\ Pending(k).phase = "swap-ready"
      /\ tx[Pending(k).swap].status # "landed"
  BY <1>2 DEF Pending, Entry, At
<1>4. CASE pendingSwapIsProvablyExpired(k)
  <2>1. Abandon(k)
    BY <1>4 DEF ReadHeight
  <2>2. ~CanLand(tx[Pending(k).swap])
    BY <1>4 DEF CanLand, pendingSwapIsProvablyExpired
  <2> QED BY <1>1, <1>2, <1>3, <2>1, <2>2, AbandonKeeps
<1>5. CASE ~pendingSwapIsProvablyExpired(k)
  <2>1. EndTick(k) /\ UNCHANGED <<journal, tx>>
    BY <1>5 DEF ReadHeight
  <2> QED BY <1>1, <2>1, EndTickKeeps
<1> QED BY <1>4, <1>5

\* What an entry whose output is in the account, or was, says.
LEMMA OutputFacts ==
    ASSUME Books, NEW r \in Rounds, journal.rounds[r].pending.phase \in {"swapped", "burn-ready"}
    PROVE  /\ Entered(r)
           /\ journal.rounds[r].pending.phase = "swapped" =>
                 /\ Holding(journal.rounds[r], tx, swapped[r], bought[r], burned[r])
                 /\ journal.rounds[r].pending.burn = NoSignature
           /\ journal.rounds[r].pending.phase = "burn-ready" =>
                 /\ Burning(journal.rounds[r], r, tx, swapped[r], bought[r], burned[r])
                 /\ journal.rounds[r].pending.burn \in Signatures
                 /\ journal.rounds[r].pending.burn # NoSignature
<1>1. Entered(r) /\ tx \in [Signatures -> TxType]
  BY DEF Entered, Books, BookType
<1>2. /\ journal.rounds[r] \in EntryType
      /\ swapped[r] \in Nat /\ bought[r] \in Nat /\ burned[r] \in Nat
      /\ EntryIs(journal.rounds[r], r, tx, swapped[r], bought[r], burned[r])
  BY RoundTypes
<1>3. /\ journal.rounds[r].pending.phase = "swapped" =>
            Holding(journal.rounds[r], tx, swapped[r], bought[r], burned[r])
      /\ journal.rounds[r].pending.phase = "burn-ready" =>
            Burning(journal.rounds[r], r, tx, swapped[r], bought[r], burned[r])
  BY <1>1, <1>2, EntryCases
<1> QED BY <1>1, <1>3, BuybackAssumption DEF Holding, Burning

LEMMA AwaitOutputKeeps ==
    ASSUME BooksInv, LeaseInv, Regular, NEW k \in Keepers, AwaitOutput(k)
    PROVE  BooksInv'
<1>1. /\ keeper[k].pc = "output" /\ UNCHANGED <<settled, chain, evidence, lease, deaths>>
      /\ Books /\ TickTypes /\ deaths' \in 0 .. MaxDeaths
  BY DEF AwaitOutput, BooksInv, TickTypes
<1>2. PICK r \in settled : /\ r = keeper[k].round /\ r \in Rounds
                           /\ At(r, "output") /\ \A q \in Rounds : q < r => q \in completed
  BY <1>1, AtWork
<1> DEFINE d == journal.rounds[r]
<1>3. Pending(k) = d.pending /\ d.pending.phase \in {"swapped", "burn-ready"} /\ d.pending.before = 0
  BY <1>1, <1>2, OutputFacts, EnteredFacts DEF Pending, Entry, At, SwapNamed
<1>4. CASE ~OutputSeen(k)
  <2>1. EndTick(k) /\ UNCHANGED <<journal, tx>>
    BY <1>4 DEF AwaitOutput
  <2> QED BY <1>1, <2>1, EndTickKeeps
<1>5. CASE OutputSeen(k) /\ Pending(k).burn # NoSignature
  <2>1. GoTo(k, "send_burn") /\ UNCHANGED <<journal, tx>>
    BY <1>5 DEF AwaitOutput
  <2>2. d.pending.phase = "burn-ready"
    BY <1>1, <1>2, <1>3, <1>5, OutputFacts
  <2>3. At(r, "send_burn") /\ "send_burn" \in PCs
    BY <1>2, <2>2 DEF At, PCs
  <2> QED BY <1>1, <1>2, <2>1, <2>3, GoToKeeps
<1>6. CASE OutputSeen(k) /\ Pending(k).burn = NoSignature
  <2>1. d.pending.phase = "swapped" /\ Holding(d, tx, swapped[r], bought[r], burned[r])
    BY <1>1, <1>2, <1>3, <1>6, OutputFacts
  <2>2. /\ r \notin completed /\ r \notin marks /\ Quiet(r) /\ SwapNamed(d, r, tx)
        /\ TokenAmount = bought[r] - burned[r] /\ bought[r] \in Nat /\ burned[r] \in Nat
    BY <1>1, <1>2, <1>3, OutputFacts, EnteredFacts, RoundTypes
  <2>3. PICK n \in Nat \ {0} : n = BurnAmount(k) /\ n = bought[r] - burned[r]
    BY <1>3, <2>1, <2>2 DEF BurnAmount, Holding
  <2>4. \A u \in Signatures : tx[u] # NoTx => u = d.pending.swap
    BY <1>1, <1>2, <1>3, <1>6, <2>2, NamedByOne, BuybackAssumption
  <2>5. tx[d.pending.swap] # NoTx
    BY <2>2 DEF SwapNamed, NoTx
  <2>6. PICK f \in Signatures : f = Fresh /\ f # d.pending.swap
    BY <2>4, <2>5, FreshIsFree
  <2>7. PICK t : t = [ kind |-> "burn", round |-> r, amount |-> n,
                       status |-> "signed", left |-> BLOCKHASH_VALIDITY ]
    OBVIOUS
  <2>8. PICK p : p = [d.pending EXCEPT !.phase = "burn-ready", !.burn = f]
    OBVIOUS
  <2>9. /\ t \in TxType /\ p \in PendingType /\ p.phase = "burn-ready" /\ p.burn = f
        /\ p.swap = d.pending.swap /\ p.spend = d.pending.spend /\ p.before = 0
    <3>1. d.pending \in PendingType /\ t \in TxType
      BY <1>1, <1>2, <2>7, RoundTypes, BuybackAssumption DEF TxType
    <3>2. PICK q : q = [d.pending EXCEPT !.phase = "burn-ready"]
      OBVIOUS
    <3>3. q \in PendingType /\ q.phase = "burn-ready" /\ q.swap = d.pending.swap
          /\ q.spend = d.pending.spend /\ q.before = 0
      BY <1>3, <3>1, <3>2 DEF PendingType
    <3>4. p = [q EXCEPT !.burn = f]
      BY <2>8, <3>1, <3>2 DEF PendingType
    <3> QED BY <3>1, <3>3, <3>4 DEF PendingType
  <2>10. PICK ts : ts = [tx EXCEPT ![f] = t]
    OBVIOUS
  <2>11. PICK e : e = [d EXCEPT !.pending = p]
    OBVIOUS
  <2>12. e \in EntryType /\ e.processed = d.processed /\ e.pending = p
    BY <1>1, <1>2, <2>9, <2>11, RoundTypes DEF EntryType
  <2>13. /\ ts \in [Signatures -> TxType] /\ ts[f] = t
         /\ \A s \in Signatures \ {f} : ts[s] = tx[s]
    BY <1>1, <2>9, <2>10 DEF Books, BookType
  <2>14. Save(k, e, ts) /\ GoTo(k, "send_burn")
    <3>1. /\ SavePending(k, [Pending(k) EXCEPT !.phase = "burn-ready", !.burn = Fresh],
                         Signed(k, "burn", BurnAmount(k)))
          /\ GoTo(k, "send_burn")
      BY <1>6 DEF AwaitOutput
    <3>2. SavePending(k, p, Signed(k, "burn", n))
      BY <1>3, <2>3, <2>6, <2>8, <3>1
    <3>3. Signed(k, "burn", n) = ts
      BY <1>2, <2>6, <2>7, <2>10 DEF Signed
    <3>4. [Entry(k) EXCEPT !.pending = p] = e
      BY <1>2, <2>11 DEF Entry
    <3> QED BY <3>1, <3>2, <3>3, <3>4 DEF SavePending
  <2>15. EntryIs(e, r, ts, swapped[r], bought[r], burned[r])
    <3>1. d.pending.swap \in Signatures \ {f}
      BY <2>2, <2>6 DEF SwapNamed
    <3>2. ts[d.pending.swap] = tx[d.pending.swap]
      BY <2>13, <3>1
    <3>3. SwapNamed(e, r, ts)
      BY <2>2, <2>9, <2>12, <3>2 DEF SwapNamed
    <3>4. burned[r] + n = bought[r] /\ n > 0
      BY <2>2, <2>3
    <3>5. Burning(e, r, ts, swapped[r], bought[r], burned[r])
      BY <2>1, <2>6, <2>7, <2>9, <2>12, <2>13, <3>2, <3>4 DEF Burning, Holding
    <3> QED BY <3>3, <3>5 DEF EntryIs
  <2>16. \A s \in Signatures : CanLand(ts[s]) => s \in {e.pending.swap, e.pending.burn}
    <3>1. \A s \in Signatures : CanLand(tx[s]) => s = d.pending.swap
      BY <2>4 DEF CanLand, NoTx
    <3> QED BY <2>9, <2>12, <2>13, <3>1
  <2>17. evidence' \in [Rounds -> Nat] /\ \A q \in Rounds \ {r} : evidence'[q] = evidence[q]
    BY <1>1 DEF Books, BookType
  <2>18. Books' /\ journal'.rounds[r] = e
    BY <1>1, <1>2, <2>2, <2>12, <2>13, <2>14, <2>15, <2>16, <2>17, SaveKeeps
  <2>19. At(r, "send_burn")'
    BY <1>1, <1>2, <2>9, <2>12, <2>18 DEF At, chain
  <2>20. TickTypes' /\ Placed'
    BY <1>1, <1>2, <2>14, <2>19, GoToPlaced DEF PCs
  <2> QED BY <2>18, <2>20 DEF BooksInv
<1> QED BY <1>4, <1>5, <1>6

LEMMA SendBurnKeeps ==
    ASSUME BooksInv, LeaseInv, NEW k \in Keepers, SendBurn(k)
    PROVE  BooksInv'
<1>1. /\ keeper[k].pc = "send_burn" /\ UNCHANGED <<settled, chain, journal, evidence, lease, deaths>>
      /\ Books /\ TickTypes /\ deaths' \in 0 .. MaxDeaths /\ GoTo(k, "confirm_burn")
  BY DEF SendBurn, BooksInv, TickTypes
<1>2. PICK r \in settled : /\ r = keeper[k].round /\ r \in Rounds
                           /\ At(r, "send_burn") /\ \A q \in Rounds : q < r => q \in completed
  BY <1>1, AtWork
<1>3. Pending(k) = journal.rounds[r].pending /\ Pending(k).phase = "burn-ready" /\ Entered(r)
  BY <1>2 DEF Pending, Entry, At, Entered
<1>4. Books'
  <2>1. Pending(k).burn \in Signatures
    BY <1>1, <1>2, <1>3, OutputFacts
  <2>2. Submit(Pending(k).burn)
    BY DEF SendBurn
  <2> QED BY <1>1, <1>2, <1>3, <2>1, <2>2, SubmitKeeps
<1>5. At(r, "confirm_burn")' /\ "confirm_burn" \in PCs
  BY <1>1, <1>2, <1>3 DEF At, chain, PCs
<1>6. TickTypes' /\ Placed'
  BY <1>1, <1>2, <1>5, GoToPlaced
<1> QED BY <1>4, <1>6 DEF BooksInv

LEMMA RecordExecutionKeeps ==
    ASSUME BooksInv, LeaseInv, NEW k \in Keepers, RecordExecution(k)
    PROVE  BooksInv'
<1>1. /\ keeper[k].pc = "confirm_burn" /\ UNCHANGED <<settled, chain, evidence, lease, deaths>>
      /\ Books /\ TickTypes /\ deaths' \in 0 .. MaxDeaths
  BY DEF RecordExecution, BooksInv, TickTypes
<1>2. PICK r \in settled : /\ r = keeper[k].round /\ r \in Rounds
                           /\ At(r, "confirm_burn") /\ \A q \in Rounds : q < r => q \in completed
  BY <1>1, AtWork
<1> DEFINE d == journal.rounds[r]
<1>3. Pending(k) = d.pending /\ d.pending.phase = "burn-ready" /\ Entry(k) = d
  BY <1>2 DEF Pending, Entry, At
<1>4. CASE ~BurnProved(k)
  <2>1. EndTick(k) /\ UNCHANGED <<journal, tx>>
    BY <1>4 DEF RecordExecution
  <2> QED BY <1>1, <2>1, EndTickKeeps
<1>5. CASE BurnProved(k)
  <2>1. Burning(d, r, tx, swapped[r], bought[r], burned[r])
    BY <1>1, <1>2, <1>3, OutputFacts
  <2>2. /\ r \notin completed /\ r \notin marks /\ Quiet(r) /\ SwapNamed(d, r, tx)
        /\ TokenAmount = bought[r] - burned[r] /\ bought[r] \in Nat /\ burned[r] \in Nat
        /\ d.processed \in Nat /\ d.pending.spend \in Nat
        /\ \A s \in Signatures : CanLand(tx[s]) => s \in {d.pending.swap, d.pending.burn}
    BY <1>1, <1>2, <1>3, OutputFacts, EnteredFacts, RoundTypes DEF PendingType
  <2>3. tx \in [Signatures -> TxType] /\ evidence' \in [Rounds -> Nat] /\ evidence' = evidence
    BY <1>1 DEF Books, BookType
  <2>4. tx[d.pending.burn].status = "landed" /\ burned[r] = bought[r]
    <3>1. tx[d.pending.burn].amount \in Nat
      BY <2>1, <2>3 DEF Burning, TxType
    <3>2. TokenAmount <= 0
      BY <1>3, <1>5, <2>2 DEF BurnProved, OutputSeen, SwapNamed
    <3>3. PICK n \in Nat, gone \in Nat, got \in Nat :
              n = tx[d.pending.burn].amount /\ gone = burned[r] /\ got = bought[r]
      BY <2>2, <3>1
    <3>4. got - gone <= 0
      BY <2>2, <3>2, <3>3
    <3>5. ~(n > 0 /\ gone + n = got)
      BY <3>4
    <3> QED BY <2>1, <3>3, <3>5 DEF Burning
  <2>5. PICK e : e = [processed |-> d.processed + d.pending.spend, pending |-> NoPending]
    OBVIOUS
  <2>6. /\ e \in EntryType /\ e.processed = d.processed + d.pending.spend
        /\ e.pending = NoPending /\ e.pending.phase = "none"
    BY <2>2, <2>5 DEF EntryType, PendingType, NoPending
  <2>7. Save(k, e, tx) /\ GoTo(k, "evidence")
    BY <1>3, <1>5, <2>5 DEF RecordExecution
  <2>8. EntryIs(e, r, tx, swapped[r], bought[r], burned[r])
    BY <2>1, <2>2, <2>4, <2>6 DEF EntryIs, Clear, Burning, SwapNamed
  <2>9. \A s \in Signatures : CanLand(tx[s]) => s \in {e.pending.swap, e.pending.burn}
    BY <2>1, <2>2, <2>4 DEF CanLand, Burning
  <2>10. Books' /\ journal'.rounds[r] = e
    BY <1>1, <1>2, <2>2, <2>3, <2>6, <2>7, <2>8, <2>9, SaveKeeps, ZenonT(60)
  <2>11. At(r, "evidence")'
    BY <1>1, <1>2, <2>6, <2>10 DEF At, Entered, chain
  <2>12. TickTypes' /\ Placed'
    BY <1>1, <1>2, <2>7, <2>11, GoToPlaced DEF PCs
  <2> QED BY <2>10, <2>12 DEF BooksInv
<1> QED BY <1>4, <1>5

LEMMA upsertBuybackEvidenceKeeps ==
    ASSUME BooksInv, LeaseInv, NEW k \in Keepers, upsertBuybackEvidence(k)
    PROVE  BooksInv'
<1>1. /\ keeper[k].pc = "evidence" /\ UNCHANGED <<settled, chain, tx, journal, lease, deaths>>
      /\ Books /\ TickTypes /\ deaths' \in 0 .. MaxDeaths
  BY DEF upsertBuybackEvidence, BooksInv, TickTypes
<1>2. PICK r \in settled : /\ r = keeper[k].round /\ r \in Rounds
                           /\ At(r, "evidence") /\ \A q \in Rounds : q < r => q \in completed
  BY <1>1, AtWork
<1> DEFINE d == journal.rounds[r]
<1>3. ~Entered(r) /\ d.processed \in Nat /\ Allocation[r] \in Nat /\ d.processed <= Allocation[r]
      /\ Remaining(k) = Allocation[r] - d.processed /\ evidence' = [evidence EXCEPT ![r] = d.processed]
  <2>1. ~Entered(r) /\ d.pending.phase = "none" /\ tx \in [Signatures -> TxType]
    BY <1>1, <1>2 DEF At, Entered, Books, BookType
  <2>2. d.processed <= Allocation[r]
    BY <1>1, <1>2, <2>1, RoundTypes, EntryCases DEF Clear
  <2> QED BY <1>1, <1>2, <2>1, <2>2, RoundTypes DEF Remaining, Entry, upsertBuybackEvidence
<1>4. Books' /\ evidence'[r] = d.processed
  <2>1. Done(r) => d.processed = Allocation[r]
    BY DEF Done
  <2>2. marks \subseteq settled /\ marks' = marks
    BY <1>1 DEF Books, BookType, chain
  <2>3. evidence'[r] = d.processed
    BY <1>1, <1>2, <1>3 DEF Books, BookType
  <2> QED BY <1>1, <1>2, <1>3, <2>1, <2>2, <2>3, EvidenceKeepsBooks DEF chain
<1>5. CASE Remaining(k) <= 0
  <2>1. GoTo(k, "mark")
    BY <1>5 DEF upsertBuybackEvidence
  <2>2. Done(r) /\ d.processed = Allocation[r]
    BY <1>3, <1>5 DEF Done
  <2>3. At(r, "mark")'
    BY <1>1, <1>2, <1>4, <2>2 DEF At, Done, Entered, chain
  <2>4. TickTypes' /\ Placed'
    BY <1>1, <1>2, <2>1, <2>3, GoToPlaced DEF PCs
  <2> QED BY <1>4, <2>4 DEF BooksInv
<1>6. CASE ~(Remaining(k) <= 0)
  <2>1. EndTick(k)
    BY <1>6 DEF upsertBuybackEvidence
  <2> QED BY <1>1, <1>4, <2>1, EndTickPlaced DEF BooksInv
<1> QED BY <1>5, <1>6

LEMMA SendMarkKeeps ==
    ASSUME BooksInv, LeaseInv, NEW k \in Keepers, SendMark(k)
    PROVE  BooksInv'
<1>1. /\ keeper[k].pc = "mark"
      /\ UNCHANGED <<settled, completed, swapped, bought, burned, tx, journal, evidence, lease, deaths>>
      /\ Books /\ TickTypes /\ deaths' \in 0 .. MaxDeaths
  BY DEF SendMark, BooksInv, TickTypes
<1>2. PICK r \in settled : /\ r = keeper[k].round /\ r \in Rounds
                           /\ At(r, "mark") /\ \A q \in Rounds : q < r => q \in completed
  BY <1>1, AtWork
<1>3. CASE r \in completed
  <2>1. EndTick(k) /\ UNCHANGED chain
    BY <1>1, <1>2, <1>3 DEF SendMark, chain
  <2> QED BY <1>1, <2>1, EndTickKeeps
<1>4. CASE r \notin completed
  <2>1. GoTo(k, "confirm_mark") /\ marks' = marks \cup {r}
    BY <1>2, <1>4 DEF SendMark
  <2>2. Done(r) /\ evidence[r] = Allocation[r] /\ Allocation[r] \in Nat
    BY <1>2, BuybackAssumption DEF At
  <2>3. Books'
    <3>1. marks' \subseteq settled
      BY <1>1, <1>2, <2>1 DEF Books, BookType
    <3>2. PICK n \in Nat : n = Allocation[r]
      BY <2>2
    <3>3. evidence' = [evidence EXCEPT ![r] = n]
      BY <1>1, <2>2, <3>2 DEF Books, BookType
    <3>4. \A q \in marks' : q \in marks \/ (q = r /\ Done(r))
      BY <2>1, <2>2
    <3> QED BY <1>1, <1>2, <3>1, <3>2, <3>3, <3>4, EvidenceKeepsBooks
  <2>4. At(r, "confirm_mark")'
    BY <1>1, <1>2, <2>2 DEF At, Done, Entered
  <2>5. TickTypes' /\ Placed'
    BY <1>1, <1>2, <2>1, <2>4, GoToPlaced DEF PCs
  <2> QED BY <2>3, <2>5 DEF BooksInv
<1> QED BY <1>3, <1>4

LEMMA ConfirmMarkKeeps ==
    ASSUME BooksInv, LeaseInv, NEW k \in Keepers, ConfirmMark(k)
    PROVE  BooksInv'
<1>1. /\ keeper[k].pc = "confirm_mark" /\ EndTick(k)
      /\ UNCHANGED <<settled, chain, tx, evidence, lease, deaths>>
      /\ Books /\ TickTypes /\ deaths' \in 0 .. MaxDeaths
  BY DEF ConfirmMark, BooksInv, TickTypes
<1>2. PICK r \in settled : /\ r = keeper[k].round /\ r \in Rounds
                           /\ At(r, "confirm_mark") /\ \A q \in Rounds : q < r => q \in completed
  BY <1>1, AtWork
<1>3. Books'
  <2>1. CASE r \in completed /\ journal' = [journal EXCEPT !.nextRound = r + 1]
    BY <1>1, <1>2, <2>1, CursorKeepsBooks
  <2>2. CASE UNCHANGED journal
    BY <1>1, <2>2, SameBooks
  <2> QED BY <1>2, <2>1, <2>2 DEF ConfirmMark
<1> QED BY <1>1, <1>3, EndTickPlaced DEF BooksInv

LEMMA DieKeeps ==
    ASSUME BooksInv, LeaseInv, NEW k \in Keepers, Die(k)
    PROVE  BooksInv'
<1>1. /\ keeper[k].pc # "idle" /\ EndTick(k) /\ deaths' = deaths + 1 /\ deaths < MaxDeaths
      /\ UNCHANGED <<settled, chain, tx, journal, evidence, lease>>
  BY DEF Die, Working
<1>2. deaths' \in 0 .. MaxDeaths
  BY <1>1, BuybackAssumption DEF BooksInv, TickTypes
<1> QED BY <1>1, <1>2, EndTickKeeps

-----------------------------------------------------------------------------
(* The chain and the clock.                                                *)

\* No keeper notices: where each stands still holds.
LEMMA SamePlaces ==
    ASSUME BooksInv, UNCHANGED <<lease, keeper, deaths, journal, evidence>>,
           settled \subseteq settled', completed \subseteq completed',
           \A k \in Keepers, r \in Rounds :
              (keeper[k].pc = "height" /\ keeper[k].round = r) =>
                  (tx'[journal.rounds[r].pending.swap].status = "landed"
                      => tx[journal.rounds[r].pending.swap].status = "landed")
    PROVE  TickTypes' /\ Placed'
<1>1. TickTypes'
  BY DEF BooksInv, TickTypes
<1>2. ASSUME NEW k \in Keepers PROVE At(keeper[k].round, keeper[k].pc)'
  <2>1. CASE keeper[k].pc \in {"idle", "select"}
    BY <2>1 DEF At
  <2>2. CASE keeper[k].pc \notin {"idle", "select"}
    <3>1. PICK r \in settled : r = keeper[k].round /\ r \in Rounds /\ At(r, keeper[k].pc)
      BY <2>2, AtWork
    <3> QED BY <2>2, <3>1 DEF At, Entered, Done
  <2> QED BY <2>1, <2>2
<1> QED BY <1>1, <1>2 DEF Placed

LEMMA SettleKeeps ==
    ASSUME BooksInv, Regular, NEW r \in Rounds, Settle(r)
    PROVE  BooksInv'
<1>1. /\ settled' = settled \cup {r} /\ \A q \in Rounds : q < r => q \in settled
      /\ r \notin settled
      /\ UNCHANGED <<chain, tx, journal, evidence, lease, keeper, deaths>> /\ Books
  BY DEF Settle, Regular, BooksInv
<1>2. BookType'
  BY <1>1 DEF Books, BookType, chain
<1>3. EntriesSound' /\ OnlyNamed' /\ MarksDone'
  BY <1>1 DEF Books, EntriesSound, OnlyNamed, MarksDone, Entered, Done, chain
<1>4. InOrder'
  <2>1. ASSUME NEW x \in settled', NEW q \in Rounds, q < x PROVE q \in settled'
    BY <1>1, <2>1 DEF Books, InOrder
  <2>2. ASSUME NEW x \in Rounds, Entered(x)'
        PROVE  x \in settled' /\ \A q \in Rounds : q < x => q \in completed'
    BY <1>1, <2>2 DEF Books, InOrder, Entered, chain
  <2> QED BY <2>1, <2>2 DEF InOrder
<1>5. CursorBehind'
  BY <1>1 DEF Books, CursorBehind, chain
<1>6. TickTypes' /\ Placed'
  BY <1>1, SamePlaces DEF chain
<1> QED BY <1>2, <1>3, <1>4, <1>5, <1>6 DEF Books, BooksInv

LEMMA MarkKeeps ==
    ASSUME BooksInv, NEW r \in Rounds, mark_buyback_completed(r) \/ LoseMark(r)
    PROVE  BooksInv'
<1>1. /\ r \in marks /\ marks' = marks \ {r} /\ completed' \in {completed, completed \cup {r}}
      /\ UNCHANGED <<settled, swapped, bought, burned, tx, journal, evidence, lease, keeper, deaths>>
      /\ Books
  BY DEF mark_buyback_completed, LoseMark, BooksInv
<1>2. BookType'
  BY <1>1 DEF Books, BookType
<1>3. EntriesSound' /\ OnlyNamed' /\ MarksDone' /\ CursorBehind' /\ InOrder'
  BY <1>1 DEF Books, EntriesSound, OnlyNamed, MarksDone, CursorBehind, InOrder, Entered, Done
<1>4. TickTypes' /\ Placed'
  BY <1>1, SamePlaces
<1> QED BY <1>1, <1>2, <1>3, <1>4 DEF Books, BooksInv

\* A transaction is kept only for the entry that names it.
LEMMA NamedByEntered ==
    ASSUME Books, NEW s \in Signatures, tx[s] # NoTx
    PROVE  \E r \in Rounds : /\ Entered(r)
                             /\ s \in {journal.rounds[r].pending.swap, journal.rounds[r].pending.burn}
<1>1. PICK r \in Rounds : s \in {journal.rounds[r].pending.swap, journal.rounds[r].pending.burn}
  BY DEF Books, OnlyNamed, Named
<1>2. Entered(r)
  <2> SUFFICES ASSUME ~Entered(r) PROVE FALSE
    OBVIOUS
  <2>1. journal.rounds[r].pending.phase = "none" /\ tx \in [Signatures -> TxType]
    BY DEF Entered, Books, BookType
  <2>2. journal.rounds[r].pending = NoPending
    BY <2>1, RoundTypes, EntryCases DEF Clear
  <2> QED BY <1>1, <2>2, BuybackAssumption DEF NoPending
<1> QED BY <1>1, <1>2

\* A transaction that ends is remembered with its new status, and so are the others.
LEMMA EndsRemembered ==
    ASSUME Books, NEW s \in Signatures, CanLand(tx[s]), NEW ending \in {"landed", "failed"},
           tx' = Remember([tx EXCEPT ![s].status = ending], journal.rounds)
    PROVE  /\ tx' \in [Signatures -> TxType]
           /\ tx'[s].kind = tx[s].kind /\ tx'[s].round = tx[s].round
           /\ tx'[s].amount = tx[s].amount /\ tx'[s].status = ending
           /\ \A u \in Signatures \ {s} : tx'[u] = tx[u]
<1>1. tx \in [Signatures -> TxType] /\ tx[s] \in TxType
  BY DEF Books, BookType
<1>2. PICK t : t = [tx[s] EXCEPT !.status = ending]
  OBVIOUS
<1>3. /\ t \in TxType /\ t.kind = tx[s].kind /\ t.round = tx[s].round
      /\ t.amount = tx[s].amount /\ t.status = ending
  BY <1>1, <1>2 DEF TxType
<1>4. PICK ts : ts = [tx EXCEPT ![s] = t]
  OBVIOUS
<1>5. ts \in [Signatures -> TxType] /\ ts[s] = t /\ \A u \in Signatures \ {s} : ts[u] = tx[u]
  BY <1>1, <1>3, <1>4
<1>6. tx' = Remember(ts, journal.rounds)
  BY <1>2, <1>4
<1>7. tx[s] # NoTx
  BY DEF CanLand, NoTx
<1>8. \A u \in Signatures : tx[u] # NoTx => u \in Named(journal.rounds)
  BY DEF Books, OnlyNamed
<1>9. tx' \in [Signatures -> TxType] /\ tx'[s] = t
  <2>1. s \in Named(journal.rounds) /\ BookType
    BY <1>7, <1>8 DEF Books
  <2>2. Remember(ts, journal.rounds) \in [Signatures -> TxType]
        /\ Remember(ts, journal.rounds)[s] = ts[s]
    BY <1>5, <2>1, Remembered
  <2> QED BY <1>5, <1>6, <2>2
<1>10. ASSUME NEW u \in Signatures \ {s} PROVE tx'[u] = tx[u]
  <2>1. CASE tx[u] # NoTx
    BY <1>5, <1>6, <1>8, <2>1, Remembered DEF Books
  <2>2. CASE tx[u] = NoTx
    BY <1>5, <1>6, <2>2, Remembered DEF Books
  <2> QED BY <2>1, <2>2
<1> QED BY <1>3, <1>9, <1>10

LEMMA PositiveProduct ==
    ASSUME NEW a \in Nat \ {0}, NEW b \in Nat \ {0}
    PROVE  a * b \in Nat \ {0}
OBVIOUS

LEMMA LandKeeps ==
    ASSUME BooksInv, Regular, NEW s \in Signatures, Land(s)
    PROVE  BooksInv'
<1>1. /\ CanLand(tx[s]) /\ \A k \in Keepers : keeper[k].pc # "height"
      /\ UNCHANGED <<settled, completed, marks, journal, evidence, lease, keeper, deaths>> /\ Books
  BY DEF Land, Regular, BooksInv
<1>2. tx[s] # NoTx /\ tx[s].status = "sent"
  BY <1>1 DEF CanLand, NoTx
<1>3. PICK r \in Rounds : /\ Entered(r)
                          /\ s \in {journal.rounds[r].pending.swap, journal.rounds[r].pending.burn}
  BY <1>1, <1>2, NamedByEntered
<1>4. PICK d : d = journal.rounds[r]
  OBVIOUS
<1>5. /\ Quiet(r) /\ SwapNamed(d, r, tx) /\ d \in EntryType /\ d.pending \in PendingType
      /\ d.pending.phase # "none" /\ EntryIs(d, r, tx, swapped[r], bought[r], burned[r])
      /\ swapped[r] \in Nat /\ bought[r] \in Nat /\ burned[r] \in Nat
      /\ s \in {d.pending.swap, d.pending.burn}
  BY <1>1, <1>3, <1>4, EnteredFacts, RoundTypes
<1>6. \/ s = d.pending.swap /\ d.pending.burn = NoSignature /\ tx[s].kind = "swap"
            /\ Waiting(d, tx, swapped[r], bought[r], burned[r])
      \/ s = d.pending.burn /\ s # d.pending.swap /\ tx[s].kind = "burn"
            /\ Burning(d, r, tx, swapped[r], bought[r], burned[r])
  <2>1. \/ Waiting(d, tx, swapped[r], bought[r], burned[r])
        \/ Holding(d, tx, swapped[r], bought[r], burned[r])
        \/ Burning(d, r, tx, swapped[r], bought[r], burned[r])
    BY <1>5 DEF EntryIs, Clear, NoPending
  <2> QED BY <1>2, <1>5, <2>1, BuybackAssumption DEF Waiting, Holding, Burning, SwapNamed
<1>7. tx[s].round = r /\ tx[s].amount \in Nat
  <2>1. tx[s] \in TxType
    BY <1>1 DEF Books, BookType
  <2> QED BY <1>5, <1>6, <2>1 DEF SwapNamed, Burning, TxType
<1>8. ASSUME NEW ending \in {"landed", "failed"},
             tx' = Remember([tx EXCEPT ![s].status = ending], journal.rounds),
             swapped' \in [Rounds -> Nat], bought' \in [Rounds -> Nat], burned' \in [Rounds -> Nat],
             \A q \in Rounds \ {r} :
                swapped'[q] = swapped[q] /\ bought'[q] = bought[q] /\ burned'[q] = burned[q],
             EntryIs(d, r, tx', swapped'[r], bought'[r], burned'[r])
      PROVE  BooksInv'
  <2>1. tx' \in [Signatures -> TxType] /\ \A u \in Signatures : tx'[u] # NoTx => tx[u] # NoTx
    BY <1>1, <1>2, <1>8, EndsRemembered
  <2>2. Books'
    BY <1>1, <1>4, <1>5, <1>8, <2>1, LandingKeepsBooks
  <2>3. TickTypes' /\ Placed'
    BY <1>1, SamePlaces
  <2> QED BY <2>2, <2>3 DEF BooksInv
<1>9. swapped \in [Rounds -> Nat] /\ bought \in [Rounds -> Nat] /\ burned \in [Rounds -> Nat]
  BY <1>1 DEF Books, BookType
<1>10. ASSUME tx[s].kind = "swap", NEW rate \in Rates,
              tx' = Remember([tx EXCEPT ![s].status = "landed"], journal.rounds),
              bought' = [bought EXCEPT ![r] = bought[r] + tx[s].amount * rate],
              swapped' = [swapped EXCEPT ![r] = swapped[r] + tx[s].amount], UNCHANGED burned
       PROVE  BooksInv'
  <2>1. s = d.pending.swap /\ Waiting(d, tx, swapped[r], bought[r], burned[r])
    BY <1>6, <1>10
  <2>2. PICK n \in Nat \ {0} : n = tx[s].amount /\ n = d.pending.spend
    BY <1>5, <1>7, <2>1 DEF SwapNamed
  <2>3. PICK m \in Nat \ {0} : m = tx[s].amount * rate
    BY <2>2, PositiveProduct, BuybackAssumption
  <2>4. bought' = [bought EXCEPT ![r] = bought[r] + m] /\ swapped' = [swapped EXCEPT ![r] = swapped[r] + n]
    BY <1>10, <2>2, <2>3
  <2>5. /\ swapped' \in [Rounds -> Nat] /\ bought' \in [Rounds -> Nat] /\ burned' \in [Rounds -> Nat]
        /\ swapped'[r] = swapped[r] + n /\ bought'[r] = bought[r] + m /\ burned'[r] = burned[r]
        /\ \A q \in Rounds \ {r} :
              swapped'[q] = swapped[q] /\ bought'[q] = bought[q] /\ burned'[q] = burned[q]
    BY <1>5, <1>9, <1>10, <2>4
  <2>6. /\ tx'[s].kind = tx[s].kind /\ tx'[s].round = tx[s].round
        /\ tx'[s].amount = tx[s].amount /\ tx'[s].status = "landed"
    BY <1>1, <1>10, EndsRemembered
  <2>7. SwapNamed(d, r, tx')
    BY <1>5, <2>1, <2>6 DEF SwapNamed
  <2>8. Holding(d, tx', swapped'[r], bought'[r], burned'[r])
    BY <1>5, <2>1, <2>2, <2>5, <2>6 DEF Holding, Waiting
  <2>9. EntryIs(d, r, tx', swapped'[r], bought'[r], burned'[r])
    BY <2>7, <2>8 DEF EntryIs
  <2> QED BY <1>8, <1>10, <2>5, <2>9
<1>11. ASSUME tx[s].kind = "burn",
              tx' = Remember([tx EXCEPT ![s].status = "landed"], journal.rounds),
              burned' = [burned EXCEPT ![r] = burned[r] + tx[s].amount], UNCHANGED <<swapped, bought>>
       PROVE  BooksInv'
  <2>1. s = d.pending.burn /\ s # d.pending.swap /\ Burning(d, r, tx, swapped[r], bought[r], burned[r])
    BY <1>6, <1>11
  <2>2. PICK n \in Nat : n = tx[s].amount
    BY <1>7
  <2>3. /\ swapped' \in [Rounds -> Nat] /\ bought' \in [Rounds -> Nat] /\ burned' \in [Rounds -> Nat]
        /\ swapped'[r] = swapped[r] /\ bought'[r] = bought[r] /\ burned'[r] = burned[r] + n
        /\ \A q \in Rounds \ {r} :
              swapped'[q] = swapped[q] /\ bought'[q] = bought[q] /\ burned'[q] = burned[q]
    BY <1>5, <1>9, <1>11, <2>2
  <2>4. /\ tx'[s].kind = tx[s].kind /\ tx'[s].round = tx[s].round
        /\ tx'[s].amount = tx[s].amount /\ tx'[s].status = "landed"
        /\ tx'[d.pending.swap] = tx[d.pending.swap]
    <3>1. d.pending.swap \in Signatures \ {s}
      BY <1>5, <2>1 DEF SwapNamed
    <3>2. /\ tx'[s].kind = tx[s].kind /\ tx'[s].round = tx[s].round
          /\ tx'[s].amount = tx[s].amount /\ tx'[s].status = "landed"
          /\ \A u \in Signatures \ {s} : tx'[u] = tx[u]
      BY <1>1, <1>11, EndsRemembered
    <3> QED BY <3>1, <3>2
  <2>5. SwapNamed(d, r, tx')
    BY <1>5, <2>4 DEF SwapNamed
  <2>6. burned'[r] = bought[r]
    BY <1>2, <2>1, <2>2, <2>3 DEF Burning
  <2>7. Burning(d, r, tx', swapped'[r], bought'[r], burned'[r])
    BY <2>1, <2>3, <2>4, <2>6 DEF Burning
  <2>8. EntryIs(d, r, tx', swapped'[r], bought'[r], burned'[r])
    BY <2>5, <2>7 DEF EntryIs
  <2> QED BY <1>8, <1>11, <2>3, <2>8
<1>12. ASSUME tx[s].kind = "swap",
              tx' = Remember([tx EXCEPT ![s].status = "failed"], journal.rounds),
              UNCHANGED <<swapped, bought, burned>>
       PROVE  BooksInv'
  <2>1. s = d.pending.swap /\ Waiting(d, tx, swapped[r], bought[r], burned[r])
    BY <1>6, <1>12
  <2>2. /\ tx'[s].kind = tx[s].kind /\ tx'[s].round = tx[s].round
        /\ tx'[s].amount = tx[s].amount /\ tx'[s].status = "failed"
    BY <1>1, <1>12, EndsRemembered
  <2>3. SwapNamed(d, r, tx') /\ Waiting(d, tx', swapped'[r], bought'[r], burned'[r])
    BY <1>5, <1>12, <2>1, <2>2 DEF SwapNamed, Waiting
  <2>4. EntryIs(d, r, tx', swapped'[r], bought'[r], burned'[r])
    BY <2>3 DEF EntryIs
  <2>5. swapped' \in [Rounds -> Nat] /\ bought' \in [Rounds -> Nat] /\ burned' \in [Rounds -> Nat]
    BY <1>9, <1>12
  <2> QED BY <1>8, <1>12, <2>4, <2>5
<1> QED
  <2>1. \/ /\ tx[s].kind = "swap"
           /\ tx' = Remember([tx EXCEPT ![s].status = "landed"], journal.rounds)
           /\ \E rate \in Rates :
                 bought' = [bought EXCEPT ![tx[s].round] = bought[tx[s].round] + tx[s].amount * rate]
           /\ swapped' = [swapped EXCEPT ![tx[s].round] = swapped[tx[s].round] + tx[s].amount]
           /\ UNCHANGED burned
        \/ /\ tx[s].kind = "burn"
           /\ tx' = Remember([tx EXCEPT ![s].status = "landed"], journal.rounds)
           /\ burned' = [burned EXCEPT ![tx[s].round] = burned[tx[s].round] + tx[s].amount]
           /\ UNCHANGED <<swapped, bought>>
        \/ /\ tx[s].kind = "swap"
           /\ tx' = Remember([tx EXCEPT ![s].status = "failed"], journal.rounds)
           /\ UNCHANGED <<swapped, bought, burned>>
    BY DEF Land
  <2> QED BY <1>7, <1>10, <1>11, <1>12, <2>1

LEMMA LessBounded ==
    ASSUME NEW n \in Nat, NEW m \in 0 .. n
    PROVE  Less(m) \in 0 .. n /\ (m = 0 => Less(m) = 0)
BY DEF Less

\* A transaction grows old and is otherwise what it was.
LEMMA ClockKeepsTransactions ==
    ASSUME Books, NEW u \in Signatures,
           tx' = Remember([s \in Signatures |-> [tx[s] EXCEPT !.left = Less(tx[s].left)]],
                          journal.rounds)
    PROVE  tx'[u] \in TxType /\ Alike(tx'[u], tx[u]) /\ (tx'[u] # NoTx => tx[u] # NoTx)
<1> DEFINE aged(s) == [tx[s] EXCEPT !.left = Less(tx[s].left)]
<1>1. ASSUME NEW s \in Signatures
      PROVE  aged(s) \in TxType /\ Alike(aged(s), tx[s]) /\ (tx[s] = NoTx => aged(s) = NoTx)
  <2>1. tx[s] \in TxType /\ tx[s].left \in 0 .. BLOCKHASH_VALIDITY
    BY DEF Books, BookType, TxType
  <2>2. PICK n \in 0 .. BLOCKHASH_VALIDITY : n = Less(tx[s].left) /\ (tx[s].left = 0 => n = 0)
    BY <2>1, LessBounded, BuybackAssumption
  <2>3. aged(s) = [tx[s] EXCEPT !.left = n]
    BY <2>2
  <2> QED BY <2>1, <2>2, <2>3 DEF TxType, Alike, NoTx
<1>2. PICK ts : ts = [s \in Signatures |-> aged(s)]
  OBVIOUS
<1> HIDE DEF aged
<1>3. ts \in [Signatures -> TxType] /\ Alike(ts[u], tx[u]) /\ (tx[u] = NoTx => ts[u] = NoTx)
  BY <1>1, <1>2
<1>4. tx' = Remember(ts, journal.rounds)
  BY <1>2 DEF aged
<1>5. BookType /\ (tx[u] # NoTx => u \in Named(journal.rounds))
  BY DEF Books, OnlyNamed
<1>6. /\ tx' \in [Signatures -> TxType]
      /\ u \in Named(journal.rounds) => tx'[u] = ts[u]
      /\ tx'[u] # NoTx => ts[u] # NoTx
  <2>1. /\ Remember(ts, journal.rounds) \in [Signatures -> TxType]
        /\ u \in Named(journal.rounds) => Remember(ts, journal.rounds)[u] = ts[u]
        /\ Remember(ts, journal.rounds)[u] # NoTx => ts[u] # NoTx
    BY <1>3, <1>5, Remembered
  <2> QED BY <1>4, <2>1
<1>7. CASE tx[u] = NoTx
  BY <1>3, <1>6, <1>7 DEF Alike
<1>8. CASE tx[u] # NoTx
  BY <1>3, <1>5, <1>6, <1>8
<1> QED BY <1>7, <1>8

LEMMA ClockKeeps ==
    ASSUME BooksInv, Clock
    PROVE  BooksInv'
<1>1. /\ lease' = [lease EXCEPT !.left = Less(lease.left)]
      /\ keeper' = [k \in Keepers |-> [keeper[k] EXCEPT !.left = Less(keeper[k].left)]]
      /\ UNCHANGED <<settled, chain, journal, evidence, deaths>> /\ Books /\ TickTypes
  BY DEF Clock, BooksInv
<1>2. \A u \in Signatures :
         tx'[u] \in TxType /\ Alike(tx'[u], tx[u]) /\ (tx'[u] # NoTx => tx[u] # NoTx)
  BY <1>1, ClockKeepsTransactions DEF Clock
<1>3. BookType'
  <2>1. tx' \in [Signatures -> TxType]
    BY <1>2 DEF Clock, Remember
  <2> QED BY <1>1, <2>1 DEF Books, BookType, chain
<1>4. EntriesSound'
  <2>1. ASSUME NEW r \in Rounds
        PROVE  EntryIs(journal.rounds[r], r, tx', swapped[r], bought[r], burned[r])
    <3>1. journal.rounds[r] \in EntryType
          /\ EntryIs(journal.rounds[r], r, tx, swapped[r], bought[r], burned[r])
      BY <1>1, RoundTypes
    <3> QED BY <1>2, <3>1, EntryAgrees
  <2> QED BY <1>1, <2>1 DEF EntriesSound, chain
<1>5. OnlyNamed' /\ InOrder' /\ MarksDone' /\ CursorBehind'
  BY <1>1, <1>2 DEF Books, OnlyNamed, InOrder, MarksDone, CursorBehind, Entered, Done, chain
<1>7. ASSUME NEW k \in Keepers
      PROVE  keeper'[k] \in KeeperType /\ keeper'[k].pc = keeper[k].pc /\ keeper'[k].round = keeper[k].round
  <2>1. keeper[k] \in KeeperType /\ keeper[k].left \in 0 .. TICK_TIMEOUT
    BY <1>1 DEF TickTypes, KeeperType
  <2>2. PICK n \in 0 .. TICK_TIMEOUT : n = Less(keeper[k].left)
    BY <2>1, LessBounded, BuybackAssumption
  <2>3. keeper'[k] = [keeper[k] EXCEPT !.left = n]
    BY <1>1, <2>2
  <2> QED BY <2>1, <2>3 DEF KeeperType
<1>8. TickTypes'
  <2>1. lease.left \in 0 .. LEASE_TTL /\ LEASE_TTL \in Nat
    BY <1>1, BuybackAssumption DEF TickTypes
  <2>2. PICK n \in 0 .. LEASE_TTL : n = Less(lease.left)
    BY <2>1, LessBounded
  <2>3. lease' = [lease EXCEPT !.left = n]
    BY <1>1, <2>2
  <2>4. keeper' \in [Keepers -> KeeperType]
    BY <1>1, <1>7
  <2> QED BY <1>1, <2>3, <2>4 DEF TickTypes
<1>9. Placed'
  <2>1. ASSUME NEW k \in Keepers PROVE At(keeper[k].round, keeper[k].pc)'
    <3>1. CASE keeper[k].pc \in {"idle", "select"}
      BY <1>7, <3>1 DEF At
    <3>2. CASE keeper[k].pc \notin {"idle", "select"}
      <4>1. PICK r \in settled : r = keeper[k].round /\ r \in Rounds /\ At(r, keeper[k].pc)
        BY <3>2, AtWork
      <4>2. keeper[k].pc = "height" => tx'[journal.rounds[r].pending.swap].status # "landed"
        <5>1. CASE keeper[k].pc = "height"
          <6>1. journal.rounds[r].pending.swap \in Signatures
            BY <1>1, <4>1, <5>1, SwapReadyFacts, EnteredFacts DEF At, SwapNamed
          <6> QED BY <1>2, <4>1, <5>1, <6>1 DEF At, Alike
        <5> QED BY <5>1
      <4>3. PICK pc : pc = keeper[k].pc
        OBVIOUS
      <4>4. keeper'[k].pc = pc /\ keeper'[k].round = r /\ At(r, pc)
        BY <1>7, <4>1, <4>3
      <4>5. UNCHANGED <<settled, completed, journal, evidence>>
        BY <1>1 DEF chain
      <4>6. At(r, pc)'
        BY <4>2, <4>3, <4>4, <4>5 DEF At, Entered, Done
      <4> QED BY <4>4, <4>6 DEF At, Entered, Done
    <3> QED BY <3>1, <3>2
  <2> QED BY <2>1 DEF Placed
<1> QED BY <1>3, <1>4, <1>5, <1>8, <1>9 DEF Books, BooksInv

-----------------------------------------------------------------------------
(* The theorem.                                                            *)

LEMMA BooksBegin == Init => BooksInv
<1> SUFFICES ASSUME Init PROVE BooksInv
  OBVIOUS
<1> DEFINE none == [processed |-> 0, pending |-> NoPending]
<1>1. none \in EntryType /\ none.processed = 0 /\ none.pending = NoPending
      /\ NoPending.phase = "none" /\ NoTx \in TxType
  BY BuybackAssumption DEF EntryType, PendingType, NoPending, NoTx, TxType
<1>2. journal = [nextRound |-> 0, rounds |-> [r \in Rounds |-> none]]
      /\ journal.nextRound = 0 /\ \A r \in Rounds : journal.rounds[r] = none
  BY DEF Init
<1> HIDE DEF none
<1>3. BookType
  BY <1>1, <1>2 DEF Init, BookType
<1>4. EntriesSound
  BY <1>1, <1>2, BuybackAssumption DEF Init, EntriesSound, EntryIs, Clear
<1>5. InOrder /\ OnlyNamed /\ MarksDone /\ CursorBehind
  BY <1>1, <1>2, BuybackAssumption DEF Init, InOrder, OnlyNamed, MarksDone, CursorBehind, Entered
<1>6. Idle \in KeeperType /\ Idle.pc = "idle"
  BY BuybackAssumption DEF Idle, KeeperType, PCs
<1>7. TickTypes /\ Placed
  BY <1>6, BuybackAssumption DEF Init, TickTypes, Placed, At
<1> QED BY <1>3, <1>4, <1>5, <1>7 DEF BooksInv, Books

LEMMA StepKeepsBooks == Regular /\ LeaseInv /\ BooksInv /\ [Next]_vars => BooksInv'
<1> SUFFICES ASSUME Regular, LeaseInv, BooksInv, [Next]_vars PROVE BooksInv'
  OBVIOUS
<1>1. CASE UNCHANGED vars
  <2>1. UNCHANGED <<settled, chain, tx, journal, evidence, lease, keeper, deaths>>
    BY <1>1 DEF vars, chain
  <2>2. Books' /\ UNCHANGED completed
    BY <2>1, SameBooks DEF BooksInv, chain
  <2> QED BY <2>1, <2>2, SamePlaces DEF BooksInv
<1>2. CASE Clock
  BY <1>2, ClockKeeps
<1>3. ASSUME NEW r \in Rounds, Settle(r) \/ mark_buyback_completed(r) \/ LoseMark(r) PROVE BooksInv'
  BY <1>3, SettleKeeps, MarkKeeps
<1>4. ASSUME NEW s \in Signatures, Land(s) PROVE BooksInv'
  BY <1>4, LandKeeps
<1>5. ASSUME NEW k \in Keepers, KeeperStep(k) \/ Die(k) PROVE BooksInv'
  BY <1>5, TickKeeps, SelectKeeps, PlanSwapKeeps, RecoverKeeps, SendSwapKeeps, ConfirmSwapKeeps,
     ReadStatusKeeps, ReadHeightKeeps, AwaitOutputKeeps, SendBurnKeeps, RecordExecutionKeeps,
     upsertBuybackEvidenceKeeps, SendMarkKeeps, ConfirmMarkKeeps, DieKeeps DEF KeeperStep
<1> QED BY <1>1, <1>2, <1>3, <1>4, <1>5 DEF Next

\* What the run checks follows.
LEMMA BooksAreSound == BooksInv => BuybackBooksSound
<1> SUFFICES ASSUME BooksInv PROVE BuybackBooksSound
  OBVIOUS
<1>1. Books /\ TickTypes
  BY DEF BooksInv
<1>2. TypeOK
  BY <1>1 DEF TypeOK, Books, BookType, TickTypes, KeeperType
<1>3. ASSUME NEW r \in Rounds
      PROVE  /\ swapped[r] <= Allocation[r]
             /\ ~Entered(r) => burned[r] = bought[r] /\ swapped[r] = journal.rounds[r].processed
  <2>1. tx \in [Signatures -> TxType]
    BY <1>1 DEF Books, BookType
  <2>2. /\ journal.rounds[r] \in EntryType
        /\ swapped[r] \in Nat /\ bought[r] \in Nat /\ burned[r] \in Nat
        /\ EntryIs(journal.rounds[r], r, tx, swapped[r], bought[r], burned[r])
    BY <1>1, RoundTypes
  <2>3. /\ swapped[r] <= Allocation[r]
        /\ journal.rounds[r].pending.phase = "none" =>
              Clear(journal.rounds[r], r, swapped[r], bought[r], burned[r])
    BY <2>1, <2>2, EntryCases
  <2> QED BY <2>3 DEF Clear, Entered
<1>4. SpentWithinAllocation
  BY <1>3 DEF SpentWithinAllocation
<1>5. MarkedMeansBurned
  BY <1>1, <1>3 DEF MarkedMeansBurned, Books, BookType, MarksDone, Done
<1>6. NoTokensForgotten
  <2> SUFFICES ASSUME \A r \in Rounds : journal.rounds[r].pending.phase = "none"
               PROVE  TokenAmount = 0
    BY DEF NoTokensForgotten
  <2>1. \A r \in Rounds : bought[r] \in Nat /\ burned[r] = bought[r]
    BY <1>1, <1>3 DEF Entered, Books, BookType
  <2>2. SumOf(burned, Rounds) = SumOf(bought, Rounds) /\ SumOf(bought, Rounds) \in Nat
    BY <2>1, SumCongruent, SumType, BuybackAssumption
  <2> QED BY <2>2 DEF TokenAmount, Total, SumOf
<1>7. NoneSkipped
  BY <1>1 DEF NoneSkipped, Books, BookType, CursorBehind
<1> QED BY <1>2, <1>4, <1>5, <1>6, <1>7 DEF BuybackBooksSound

\* While rounds settle in order and no swap lands between the two reads of one
\* verdict, every allocation is spent at most once and burned, whatever dies,
\* fails, expires or lands late, for any number of replicas and rounds
\* (recoverPendingBuyback, pendingSwapIsProvablyExpired, mark_buyback_completed).
THEOREM BuybackBooksAreSound ==
    ASSUME OrderedSettlement, ~LandsBetweenReads, \E s, t \in Signatures : s # t
    PROVE  Spec => []BuybackBooksSound
<1>1. Regular
  BY DEF Regular
<1>2. LeaseInv /\ BooksInv /\ [Next]_vars => BooksInv'
  BY <1>1, StepKeepsBooks
<1> QED BY <1>2, BooksBegin, BooksAreSound, LeaseInvariant, PTL DEF Spec

-----------------------------------------------------------------------------
(* The worker host.  A round has one token: its keeper, the exit of its    *)
(* keeper, or the timer that will start the next one.                      *)

Misses == SUBSET (Host!Managed \X Host!Stages)
HostType ==
    [ up : BOOLEAN, seenPaused : BOOLEAN, floor : Int, launched : SUBSET Host!Managed,
      retry : SUBSET Host!Managed, violated : SUBSET Host!Managed, doc : Misses, latched : Misses,
      fatal : Host!Managed \cup {NoHostRound}, error : {"none", "incident", "persistence", "read", "fatal"},
      activation : [round : Int \cup {NoHostRound}, prebound : BOOLEAN],
      late : Misses, tick : {"config", "audit"} ]

Codes == {"deferred", "missed", "crash", "ok"}
Alone == {<<>>, <<"boot">>, <<"run">>, <<"hung">>}

\* A round has one keeper, or the exit of one, or a timer that will start one,
\* or none of these; and whoever has a keeper or an exit is in the table of
\* launched rounds.  Pruning takes a round from the table before its timer fires
\* only if the scheduler does not start it any more.
OneToken(ks, xs, launched, retry, floor) ==
    \A r \in Host!Managed :
        /\ ks[r] # <<>> => r \in launched /\ r \notin retry
        /\ \A x \in xs : x[1] = r =>
              /\ ks[r] = <<>> /\ r \in launched /\ r \notin retry
              /\ \A y \in xs : y[1] = r => y = x
        /\ r \in retry /\ r \notin launched => r < floor

Tokens == OneToken(kids, exits, host.launched, host.retry, Host!CurrentRound(host_clock))

\* Every incident in the file is in the memory of a running host, and a host
\* that is down has no children.
FileInMemory ==
    /\ host.up => disk \subseteq host.doc
    /\ ~host.up => host = Host!Down /\ exits = {} /\ kids = [r \in Host!Managed |-> <<>>]

ChildType ==
    kids \in [Host!Managed -> Alone] /\ inbox \in Misses /\ exits \in SUBSET (Host!Managed \X Codes)
ChainType ==
    /\ host_clock \in 0 .. MaxTime /\ host_paused \in BOOLEAN
    /\ host_rounds \in [Host!Managed -> {"absent", "bound", "locked", "settled", "late"}]

HostInv ==
    /\ ChainType /\ ChildType /\ host \in HostType /\ disk \in Misses
    /\ Tokens /\ FileInMemory

LEMMA HostInvSound == HostInv => Host!TypeOK /\ Host!OneKeeperPerRound /\ Host!HealthyMeansReviewed
<1> SUFFICES ASSUME HostInv PROVE Host!TypeOK /\ Host!OneKeeperPerRound /\ Host!HealthyMeansReviewed
    OBVIOUS
<1>1. Host!TypeOK
    BY DEF HostInv, Host!TypeOK, HostType, Misses, ChainType, ChildType
<1>2. Host!OneKeeperPerRound
    <2>1. \A s \in Alone : Len(s) <= 1
        <3>1. Len(<<>>) <= 1 /\ Len(<<"boot">>) <= 1 /\ Len(<<"run">>) <= 1 /\ Len(<<"hung">>) <= 1
            OBVIOUS
        <3>2. QED
            BY <3>1, Zenon DEF Alone
    <2>2. QED
        BY <2>1 DEF HostInv, Host!OneKeeperPerRound, ChildType
<1>3. Host!HealthyMeansReviewed
    BY DEF HostInv, FileInMemory, Host!HealthyMeansReviewed, Host!publicHealth
<1>4. QED
    BY <1>1, <1>2, <1>3

-----------------------------------------------------------------------------
(* The schedule.                                                           *)

LEMMA RoundsAreOrdered ==
    ASSUME Host!WorkerHostAssumption
    PROVE  /\ \A t \in Nat : Host!CurrentRound(t) \in Nat /\ Host!CurrentRound(t) <= Host!CurrentRound(t + 1)
           /\ \A t \in Nat : \A r \in Host!roundIdsToPrepare(t) : r >= Host!CurrentRound(t)
           /\ \A t \in Nat : Host!firstSafeResumeRoundId(t) \in Int
<1>1. ROUND \in Nat \ {0}
    BY DEF Host!WorkerHostAssumption, Host!ScheduleBounds
<1>2. ASSUME NEW t \in Nat PROVE Host!CurrentRound(t) \in Nat /\ Host!CurrentRound(t) <= Host!CurrentRound(t + 1)
    BY <1>1 DEF Host!CurrentRound
<1>3. ASSUME NEW t \in Nat, NEW r \in Host!roundIdsToPrepare(t) PROVE r >= Host!CurrentRound(t)
    BY <1>2 DEF Host!roundIdsToPrepare
<1>4. ASSUME NEW t \in Nat PROVE Host!firstSafeResumeRoundId(t) \in Int
    BY <1>2 DEF Host!firstSafeResumeRoundId
<1>5. QED
    BY <1>2, <1>3, <1>4

-----------------------------------------------------------------------------
(* What the functions of the host do to its memory.                        *)

\* g is h with more incidents, and the same keepers and timers.
Grown(h, g) ==
    /\ g \in HostType /\ g.up = h.up /\ g.launched = h.launched /\ g.retry = h.retry
    /\ h.doc \subseteq g.doc

LEMMA GrownAgain ==
    ASSUME NEW f, NEW g, NEW h, Grown(f, g), Grown(g, h) PROVE Grown(f, h)
BY DEF Grown

LEMMA GrownSelf == \A h \in HostType : Grown(h, h)
BY DEF Grown

LEMMA Recorded ==
    ASSUME NEW h \in HostType, NEW I \in Misses
    PROVE  Grown(h, Host!recordDurableRoundIncident(h, I))
BY DEF Grown, Host!recordDurableRoundIncident, Host!record, HostType, Misses

LEMMA Applied == \A h \in HostType : Grown(h, Host!applyDurableIncidentState(h))
BY DEF Grown, Host!applyDurableIncidentState, HostType

LEMMA Resumed ==
    ASSUME Host!WorkerHostAssumption, NEW h \in HostType, NEW t \in Nat
    PROVE  Grown(h, Host!selectResumeActivation(h, t))
<1>1. Host!firstSafeResumeRoundId(t) \in Int
    BY RoundsAreOrdered
<1>2. QED
    BY <1>1 DEF Grown, Host!selectResumeActivation, HostType

LEMMA ActivatedGrows ==
    ASSUME NEW h \in HostType
    PROVE  Grown(h, Host!Activated(h))
<1> DEFINE rec == h.fatal # NoHostRound /\ h.fatal < h.activation.round
           h1 == [h EXCEPT !.activation.prebound = TRUE, !.fatal = IF rec THEN NoHostRound ELSE @]
<1>1. h1 \in HostType /\ Grown(h, h1)
    BY DEF Grown, HostType
<1>2. Grown(h1, Host!applyDurableIncidentState(h1))
    BY <1>1, Applied
<1>3. Grown(h, Host!applyDurableIncidentState(h1))
    BY <1>1, <1>2, GrownAgain
<1>4. Grown(h, h)
    BY GrownSelf
<1>5. Host!Activated(h) \in {h, h1, Host!applyDurableIncidentState(h1)}
    BY DEF Host!Activated
<1>6. QED
    BY <1>1, <1>3, <1>4, <1>5

LEMMA LateAreMisses ==
    ASSUME NEW now, NEW floor, NEW rows
    PROVE  Host!assessRoundScheduleHealth(now, floor, rows) \in Misses
BY DEF Host!assessRoundScheduleHealth, Misses, Host!Stages

LEMMA Refreshed ==
    ASSUME NEW h \in HostType, NEW late \in Misses
    PROVE  Grown(h, Host!refreshRoundHealth(h, late))
<1> DEFINE g == Host!recordDurableRoundIncident(h, late)
           v == {i[1] : i \in late} \cap h.launched
           f == IF Host!MissedPreparations(late) = {} THEN g.fatal
                ELSE CHOOSE r \in Host!MissedPreparations(late) : TRUE
<1>1. g \in HostType /\ Grown(h, g)
    BY Recorded DEF Grown
<1>2. v \in SUBSET Host!Managed
    BY DEF HostType
<1>3. f \in Host!Managed \cup {NoHostRound}
    <2>1. Host!MissedPreparations(late) \subseteq Host!Managed
        BY DEF Host!MissedPreparations, Misses
    <2>2. g.fatal \in Host!Managed \cup {NoHostRound}
        BY <1>1 DEF HostType
    <2>3. QED
        BY <2>1, <2>2
<1>4. Host!refreshRoundHealth(h, late) = [g EXCEPT !.late = late, !.tick = "config", !.violated = @ \cup v, !.fatal = f]
    BY DEF Host!refreshRoundHealth
<1> HIDE DEF g, v, f
<1>5. Grown(g, [g EXCEPT !.late = late, !.tick = "config", !.violated = @ \cup v, !.fatal = f])
    BY <1>1, <1>2, <1>3 DEF Grown, HostType
<1>6. QED
    BY <1>1, <1>4, <1>5, GrownAgain

LEMMA DownType == Host!WorkerHostAssumption => Host!Down \in HostType
BY DEF Host!WorkerHostAssumption, Host!Down, HostType, Host!NoActivation, Misses

-----------------------------------------------------------------------------
(* Steps of the host.                                                      *)

\* A step that changes only the memory of a running host, and the incidents.
LEMMA MemoryStep ==
    ASSUME HostInv, host.up, Grown(host, host'), UNCHANGED <<Host!chainVars, kids, exits>>,
           inbox' \in Misses, disk' \in Misses, disk' \subseteq host'.doc
    PROVE  HostInv'
<1>1. ChainType' /\ ChildType' /\ host' \in HostType
    BY DEF HostInv, ChainType, ChildType, Host!chainVars, Grown
<1>2. Tokens'
    BY DEF HostInv, Tokens, OneToken, Host!CurrentRound, Host!chainVars, Grown
<1>3. FileInMemory'
    BY DEF FileInMemory, Grown
<1>4. QED
    BY <1>1, <1>2, <1>3 DEF HostInv

LEMMA PersistKeeps == HostInv /\ Host!persist => HostInv'
<1> SUFFICES ASSUME HostInv, Host!persist PROVE HostInv'
    OBVIOUS
<1>1. Grown(host, host') /\ host'.doc = host.doc /\ host.doc \in Misses
    BY DEF HostInv, HostType, Grown, Host!persist
<1>2. QED
    BY <1>1, MemoryStep DEF Host!persist, HostInv, ChildType, Host!childVars, Host!chainVars

LEMMA PersistFailsKeeps == HostInv /\ Host!persistFails => HostInv'
<1> SUFFICES ASSUME HostInv, Host!persistFails PROVE HostInv'
    OBVIOUS
<1>1. Grown(host, host')
    BY DEF HostInv, HostType, Grown, Host!persistFails
<1>2. disk \subseteq host.doc
    BY DEF HostInv, FileInMemory, Host!persistFails
<1>3. QED
    BY <1>1, <1>2, MemoryStep DEF Host!persistFails, HostInv, ChildType, Host!childVars, Host!chainVars, Grown

LEMMA ReadFailsKeeps == HostInv /\ Host!SchedulerReadFails => HostInv'
<1> SUFFICES ASSUME HostInv, Host!SchedulerReadFails PROVE HostInv'
    OBVIOUS
<1>1. Grown(host, host')
    BY DEF HostInv, HostType, Grown, Host!SchedulerReadFails
<1>2. disk \subseteq host.doc
    BY DEF HostInv, FileInMemory, Host!SchedulerReadFails
<1>3. QED
    BY <1>1, <1>2, MemoryStep DEF Host!SchedulerReadFails, HostInv, ChildType, Host!childVars, Host!chainVars, Grown

LEMMA ConfigKeeps == Host!WorkerHostAssumption /\ HostInv /\ Host!refreshScheduleConfig => HostInv'
<1> SUFFICES ASSUME Host!WorkerHostAssumption, HostInv, Host!refreshScheduleConfig PROVE HostInv'
    OBVIOUS
<1> DEFINE resumed == IF host.seenPaused /\ ~host_paused
                      THEN Host!selectResumeActivation(host, host_clock) ELSE host
           seen == [resumed EXCEPT !.seenPaused = host_paused, !.tick = "audit"]
<1>1. host \in HostType /\ host_clock \in Nat /\ host_paused \in BOOLEAN
    BY DEF HostInv, ChainType
<1>2. resumed \in HostType /\ Grown(host, resumed)
    BY <1>1, Resumed, GrownSelf DEF Grown
<1>3. host' = IF host.fatal = NoHostRound THEN Host!applyDurableIncidentState(seen) ELSE seen
    BY DEF Host!refreshScheduleConfig
<1>4. seen \in HostType /\ Grown(resumed, seen)
    <2> HIDE DEF resumed
    <2>1. QED
        BY <1>1, <1>2 DEF HostType, Grown
<1> HIDE DEF resumed, seen
<1>5. Grown(seen, host')
    BY <1>3, <1>4, Applied, GrownSelf
<1>6. Grown(host, host')
    BY <1>2, <1>4, <1>5, GrownAgain
<1>7. disk \subseteq host.doc
    BY DEF HostInv, FileInMemory, Host!refreshScheduleConfig
<1>8. QED
    BY <1>6, <1>7, MemoryStep DEF Host!refreshScheduleConfig, HostInv, ChildType, Host!childVars, Host!chainVars, Grown

LEMMA MessageKeeps == \A m : HostInv /\ Host!onMessage(m) => HostInv'
<1> SUFFICES ASSUME NEW m, HostInv, Host!onMessage(m) PROVE HostInv'
    OBVIOUS
<1> DEFINE g == Host!recordDurableRoundIncident(host, {m})
<1>1. {m} \in Misses /\ m[1] \in Host!Managed
    BY DEF Host!onMessage, HostInv, ChildType, Misses
<1>2. g \in HostType /\ Grown(host, g)
    BY <1>1, Recorded DEF HostInv, Grown
<1>3. host' = [g EXCEPT !.violated = @ \cup {m[1]}]
    BY DEF Host!onMessage
<1> HIDE DEF g
<1>4. Grown(g, host')
    BY <1>1, <1>2, <1>3 DEF HostType, Grown
<1>5. Grown(host, host')
    BY <1>2, <1>4, GrownAgain
<1>6. disk \subseteq host.doc
    BY DEF HostInv, FileInMemory, Host!onMessage
<1>7. inbox' \in Misses
    BY DEF Host!onMessage, HostInv, ChildType, Misses
<1>8. QED
    BY <1>5, <1>6, <1>7, MemoryStep DEF Host!onMessage, HostInv, Host!chainVars, Grown

\* A host that is down has nothing to lose.
LEMMA DownKeeps ==
    ASSUME Host!WorkerHostAssumption, HostInv, host' = Host!Down, Host!NoChildren, disk' \in Misses,
           UNCHANGED Host!chainVars
    PROVE  HostInv'
<1>1. ChainType' /\ host' \in HostType
    BY DownType DEF HostInv, ChainType, Host!chainVars
<1>2. ChildType'
    BY DEF Host!NoChildren, ChildType, Alone, Misses
<1>3. Tokens'
    BY DEF Tokens, OneToken, Host!NoChildren, Host!Down
<1>4. FileInMemory'
    BY DEF FileInMemory, Host!NoChildren, Host!Down
<1>5. QED
    BY <1>1, <1>2, <1>3, <1>4 DEF HostInv

LEMMA ShutdownKeeps == Host!WorkerHostAssumption /\ HostInv /\ Host!shutdown => HostInv'
BY DownKeeps DEF Host!shutdown, HostInv, HostType

LEMMA DiesKeeps == Host!WorkerHostAssumption /\ HostInv /\ Host!HostDies => HostInv'
BY DownKeeps DEF Host!HostDies, HostInv

LEMMA MainKeeps == \A cleared : Host!WorkerHostAssumption /\ HostInv /\ Host!main(cleared) => HostInv'
<1> SUFFICES ASSUME NEW cleared, Host!WorkerHostAssumption, HostInv, Host!main(cleared) PROVE HostInv'
    OBVIOUS
<1> DEFINE d == Host!clearExact(disk, cleared)
           g == Host!readIncidentDocument([Host!Down EXCEPT !.up = TRUE, !.seenPaused = host_paused], d)
<1>1. d \in Misses /\ host_paused \in BOOLEAN
    BY DEF Host!clearExact, HostInv, Misses, ChainType
<1>2. g \in HostType /\ g.up /\ g.doc = d /\ g.launched = {} /\ g.retry = {}
    <2>1. Host!Down \in HostType /\ Host!Down.launched = {} /\ Host!Down.retry = {}
        BY DownType DEF Host!Down
    <2> HIDE DEF d
    <2>2. QED
        BY <1>1, <2>1 DEF Host!readIncidentDocument, HostType
<1>3. host' = Host!applyDurableIncidentState(g) /\ disk' = d
    BY DEF Host!main
<1> HIDE DEF g, d
<1>4. Grown(g, host')
    BY <1>2, <1>3, Applied
<1>5. ChainType' /\ ChildType' /\ disk' \in Misses /\ host' \in HostType
    BY <1>1, <1>3, <1>4 DEF Host!main, HostInv, ChainType, ChildType, Host!chainVars, Host!childVars, Grown
<1>6. host.up = FALSE /\ kids' = [r \in Host!Managed |-> <<>>] /\ exits' = {}
    BY DEF HostInv, FileInMemory, Host!main, Host!childVars, HostType
<1>7. Tokens'
    BY <1>2, <1>4, <1>6 DEF Tokens, OneToken, Grown
<1>8. FileInMemory'
    BY <1>2, <1>3, <1>4 DEF FileInMemory, Grown
<1>9. QED
    BY <1>5, <1>7, <1>8 DEF HostInv

-----------------------------------------------------------------------------
(* Starts and exits of keepers.                                            *)

LEMMA SpawnAlone ==
    ASSUME ChildType, NEW R \in SUBSET Host!Managed, Host!Spawn(R), \A r \in R : kids[r] = <<>>
    PROVE  /\ kids' \in [Host!Managed -> Alone]
           /\ \A r \in Host!Managed : kids'[r] = IF r \in R THEN <<"boot">> ELSE kids[r]
<1>1. Append(<<>>, "boot") = <<"boot">>
    OBVIOUS
<1>2. kids' = [r \in Host!Managed |-> IF r \in R THEN Append(kids[r], "boot") ELSE kids[r]]
    BY DEF Host!Spawn
<1>3. \A r \in Host!Managed : kids'[r] = IF r \in R THEN <<"boot">> ELSE kids[r]
    BY <1>1, <1>2
<1>4. \A r \in Host!Managed : kids[r] \in Alone /\ <<"boot">> \in Alone
    BY DEF ChildType, Alone
<1>5. QED
    BY <1>2, <1>3, <1>4

LEMMA ScheduleKeeps == Host!WorkerHostAssumption /\ HostInv /\ Host!scheduleRoundWorkers => HostInv'
<1> SUFFICES ASSUME Host!WorkerHostAssumption, HostInv, Host!scheduleRoundWorkers PROVE HostInv'
    OBVIOUS
<1>1. host \in HostType /\ host_clock \in Nat /\ host.up /\ disk \subseteq host.doc /\ disk \in Misses
    BY DEF HostInv, ChainType, FileInMemory, Host!scheduleRoundWorkers
<1>2. PICK late \in {IF host.seenPaused THEN {}
                     ELSE Host!assessRoundScheduleHealth(host_clock, host.floor, host_rounds)} :
       \E audited \in {Host!refreshRoundHealth(Host!Activated(host), late)} :
       \E h \in {IF Host!Rederive(audited) THEN Host!selectResumeActivation(audited, host_clock) ELSE audited} :
       \E starting \in {Host!Startable(h, Host!roundIdsToPrepare(host_clock))} :
       \E old \in {{r \in h.launched \ starting :
                       r < Host!CurrentRound(host_clock) - RETAINED /\ ~Host!HasChild(r)}} :
          IF host.seenPaused
          THEN host' = audited /\ UNCHANGED kids
          ELSE /\ Host!Spawn(starting)
               /\ host' = [h EXCEPT !.launched = (@ \cup starting) \ old,
                                    !.violated = @ \ old]
    BY DEF Host!scheduleRoundWorkers
<1>3. PICK audited \in {Host!refreshRoundHealth(Host!Activated(host), late)} :
       \E h \in {IF Host!Rederive(audited) THEN Host!selectResumeActivation(audited, host_clock) ELSE audited} :
       \E starting \in {Host!Startable(h, Host!roundIdsToPrepare(host_clock))} :
       \E old \in {{r \in h.launched \ starting :
                       r < Host!CurrentRound(host_clock) - RETAINED /\ ~Host!HasChild(r)}} :
          IF host.seenPaused
          THEN host' = audited /\ UNCHANGED kids
          ELSE /\ Host!Spawn(starting)
               /\ host' = [h EXCEPT !.launched = (@ \cup starting) \ old,
                                    !.violated = @ \ old]
    BY <1>2
<1>4. PICK h \in {IF Host!Rederive(audited) THEN Host!selectResumeActivation(audited, host_clock) ELSE audited} :
       \E starting \in {Host!Startable(h, Host!roundIdsToPrepare(host_clock))} :
       \E old \in {{r \in h.launched \ starting :
                       r < Host!CurrentRound(host_clock) - RETAINED /\ ~Host!HasChild(r)}} :
          IF host.seenPaused
          THEN host' = audited /\ UNCHANGED kids
          ELSE /\ Host!Spawn(starting)
               /\ host' = [h EXCEPT !.launched = (@ \cup starting) \ old,
                                    !.violated = @ \ old]
    BY <1>3
<1> DEFINE starting == Host!Startable(h, Host!roundIdsToPrepare(host_clock))
           old == {r \in h.launched \ starting : r < Host!CurrentRound(host_clock) - RETAINED /\ ~Host!HasChild(r)}
<1>5. IF host.seenPaused
      THEN host' = audited /\ UNCHANGED kids
      ELSE Host!Spawn(starting) /\ host' = [h EXCEPT !.launched = (@ \cup starting) \ old, !.violated = @ \ old]
    BY <1>4
<1>6. late \in Misses
    BY LateAreMisses DEF Misses
<1>7. audited \in HostType /\ Grown(host, audited)
    <2>1. Host!Activated(host) \in HostType /\ Grown(host, Host!Activated(host))
        BY <1>1, ActivatedGrows DEF Grown
    <2>2. Grown(Host!Activated(host), Host!refreshRoundHealth(Host!Activated(host), late))
        BY <1>6, <2>1, Refreshed
    <2>3. Grown(host, audited)
        BY <1>3, <2>1, <2>2, GrownAgain
    <2>4. QED
        BY <2>3 DEF Grown
<1>8. h \in HostType /\ Grown(host, h)
    <2>1. Grown(audited, h)
        BY <1>1, <1>4, <1>7, Resumed, GrownSelf
    <2>2. QED
        BY <1>7, <2>1, GrownAgain DEF Grown
<1>9. UNCHANGED <<host_clock, host_paused, host_rounds, inbox, exits, disk>>
    BY DEF Host!scheduleRoundWorkers, Host!chainVars
<1>10. CASE host.seenPaused
    BY <1>1, <1>5, <1>7, <1>9, <1>10, MemoryStep DEF Host!chainVars, HostInv, ChildType, Grown
<1>11. CASE ~host.seenPaused
    <2>1. h.launched = host.launched /\ h.retry = host.retry /\ h.up /\ h.launched \in SUBSET Host!Managed
        BY <1>1, <1>8 DEF Grown, HostType
    <2>2. \A r \in starting : r \in Host!Managed /\ r \notin host.launched /\ r >= Host!CurrentRound(host_clock)
        BY <1>1, <2>1, RoundsAreOrdered DEF Host!Startable
    <2>3. starting \in SUBSET Host!Managed /\ old \in SUBSET Host!Managed
        BY <2>1, <2>2
    <2>4. \A r \in old : r \notin starting /\ r < Host!CurrentRound(host_clock) /\ kids[r] = <<>> /\ \A x \in exits : x[1] # r
        <3>1. Host!CurrentRound(host_clock) \in Nat /\ RETAINED \in Nat /\ Host!Managed \subseteq Int
            BY <1>1, RoundsAreOrdered DEF Host!WorkerHostAssumption, Host!Managed
        <3>2. \A r \in old : r \notin starting /\ r < Host!CurrentRound(host_clock) - RETAINED /\ ~Host!HasChild(r)
            BY Zenon
        <3>3. PICK c \in Nat : c = Host!CurrentRound(host_clock)
            BY <3>1
        <3>4. \A r \in Int : r < c - RETAINED => r < c
            BY <3>1
        <3> HIDE DEF old, starting
        <3>5. \A r \in old : r < Host!CurrentRound(host_clock)
            BY <2>3, <3>1, <3>2, <3>3, <3>4
        <3>6. QED
            BY <3>2, <3>5 DEF Host!HasChild
    <2> HIDE DEF starting, old
    <2>5. Host!Spawn(starting) /\ host' = [h EXCEPT !.launched = (@ \cup starting) \ old, !.violated = @ \ old]
        BY <1>5, <1>11
    <2>6. /\ host' \in HostType /\ host'.up = h.up /\ host'.doc = h.doc /\ host'.retry = host.retry
          /\ host'.launched = (host.launched \cup starting) \ old
        BY <1>8, <2>1, <2>3, <2>5 DEF HostType
    <2>7. \A r \in starting : kids[r] = <<>> /\ r \notin host.retry /\ \A x \in exits : x[1] # r
        <3>1. Host!CurrentRound(host_clock) \in Nat /\ Host!Managed \subseteq Int
            BY <1>1, RoundsAreOrdered DEF Host!WorkerHostAssumption, Host!Managed
        <3>2. PICK c \in Nat : c = Host!CurrentRound(host_clock)
            BY <3>1
        <3>3. OneToken(kids, exits, host.launched, host.retry, c)
            BY <3>2 DEF HostInv, Tokens
        <3>4. \A r \in starting : r \in Host!Managed /\ r \notin host.launched /\ ~(r < c)
            <4>1. \A r \in starting : r \in Host!Managed /\ r \notin host.launched /\ r >= c
                BY <2>2, <3>2
            <4>2. \A r \in Host!Managed : r >= c => ~(r < c)
                BY <3>1
            <4>3. QED
                BY <4>1, <4>2
        <3>5. QED
            BY <3>3, <3>4 DEF OneToken
    <2>8. /\ kids' \in [Host!Managed -> Alone]
          /\ \A r \in Host!Managed : kids'[r] = IF r \in starting THEN <<"boot">> ELSE kids[r]
        BY <2>3, <2>5, <2>7, SpawnAlone DEF HostInv
    <2>9. ChainType' /\ ChildType' /\ disk' \in Misses
        BY <1>1, <1>9, <2>8 DEF HostInv, ChainType, ChildType
    <2>10. Host!CurrentRound(host_clock)' = Host!CurrentRound(host_clock)
        BY <1>9 DEF Host!CurrentRound
    <2>11. Tokens'
        <3> DEFINE c == Host!CurrentRound(host_clock)
        <3>1. OneToken(kids, exits, host.launched, host.retry, c)
            BY DEF HostInv, Tokens
        <3> HIDE DEF c
        <3>2. OneToken(kids', exits, (host.launched \cup starting) \ old, host.retry, c)
            <4> SUFFICES ASSUME NEW r \in Host!Managed
                         PROVE  /\ kids'[r] # <<>> => r \in (host.launched \cup starting) \ old /\ r \notin host.retry
                                /\ \A x \in exits : x[1] = r =>
                                      /\ kids'[r] = <<>> /\ r \in (host.launched \cup starting) \ old /\ r \notin host.retry
                                      /\ \A y \in exits : y[1] = r => y = x
                                /\ r \in host.retry /\ r \notin (host.launched \cup starting) \ old => r < c
                BY DEF OneToken
            <4>1. CASE r \in starting
                BY <2>4, <2>7, <4>1
            <4>2. CASE r \in old
                BY <2>4, <2>8, <4>2 DEF c
            <4>3. CASE r \notin starting /\ r \notin old
                BY <2>8, <3>1, <4>3 DEF OneToken
            <4>4. QED
                BY <4>1, <4>2, <4>3
        <3>3. QED
            BY <1>9, <2>6, <2>10, <3>2 DEF Tokens, c
    <2>12. FileInMemory'
        BY <1>1, <1>8, <1>9, <2>1, <2>6 DEF FileInMemory, Grown
    <2>13. QED
        BY <2>6, <2>9, <2>11, <2>12 DEF HostInv
<1>12. QED
    BY <1>10, <1>11

LEMMA TimerKeeps == \A r : HostInv /\ r \in Host!Managed /\ Host!restartTimer(r) => HostInv'
<1> SUFFICES ASSUME NEW r \in Host!Managed, HostInv, Host!restartTimer(r) PROVE HostInv'
    BY DEF Host!restartTimer
<1> DEFINE h == [host EXCEPT !.retry = @ \ {r}, !.launched = @ \ {r}]
           starting == Host!Startable(h, {r})
<1>1. /\ Host!Spawn(starting) /\ host' = [h EXCEPT !.launched = @ \cup starting]
      /\ host.up /\ r \in host.retry /\ UNCHANGED <<host_clock, host_paused, host_rounds, inbox, exits, disk>>
    BY DEF Host!restartTimer, Host!chainVars
<1>2. host \in HostType /\ disk \subseteq host.doc /\ disk \in Misses
    BY <1>1 DEF HostInv, FileInMemory
<1>3. h \in HostType /\ h.launched = host.launched \ {r} /\ h.retry = host.retry \ {r}
      /\ h.up = host.up /\ h.doc = host.doc
    BY <1>2 DEF HostType
<1>4. starting \in SUBSET {r}
    BY DEF Host!Startable
<1> HIDE DEF h, starting
<1>5. /\ host' \in HostType /\ host'.up = host.up /\ host'.doc = host.doc
      /\ host'.retry = host.retry \ {r} /\ host'.launched = (host.launched \ {r}) \cup starting
    BY <1>1, <1>3, <1>4 DEF HostType
<1> DEFINE c == Host!CurrentRound(host_clock)
<1>6. OneToken(kids, exits, host.launched, host.retry, c)
    BY DEF HostInv, Tokens
<1> HIDE DEF c
<1>7. kids[r] = <<>> /\ \A x \in exits : x[1] # r
    BY <1>1, <1>6 DEF OneToken
<1>8. /\ kids' \in [Host!Managed -> Alone]
      /\ \A q \in Host!Managed : kids'[q] = IF q \in starting THEN <<"boot">> ELSE kids[q]
    BY <1>1, <1>4, <1>7, SpawnAlone DEF HostInv
<1>9. ChainType' /\ ChildType' /\ disk' \in Misses
    BY <1>1, <1>2, <1>8 DEF HostInv, ChainType, ChildType
<1>10. OneToken(kids', exits, (host.launched \ {r}) \cup starting, host.retry \ {r}, c)
    <2> SUFFICES ASSUME NEW q \in Host!Managed
                 PROVE  /\ kids'[q] # <<>> => q \in (host.launched \ {r}) \cup starting /\ q \notin host.retry \ {r}
                        /\ \A x \in exits : x[1] = q =>
                              /\ kids'[q] = <<>> /\ q \in (host.launched \ {r}) \cup starting /\ q \notin host.retry \ {r}
                              /\ \A y \in exits : y[1] = q => y = x
                        /\ q \in host.retry \ {r} /\ q \notin (host.launched \ {r}) \cup starting => q < c
        BY DEF OneToken
    <2>1. CASE q = r
        BY <1>7, <1>8, <2>1
    <2>2. CASE q # r
        BY <1>4, <1>6, <1>8, <2>2 DEF OneToken
    <2>3. QED
        BY <2>1, <2>2
<1>11. Host!CurrentRound(host_clock)' = c
    BY <1>1 DEF Host!CurrentRound, c
<1>12. Tokens'
    BY <1>1, <1>5, <1>10, <1>11 DEF Tokens
<1>13. FileInMemory'
    BY <1>1, <1>2, <1>5 DEF FileInMemory
<1>14. QED
    BY <1>5, <1>9, <1>12, <1>13 DEF HostInv

\* What an exit does to the memory.
Exited(h, g, r, code) ==
    /\ g \in HostType /\ g.up = h.up /\ h.doc \subseteq g.doc
    /\ g.launched = IF code = "deferred" THEN h.launched \ {r} ELSE h.launched
    /\ g.retry = IF code = "crash" THEN h.retry \cup {r} ELSE h.retry

LEMMA AfterExitMemory ==
    ASSUME NEW h \in HostType, NEW r \in Host!Managed, NEW code \in Codes,
           NEW g, g = Host!AfterExit(h, r, code)
    PROVE  Exited(h, g, r, code)
<1>1. CASE code = "deferred"
    BY <1>1 DEF Exited, Host!AfterExit, HostType
<1>2. CASE code = "crash"
    BY <1>2 DEF Exited, Host!AfterExit, HostType
<1>3. CASE code = "ok"
    BY <1>3 DEF Exited, Host!AfterExit
<1>4. CASE code = "missed" /\ ~(r >= h.floor)
    BY <1>4 DEF Exited, Host!AfterExit
<1>5. CASE code = "missed" /\ r >= h.floor
    <2> DEFINE f == Host!recordDurableRoundIncident(h, {<<r, "prepare">>})
    <2>1. Host!AfterExit(h, r, code) = [f EXCEPT !.violated = @ \cup {r}, !.fatal = r, !.error = "fatal"]
        BY <1>5 DEF Host!AfterExit, Host!MissedPreparation
    <2>2. {<<r, "prepare">>} \in Misses
        BY DEF Misses, Host!Stages
    <2>3. f \in HostType /\ Grown(h, f)
        BY <2>2, Recorded DEF Grown
    <2> HIDE DEF f
    <2>4. [f EXCEPT !.violated = @ \cup {r}, !.fatal = r, !.error = "fatal"] \in HostType
        BY <2>3 DEF HostType
    <2>5. Grown(f, [f EXCEPT !.violated = @ \cup {r}, !.fatal = r, !.error = "fatal"])
        BY <2>3, <2>4 DEF HostType, Grown
    <2>6. Grown(h, g)
        BY <2>1, <2>3, <2>5, GrownAgain
    <2>7. QED
        BY <1>5, <2>6 DEF Grown, Exited
<1>6. QED
    BY <1>1, <1>2, <1>3, <1>4, <1>5 DEF Codes

LEMMA ExitKeeps == \A x : HostInv /\ Host!onExit(x) => HostInv'
<1> SUFFICES ASSUME NEW x, HostInv, Host!onExit(x) PROVE HostInv'
    OBVIOUS
<1>1. x \in exits /\ host.up /\ exits' = exits \ {x}
      /\ UNCHANGED <<host_clock, host_paused, host_rounds, kids, inbox, disk>> /\ host' = Host!AfterExit(host, x[1], x[2])
    BY DEF Host!onExit, Host!chainVars
<1>2. host \in HostType /\ disk \subseteq host.doc /\ disk \in Misses /\ exits \in SUBSET (Host!Managed \X Codes)
    BY <1>1 DEF HostInv, FileInMemory, ChildType
<1>3. x[1] \in Host!Managed /\ x[2] \in Codes
    BY <1>1, <1>2
<1>4. /\ host' \in HostType /\ host'.up = host.up /\ host.doc \subseteq host'.doc
      /\ host'.launched = IF x[2] = "deferred" THEN host.launched \ {x[1]} ELSE host.launched
      /\ host'.retry = IF x[2] = "crash" THEN host.retry \cup {x[1]} ELSE host.retry
    <2>1. PICK r \in Host!Managed : r = x[1]
        BY <1>3
    <2>2. PICK code \in Codes : code = x[2]
        BY <1>3
    <2>3. host' = Host!AfterExit(host, r, code)
        BY <1>1, <2>1, <2>2
    <2>4. /\ host' \in HostType /\ host'.up = host.up /\ host.doc \subseteq host'.doc
          /\ host'.launched = IF code = "deferred" THEN host.launched \ {r} ELSE host.launched
          /\ host'.retry = IF code = "crash" THEN host.retry \cup {r} ELSE host.retry
        <3>1. PICK h \in HostType : h = host
            BY <1>2
        <3>2. PICK g : g = host'
            OBVIOUS
        <3>3. g = Host!AfterExit(h, r, code)
            BY <2>3, <3>1, <3>2
        <3>4. Exited(h, g, r, code)
            BY <3>3, AfterExitMemory
        <3>5. QED
            BY <3>1, <3>2, <3>4 DEF Exited
    <2>5. QED
        BY <2>1, <2>2, <2>4
<1> DEFINE c == Host!CurrentRound(host_clock)
<1>5. OneToken(kids, exits, host.launched, host.retry, c)
    BY DEF HostInv, Tokens
<1> HIDE DEF c
<1>6. PICK r \in Host!Managed : r = x[1]
    BY <1>3
<1>7. kids[r] = <<>> /\ r \in host.launched /\ r \notin host.retry /\ \A y \in exits : y[1] = r => y = x
    BY <1>1, <1>5, <1>6 DEF OneToken
<1>8. OneToken(kids, exits \ {x}, host'.launched, host'.retry, c)
    <2> SUFFICES ASSUME NEW q \in Host!Managed
                 PROVE  /\ kids[q] # <<>> => q \in host'.launched /\ q \notin host'.retry
                        /\ \A z \in exits \ {x} : z[1] = q =>
                              /\ kids[q] = <<>> /\ q \in host'.launched /\ q \notin host'.retry
                              /\ \A y \in exits \ {x} : y[1] = q => y = z
                        /\ q \in host'.retry /\ q \notin host'.launched => q < c
        BY DEF OneToken
    <2>1. CASE q = r
        BY <1>4, <1>6, <1>7, <2>1
    <2>2. CASE q # r
        BY <1>4, <1>5, <1>6, <2>2 DEF OneToken
    <2>3. QED
        BY <2>1, <2>2
<1>9. Host!CurrentRound(host_clock)' = c
    BY <1>1 DEF Host!CurrentRound, c
<1>10. Tokens'
    BY <1>1, <1>8, <1>9 DEF Tokens
<1>11. ChainType' /\ ChildType' /\ disk' \in Misses
    BY <1>1, <1>2 DEF HostInv, ChainType, ChildType
<1>12. FileInMemory'
    BY <1>1, <1>2, <1>4 DEF FileInMemory
<1>13. QED
    BY <1>4, <1>10, <1>11, <1>12 DEF HostInv

-----------------------------------------------------------------------------
(* Steps of keepers and of the chain.                                      *)

\* The one keeper of a round.
LEMMA OnlyKeeper ==
    ASSUME ChildType, NEW p \in Host!Living
    PROVE  p[1] \in Host!Managed /\ p[2] = 1 /\ kids[p[1]] # <<>> /\ Len(kids[p[1]]) = 1
<1>1. p[1] \in Host!Managed /\ p[2] \in 1..2 /\ p[2] \in DOMAIN kids[p[1]]
    BY DEF Host!Living
<1>2. PICK s \in Alone : s = kids[p[1]]
    BY <1>1 DEF ChildType
<1>3. s # <<>>
    <2>1. DOMAIN <<>> = {}
        OBVIOUS
    <2>2. QED
        BY <1>1, <1>2, <2>1
<1>4. \E b \in {"boot", "run", "hung"} : s = <<b>>
    BY <1>3 DEF Alone
<1>5. PICK b \in {"boot", "run", "hung"} : s = <<b>>
    BY <1>4
<1>6. DOMAIN <<b>> = {1} /\ Len(<<b>>) = 1
    OBVIOUS
<1>7. QED
    BY <1>1, <1>2, <1>3, <1>5, <1>6

LEMMA ExitEmpties ==
    ASSUME ChildType, NEW p \in Host!Living, NEW code \in Codes, Host!Exit(p, code)
    PROVE  /\ kids' \in [Host!Managed -> Alone] /\ kids[p[1]] # <<>> /\ p[1] \in Host!Managed
           /\ \A r \in Host!Managed : kids'[r] = IF r = p[1] THEN <<>> ELSE kids[r]
           /\ exits' = exits \cup {<<p[1], code>>}
<1>1. p[1] \in Host!Managed /\ p[2] = 1 /\ kids[p[1]] # <<>> /\ Len(kids[p[1]]) = 1
    BY OnlyKeeper
<1>2. kids \in [Host!Managed -> Alone] /\ <<>> \in Alone
    BY DEF ChildType, Alone
<1>3. PICK b \in {"boot", "run", "hung"} : kids[p[1]] = <<b>>
    BY <1>1, <1>2 DEF Alone
<1>4. SubSeq(<<b>>, 1, 1 - 1) \o SubSeq(<<b>>, 1 + 1, Len(<<b>>)) = <<>>
    OBVIOUS
<1>5. kids' = [kids EXCEPT ![p[1]] = <<>>]
    BY <1>1, <1>3, <1>4 DEF Host!Exit
<1>6. QED
    BY <1>1, <1>2, <1>5 DEF Host!Exit

\* A keeper leaves its exit behind, or goes on.
LEMMA ChildStep ==
    ASSUME HostInv, host.up, UNCHANGED <<host_clock, host, disk>>, ChainType', inbox' \in Misses,
           NEW p \in Host!Living,
           \/ \E code \in Codes : Host!Exit(p, code)
           \/ \E st \in {"run", "hung"} : Host!Become(p, st) /\ UNCHANGED exits
           \/ UNCHANGED <<kids, exits>>
    PROVE  HostInv'
<1> DEFINE c == Host!CurrentRound(host_clock)
           l == host.launched
           t == host.retry
<1>1. OneToken(kids, exits, l, t, c)
    BY DEF HostInv, Tokens
<1>2. ChildType
    BY DEF HostInv
<1> HIDE DEF c, l, t
<1>3. kids' \in [Host!Managed -> Alone] /\ exits' \in SUBSET (Host!Managed \X Codes) /\ OneToken(kids', exits', l, t, c)
    <2>1. ASSUME NEW code \in Codes, Host!Exit(p, code) PROVE <1>3
        <3>1. /\ kids' \in [Host!Managed -> Alone] /\ kids[p[1]] # <<>> /\ p[1] \in Host!Managed
              /\ \A r \in Host!Managed : kids'[r] = IF r = p[1] THEN <<>> ELSE kids[r]
              /\ exits' = exits \cup {<<p[1], code>>}
            BY <1>2, <2>1, ExitEmpties
        <3>2. exits' \in SUBSET (Host!Managed \X Codes)
            BY <1>2, <3>1 DEF ChildType
        <3>3. PICK q \in Host!Managed : q = p[1]
            BY <3>1
        <3>4. q \in l /\ q \notin t /\ \A x \in exits : x[1] # q
            BY <1>1, <3>1, <3>3 DEF OneToken
        <3>5. \A x \in exits' : x \in exits \/ x = <<q, code>>
            BY <3>1, <3>3
        <3>6. OneToken(kids', exits', l, t, c)
            <4> SUFFICES ASSUME NEW r \in Host!Managed
                         PROVE  /\ kids'[r] # <<>> => r \in l /\ r \notin t
                                /\ \A x \in exits' : x[1] = r =>
                                      /\ kids'[r] = <<>> /\ r \in l /\ r \notin t
                                      /\ \A y \in exits' : y[1] = r => y = x
                                /\ r \in t /\ r \notin l => r < c
                BY DEF OneToken
            <4>1. CASE r = q
                BY <3>1, <3>3, <3>4, <3>5, <4>1
            <4>2. CASE r # q
                <5>1. \A x \in exits' : x[1] = r => x \in exits
                    BY <3>5, <4>2
                <5>2. kids'[r] = kids[r]
                    BY <3>1, <3>3, <4>2
                <5>3. QED
                    BY <1>1, <5>1, <5>2 DEF OneToken
            <4>3. QED
                BY <4>1, <4>2
        <3>7. QED
            BY <3>1, <3>2, <3>6
    <2>2. ASSUME NEW st \in {"run", "hung"}, Host!Become(p, st), UNCHANGED exits PROVE <1>3
        <3>1. p[1] \in Host!Managed /\ p[2] = 1 /\ kids[p[1]] # <<>>
            BY <1>2, OnlyKeeper
        <3>2. kids \in [Host!Managed -> Alone] /\ exits \in SUBSET (Host!Managed \X Codes)
            BY <1>2 DEF ChildType
        <3>3. PICK b \in {"boot", "run", "hung"} : kids[p[1]] = <<b>>
            BY <3>1, <3>2 DEF Alone
        <3>4. [<<b>> EXCEPT ![1] = st] = <<st>>
            OBVIOUS
        <3>5. kids' = [kids EXCEPT ![p[1]] = <<st>>]
            BY <2>2, <3>1, <3>3, <3>4 DEF Host!Become
        <3>6. <<st>> \in Alone /\ <<st>> # <<>>
            BY DEF Alone
        <3>7. kids' \in [Host!Managed -> Alone] /\ \A r \in Host!Managed : kids'[r] = <<>> <=> kids[r] = <<>>
            BY <3>1, <3>2, <3>5, <3>6
        <3>8. QED
            BY <1>1, <2>2, <3>2, <3>7 DEF OneToken
    <2>3. CASE UNCHANGED <<kids, exits>>
        BY <1>1, <1>2, <2>3 DEF ChildType
    <2>4. QED
        BY <2>1, <2>2, <2>3
<1>4. ChildType' /\ host' \in HostType /\ disk' \in Misses
    BY <1>3 DEF HostInv, ChildType
<1>5. Host!CurrentRound(host_clock)' = c /\ host'.launched = l /\ host'.retry = t
    BY DEF Host!CurrentRound, c, l, t
<1>6. Tokens'
    BY <1>3, <1>5 DEF Tokens
<1>7. FileInMemory'
    BY DEF HostInv, FileInMemory
<1>8. QED
    BY <1>4, <1>6, <1>7 DEF HostInv

LEMMA SaidMisses ==
    ASSUME NEW msgs \in Misses, Host!Say(msgs), inbox \in Misses PROVE inbox' \in Misses
BY DEF Host!Say, Misses

LEMMA RoundsTyped ==
    ASSUME ChainType, UNCHANGED <<host_clock, host_paused>>, NEW r \in Host!Managed,
           NEW st \in {"absent", "bound", "locked", "settled", "late"},
           host_rounds' = [host_rounds EXCEPT ![r] = st]
    PROVE  ChainType'
BY DEF ChainType

LEMMA StepsKeep == HostInv /\ Host!KeeperStep => HostInv'
<1> SUFFICES ASSUME HostInv, Host!KeeperStep PROVE HostInv'
    OBVIOUS
<1>1. PICK p \in Host!Living : \/ Host!keeperPreflight(p) \/ Host!keeperPrepare(p) \/ Host!keeperLock(p)
                          \/ Host!keeperSettle(p) \/ Host!auditRecoveredSettlement(p)
    BY DEF Host!KeeperStep
<1>2. host.up /\ UNCHANGED <<host, disk>>
    BY DEF Host!KeeperStep
<1>3. ChainType /\ ChildType /\ inbox \in Misses
    BY DEF HostInv, ChildType
<1>4. p[1] \in Host!Managed
    BY <1>3, OnlyKeeper
<1>5. \A s \in Host!Stages : {<<p[1], s>>} \in Misses
    BY <1>4 DEF Misses
<1>6. {} \in Misses
    BY DEF Misses
<1>7. CASE Host!keeperPreflight(p)
    <2>1. UNCHANGED <<host_clock, host_paused, host_rounds, inbox>>
        BY <1>7 DEF Host!keeperPreflight
    <2>2. \/ \E code \in Codes : Host!Exit(p, code)
          \/ \E st \in {"run", "hung"} : Host!Become(p, st) /\ UNCHANGED exits
        BY <1>7 DEF Host!keeperPreflight, Codes
    <2>3. ChainType' /\ inbox' \in Misses
        BY <1>3, <2>1 DEF ChainType
    <2>4. QED
        BY <1>2, <2>1, <2>2, <2>3, ChildStep
<1>8. CASE Host!keeperPrepare(p)
    <2>1. UNCHANGED <<host_clock, host_paused>>
        BY <1>8 DEF Host!keeperPrepare
    <2>2. (\E code \in Codes : Host!Exit(p, code)) \/ UNCHANGED <<kids, exits>>
        BY <1>8 DEF Host!keeperPrepare, Codes
    <2>3. inbox' \in Misses
        <3>1. PICK msgs \in Misses : Host!Say(msgs)
            <4>1. \/ \E heard \in BOOLEAN : Host!Say(IF heard THEN {<<p[1], "prepare">>} ELSE {})
                  \/ UNCHANGED inbox
                  \/ Host!Say(IF host_clock > Host!canonicalRoundDeadlines(p[1]).prebindAt THEN {<<p[1], "prebind">>} ELSE {})
                BY <1>8 DEF Host!keeperPrepare
            <4>2. UNCHANGED inbox => Host!Say({})
                BY DEF Host!Say
            <4>3. "prepare" \in Host!Stages /\ "prebind" \in Host!Stages
                BY DEF Host!Stages
            <4>4. QED
                BY <1>5, <1>6, <4>1, <4>2, <4>3
        <3>2. QED
            BY <1>3, <3>1, SaidMisses
    <2>4. ChainType'
        <3>1. UNCHANGED host_rounds \/ host_rounds' = [host_rounds EXCEPT ![p[1]] = "bound"]
            BY <1>8 DEF Host!keeperPrepare
        <3>2. QED
            BY <1>3, <1>4, <2>1, <3>1, RoundsTyped DEF ChainType
    <2>5. QED
        BY <1>2, <2>1, <2>2, <2>3, <2>4, ChildStep
<1>9. CASE Host!keeperLock(p)
    <2>1. UNCHANGED <<host_clock, host_paused, kids, exits>> /\ host_rounds' = [host_rounds EXCEPT ![p[1]] = "locked"]
          /\ Host!Say(IF host_clock >= Host!canonicalRoundDeadlines(p[1]).settleAt THEN {<<p[1], "lock">>} ELSE {})
        BY <1>9 DEF Host!keeperLock
    <2>2. inbox' \in Misses
        <3>1. "lock" \in Host!Stages
            BY DEF Host!Stages
        <3>2. QED
            BY <1>3, <1>5, <1>6, <2>1, <3>1, SaidMisses
    <2>3. ChainType'
        BY <1>3, <1>4, <2>1, RoundsTyped
    <2>4. QED
        BY <1>2, <2>1, <2>2, <2>3, ChildStep
<1>10. CASE Host!keeperSettle(p)
    <2> DEFINE met == Host!settlementConfirmedWithinResultWindow(host_clock, p[1])
    <2>1. /\ UNCHANGED <<host_clock, host_paused>> /\ Host!Exit(p, "ok")
          /\ host_rounds' = [host_rounds EXCEPT ![p[1]] = IF met THEN "settled" ELSE "late"]
          /\ Host!Say(IF met THEN {} ELSE {<<p[1], "settlement">>})
        BY <1>10 DEF Host!keeperSettle
    <2> HIDE DEF met
    <2>2. inbox' \in Misses
        <3>1. "settlement" \in Host!Stages
            BY DEF Host!Stages
        <3>2. QED
            BY <1>3, <1>5, <1>6, <2>1, <3>1, SaidMisses
    <2>3. ChainType'
        BY <1>3, <1>4, <2>1, RoundsTyped
    <2>4. \E code \in Codes : Host!Exit(p, code)
        BY <2>1 DEF Codes
    <2>5. QED
        BY <1>2, <2>1, <2>2, <2>3, <2>4, ChildStep
<1>11. CASE Host!auditRecoveredSettlement(p)
    <2>1. UNCHANGED <<host_clock, host_paused, host_rounds>> /\ Host!Exit(p, "ok")
        BY <1>11 DEF Host!auditRecoveredSettlement
    <2>2. inbox' \in Misses
        <3>1. \E found \in BOOLEAN :
                 Host!Say(IF found /\ host_rounds[p[1]] = "settled" THEN {} ELSE {<<p[1], "settlement">>})
            BY <1>11 DEF Host!auditRecoveredSettlement
        <3>2. "settlement" \in Host!Stages
            BY DEF Host!Stages
        <3>3. QED
            BY <1>3, <1>5, <1>6, <3>1, <3>2, SaidMisses
    <2>3. ChainType'
        BY <1>3, <2>1 DEF ChainType
    <2>4. \E code \in Codes : Host!Exit(p, code)
        BY <2>1 DEF Codes
    <2>5. QED
        BY <1>2, <2>1, <2>2, <2>3, <2>4, ChildStep
<1>12. QED
    BY <1>1, <1>7, <1>8, <1>9, <1>10, <1>11

LEMMA FaultsOfKeepersKeep ==
    HostInv /\ (Host!KeeperCrashes \/ Host!KeeperHangs \/ Host!checkWorkerHeartbeats) => HostInv'
<1> SUFFICES ASSUME HostInv, Host!KeeperCrashes \/ Host!KeeperHangs \/ Host!checkWorkerHeartbeats PROVE HostInv'
    OBVIOUS
<1>1. host.up /\ UNCHANGED <<Host!chainVars, inbox, host, disk>>
    BY DEF Host!KeeperCrashes, Host!KeeperHangs, Host!checkWorkerHeartbeats
<1>2. PICK p \in Host!Living : (\E code \in Codes : Host!Exit(p, code))
                           \/ \E st \in {"run", "hung"} : Host!Become(p, st) /\ UNCHANGED exits
    BY DEF Host!KeeperCrashes, Host!KeeperHangs, Host!checkWorkerHeartbeats, Codes
<1>3. ChainType' /\ inbox' \in Misses
    BY <1>1 DEF HostInv, ChainType, ChildType, Host!chainVars
<1>4. QED
    BY <1>1, <1>2, <1>3, ChildStep DEF Host!chainVars

LEMMA HostTickKeeps == Host!WorkerHostAssumption /\ HostInv /\ Host!Tick => HostInv'
<1> SUFFICES ASSUME Host!WorkerHostAssumption, HostInv, Host!Tick PROVE HostInv'
    OBVIOUS
<1>1. host_clock \in Nat /\ host_clock < MaxTime /\ MaxTime \in Nat /\ host_clock' = host_clock + 1
    BY DEF HostInv, ChainType, Host!Tick, Host!WorkerHostAssumption
<1>2. UNCHANGED <<host_paused, host_rounds, kids, inbox, exits, host, disk>>
    BY DEF Host!Tick, Host!childVars
<1>3. ChainType' /\ ChildType'
    BY <1>1, <1>2 DEF HostInv, ChainType, ChildType
<1>4. Tokens'
    <2> DEFINE c == Host!CurrentRound(host_clock)
               d == Host!CurrentRound(host_clock')
    <2>1. c \in Nat /\ d \in Nat /\ c <= d
        BY <1>1, RoundsAreOrdered
    <2>2. OneToken(kids, exits, host.launched, host.retry, c)
        BY DEF HostInv, Tokens
    <2> HIDE DEF c, d
    <2>3. \A r \in Host!Managed : r < c => r < d
        BY <2>1 DEF Host!Managed
    <2>4. OneToken(kids, exits, host.launched, host.retry, d)
        BY <2>2, <2>3 DEF OneToken
    <2>5. Host!CurrentRound(host_clock)' = d
        BY DEF d, Host!CurrentRound
    <2>6. QED
        BY <1>2, <2>4, <2>5 DEF Tokens
<1>5. FileInMemory'
    BY <1>2 DEF HostInv, FileInMemory
<1>6. QED
    BY <1>2, <1>3, <1>4, <1>5 DEF HostInv

LEMMA HostRests ==
    ASSUME HostInv, UNCHANGED <<host_clock, host_rounds, kids, inbox, exits, host, disk>>, host_paused' \in BOOLEAN
    PROVE  HostInv'
<1>1. Tokens'
    BY DEF HostInv, Tokens, Host!CurrentRound
<1>2. FileInMemory'
    BY DEF HostInv, FileInMemory
<1>3. QED
    BY <1>1, <1>2 DEF HostInv, ChainType, ChildType

LEMMA HostBegins == Host!WorkerHostAssumption /\ Host!Init => HostInv
<1> SUFFICES ASSUME Host!WorkerHostAssumption, Host!Init PROVE HostInv
    OBVIOUS
<1>1. host = Host!Down /\ kids = [r \in Host!Managed |-> <<>>] /\ inbox = {} /\ exits = {} /\ disk = {}
    BY DEF Host!Init
<1>2. ChainType
    <2>1. FirstManaged * ROUND \in Nat /\ FirstManaged * ROUND <= MaxTime
        BY DEF Host!WorkerHostAssumption, Host!ScheduleBounds
    <2>2. QED
        BY <2>1 DEF Host!Init, ChainType, Host!WorkerHostAssumption
<1>3. ChildType /\ disk \in Misses
    BY <1>1 DEF ChildType, Alone, Misses
<1>4. Tokens
    BY <1>1 DEF Tokens, OneToken, Host!Down
<1>5. FileInMemory
    BY <1>1 DEF FileInMemory, Host!Down
<1>6. QED
    BY <1>1, <1>2, <1>3, <1>4, <1>5, DownType DEF HostInv

LEMMA HostStep == Host!WorkerHostAssumption /\ HostInv /\ [Host!Next]_(Host!vars) => HostInv'
<1> SUFFICES ASSUME Host!WorkerHostAssumption, HostInv, [Host!Next]_(Host!vars) PROVE HostInv'
    OBVIOUS
<1>1. ASSUME NEW c, Host!main(c) PROVE HostInv'
    BY <1>1, MainKeeps
<1>2. CASE Host!HostEvents
    BY <1>2, PersistKeeps, FaultsOfKeepersKeep, TimerKeeps, MessageKeeps, ExitKeeps DEF Host!HostEvents
<1>3. CASE Host!Scheduler
    BY <1>3, ConfigKeeps, ScheduleKeeps DEF Host!Scheduler
<1>4. CASE Host!KeeperStep
    BY <1>4, StepsKeep
<1>5. CASE Host!Tick
    BY <1>5, HostTickKeeps
<1>6. CASE Host!SetPaused
    <2>1. host_paused' \in BOOLEAN
        BY <1>6 DEF Host!SetPaused, HostInv, ChainType
    <2>2. QED
        BY <1>6, <2>1, HostRests DEF Host!SetPaused, Host!childVars
<1>7. CASE Host!persistFails \/ Host!shutdown \/ Host!HostDies \/ Host!SchedulerReadFails
    BY <1>7, PersistFailsKeeps, ShutdownKeeps, DiesKeeps, ReadFailsKeeps
<1>8. CASE Host!KeeperCrashes \/ Host!KeeperHangs
    BY <1>8, FaultsOfKeepersKeep
<1>9. CASE UNCHANGED Host!vars
    <2>1. host_paused' \in BOOLEAN
        BY <1>9 DEF Host!vars, HostInv, ChainType
    <2>2. QED
        BY <1>9, <2>1, HostRests DEF Host!vars
<1>10. QED
    BY <1>1, <1>2, <1>3, <1>4, <1>5, <1>6, <1>7, <1>8, <1>9 DEF Host!Next

-----------------------------------------------------------------------------
(* The wallet's rewards.  What Claim All relies on is a read that began    *)
(* after the receipts were processed: a shared read that began before is   *)
(* read again, because the call that joined it left the ledger dirty.      *)

SomeWallet == Wallets \cup {NoWallet}
SnapType == [sol : SUBSET Receipts, myne : SUBSET Receipts]
ReadType ==
    [ account : Wallets, snap : SnapType, current : BOOLEAN, latest : BOOLEAN,
      awaited : BOOLEAN ]
Awaiting == {"fresh1", "settled", "fresh2", "paidSol", "paidMyne"}
ClaimType ==
    [ pc : Awaiting \cup {"idle", "batch", "sol", "myne"}, waiting : BOOLEAN, burn : BOOLEAN,
      account : SomeWallet, requested : SUBSET Receipts, processed : SUBSET Receipts,
      miner : SnapType, ok : BOOLEAN, handled : BOOLEAN, moved : BOOLEAN ]
ReportType == [ok : BOOLEAN, requested : SUBSET Receipts, moved : BOOLEAN]

LedgerType ==
    /\ open \in SUBSET Receipts /\ sol \in SUBSET Receipts /\ myne \in SUBSET Receipts
    /\ account \in SomeWallet /\ reads \in SUBSET ReadType /\ dirty \in BOOLEAN
    /\ shown \in SnapType /\ claim \in ClaimType /\ report \in ReportType

\* A receipt is open, or it was processed.
DueOnce == open \cap (sol \cup myne) = {}

OwnedBy(s, w) == \A p \in s.sol \cup s.myne : Owner[p] = w

\* A read holds what is one wallet's; one read is shared, one is awaited.
ReadsSound(rs) ==
    /\ \A x \in rs : OwnedBy(x.snap, x.account)
    /\ \A x \in rs, y \in rs : x.current /\ y.current => x = y
    /\ \A x \in rs, y \in rs : x.awaited /\ y.awaited => x = y
NoneAwaited(rs) == \A x \in rs : ~x.awaited

\* The claim knows what it processed and waits only where it called.
ClaimSound ==
    /\ claim.pc = "idle" => claim = Ledger!NoClaim
    /\ claim.waiting => claim.pc \in Awaiting
    /\ ~claim.waiting => NoneAwaited(reads)
    /\ claim.processed \subseteq claim.requested \ open
    /\ claim.pc \in {"fresh1", "batch"} => claim.processed = {}

\* The claim's wallet is connected, and has been all along.
Steady == claim.pc # "idle" /\ ~claim.moved
WalletSound ==
    Steady => /\ account # NoWallet /\ claim.account = account
              /\ \A p \in claim.requested : Owner[p] = account

\* What is still due of the receipts processed is in the snapshot.
Covers(s) == claim.processed \cap sol \subseteq s.sol /\ claim.processed \cap myne \subseteq s.myne

\* A shared read that began before the receipts were processed is read again
\* before the claim calls once more.
BatchCovered ==
    Steady /\ claim.pc = "settled" =>
        \A x \in reads : x.current /\ x.account = account => Covers(x.snap) \/ (x.awaited /\ dirty)
ReadsCovered ==
    Steady /\ claim.pc \in {"fresh2", "sol", "paidSol", "myne", "paidMyne"} =>
        \A x \in reads : x.awaited \/ (x.current /\ x.account = account) => Covers(x.snap)
MinerCovered ==
    Steady /\ claim.pc \in {"fresh2", "paidSol"} /\ ~claim.waiting => Covers(claim.miner)
Withdrawn ==
    /\ Steady /\ claim.pc \in {"paidSol", "myne", "paidMyne"} => claim.processed \cap sol = {}
    /\ Steady /\ claim.pc = "paidMyne" => claim.processed \cap myne = {}

LedgerInv ==
    /\ LedgerType /\ DueOnce /\ ReadsSound(reads) /\ OwnedBy(shown, account)
    /\ ClaimSound /\ WalletSound
    /\ BatchCovered /\ ReadsCovered /\ MinerCovered /\ Withdrawn
    /\ Ledger!ClaimAllSound

-----------------------------------------------------------------------------
(* refreshMiner.                                                           *)

\* y is the read of a call for wallet w, or a read of before.
FreshRead(y, w, awaited) ==
    y.account = w /\ y.snap = Ledger!Due(w) /\ y.current /\ (y.awaited <=> awaited)
Kept(x, y, w, awaited) ==
    /\ y.account = x.account /\ y.snap = x.snap /\ (y.current => x.current)
    /\ x.awaited => y.awaited
    /\ y.awaited => x.awaited \/ (awaited /\ y.current /\ y.account = w)
    /\ y.current /\ y.account = w /\ awaited => y.awaited
    /\ y.current /\ y.account = w => x \in Ledger!Shared({x}, w)

LEMMA DueOwned ==
    ASSUME Ledger!RewardLedgerAssumption, sol \in SUBSET Receipts, myne \in SUBSET Receipts, NEW w
    PROVE  Ledger!Due(w) \in SnapType /\ OwnedBy(Ledger!Due(w), w)
BY DEF Ledger!Due, SnapType, OwnedBy

LEMMA RefreshedReads ==
    ASSUME Ledger!RewardLedgerAssumption, sol \in SUBSET Receipts, myne \in SUBSET Receipts,
           NEW rs \in SUBSET ReadType, ReadsSound(rs), NEW w \in Wallets, NEW awaited \in BOOLEAN,
           awaited => NoneAwaited(rs)
    PROVE  /\ Ledger!Refreshed(rs, w, awaited) \in SUBSET ReadType
           /\ ReadsSound(Ledger!Refreshed(rs, w, awaited))
           /\ \A y \in Ledger!Refreshed(rs, w, awaited) :
                 FreshRead(y, w, awaited) \/ \E x \in rs : Kept(x, y, w, awaited)
<1> DEFINE new == [account |-> w, snap |-> Ledger!Due(w), current |-> TRUE, latest |-> TRUE,
                   awaited |-> awaited]
           join(x) == [x EXCEPT !.awaited = @ \/ (awaited /\ x \in Ledger!Shared(rs, w))]
           old(x) == [x EXCEPT !.current = FALSE, !.latest = FALSE]
           ns == Ledger!Refreshed(rs, w, awaited)
<1>1. w # NoWallet
    BY DEF Ledger!RewardLedgerAssumption
<1>2. new \in ReadType /\ OwnedBy(new.snap, new.account) /\ FreshRead(new, w, awaited)
    BY DueOwned DEF ReadType, FreshRead
<1>3. CASE Ledger!Shared(rs, w) = {}
    <2>1. ns = {old(x) : x \in rs} \cup {new}
        BY <1>1, <1>3 DEF Ledger!Refreshed, Ledger!Issued, Ledger!Superseded
    <2>2. ASSUME NEW x \in rs
          PROVE  /\ old(x) \in ReadType /\ old(x).account = x.account /\ old(x).snap = x.snap
                 /\ ~old(x).current /\ old(x).awaited = x.awaited
        BY DEF ReadType
    <2>3. \A x \in rs : Kept(x, old(x), w, awaited) /\ OwnedBy(old(x).snap, old(x).account)
        BY <2>2 DEF Kept, ReadsSound
    <2>4. ns \in SUBSET ReadType
        BY <1>2, <2>1, <2>2
    <2>5. \A y \in ns : y = new \/ \E x \in rs : y = old(x)
        BY <2>1
    <2>6. \A x \in rs, z \in rs : old(x).awaited /\ old(z).awaited => x = z
        BY <2>2 DEF ReadsSound
    <2>7. \A x \in rs : new.awaited => ~old(x).awaited
        BY <2>2 DEF NoneAwaited
    <2> HIDE DEF new, old, ns
    <2>8. ReadsSound(ns)
        <3>1. \A y \in ns : OwnedBy(y.snap, y.account)
            BY <1>2, <2>3, <2>5
        <3>2. \A y \in ns : y.current => y = new
            BY <2>2, <2>5
        <3>3. \A y \in ns, z \in ns : y.awaited /\ z.awaited => y = z
            BY <2>5, <2>6, <2>7
        <3>4. QED
            BY <3>1, <3>2, <3>3 DEF ReadsSound
    <2>9. QED
        BY <1>2, <2>3, <2>4, <2>5, <2>8 DEF ns
<1>4. CASE Ledger!Shared(rs, w) # {}
    <2>1. ns = {join(x) : x \in rs}
        BY <1>1, <1>4 DEF Ledger!Refreshed
    <2>2. ASSUME NEW x \in rs
          PROVE  /\ join(x) \in ReadType /\ join(x).account = x.account /\ join(x).snap = x.snap
                 /\ join(x).current = x.current
                 /\ join(x).awaited = (x.awaited \/ (awaited /\ x \in Ledger!Shared(rs, w)))
        BY DEF ReadType
    <2>3. \A x \in rs : x \in Ledger!Shared(rs, w) <=> x.current /\ x.account = w
        BY DEF Ledger!Shared
    <2>4. \A x \in rs : Kept(x, join(x), w, awaited) /\ OwnedBy(join(x).snap, join(x).account)
        BY <2>2, <2>3 DEF Kept, ReadsSound, Ledger!Shared
    <2>5. \A x \in rs, z \in rs : join(x).awaited /\ join(z).awaited => x = z
        BY <2>2, <2>3 DEF ReadsSound, NoneAwaited
    <2>6. ns \in SUBSET ReadType /\ \A y \in ns : \E x \in rs : y = join(x)
        BY <2>1, <2>2
    <2> HIDE DEF join, ns
    <2>7. ReadsSound(ns)
        <3>1. \A y \in ns : OwnedBy(y.snap, y.account)
            BY <2>4, <2>6
        <3>2. \A y \in ns, z \in ns : y.current /\ z.current => y = z
            BY <2>2, <2>6 DEF ReadsSound
        <3>3. \A y \in ns, z \in ns : y.awaited /\ z.awaited => y = z
            BY <2>5, <2>6
        <3>4. QED
            BY <3>1, <3>2, <3>3 DEF ReadsSound
    <2>8. QED
        BY <2>4, <2>6, <2>7 DEF ns
<1>5. QED
    BY <1>3, <1>4

\* A call that nobody waits for only adds a read of now.
LEMMA MinerReads ==
    ASSUME Ledger!RewardLedgerAssumption, LedgerInv, Ledger!refreshMiner
    PROVE  /\ reads' \in SUBSET ReadType /\ ReadsSound(reads') /\ dirty' \in BOOLEAN
           /\ dirty => dirty'
           /\ \A y \in reads' :
                 FreshRead(y, account, FALSE) \/ \E x \in reads : Kept(x, y, account, FALSE)
<1>1. reads \in SUBSET ReadType /\ ReadsSound(reads) /\ sol \in SUBSET Receipts
      /\ myne \in SUBSET Receipts /\ account \in SomeWallet
    BY DEF LedgerInv, LedgerType
<1>2. reads' = Ledger!Refreshed(reads, account, FALSE) /\ dirty' = (dirty \/ Ledger!JoinsRead(reads, account))
    BY DEF Ledger!refreshMiner
<1>3. dirty' \in BOOLEAN /\ (dirty => dirty')
    BY <1>2
<1>4. CASE account = NoWallet
    <2>1. reads' = reads
        BY <1>2, <1>4 DEF Ledger!Refreshed
    <2>2. \A x \in reads : Kept(x, x, account, FALSE)
        BY DEF Kept, Ledger!Shared
    <2>3. QED
        BY <1>1, <1>3, <2>1, <2>2
<1>5. CASE account # NoWallet
    <2>1. PICK w \in Wallets : w = account
        BY <1>1, <1>5 DEF SomeWallet
    <2>2. /\ Ledger!Refreshed(reads, w, FALSE) \in SUBSET ReadType
          /\ ReadsSound(Ledger!Refreshed(reads, w, FALSE))
          /\ \A y \in Ledger!Refreshed(reads, w, FALSE) :
                FreshRead(y, w, FALSE) \/ \E x \in reads : Kept(x, y, w, FALSE)
        BY <1>1, RefreshedReads
    <2>3. QED
        BY <1>2, <1>3, <2>1, <2>2
<1>6. QED
    BY <1>4, <1>5

LEMMA FreshCovers ==
    ASSUME NEW y, FreshRead(y, account, y.awaited), LedgerInv, Steady
    PROVE  Covers(y.snap)
<1>1. y.snap = Ledger!Due(account)
    BY DEF FreshRead
<1>2. \A p \in claim.processed : Owner[p] = account
    BY DEF LedgerInv, WalletSound, ClaimSound
<1>3. QED
    BY <1>1, <1>2 DEF Covers, Ledger!Due

-----------------------------------------------------------------------------
(* The page and the chain.                                                 *)

LEMMA ReadsStep ==
    ASSUME LedgerInv, reads' \in SUBSET ReadType, ReadsSound(reads'), dirty' \in BOOLEAN,
           dirty => dirty', UNCHANGED <<Ledger!ledger, account, shown, claim, report>>,
           \A y \in reads' :
              FreshRead(y, account, FALSE) \/ \E x \in reads : Kept(x, y, account, FALSE)
    PROVE  LedgerInv'
<1>1. UNCHANGED <<open, sol, myne, account, shown, claim, report>>
    BY DEF Ledger!ledger
<1>2. Steady' = Steady /\ \A s : Covers(s)' = Covers(s)
    BY <1>1 DEF Steady, Covers
<1>3. \A y \in reads' : FreshRead(y, account, FALSE) => ~y.awaited /\ (Steady => Covers(y.snap))
    <2>1. \A y : FreshRead(y, account, FALSE) => ~y.awaited /\ FreshRead(y, account, y.awaited)
        BY DEF FreshRead
    <2>2. QED
        BY <2>1, FreshCovers
<1>4. LedgerType' /\ DueOnce' /\ OwnedBy(shown, account)' /\ ReadsSound(reads)'
    BY <1>1 DEF LedgerInv, LedgerType, DueOnce, OwnedBy, ReadsSound
<1>5. ClaimSound'
    <2>1. NoneAwaited(reads) => NoneAwaited(reads')
        BY <1>3 DEF NoneAwaited, Kept
    <2>2. QED
        BY <1>1, <2>1 DEF LedgerInv, ClaimSound, NoneAwaited
<1>6. WalletSound' /\ MinerCovered' /\ Withdrawn' /\ Ledger!ClaimAllSound'
    BY <1>1, <1>2 DEF LedgerInv, WalletSound, MinerCovered, Withdrawn, Ledger!ClaimAllSound
<1>7. BatchCovered'
    <2> SUFFICES ASSUME Steady, claim.pc = "settled", NEW y \in reads', y.current, y.account = account
                 PROVE  Covers(y.snap) \/ (y.awaited /\ dirty')
        BY <1>1, <1>2 DEF BatchCovered
    <2>1. CASE FreshRead(y, account, FALSE)
        BY <1>3, <2>1
    <2>2. ASSUME NEW x \in reads, Kept(x, y, account, FALSE) PROVE Covers(y.snap) \/ (y.awaited /\ dirty')
        BY <2>2 DEF Kept, LedgerInv, BatchCovered
    <2>3. QED
        BY <2>1, <2>2
<1>8. ReadsCovered'
    <2> SUFFICES ASSUME Steady, claim.pc \in {"fresh2", "sol", "paidSol", "myne", "paidMyne"},
                        NEW y \in reads', y.awaited \/ (y.current /\ y.account = account)
                 PROVE  Covers(y.snap)
        BY <1>1, <1>2 DEF ReadsCovered
    <2>1. CASE FreshRead(y, account, FALSE)
        BY <1>3, <2>1
    <2>2. ASSUME NEW x \in reads, Kept(x, y, account, FALSE) PROVE Covers(y.snap)
        BY <2>2 DEF Kept, LedgerInv, ReadsCovered
    <2>3. QED
        BY <2>1, <2>2
<1>9. QED
    BY <1>4, <1>5, <1>6, <1>7, <1>8 DEF LedgerInv

LEMMA RefreshKeeps ==
    ASSUME Ledger!RewardLedgerAssumption, LedgerInv, UNCHANGED <<Ledger!ledger, account, shown, claim, report>>,
           Ledger!refreshMiner \/ UNCHANGED <<reads, dirty>>
    PROVE  LedgerInv'
<1>1. CASE Ledger!refreshMiner
    BY <1>1, MinerReads, ReadsStep
<1>2. CASE UNCHANGED <<reads, dirty>>
    <2>1. \A x \in reads : Kept(x, x, account, FALSE)
        BY DEF Kept, Ledger!Shared
    <2>2. reads' \in SUBSET ReadType /\ ReadsSound(reads') /\ dirty' \in BOOLEAN
        BY <1>2 DEF LedgerInv, LedgerType
    <2>3. QED
        BY <1>2, <2>1, <2>2, ReadsStep
<1>3. QED
    BY <1>1, <1>2

LEMMA PageKeeps ==
    Ledger!RewardLedgerAssumption /\ LedgerInv /\ (Ledger!scheduleMinerRefresh \/ Ledger!poll \/ Ledger!setLive \/ Ledger!visibilitychange)
        => LedgerInv'
BY RefreshKeeps DEF Ledger!scheduleMinerRefresh, Ledger!poll, Ledger!setLive, Ledger!visibilitychange, Ledger!page

LEMMA ProcessKeeps ==
    ASSUME LedgerInv, NEW p \in Receipts, Ledger!Process(p),
           UNCHANGED <<account, reads, dirty, shown, claim, report>>
    PROVE  LedgerInv'
<1>1. /\ p \in open /\ open' = open \ {p} /\ sol' = sol \cup {p}
      /\ myne' \in {myne, myne \cup {p}}
    BY DEF Ledger!Process
<1>2. p \notin claim.processed
    BY <1>1 DEF LedgerInv, ClaimSound
<1>3. Steady' = Steady /\ claim'.processed \cap sol' = claim.processed \cap sol
      /\ claim'.processed \cap myne' = claim.processed \cap myne
    BY <1>1, <1>2 DEF Steady
<1>4. \A s : Covers(s)' = Covers(s)
    BY <1>3 DEF Covers
<1>5. LedgerType' /\ DueOnce' /\ OwnedBy(shown, account)' /\ ReadsSound(reads)'
    BY <1>1 DEF LedgerInv, LedgerType, DueOnce, OwnedBy, ReadsSound
<1>6. ClaimSound' /\ WalletSound'
    BY <1>1, <1>3 DEF LedgerInv, ClaimSound, WalletSound, NoneAwaited
<1>7. BatchCovered' /\ ReadsCovered' /\ MinerCovered' /\ Withdrawn'
    BY <1>3, <1>4 DEF LedgerInv, BatchCovered, ReadsCovered, MinerCovered, Withdrawn
<1>8. Ledger!ClaimAllSound'
    BY <1>1 DEF LedgerInv, Ledger!ClaimAllSound
<1>9. QED
    BY <1>5, <1>6, <1>7, <1>8 DEF LedgerInv

\* The reads left when one has come back.
LEMMA AnswerReads ==
    ASSUME Ledger!RewardLedgerAssumption, LedgerInv, NEW x \in reads, NEW ok \in BOOLEAN,
           Ledger!readMinerAnswer(x, ok)
    PROVE  /\ reads' \in SUBSET ReadType /\ ReadsSound(reads')
           /\ \A y \in reads' :
                 \/ FreshRead(y, account, FALSE)
                 \/ \E z \in reads \ {x} : Kept(z, y, account, FALSE)
<1>1. reads \ {x} \in SUBSET ReadType /\ ReadsSound(reads \ {x}) /\ sol \in SUBSET Receipts
      /\ myne \in SUBSET Receipts /\ account \in SomeWallet /\ x.account \in Wallets
    BY DEF LedgerInv, LedgerType, ReadsSound, ReadType
<1>2. reads' = IF Ledger!Rerun(x) THEN Ledger!Refreshed(reads \ {x}, account, FALSE) ELSE reads \ {x}
    BY DEF Ledger!readMinerAnswer
<1>3. CASE Ledger!Rerun(x)
    <2>1. PICK w \in Wallets : w = account
        BY <1>1, <1>3 DEF Ledger!Rerun
    <2>2. PICK rs \in SUBSET ReadType : rs = reads \ {x}
        BY <1>1
    <2>3. /\ Ledger!Refreshed(rs, w, FALSE) \in SUBSET ReadType
          /\ ReadsSound(Ledger!Refreshed(rs, w, FALSE))
          /\ \A y \in Ledger!Refreshed(rs, w, FALSE) :
                FreshRead(y, w, FALSE) \/ \E z \in rs : Kept(z, y, w, FALSE)
        BY <1>1, <2>2, RefreshedReads
    <2>4. QED
        BY <1>2, <1>3, <2>1, <2>2, <2>3
<1>4. CASE ~Ledger!Rerun(x)
    <2>1. \A z \in reads : Kept(z, z, account, FALSE)
        BY DEF Kept, Ledger!Shared
    <2>2. QED
        BY <1>1, <1>2, <1>4, <2>1
<1>5. QED
    BY <1>3, <1>4

LEMMA AnswerKeeps ==
    ASSUME Ledger!RewardLedgerAssumption, LedgerInv, NEW x \in reads, NEW ok \in BOOLEAN,
           Ledger!readMinerAnswer(x, ok), UNCHANGED <<Ledger!ledger, account, report>>
    PROVE  LedgerInv'
<1>1. UNCHANGED <<open, sol, myne, account, report>>
    BY DEF Ledger!ledger
<1>2. x \in ReadType /\ OwnedBy(x.snap, x.account)
    BY DEF LedgerInv, LedgerType, ReadsSound
<1>3. claim \in ClaimType /\ dirty \in BOOLEAN /\ shown \in SnapType /\ account \in SomeWallet
    BY DEF LedgerInv, LedgerType
<1>4. /\ shown' = IF Ledger!Published(x, ok) THEN x.snap ELSE shown
      /\ dirty' = (dirty /\ ~Ledger!Rerun(x))
      /\ claim' = IF x.awaited
                  THEN [claim EXCEPT !.waiting = FALSE, !.ok = ok /\ x.account = account,
                                     !.miner = x.snap]
                  ELSE claim
    BY DEF Ledger!readMinerAnswer
<1>5. /\ claim' \in ClaimType /\ claim'.pc = claim.pc /\ claim'.account = claim.account
      /\ claim'.requested = claim.requested /\ claim'.processed = claim.processed
      /\ claim'.moved = claim.moved
      /\ claim'.waiting = (claim.waiting /\ ~x.awaited)
      /\ claim'.miner = IF x.awaited THEN x.snap ELSE claim.miner
      /\ ~x.awaited => claim' = claim
    BY <1>2, <1>3, <1>4 DEF ClaimType, ReadType
<1>6. shown' \in SnapType /\ OwnedBy(shown', account)
    BY <1>2, <1>3, <1>4 DEF Ledger!Published, ReadType, LedgerInv
<1>7. dirty' \in BOOLEAN /\ (dirty => dirty' \/ (x.current /\ account = x.account))
    BY <1>3, <1>4 DEF Ledger!Rerun
<1>8. /\ reads' \in SUBSET ReadType /\ ReadsSound(reads')
      /\ \A y \in reads' :
            FreshRead(y, account, FALSE) \/ \E z \in reads \ {x} : Kept(z, y, account, FALSE)
    BY AnswerReads
<1>9. Steady' = Steady /\ \A s : Covers(s)' = Covers(s)
    BY <1>1, <1>5 DEF Steady, Covers
<1>10. \A y \in reads' : FreshRead(y, account, FALSE) => ~y.awaited /\ (Steady => Covers(y.snap))
    <2>1. \A y : FreshRead(y, account, FALSE) => ~y.awaited /\ FreshRead(y, account, y.awaited)
        BY DEF FreshRead
    <2>2. QED
        BY <2>1, FreshCovers
<1>11. LedgerType' /\ DueOnce' /\ OwnedBy(shown, account)' /\ ReadsSound(reads)'
    BY <1>1, <1>5, <1>6, <1>7, <1>8 DEF LedgerInv, LedgerType, DueOnce, OwnedBy, ReadsSound
<1>12. ClaimSound'
    <2>1. ~claim'.waiting => NoneAwaited(reads')
        <3> SUFFICES ASSUME ~claim'.waiting, NEW y \in reads', y.awaited PROVE FALSE
            BY DEF NoneAwaited
        <3>1. PICK z \in reads \ {x} : Kept(z, y, account, FALSE)
            BY <1>8, <1>10
        <3>2. z.awaited
            BY <3>1 DEF Kept
        <3>3. claim.waiting
            BY <3>2 DEF LedgerInv, ClaimSound, NoneAwaited
        <3>4. x.awaited
            BY <1>5, <3>3
        <3>5. QED
            BY <3>1, <3>2, <3>4 DEF LedgerInv, ReadsSound
    <2>2. claim.pc = "idle" => claim' = Ledger!NoClaim
        <3> SUFFICES ASSUME claim.pc = "idle" PROVE claim' = Ledger!NoClaim
            OBVIOUS
        <3>1. ~claim.waiting
            BY DEF LedgerInv, ClaimSound, Awaiting
        <3>2. ~x.awaited
            BY <3>1 DEF LedgerInv, ClaimSound, NoneAwaited
        <3>3. QED
            BY <1>5, <3>2 DEF LedgerInv, ClaimSound
    <2>3. QED
        BY <1>1, <1>5, <2>1, <2>2 DEF LedgerInv, ClaimSound, NoneAwaited
<1>13. WalletSound' /\ Withdrawn' /\ Ledger!ClaimAllSound'
    BY <1>1, <1>5, <1>9 DEF LedgerInv, WalletSound, Withdrawn, Ledger!ClaimAllSound
<1>14. MinerCovered'
    <2> SUFFICES ASSUME Steady, claim.pc \in {"fresh2", "paidSol"}, ~claim'.waiting
                 PROVE  Covers(claim'.miner)
        BY <1>5, <1>9 DEF MinerCovered
    <2>1. CASE x.awaited
        BY <1>5, <2>1 DEF LedgerInv, ReadsCovered
    <2>2. CASE ~x.awaited
        BY <1>5, <2>2 DEF LedgerInv, MinerCovered
    <2>3. QED
        BY <2>1, <2>2
<1>15. BatchCovered'
    <2> SUFFICES ASSUME Steady, claim.pc = "settled", NEW y \in reads', y.current, y.account = account
                 PROVE  Covers(y.snap) \/ (y.awaited /\ dirty')
        BY <1>1, <1>5, <1>9 DEF BatchCovered
    <2>1. CASE FreshRead(y, account, FALSE)
        BY <1>10, <2>1
    <2>2. ASSUME NEW z \in reads \ {x}, Kept(z, y, account, FALSE)
          PROVE  Covers(y.snap) \/ (y.awaited /\ dirty')
        <3>1. z.current /\ z.account = account /\ z.snap = y.snap /\ (z.awaited => y.awaited)
            BY <2>2 DEF Kept
        <3>2. ~x.current
            BY <3>1 DEF LedgerInv, ReadsSound
        <3>3. dirty => dirty'
            BY <1>7, <3>2
        <3>4. QED
            BY <3>1, <3>3 DEF LedgerInv, BatchCovered
    <2>3. QED
        BY <1>8, <2>1, <2>2
<1>16. ReadsCovered'
    <2> SUFFICES ASSUME Steady, claim.pc \in {"fresh2", "sol", "paidSol", "myne", "paidMyne"},
                        NEW y \in reads', y.awaited \/ (y.current /\ y.account = account)
                 PROVE  Covers(y.snap)
        BY <1>1, <1>5, <1>9 DEF ReadsCovered
    <2>1. CASE FreshRead(y, account, FALSE)
        BY <1>10, <2>1
    <2>2. ASSUME NEW z \in reads \ {x}, Kept(z, y, account, FALSE) PROVE Covers(y.snap)
        BY <2>2 DEF Kept, LedgerInv, ReadsCovered
    <2>3. QED
        BY <1>8, <2>1, <2>2
<1>17. QED
    BY <1>11, <1>12, <1>13, <1>14, <1>15, <1>16 DEF LedgerInv

LEMMA AnswersKeep ==
    Ledger!RewardLedgerAssumption /\ LedgerInv /\ (Ledger!readArrives \/ Ledger!readFails) => LedgerInv'
BY AnswerKeeps DEF Ledger!readArrives, Ledger!readFails, Ledger!page

LEMMA NoClaimType == Ledger!RewardLedgerAssumption => Ledger!NoClaim \in ClaimType /\ ~Ledger!NoClaim.waiting
BY DEF Ledger!NoClaim, ClaimType, SomeWallet, Ledger!Cleared, SnapType, Awaiting

\* A page without a claim has nothing to cover.
LEMMA AccountKeeps == Ledger!RewardLedgerAssumption /\ LedgerInv /\ Ledger!onAccountChange => LedgerInv'
<1> SUFFICES ASSUME Ledger!RewardLedgerAssumption, LedgerInv, Ledger!onAccountChange PROVE LedgerInv'
    OBVIOUS
<1>1. /\ UNCHANGED <<open, sol, myne, report>> /\ shown' = Ledger!Cleared /\ account' \in SomeWallet
      /\ claim' = [claim EXCEPT !.moved = claim.pc # "idle"]
    BY DEF Ledger!onAccountChange, Ledger!ledger, SomeWallet
<1> DEFINE old(x) == [x EXCEPT !.latest = FALSE]
           rs == {old(x) : x \in reads}
<1>2. reads' = Ledger!Refreshed(rs, account', FALSE) /\ dirty' \in BOOLEAN
    BY DEF Ledger!onAccountChange, Ledger!JoinsRead
<1>3. \A x \in reads :
         /\ old(x) \in ReadType /\ old(x).snap = x.snap /\ old(x).account = x.account
         /\ old(x).current = x.current /\ old(x).awaited = x.awaited
    BY DEF LedgerInv, LedgerType, ReadType
<1>4. rs \in SUBSET ReadType /\ ReadsSound(rs) /\ (NoneAwaited(reads) => NoneAwaited(rs))
    <2>1. rs \in SUBSET ReadType /\ \A y \in rs : \E x \in reads : y = old(x)
        BY <1>3
    <2> HIDE DEF old, rs
    <2>2. ReadsSound(rs)
        <3>1. \A y \in rs : OwnedBy(y.snap, y.account)
            BY <1>3, <2>1 DEF LedgerInv, ReadsSound
        <3>2. \A y \in rs, z \in rs : y.current /\ z.current => y = z
            BY <1>3, <2>1 DEF LedgerInv, ReadsSound
        <3>3. \A y \in rs, z \in rs : y.awaited /\ z.awaited => y = z
            BY <1>3, <2>1 DEF LedgerInv, ReadsSound
        <3>4. QED
            BY <3>1, <3>2, <3>3 DEF ReadsSound
    <2>3. NoneAwaited(reads) => NoneAwaited(rs)
        BY <1>3, <2>1 DEF NoneAwaited
    <2>4. QED
        BY <2>1, <2>2, <2>3
<1> HIDE DEF rs
<1>6. /\ reads' \in SUBSET ReadType /\ ReadsSound(reads')
      /\ NoneAwaited(rs) => NoneAwaited(reads')
    <2>1. CASE account' = NoWallet
        BY <1>2, <1>4, <2>1 DEF Ledger!Refreshed
    <2>2. CASE account' # NoWallet
        <3>1. PICK w \in Wallets : w = account'
            BY <1>1, <2>2 DEF SomeWallet
        <3>2. /\ Ledger!Refreshed(rs, w, FALSE) \in SUBSET ReadType
              /\ ReadsSound(Ledger!Refreshed(rs, w, FALSE))
              /\ \A y \in Ledger!Refreshed(rs, w, FALSE) :
                    FreshRead(y, w, FALSE) \/ \E z \in rs : Kept(z, y, w, FALSE)
            BY <1>4, RefreshedReads DEF LedgerInv, LedgerType
        <3>3. NoneAwaited(rs) => NoneAwaited(Ledger!Refreshed(rs, w, FALSE))
            BY <3>2 DEF NoneAwaited, FreshRead, Kept
        <3>4. QED
            BY <1>2, <3>1, <3>2, <3>3
    <2>3. QED
        BY <2>1, <2>2
<1>7. /\ claim' \in ClaimType /\ claim'.pc = claim.pc /\ claim'.waiting = claim.waiting
      /\ claim'.requested = claim.requested /\ claim'.processed = claim.processed
      /\ claim'.moved = (claim.pc # "idle")
    BY <1>1 DEF LedgerInv, LedgerType, ClaimType
<1>8. claim.pc = "idle" => claim' = Ledger!NoClaim
    <2>1. claim.pc = "idle" => claim = Ledger!NoClaim
        BY DEF LedgerInv, ClaimSound
    <2>2. claim = Ledger!NoClaim => claim.moved = FALSE
        BY DEF Ledger!NoClaim
    <2>3. claim.pc = "idle" => claim' = claim
        BY <1>1, <2>1, <2>2 DEF LedgerInv, LedgerType, ClaimType
    <2>4. QED
        BY <2>1, <2>3
<1>9. ~Steady'
    BY <1>7 DEF Steady
<1>10. LedgerType' /\ DueOnce' /\ ReadsSound(reads)'
    BY <1>1, <1>2, <1>6, <1>7 DEF LedgerInv, LedgerType, DueOnce, ReadsSound, Ledger!Cleared, SnapType
<1>11. OwnedBy(shown, account)' /\ Ledger!ClaimAllSound'
    BY <1>1 DEF OwnedBy, Ledger!Cleared, LedgerInv, Ledger!ClaimAllSound
<1>12. ClaimSound'
    BY <1>1, <1>4, <1>6, <1>7, <1>8 DEF LedgerInv, ClaimSound, NoneAwaited
<1>13. WalletSound' /\ BatchCovered' /\ ReadsCovered' /\ MinerCovered' /\ Withdrawn'
    BY <1>9 DEF WalletSound, BatchCovered, ReadsCovered, MinerCovered, Withdrawn
<1>14. QED
    BY <1>10, <1>11, <1>12, <1>13 DEF LedgerInv

-----------------------------------------------------------------------------
(* Claim All.                                                              *)

\* A call of the claim: the reads after it are of now, or of before and kept.
LEMMA AwaitedReads ==
    ASSUME Ledger!RewardLedgerAssumption, LedgerInv, ~claim.waiting, NEW c \in ClaimType,
           NEW pc \in Awaiting, Ledger!AwaitRefresh(c, pc)
    PROVE  /\ reads' \in SUBSET ReadType /\ ReadsSound(reads') /\ dirty' \in BOOLEAN
           /\ shown' \in SnapType /\ OwnedBy(shown', account)
           /\ claim' \in ClaimType /\ claim' = [c EXCEPT !.pc = pc, !.waiting = account # NoWallet, !.ok = FALSE]
           /\ account = NoWallet => NoneAwaited(reads')
           /\ account # NoWallet =>
                 \A y \in reads' :
                    \/ FreshRead(y, account, TRUE)
                    \/ \E x \in reads :
                          Kept(x, y, account, TRUE) /\ (y.current /\ y.account = account => dirty')
<1>1. reads \in SUBSET ReadType /\ ReadsSound(reads) /\ sol \in SUBSET Receipts
      /\ myne \in SUBSET Receipts /\ account \in SomeWallet /\ dirty \in BOOLEAN
      /\ shown \in SnapType /\ OwnedBy(shown, account)
    BY DEF LedgerInv, LedgerType
<1>2. NoneAwaited(reads)
    BY DEF LedgerInv, ClaimSound
<1>3. /\ reads' = Ledger!Refreshed(reads, account, TRUE)
      /\ dirty' = (dirty \/ Ledger!JoinsRead(reads, account))
      /\ shown' = IF account = NoWallet THEN Ledger!Cleared ELSE shown
      /\ claim' = [c EXCEPT !.pc = pc, !.waiting = account # NoWallet, !.ok = FALSE]
    BY DEF Ledger!AwaitRefresh
<1>4. claim' \in ClaimType /\ dirty' \in BOOLEAN
    BY <1>1, <1>3 DEF ClaimType
<1>5. shown' \in SnapType /\ OwnedBy(shown', account)
    BY <1>1, <1>3 DEF Ledger!Cleared, SnapType, OwnedBy
<1>6. CASE account = NoWallet
    <2>1. reads' = reads
        BY <1>3, <1>6 DEF Ledger!Refreshed
    <2>2. QED
        BY <1>1, <1>2, <1>3, <1>4, <1>5, <1>6, <2>1
<1>7. CASE account # NoWallet
    <2>1. PICK w \in Wallets : w = account
        BY <1>1, <1>7 DEF SomeWallet
    <2>2. /\ Ledger!Refreshed(reads, w, TRUE) \in SUBSET ReadType
          /\ ReadsSound(Ledger!Refreshed(reads, w, TRUE))
          /\ \A y \in Ledger!Refreshed(reads, w, TRUE) :
                FreshRead(y, w, TRUE) \/ \E x \in reads : Kept(x, y, w, TRUE)
        BY <1>1, <1>2, RefreshedReads
    <2>3. \A y : \A x \in reads : Kept(x, y, w, TRUE) /\ y.current /\ y.account = w => dirty'
        <3>1. \A x \in reads : x \in Ledger!Shared({x}, w) => Ledger!Shared(reads, w) # {}
            BY DEF Ledger!Shared
        <3>2. QED
            BY <1>3, <1>7, <2>1, <3>1 DEF Kept, Ledger!JoinsRead
    <2>4. reads' = Ledger!Refreshed(reads, w, TRUE)
        BY <1>3, <2>1
    <2>5. \A y \in reads' :
             \/ FreshRead(y, w, TRUE)
             \/ \E x \in reads : Kept(x, y, w, TRUE) /\ (y.current /\ y.account = w => dirty')
        <3> SUFFICES ASSUME NEW y \in reads', ~FreshRead(y, w, TRUE)
                     PROVE  \E x \in reads :
                               Kept(x, y, w, TRUE) /\ (y.current /\ y.account = w => dirty')
            OBVIOUS
        <3>1. \E x \in reads : Kept(x, y, w, TRUE)
            BY <2>2, <2>4
        <3>2. PICK x \in reads : Kept(x, y, w, TRUE)
            BY <3>1
        <3>3. y.current /\ y.account = w => dirty'
            BY <2>3, <3>2
        <3>4. QED
            BY <3>2, <3>3
    <2>6. reads' \in SUBSET ReadType /\ ReadsSound(reads')
        BY <2>2, <2>4
    <2>7. QED
        BY <1>3, <1>4, <1>5, <1>7, <2>1, <2>5, <2>6
<1>8. QED
    BY <1>6, <1>7

\* A call of the claim keeps the invariant when the claim it makes is sound and
\* what it processed is covered by the reads that were there.
LEMMA AwaitKeeps ==
    ASSUME Ledger!RewardLedgerAssumption, LedgerInv, ~claim.waiting, NEW c \in ClaimType,
           NEW pc \in Awaiting, Ledger!AwaitRefresh(c, pc),
           UNCHANGED <<open, account, report>>, sol' \in SUBSET sol, myne' \in SUBSET myne,
           c.processed \subseteq c.requested \ open,
           pc = "fresh1" => c.processed = {},
           ~c.moved => /\ account # NoWallet /\ c.account = account
                       /\ \A p \in c.requested : Owner[p] = account,
           ~c.moved /\ pc \in {"fresh2", "paidSol", "paidMyne"} =>
              \A x \in reads : x.current /\ x.account = account =>
                 c.processed \cap sol \subseteq x.snap.sol /\ c.processed \cap myne \subseteq x.snap.myne,
           ~c.moved /\ pc \in {"paidSol", "paidMyne"} => c.processed \cap sol' = {},
           ~c.moved /\ pc = "paidMyne" => c.processed \cap myne' = {}
    PROVE  LedgerInv'
<1>1. /\ reads' \in SUBSET ReadType /\ ReadsSound(reads') /\ dirty' \in BOOLEAN
      /\ shown' \in SnapType /\ OwnedBy(shown', account)
      /\ claim' \in ClaimType /\ claim' = [c EXCEPT !.pc = pc, !.waiting = account # NoWallet, !.ok = FALSE]
      /\ account = NoWallet => NoneAwaited(reads')
      /\ account # NoWallet =>
            \A y \in reads' :
               \/ FreshRead(y, account, TRUE)
               \/ \E x \in reads :
                     Kept(x, y, account, TRUE) /\ (y.current /\ y.account = account => dirty')
    BY AwaitedReads
<1>2. /\ claim'.pc = pc /\ claim'.waiting = (account # NoWallet) /\ claim'.moved = c.moved
      /\ claim'.account = c.account /\ claim'.requested = c.requested
      /\ claim'.processed = c.processed
    BY <1>1 DEF ClaimType
<1>3. Steady' = ~c.moved
    BY <1>2 DEF Steady, Awaiting
<1>4. NoneAwaited(reads)
    BY DEF LedgerInv, ClaimSound
<1>5. LedgerType' /\ DueOnce' /\ OwnedBy(shown, account)' /\ ReadsSound(reads)'
    BY <1>1 DEF LedgerInv, LedgerType, DueOnce
<1>6. ClaimSound'
    <2>1. pc \notin {"idle", "batch"}
        BY DEF Awaiting
    <2>2. QED
        BY <1>1, <1>2, <2>1 DEF ClaimSound, NoneAwaited
<1>7. WalletSound' /\ Withdrawn'
    <2>1. WalletSound'
        BY <1>2, <1>3 DEF WalletSound
    <2>2. ~c.moved /\ pc \in {"paidSol", "myne", "paidMyne"} => c.processed \cap sol' = {}
        BY DEF Awaiting
    <2>3. QED
        BY <1>2, <1>3, <2>1, <2>2 DEF Withdrawn
<1>8. Ledger!ClaimAllSound'
    BY DEF LedgerInv, Ledger!ClaimAllSound
<1>9. MinerCovered'
    BY <1>2, <1>3 DEF MinerCovered
<1>10. ASSUME ~c.moved, NEW y \in reads', FreshRead(y, account, TRUE)
       PROVE  Covers(y.snap)'
    <2>1. y.snap = Ledger!Due(account)
        BY <1>10 DEF FreshRead
    <2>2. \A p \in c.processed : Owner[p] = account
        BY <1>10
    <2>3. QED
        BY <1>2, <2>1, <2>2 DEF Covers, Ledger!Due
<1>11. BatchCovered'
    <2> SUFFICES ASSUME ~c.moved, pc = "settled", NEW y \in reads', y.current, y.account = account
                 PROVE  Covers(y.snap)' \/ (y.awaited /\ dirty')
        BY <1>2, <1>3 DEF BatchCovered
    <2>1. CASE FreshRead(y, account, TRUE)
        BY <1>10, <2>1
    <2>2. ASSUME NEW x \in reads,
                 Kept(x, y, account, TRUE) /\ (y.current /\ y.account = account => dirty')
          PROVE  y.awaited /\ dirty'
        BY <2>2 DEF Kept
    <2>3. QED
        BY <1>1, <2>1, <2>2
<1>12. ReadsCovered'
    <2> SUFFICES ASSUME ~c.moved, pc \in {"fresh2", "paidSol", "paidMyne"}, NEW y \in reads',
                        y.awaited \/ (y.current /\ y.account = account)
                 PROVE  Covers(y.snap)'
        BY <1>2, <1>3 DEF ReadsCovered, Awaiting
    <2>1. CASE FreshRead(y, account, TRUE)
        BY <1>10, <2>1
    <2>2. ASSUME NEW x \in reads, Kept(x, y, account, TRUE) PROVE Covers(y.snap)'
        <3>1. y.current /\ y.account = account
            BY <1>4, <2>2 DEF Kept, NoneAwaited
        <3>2. x.current /\ x.account = account /\ y.snap = x.snap
            BY <2>2, <3>1 DEF Kept
        <3>3. c.processed \cap sol \subseteq x.snap.sol /\ c.processed \cap myne \subseteq x.snap.myne
            BY <3>2
        <3>4. QED
            BY <1>2, <3>2, <3>3 DEF Covers
    <2>3. QED
        BY <1>1, <2>1, <2>2
<1>13. QED
    BY <1>5, <1>6, <1>7, <1>8, <1>9, <1>11, <1>12 DEF LedgerInv

LEMMA ReturnKeeps ==
    ASSUME Ledger!RewardLedgerAssumption, LedgerInv, ~claim.waiting, claim.pc # "idle", NEW ok \in BOOLEAN, Ledger!Returns(ok),
           UNCHANGED <<Ledger!ledger, account, reads, dirty, shown>>,
           ok => /\ claim.requested \cap open = {}
                 /\ Steady => claim.requested \cap (sol \cup myne) = {}
    PROVE  LedgerInv'
<1>1. /\ report' = [ok |-> ok, requested |-> claim.requested, moved |-> claim.moved]
      /\ claim' = Ledger!NoClaim /\ UNCHANGED <<open, sol, myne, account, reads, dirty, shown>>
    BY DEF Ledger!Returns, Ledger!ledger
<1>2. claim' \in ClaimType /\ ~claim'.waiting /\ claim'.pc = "idle" /\ claim'.processed = {}
    BY <1>1, NoClaimType DEF Ledger!NoClaim
<1>3. LedgerType' /\ DueOnce' /\ OwnedBy(shown, account)' /\ ReadsSound(reads)'
    BY <1>1, <1>2 DEF LedgerInv, LedgerType, ClaimType, ReportType, DueOnce, OwnedBy, ReadsSound
<1>4. ClaimSound'
    BY <1>1, <1>2 DEF LedgerInv, ClaimSound, NoneAwaited
<1>5. ~Steady'
    BY <1>2 DEF Steady
<1>6. WalletSound' /\ BatchCovered' /\ ReadsCovered' /\ MinerCovered' /\ Withdrawn'
    BY <1>5 DEF WalletSound, BatchCovered, ReadsCovered, MinerCovered, Withdrawn
<1>7. Ledger!ClaimAllSound'
    BY <1>1 DEF Ledger!ClaimAllSound, Steady
<1>8. QED
    BY <1>3, <1>4, <1>6, <1>7 DEF LedgerInv

\* The claim goes on without a call.
LEMMA GoOnKeeps ==
    ASSUME LedgerInv, ~claim.waiting,
           claim.pc \in {"fresh1", "fresh2", "paidSol"}, NEW pc \in {"batch", "sol", "myne"},
           pc = "batch" => claim.pc = "fresh1",
           claim' = [claim EXCEPT !.pc = pc, !.account = IF pc = "myne" THEN account ELSE @],
           Steady /\ pc = "myne" => claim.processed \cap sol = {},
           UNCHANGED <<Ledger!ledger, account, reads, dirty, shown, report>>
    PROVE  LedgerInv'
<1>1. UNCHANGED <<open, sol, myne, account, reads, dirty, shown, report>>
    BY DEF Ledger!ledger
<1>2. /\ claim' \in ClaimType /\ claim'.pc = pc /\ claim'.waiting = claim.waiting
      /\ claim'.moved = claim.moved /\ claim'.requested = claim.requested
      /\ claim'.processed = claim.processed
      /\ claim'.account = IF pc = "myne" THEN account ELSE claim.account
    BY DEF LedgerInv, LedgerType, ClaimType
<1>3. Steady' = Steady /\ \A s : Covers(s)' = Covers(s)
    BY <1>1, <1>2 DEF Steady, Covers
<1>4. LedgerType' /\ DueOnce' /\ OwnedBy(shown, account)' /\ ReadsSound(reads)'
    BY <1>1, <1>2 DEF LedgerInv, LedgerType, DueOnce, OwnedBy, ReadsSound
<1>5. ClaimSound'
    BY <1>1, <1>2 DEF LedgerInv, ClaimSound, NoneAwaited
<1>6. WalletSound' /\ Ledger!ClaimAllSound'
    BY <1>1, <1>2, <1>3 DEF LedgerInv, WalletSound, Ledger!ClaimAllSound
<1>7. BatchCovered' /\ MinerCovered'
    BY <1>2 DEF BatchCovered, MinerCovered
<1>8. Withdrawn'
    BY <1>1, <1>2, <1>3 DEF Withdrawn
<1>9. ReadsCovered'
    <2> SUFFICES ASSUME Steady, pc \in {"sol", "myne"}, NEW x \in reads,
                        x.awaited \/ (x.current /\ x.account = account)
                 PROVE  Covers(x.snap)
        BY <1>1, <1>2, <1>3 DEF ReadsCovered
    <2>1. CASE claim.pc = "fresh1"
        BY <2>1 DEF LedgerInv, ClaimSound, Covers
    <2>2. CASE claim.pc # "fresh1"
        BY <2>2 DEF LedgerInv, ReadsCovered
    <2>3. QED
        BY <2>1, <2>2
<1>10. QED
    BY <1>4, <1>5, <1>6, <1>7, <1>8, <1>9 DEF LedgerInv

LEMMA MyneOrReturnKeeps ==
    ASSUME Ledger!RewardLedgerAssumption, LedgerInv, ~claim.waiting,
           claim.pc \in {"fresh1", "fresh2", "paidSol"}, Ledger!MyneOrReturn(claim),
           Steady => claim.processed \cap sol = {} /\ Covers(claim.miner),
           UNCHANGED <<Ledger!ledger, account, reads, dirty, shown>>
    PROVE  LedgerInv'
<1>1. CASE claim' = [claim EXCEPT !.pc = "myne", !.account = account] /\ UNCHANGED report
    <2>1. PICK pc \in {"batch", "sol", "myne"} : pc = "myne"
        OBVIOUS
    <2>2. claim' = [claim EXCEPT !.pc = pc, !.account = IF pc = "myne" THEN account ELSE @]
        BY <1>1, <2>1
    <2>3. QED
        BY <1>1, <2>1, <2>2, GoOnKeeps
<1>2. CASE Ledger!Returns(claim.miner.myne = {} /\ Ledger!AllProcessed(claim) /\ claim.handled /\ ~claim.burn)
    <2>1. PICK ok \in BOOLEAN :
             ok = (claim.miner.myne = {} /\ Ledger!AllProcessed(claim) /\ claim.handled /\ ~claim.burn)
        BY DEF Ledger!AllProcessed, LedgerInv, LedgerType, ClaimType
    <2>2. Ledger!Returns(ok)
        BY <1>2, <2>1
    <2>3. ok => claim.requested \cap open = {}
        BY <2>1 DEF Ledger!AllProcessed, LedgerInv, ClaimSound
    <2>4. ok /\ Steady => claim.requested \cap (sol \cup myne) = {}
        BY <2>1 DEF Ledger!AllProcessed, Covers
    <2>5. claim.pc # "idle"
        OBVIOUS
    <2>6. QED
        BY <2>2, <2>3, <2>4, <2>5, ReturnKeeps
<1>3. QED
    BY <1>1, <1>2 DEF Ledger!MyneOrReturn

LEMMA WithdrawKeeps ==
    ASSUME Ledger!RewardLedgerAssumption, LedgerInv, ~claim.waiting,
           claim.pc \in {"fresh1", "fresh2"}, Ledger!Withdraw(claim),
           Steady => Covers(claim.miner),
           UNCHANGED <<Ledger!ledger, account, reads, dirty, shown>>
    PROVE  LedgerInv'
<1>1. CASE claim.miner.sol # {}
    <2>1. claim' = [claim EXCEPT !.pc = "sol"] /\ UNCHANGED report
        BY <1>1 DEF Ledger!Withdraw
    <2>2. PICK pc \in {"batch", "sol", "myne"} : pc = "sol"
        OBVIOUS
    <2>3. claim' = [claim EXCEPT !.pc = pc, !.account = IF pc = "myne" THEN account ELSE @]
        BY <2>1, <2>2 DEF LedgerInv, LedgerType, ClaimType
    <2>4. QED
        BY <2>1, <2>2, <2>3, GoOnKeeps
<1>2. CASE claim.miner.sol = {}
    <2>1. Ledger!MyneOrReturn(claim)
        BY <1>2 DEF Ledger!Withdraw
    <2>2. Steady => claim.processed \cap sol = {}
        BY <1>2 DEF Covers
    <2>3. QED
        BY <2>1, <2>2, MyneOrReturnKeeps
<1>3. QED
    BY <1>1, <1>2

LEMMA FirstFreshKeeps == Ledger!RewardLedgerAssumption /\ LedgerInv /\ Ledger!firstFresh => LedgerInv'
<1> SUFFICES ASSUME Ledger!RewardLedgerAssumption, LedgerInv, Ledger!firstFresh PROVE LedgerInv'
    OBVIOUS
<1>1. /\ claim.pc = "fresh1" /\ ~claim.waiting /\ UNCHANGED <<Ledger!ledger, account, reads, dirty, shown>>
      /\ \/ Ledger!Returns(FALSE) \/ Ledger!Withdraw(claim)
         \/ claim' = [claim EXCEPT !.pc = "batch"] /\ UNCHANGED report
    BY DEF Ledger!firstFresh, Ledger!page, Ledger!rest
<1>2. CASE Ledger!Returns(FALSE)
    BY <1>1, <1>2, ReturnKeeps
<1>3. CASE Ledger!Withdraw(claim)
    <2>1. Covers(claim.miner)
        BY <1>1 DEF LedgerInv, ClaimSound, Covers
    <2>2. QED
        BY <1>1, <1>3, <2>1, WithdrawKeeps
<1>4. CASE claim' = [claim EXCEPT !.pc = "batch"] /\ UNCHANGED report
    <2>1. PICK pc \in {"batch", "sol", "myne"} : pc = "batch"
        OBVIOUS
    <2>2. claim' = [claim EXCEPT !.pc = pc, !.account = IF pc = "myne" THEN account ELSE @]
        BY <1>4, <2>1 DEF LedgerInv, LedgerType, ClaimType
    <2>3. QED
        BY <1>1, <1>4, <2>1, <2>2, GoOnKeeps
<1>5. QED
    BY <1>1, <1>2, <1>3, <1>4

LEMMA SecondFreshKeeps == Ledger!RewardLedgerAssumption /\ LedgerInv /\ Ledger!secondFresh => LedgerInv'
<1> SUFFICES ASSUME Ledger!RewardLedgerAssumption, LedgerInv, Ledger!secondFresh PROVE LedgerInv'
    OBVIOUS
<1>1. /\ claim.pc = "fresh2" /\ ~claim.waiting /\ UNCHANGED <<Ledger!ledger, account, reads, dirty, shown>>
      /\ Ledger!Returns(FALSE) \/ Ledger!Withdraw(claim)
    BY DEF Ledger!secondFresh, Ledger!page, Ledger!rest
<1>2. Steady => Covers(claim.miner)
    BY <1>1 DEF LedgerInv, MinerCovered
<1>3. QED
    BY <1>1, <1>2, ReturnKeeps, WithdrawKeeps

LEMMA SolConfirmedKeeps == Ledger!RewardLedgerAssumption /\ LedgerInv /\ Ledger!solConfirmed => LedgerInv'
<1> SUFFICES ASSUME Ledger!RewardLedgerAssumption, LedgerInv, Ledger!solConfirmed PROVE LedgerInv'
    OBVIOUS
<1>1. /\ claim.pc = "paidSol" /\ ~claim.waiting /\ UNCHANGED <<Ledger!ledger, account, reads, dirty, shown>>
      /\ Ledger!MyneOrReturn(claim)
    BY DEF Ledger!solConfirmed, Ledger!page, Ledger!rest
<1>2. Steady => claim.processed \cap sol = {} /\ Covers(claim.miner)
    BY <1>1 DEF LedgerInv, MinerCovered, Withdrawn
<1>3. QED
    BY <1>1, <1>2, MyneOrReturnKeeps

LEMMA MyneConfirmedKeeps == Ledger!RewardLedgerAssumption /\ LedgerInv /\ Ledger!myneConfirmed => LedgerInv'
<1> SUFFICES ASSUME Ledger!RewardLedgerAssumption, LedgerInv, Ledger!myneConfirmed PROVE LedgerInv'
    OBVIOUS
<1>1. /\ claim.pc = "paidMyne" /\ ~claim.waiting /\ UNCHANGED <<Ledger!ledger, account, reads, dirty, shown>>
      /\ Ledger!Returns(Ledger!AllProcessed(claim))
    BY DEF Ledger!myneConfirmed, Ledger!page, Ledger!rest
<1>2. PICK ok \in BOOLEAN : ok = Ledger!AllProcessed(claim)
    BY DEF Ledger!AllProcessed
<1>3. ok => claim.requested \cap open = {}
    BY <1>2 DEF Ledger!AllProcessed, LedgerInv, ClaimSound
<1>4. ok /\ Steady => claim.requested \cap (sol \cup myne) = {}
    BY <1>1, <1>2 DEF Ledger!AllProcessed, LedgerInv, Withdrawn
<1>5. QED
    BY <1>1, <1>2, <1>3, <1>4, ReturnKeeps

LEMMA TxFailsKeeps == Ledger!RewardLedgerAssumption /\ LedgerInv /\ Ledger!runTxFails => LedgerInv'
<1> SUFFICES ASSUME Ledger!RewardLedgerAssumption, LedgerInv, Ledger!runTxFails PROVE LedgerInv'
    OBVIOUS
<1>1. claim.pc \in {"sol", "myne"} /\ Ledger!Returns(FALSE) /\ UNCHANGED <<Ledger!ledger, account, reads, dirty, shown>>
    BY DEF Ledger!runTxFails, Ledger!page, Ledger!rest
<1>2. ~claim.waiting
    BY <1>1 DEF LedgerInv, ClaimSound, Awaiting
<1>3. QED
    BY <1>1, <1>2, ReturnKeeps

LEMMA ClaimAllKeeps == Ledger!RewardLedgerAssumption /\ LedgerInv /\ Ledger!claimAll => LedgerInv'
<1> SUFFICES ASSUME Ledger!RewardLedgerAssumption, LedgerInv, Ledger!claimAll PROVE LedgerInv'
    OBVIOUS
<1>1. /\ claim = Ledger!NoClaim /\ account # NoWallet /\ UNCHANGED <<open, sol, myne, account, report>>
      /\ \E rs \in SUBSET {p \in Receipts : Owner[p] = account}, burn \in BOOLEAN :
            Ledger!AwaitRefresh([Ledger!NoClaim EXCEPT !.account = account, !.requested = rs, !.burn = burn], "fresh1")
    BY DEF Ledger!claimAll, Ledger!ledger, Ledger!page
<1>2. PICK rs \in SUBSET {p \in Receipts : Owner[p] = account} : \E burn \in BOOLEAN :
         Ledger!AwaitRefresh([Ledger!NoClaim EXCEPT !.account = account, !.requested = rs, !.burn = burn], "fresh1")
    BY <1>1
<1>3. PICK burn \in BOOLEAN :
         Ledger!AwaitRefresh([Ledger!NoClaim EXCEPT !.account = account, !.requested = rs, !.burn = burn], "fresh1")
    BY <1>2
<1>4. PICK c : c = [Ledger!NoClaim EXCEPT !.account = account, !.requested = rs, !.burn = burn]
    OBVIOUS
<1>5. Ledger!NoClaim \in ClaimType /\ ~Ledger!NoClaim.waiting /\ ~Ledger!NoClaim.moved /\ Ledger!NoClaim.processed = {}
    BY NoClaimType DEF Ledger!NoClaim
<1>6. /\ c \in ClaimType /\ c.account = account /\ c.requested = rs /\ ~c.moved
      /\ c.processed = {}
    BY <1>4, <1>5 DEF LedgerInv, LedgerType, ClaimType
<1>7. PICK pc \in Awaiting : pc = "fresh1"
    BY DEF Awaiting
<1>8. Ledger!AwaitRefresh(c, pc)
    BY <1>3, <1>4, <1>7
<1>9. sol' \in SUBSET sol /\ myne' \in SUBSET myne /\ ~claim.waiting
    BY <1>1, <1>5
<1>10. QED
    BY <1>1, <1>6, <1>7, <1>8, <1>9, AwaitKeeps

LEMMA ClaimBatchedKeeps == Ledger!RewardLedgerAssumption /\ LedgerInv /\ Ledger!claimBatched => LedgerInv'
<1> SUFFICES ASSUME Ledger!RewardLedgerAssumption, LedgerInv, Ledger!claimBatched PROVE LedgerInv'
    OBVIOUS
<1>1. claim.pc = "batch" /\ UNCHANGED <<open, sol, myne, account, report>>
    BY DEF Ledger!claimBatched, Ledger!ledger, Ledger!page
<1>2. PICK processed \in SUBSET (claim.requested \ open) :
         Ledger!RefreshAfterBatch([claim EXCEPT !.processed = processed, !.handled = processed # {}])
    BY DEF Ledger!claimBatched
<1>3. PICK c : c = [claim EXCEPT !.processed = processed, !.handled = processed # {}]
    OBVIOUS
<1>4. /\ c \in ClaimType /\ c.account = claim.account /\ c.requested = claim.requested
      /\ c.moved = claim.moved /\ c.processed = processed
    BY <1>3 DEF LedgerInv, LedgerType, ClaimType
<1>5. PICK pc \in Awaiting : pc = IF c.processed = {} THEN "fresh2" ELSE "settled"
    BY DEF Awaiting
<1>6. Ledger!AwaitRefresh(c, pc)
    BY <1>2, <1>3, <1>5 DEF Ledger!RefreshAfterBatch
<1>7. ~claim.waiting
    BY <1>1 DEF LedgerInv, ClaimSound, Awaiting
<1>8. ~c.moved => /\ account # NoWallet /\ c.account = account
                  /\ \A p \in c.requested : Owner[p] = account
    BY <1>1, <1>4 DEF LedgerInv, WalletSound, Steady
<1>9. pc # "fresh1" /\ pc \notin {"paidSol", "paidMyne"} /\ (pc = "fresh2" => c.processed = {})
    BY <1>5
<1>10. c.processed \subseteq c.requested \ open
    BY <1>4
<1>11. \A x \in reads : pc = "fresh2" =>
          c.processed \cap sol \subseteq x.snap.sol /\ c.processed \cap myne \subseteq x.snap.myne
    BY <1>9
<1>12. sol' \in SUBSET sol /\ myne' \in SUBSET myne
    BY <1>1
<1>13. QED
    BY <1>1, <1>4, <1>6, <1>7, <1>8, <1>9, <1>10, <1>11, <1>12, AwaitKeeps

\* A call of a claim whose receipts every shared read covers.
LEMMA CallKeeps ==
    ASSUME Ledger!RewardLedgerAssumption, LedgerInv, ~claim.waiting,
           claim.pc \in {"settled", "sol", "myne"}, NEW pc \in {"fresh2", "paidSol", "paidMyne"},
           NEW handled \in BOOLEAN, Ledger!AwaitRefresh([claim EXCEPT !.handled = handled], pc),
           UNCHANGED <<open, account, report>>, sol' \in SUBSET sol, myne' \in SUBSET myne,
           Steady /\ pc \in {"paidSol", "paidMyne"} => claim.processed \cap sol' = {},
           Steady /\ pc = "paidMyne" => claim.processed \cap myne' = {}
    PROVE  LedgerInv'
<1>1. PICK c : c = [claim EXCEPT !.handled = handled]
    OBVIOUS
<1>2. /\ c \in ClaimType /\ c.account = claim.account /\ c.requested = claim.requested
      /\ c.moved = claim.moved /\ c.processed = claim.processed
    BY <1>1 DEF LedgerInv, LedgerType, ClaimType
<1>3. Steady <=> ~c.moved
    BY <1>2 DEF Steady
<1>4. PICK at \in Awaiting : at = pc
    BY DEF Awaiting
<1>5. Ledger!AwaitRefresh(c, at)
    BY <1>1, <1>4
<1>6. c.processed \subseteq c.requested \ open
    BY <1>2 DEF LedgerInv, ClaimSound
<1>7. ~c.moved => /\ account # NoWallet /\ c.account = account
                  /\ \A p \in c.requested : Owner[p] = account
    BY <1>2, <1>3 DEF LedgerInv, WalletSound
<1>8. ~c.moved => \A x \in reads : x.current /\ x.account = account =>
         c.processed \cap sol \subseteq x.snap.sol /\ c.processed \cap myne \subseteq x.snap.myne
    <2>1. CASE claim.pc = "settled"
        <3>1. NoneAwaited(reads)
            BY DEF LedgerInv, ClaimSound
        <3>2. QED
            BY <1>2, <1>3, <2>1, <3>1 DEF LedgerInv, BatchCovered, Covers, NoneAwaited
    <2>2. CASE claim.pc \in {"sol", "myne"}
        BY <1>2, <1>3, <2>2 DEF LedgerInv, ReadsCovered, Covers
    <2>3. QED
        BY <2>1, <2>2
<1>9. /\ ~c.moved /\ at \in {"paidSol", "paidMyne"} => c.processed \cap sol' = {}
      /\ ~c.moved /\ at = "paidMyne" => c.processed \cap myne' = {}
      /\ at # "fresh1"
    BY <1>2, <1>3, <1>4
<1>10. QED
    BY <1>2, <1>5, <1>6, <1>7, <1>8, <1>9, AwaitKeeps

LEMMA FreshAgainKeeps == Ledger!RewardLedgerAssumption /\ LedgerInv /\ Ledger!freshAgain => LedgerInv'
<1> SUFFICES ASSUME Ledger!RewardLedgerAssumption, LedgerInv, Ledger!freshAgain PROVE LedgerInv'
    OBVIOUS
<1>1. /\ claim.pc = "settled" /\ ~claim.waiting /\ Ledger!AwaitRefresh(claim, "fresh2")
      /\ UNCHANGED <<open, sol, myne, account, report>>
    BY DEF Ledger!freshAgain, Ledger!ledger, Ledger!page
<1>2. PICK handled \in BOOLEAN : claim = [claim EXCEPT !.handled = handled]
    <2>1. claim.handled \in BOOLEAN /\ claim = [claim EXCEPT !.handled = claim.handled]
        BY DEF LedgerInv, LedgerType, ClaimType
    <2>2. QED
        BY <2>1
<1>3. PICK pc \in {"fresh2", "paidSol", "paidMyne"} : pc = "fresh2"
    OBVIOUS
<1>4. Ledger!AwaitRefresh([claim EXCEPT !.handled = handled], pc)
    BY <1>1, <1>2, <1>3
<1>5. sol' \in SUBSET sol /\ myne' \in SUBSET myne
    BY <1>1
<1>6. QED
    BY <1>1, <1>3, <1>4, <1>5, CallKeeps

LEMMA WithdrawSolKeeps == Ledger!RewardLedgerAssumption /\ LedgerInv /\ Ledger!withdrawClaimableSol => LedgerInv'
<1> SUFFICES ASSUME Ledger!RewardLedgerAssumption, LedgerInv, Ledger!withdrawClaimableSol PROVE LedgerInv'
    OBVIOUS
<1>1. /\ claim.pc = "sol" /\ sol' = sol \ Ledger!Due(claim.account).sol
      /\ Ledger!AwaitRefresh([claim EXCEPT !.handled = TRUE], "paidSol")
      /\ UNCHANGED <<open, myne, account, report>>
    BY DEF Ledger!withdrawClaimableSol, Ledger!page
<1>2. ~claim.waiting
    BY <1>1 DEF LedgerInv, ClaimSound, Awaiting
<1>3. Steady => claim.processed \cap sol' = {}
    <2>1. Steady => \A p \in claim.processed : Owner[p] = claim.account
        BY DEF LedgerInv, WalletSound, ClaimSound
    <2>2. QED
        BY <1>1, <2>1 DEF Ledger!Due
<1>4. PICK pc \in {"fresh2", "paidSol", "paidMyne"} : pc = "paidSol"
    OBVIOUS
<1>5. PICK handled \in BOOLEAN : handled = TRUE
    OBVIOUS
<1>6. Ledger!AwaitRefresh([claim EXCEPT !.handled = handled], pc)
    BY <1>1, <1>4, <1>5
<1>7. sol' \in SUBSET sol /\ myne' \in SUBSET myne
    BY <1>1
<1>8. QED
    BY <1>1, <1>2, <1>3, <1>4, <1>6, <1>7, CallKeeps

LEMMA WithdrawMyneKeeps == Ledger!RewardLedgerAssumption /\ LedgerInv /\ Ledger!withdrawUnrefined => LedgerInv'
<1> SUFFICES ASSUME Ledger!RewardLedgerAssumption, LedgerInv, Ledger!withdrawUnrefined PROVE LedgerInv'
    OBVIOUS
<1>1. /\ claim.pc = "myne" /\ myne' = myne \ Ledger!Due(claim.account).myne
      /\ Ledger!AwaitRefresh(claim, "paidMyne") /\ UNCHANGED <<open, sol, account, report>>
    BY DEF Ledger!withdrawUnrefined, Ledger!page
<1>2. ~claim.waiting
    BY <1>1 DEF LedgerInv, ClaimSound, Awaiting
<1>3. Steady => claim.processed \cap sol' = {} /\ claim.processed \cap myne' = {}
    <2>1. Steady => \A p \in claim.processed : Owner[p] = claim.account
        BY DEF LedgerInv, WalletSound, ClaimSound
    <2>2. Steady => claim.processed \cap sol = {}
        BY <1>1 DEF LedgerInv, Withdrawn
    <2>3. QED
        BY <1>1, <2>1, <2>2 DEF Ledger!Due
<1>4. PICK handled \in BOOLEAN : claim = [claim EXCEPT !.handled = handled]
    <2>1. claim.handled \in BOOLEAN /\ claim = [claim EXCEPT !.handled = claim.handled]
        BY DEF LedgerInv, LedgerType, ClaimType
    <2>2. QED
        BY <2>1
<1>5. PICK pc \in {"fresh2", "paidSol", "paidMyne"} : pc = "paidMyne"
    OBVIOUS
<1>6. Ledger!AwaitRefresh([claim EXCEPT !.handled = handled], pc)
    BY <1>1, <1>4, <1>5
<1>7. sol' \in SUBSET sol /\ myne' \in SUBSET myne
    BY <1>1
<1>8. QED
    BY <1>1, <1>2, <1>3, <1>5, <1>6, <1>7, CallKeeps

LEMMA LedgerBegins == Ledger!RewardLedgerAssumption /\ Ledger!Init => LedgerInv
<1> SUFFICES ASSUME Ledger!RewardLedgerAssumption, Ledger!Init PROVE LedgerInv
    OBVIOUS
<1>1. /\ open = Receipts /\ sol = {} /\ myne = {} /\ account = NoWallet /\ reads = {}
      /\ dirty = FALSE /\ shown = Ledger!Cleared /\ claim = Ledger!NoClaim /\ report = Ledger!NoReport
    BY DEF Ledger!Init
<1>2. claim \in ClaimType /\ ~claim.waiting /\ claim.pc = "idle" /\ claim.processed = {}
    BY <1>1, NoClaimType DEF Ledger!NoClaim
<1>3. report \in ReportType /\ ~report.ok /\ shown \in SnapType /\ OwnedBy(shown, account)
    BY <1>1 DEF Ledger!NoReport, ReportType, Ledger!Cleared, SnapType, OwnedBy
<1>4. LedgerType /\ DueOnce /\ ReadsSound(reads)
    BY <1>1, <1>2, <1>3 DEF LedgerType, DueOnce, ReadsSound, SomeWallet
<1>5. ClaimSound
    BY <1>1, <1>2 DEF ClaimSound, NoneAwaited
<1>6. ~Steady
    BY <1>2 DEF Steady
<1>7. WalletSound /\ BatchCovered /\ ReadsCovered /\ MinerCovered /\ Withdrawn /\ Ledger!ClaimAllSound
    BY <1>3, <1>6 DEF WalletSound, BatchCovered, ReadsCovered, MinerCovered, Withdrawn, Ledger!ClaimAllSound
<1>8. QED
    BY <1>3, <1>4, <1>5, <1>7 DEF LedgerInv

LEMMA LedgerStutters == LedgerInv /\ UNCHANGED Ledger!vars => LedgerInv'
<1> SUFFICES ASSUME LedgerInv, UNCHANGED Ledger!vars PROVE LedgerInv'
    OBVIOUS
<1>1. UNCHANGED <<Ledger!ledger, account, reads, dirty, shown, claim, report>>
    BY DEF Ledger!vars, Ledger!page
<1>2. \A x \in reads : Kept(x, x, account, FALSE)
    BY DEF Kept, Ledger!Shared
<1>3. reads' \in SUBSET ReadType /\ ReadsSound(reads') /\ dirty' \in BOOLEAN
    BY <1>1 DEF LedgerInv, LedgerType
<1>4. QED
    BY <1>1, <1>2, <1>3, ReadsStep

LEMMA LedgerStep == Ledger!RewardLedgerAssumption /\ LedgerInv /\ [Ledger!Next]_(Ledger!vars) => LedgerInv'
<1> SUFFICES ASSUME Ledger!RewardLedgerAssumption, LedgerInv, [Ledger!Next]_(Ledger!vars) PROVE LedgerInv'
    OBVIOUS
<1>1. CASE Ledger!readArrives \/ Ledger!readFails
    BY <1>1, AnswersKeep
<1>2. CASE Ledger!keeperSettles
    BY <1>2, ProcessKeeps DEF Ledger!keeperSettles, Ledger!page
<1>3. CASE Ledger!chunkLands
    <2>1. claim.requested \subseteq Receipts
        BY DEF LedgerInv, LedgerType, ClaimType
    <2>2. QED
        BY <1>3, <2>1, ProcessKeeps DEF Ledger!chunkLands, Ledger!page
<1>4. CASE Ledger!scheduleMinerRefresh \/ Ledger!poll \/ Ledger!setLive \/ Ledger!visibilitychange
    BY <1>4, PageKeeps
<1>5. CASE Ledger!onAccountChange
    BY <1>5, AccountKeeps
<1>6. CASE Ledger!claimAll \/ Ledger!firstFresh \/ Ledger!claimBatched \/ Ledger!freshAgain \/ Ledger!secondFresh
    BY <1>6, ClaimAllKeeps, FirstFreshKeeps, ClaimBatchedKeeps, FreshAgainKeeps, SecondFreshKeeps
<1>7. CASE Ledger!withdrawClaimableSol \/ Ledger!solConfirmed \/ Ledger!withdrawUnrefined \/ Ledger!myneConfirmed \/ Ledger!runTxFails
    BY <1>7, WithdrawSolKeeps, SolConfirmedKeeps, WithdrawMyneKeeps, MyneConfirmedKeeps, TxFailsKeeps
<1>8. CASE UNCHANGED Ledger!vars
    BY <1>8, LedgerStutters
<1>9. QED
    BY <1>1, <1>2, <1>3, <1>4, <1>5, <1>6, <1>7, <1>8 DEF Ledger!Next

LEMMA LedgerInvSound == LedgerInv => Ledger!NoForeignRewards /\ Ledger!ClaimAllSound
BY DEF LedgerInv, OwnedBy, Ledger!NoForeignRewards

-----------------------------------------------------------------------------
(* The services, side by side.                                             *)

LEMMA HostSteps == ServicesNext => Host!Next \/ UNCHANGED hostVars
BY DEF ServicesNext

LEMMA LedgerSteps == ServicesNext => Ledger!Next \/ UNCHANGED ledgerVars
BY DEF ServicesNext

\* A round never has two keeper processes, and a green health check means that
\* no missed deadline waits for review, for any schedule, any number of rounds,
\* deaths, failed writes and acknowledgements (startRoundWorker, onExit,
\* recordDurableRoundIncident, publicHealth).
THEOREM HostIsSound == ServicesSpec => []HostSound
<1>1. ServicesInit => HostInv
    BY HostBegins, ServiceInstances DEF ServicesInit
<1>2. HostInv /\ [ServicesNext]_all => HostInv'
    <2>1. [ServicesNext]_all => [Host!Next]_(Host!vars)
        BY HostSteps DEF all, hostVars, Host!vars
    <2>2. QED
        BY <2>1, HostStep, ServiceInstances
<1>3. HostInv => HostSound
    BY HostInvSound DEF HostSound
<1>4. QED
    BY <1>1, <1>2, <1>3, PTL DEF ServicesSpec

\* The rewards shown are the connected wallet's, and a Claim All that reports
\* success processed every receipt it was asked for and, unless the wallet was
\* switched, withdrew what they earned (refreshMiner, claimBatched, claimAll).
THEOREM RewardLedgerIsSound == ServicesSpec => []LedgerSound
<1>1. ServicesInit => LedgerInv
    BY LedgerBegins, ServiceInstances DEF ServicesInit
<1>2. LedgerInv /\ [ServicesNext]_all => LedgerInv'
    <2>1. [ServicesNext]_all => [Ledger!Next]_(Ledger!vars)
        BY LedgerSteps DEF all, ledgerVars, Ledger!vars, Ledger!ledger, Ledger!page
    <2>2. QED
        BY <2>1, LedgerStep, ServiceInstances
<1>3. LedgerInv => LedgerSound
    BY LedgerInvSound DEF LedgerSound
<1>4. QED
    BY <1>1, <1>2, <1>3, PTL DEF ServicesSpec
=============================================================================
