-------------------------- MODULE ServerRoundProofs --------------------------
(***************************************************************************)
(* The commit-reveal promise of the server provider and the honesty of its *)
(* deadline report, for any number of keepers, slots and deaths.           *)
(*                                                                         *)
(* A preimage is on the volume before anything that names it leaves the    *)
(* process, and a file that holds one is never written again: FileLeads.   *)
(* What is locked names a slot that does not exist yet, and the newest     *)
(* hashes have no hole that could hide the first slot at or after it:      *)
(* EntropyIsFirst.                                                         *)
(***************************************************************************)
EXTENDS ServerRound, LedgerLemmas

\* Where a keeper holds the preimage that the file holds.
HoldsReveal ==
    {"sync", "prepare", "await_bind", "betting", "await_lock", "entropy", "await_settle"}

\* One keeper at most is writing, into a file it has created and nobody else
\* touches; whoever acts on a preimage, in a process, on its way or on chain,
\* acts on the one in the file.
FileLeads ==
    /\ \A k \in Keepers :
          /\ keeper[k].pc \in {"create", "write"} => keeper[k].reveal \in Reveals
          /\ keeper[k].pc = "write" =>
                file.content = "empty" /\ \A j \in Keepers : keeper[j].pc = "write" => j = k
          /\ keeper[k].pc \in HoldsReveal =>
                keeper[k].reveal \in Reveals /\ file.content = keeper[k].reveal
    /\ \A tx \in sent : tx.kind = "prepare" =>
          tx.reveal \in Reveals /\ file.content = tx.reveal
    /\ PreimageKept

\* A locked target was in the future, a settled round has its first slot.
LockLeads ==
    /\ round.randomness = "locked" => round.commit_slot > round.locked_in
    /\ round.settled =>
          /\ round.randomness = "locked" /\ round.exists
          /\ {s \in blocks : s >= round.commit_slot} # {}
          /\ round.entropy = Min({s \in blocks : s >= round.commit_slot})

\* A keeper reports a settlement that has happened.
ReportFollows ==
    /\ \A k \in Keepers : keeper[k].pc \in {"report", "report_own"} => round.settled
    /\ HonestReport

ServerInv == TypeOK /\ FileLeads /\ LockLeads /\ ReportFollows

-----------------------------------------------------------------------------
(* Slots.                                                                  *)

\* What later slots do to the first one at or after a target: nothing.
LEMMA FirstStays ==
    ASSUME NEW A, A \subseteq Nat, NEW n \in Nat, \A s \in A : s < n,
           NEW target \in Nat, {s \in A : s >= target} # {}
    PROVE  /\ {s \in A \cup {n} : s >= target} # {}
           /\ Min({s \in A \cup {n} : s >= target}) = Min({s \in A : s >= target})
<1> DEFINE T == {s \in A : s >= target}
           U == {s \in A \cup {n} : s >= target}
<1>1. T \subseteq Nat /\ U \subseteq Nat /\ U # {} /\ T # {}
  OBVIOUS
<1>2. Min(T) \in T /\ \A s \in T : Min(T) <= s
  <2> HIDE DEF T, U
  <2> QED BY <1>1, LeastNatural
<1>3. Min(U) \in U /\ \A s \in U : Min(U) <= s
  <2> HIDE DEF T, U
  <2> QED BY <1>1, LeastNatural
<1>4. PICK m \in T : m = Min(T)
  BY <1>2
<1>5. PICK w \in U : w = Min(U)
  BY <1>3
<1>6. m \in U
  OBVIOUS
<1>7. w <= m /\ \A s \in T : m <= s
  BY <1>2, <1>3, <1>4, <1>5, <1>6
<1>8. w # n
  <2>1. m < n /\ m \in Nat
    OBVIOUS
  <2> QED BY <1>7, <2>1
<1>9. w \in T
  BY <1>8
<1>10. m \in Nat /\ w \in Nat
  BY <1>1, <1>9
<1>11. m = w
  BY <1>7, <1>9, <1>10
<1> QED BY <1>1, <1>4, <1>5, <1>11

\* The sysvar holds the newest slots without a hole.
LEMMA HashesAreNewest ==
    ASSUME TypeOK, NEW s \in SlotHashes, NEW t \in blocks, t >= s
    PROVE  t \in SlotHashes
<1> DEFINE above(x) == {y \in blocks : y > x}
<1>1. blocks \subseteq Nat /\ slot \in Nat /\ s \in blocks
  BY ServerRoundAssumption DEF TypeOK, SlotHashes
<1>2. IsFiniteSet(0 .. slot - 1)
  BY <1>1, FS_Interval
<1>3. IsFiniteSet(above(s)) /\ above(t) \subseteq above(s)
  <2>1. above(s) \subseteq 0 .. slot - 1
    BY DEF TypeOK
  <2>2. s \in Nat /\ t \in Nat
    BY <1>1
  <2>3. ASSUME NEW y \in blocks, y > t PROVE y > s
    BY <1>1, <2>2, <2>3
  <2>4. above(t) \subseteq above(s)
    BY <2>3
  <2> HIDE DEF above
  <2> QED BY <1>2, <2>1, <2>4, FS_Subset
<1>4. /\ Cardinality(above(t)) <= Cardinality(above(s))
      /\ Cardinality(above(t)) \in Nat /\ Cardinality(above(s)) \in Nat
  <2> HIDE DEF above
  <2>1. IsFiniteSet(above(t))
    BY <1>3, FS_Subset
  <2> QED BY <1>3, <2>1, FS_Subset, FS_CardinalityType
<1>5. Cardinality(above(s)) < SLOT_HASHES_MAX_ENTRIES
  BY DEF SlotHashes
<1>6. Cardinality(above(t)) < SLOT_HASHES_MAX_ENTRIES
  <2> HIDE DEF above
  <2> QED BY <1>4, <1>5, ServerRoundAssumption
<1> QED BY <1>6 DEF SlotHashes

\* Where the scan finds a slot, it is the first one produced at or after the target.
LEMMA EntropyIsFirst ==
    ASSUME TypeOK, NEW target \in Nat, EligibleEntropy(target) # {}
    PROVE  EligibleEntropy(target) = {s \in blocks : s >= target}
<1>1. SlotHashes \subseteq blocks /\ blocks \subseteq Nat
  BY ServerRoundAssumption DEF TypeOK, SlotHashes
<1>2. target >= Min(SlotHashes) /\ EligibleEntropy(target) = {s \in SlotHashes : s >= target}
  BY DEF EligibleEntropy
<1>3. SlotHashes # {} /\ SlotHashes \subseteq Nat
  BY <1>1, <1>2
<1>4. PICK m \in SlotHashes : m = Min(SlotHashes) /\ m \in Nat
  BY <1>3, LeastNatural
<1>5. ASSUME NEW s \in blocks, s >= target PROVE s \in SlotHashes
  <2>1. s >= m
    BY <1>1, <1>2, <1>4, <1>5
  <2> QED BY <2>1, HashesAreNewest
<1> QED BY <1>1, <1>2, <1>5

-----------------------------------------------------------------------------
(* A keeper that moves.                                                    *)

FileType == [content : Reveals \cup {"absent", "empty"}, synced : BOOLEAN]
SentType == [kind : {"prepare", "lock", "settle"}, reveal : Reveals \cup {NoReveal}]

\* What a keeper may turn into while the file keeps its content.
Ready(t) ==
    /\ t \in KeeperType /\ t.pc # "write"
    /\ t.pc = "create" => t.reveal \in Reveals
    /\ t.pc \in HoldsReveal => t.reveal \in Reveals /\ file.content = t.reveal
    /\ t.pc \in {"report", "report_own"} => round.settled

\* One keeper moves, the chain stands still.
LEMMA MoveKeeps ==
    ASSUME ServerInv, NEW k \in Keepers, NEW t, Ready(t),
           keeper' = [keeper EXCEPT ![k] = t], Env,
           file' \in FileType, file'.content = file.content,
           sent' \subseteq SentType,
           \A tx \in sent' : tx.kind = "prepare" =>
               tx.reveal \in Reveals /\ file.content = tx.reveal,
           report' \in {"none", "met", "missed"}, HonestReport',
           failures' \in 0 .. MaxFailures
    PROVE  ServerInv'
<1>1. slot' = slot /\ blocks' = blocks /\ round' = round
  BY DEF Env
<1>2. keeper \in [Keepers -> KeeperType] /\ t \in KeeperType
  BY DEF ServerInv, TypeOK, Ready
<1>3. keeper' \in [Keepers -> KeeperType]
  BY <1>2
<1>4. keeper'[k] = t /\ \A j \in Keepers : j # k => keeper'[j] = keeper[j]
  BY <1>2
<1>5. TypeOK'
  BY <1>1, <1>3 DEF ServerInv, TypeOK, FileType, SentType
<1>6. LockLeads'
  BY <1>1 DEF ServerInv, LockLeads
<1>7. PreimageKept'
  BY <1>1 DEF ServerInv, FileLeads, PreimageKept
<1>8. ASSUME NEW j \in Keepers
      PROVE  /\ keeper'[j].pc \in {"create", "write"} => keeper'[j].reveal \in Reveals
             /\ keeper'[j].pc = "write" =>
                   file'.content = "empty" /\ \A i \in Keepers : keeper'[i].pc = "write" => i = j
             /\ keeper'[j].pc \in HoldsReveal =>
                   keeper'[j].reveal \in Reveals /\ file'.content = keeper'[j].reveal
             /\ keeper'[j].pc \in {"report", "report_own"} => round'.settled
  <2>1. CASE j = k
    <3>1. keeper'[j] = t
      BY <2>1, <1>4
    <3> QED BY <3>1, <1>1 DEF Ready
  <2>2. CASE j # k
    <3>1. keeper'[j] = keeper[j]
      BY <2>2, <1>4
    <3>2. /\ keeper[j].pc \in {"create", "write"} => keeper[j].reveal \in Reveals
          /\ keeper[j].pc = "write" =>
                file.content = "empty" /\ \A i \in Keepers : keeper[i].pc = "write" => i = j
          /\ keeper[j].pc \in HoldsReveal =>
                keeper[j].reveal \in Reveals /\ file.content = keeper[j].reveal
          /\ keeper[j].pc \in {"report", "report_own"} => round.settled
      BY DEF ServerInv, FileLeads, ReportFollows
    <3>3. ASSUME keeper[j].pc = "write", NEW i \in Keepers, keeper'[i].pc = "write"
          PROVE  i = j
      <4>1. i # k
        BY <3>3, <1>4 DEF Ready
      <4>2. keeper[i].pc = "write"
        BY <4>1, <3>3, <1>4
      <4> QED BY <4>2, <3>2, <3>3
    <3> QED BY <3>1, <3>2, <3>3, <1>1
  <2> QED BY <2>1, <2>2
<1>9. FileLeads'
  <2>1. \A tx \in sent' : tx.kind = "prepare" =>
           tx.reveal \in Reveals /\ file'.content = tx.reveal
    OBVIOUS
  <2> QED BY <1>7, <1>8, <2>1 DEF FileLeads
<1>10. ReportFollows'
  BY <1>8 DEF ReportFollows
<1> QED BY <1>5, <1>6, <1>9, <1>10 DEF ServerInv

\* The same when only a process moves.
LEMMA QuietMoveKeeps ==
    ASSUME ServerInv, NEW k \in Keepers, NEW t, Ready(t),
           keeper' = [keeper EXCEPT ![k] = t], Env,
           UNCHANGED <<file, sent, report>>, failures' \in 0 .. MaxFailures
    PROVE  ServerInv'
<1>1. file' \in FileType /\ file'.content = file.content
  BY DEF ServerInv, TypeOK, FileType
<1>2. sent' \subseteq SentType
  BY DEF ServerInv, TypeOK, SentType
<1>3. \A tx \in sent' : tx.kind = "prepare" => tx.reveal \in Reveals /\ file.content = tx.reveal
  BY DEF ServerInv, FileLeads
<1>4. report' \in {"none", "met", "missed"} /\ HonestReport'
  BY DEF ServerInv, TypeOK, ReportFollows, HonestReport, Env
<1> QED BY <1>1, <1>2, <1>3, <1>4, MoveKeeps

\* What a step leaves of the process: all but its place.
LEMMA StepMoves ==
    ASSUME ServerInv, NEW k \in Keepers, NEW from, NEW to, Step(k, from, to),
           to \in {"write", "sync", "prepare", "await_bind", "betting", "await_lock",
                   "entropy", "await_settle", "report", "report_own", "done"}
    PROVE  \E t \in KeeperType : /\ keeper' = [keeper EXCEPT ![k] = t]
                                 /\ t.pc = to /\ t.reveal = keeper[k].reveal
<1>1. keeper \in [Keepers -> KeeperType] /\ keeper[k] \in KeeperType
  BY DEF ServerInv, TypeOK
<1>2. PICK t : t = [keeper[k] EXCEPT !.pc = to]
  OBVIOUS
<1>3. t \in KeeperType /\ t.pc = to /\ t.reveal = keeper[k].reveal
  BY <1>1, <1>2 DEF KeeperType
<1>4. keeper' = [keeper EXCEPT ![k] = t]
  BY <1>1, <1>2 DEF Step
<1> QED BY <1>3, <1>4

LEMMA IdleReady == ASSUME ServerInv PROVE Ready(Idle)
<1>1. NoRound \in RoundType
  BY DEF NoRound, RoundType
<1>2. Idle \in KeeperType /\ Idle.pc = "off"
  BY <1>1 DEF Idle, KeeperType
<1> QED BY <1>2 DEF Ready, HoldsReveal

-----------------------------------------------------------------------------
(* The keeper, action by action.                                           *)

\* A keeper that writes, or creates, is alone with its file.
LEMMA WriterAlone ==
    ASSUME ServerInv, file.content \notin Reveals
    PROVE  /\ round.commitment = NoReveal
           /\ \A k \in Keepers : keeper[k].pc \notin HoldsReveal
           /\ \A tx \in sent : tx.kind # "prepare"
BY ServerRoundAssumption DEF ServerInv, FileLeads, PreimageKept, TypeOK, RoundType

LEMMA TakeKeeps ==
    ASSUME ServerInv, NEW k \in Keepers, TakeReveal(k), Env,
           UNCHANGED <<file, sent, report, failures>>
    PROVE  ServerInv'
<1>0. failures' \in 0 .. MaxFailures
  BY DEF ServerInv, TypeOK
<1>1. keeper \in [Keepers -> KeeperType] /\ keeper[k] \in KeeperType
  BY DEF ServerInv, TypeOK
<1>2. CASE file.content \in Reveals
  <2>1. PICK u : u = [keeper[k] EXCEPT !.reveal = file.content]
    OBVIOUS
  <2>2. PICK t : t = [u EXCEPT !.pc = "prepare"]
    OBVIOUS
  <2>3. u \in KeeperType
    BY <1>1, <1>2, <2>1 DEF KeeperType
  <2>4. u.reveal = file.content
    BY <1>1, <2>1 DEF KeeperType
  <2>5. t \in KeeperType /\ t.pc = "prepare" /\ t.reveal = file.content
    BY <2>2, <2>3, <2>4 DEF KeeperType
  <2>6. keeper' = [keeper EXCEPT ![k] = t]
    BY <1>1, <1>2, <2>1, <2>2 DEF TakeReveal
  <2>7. Ready(t)
    BY <1>2, <2>5 DEF Ready
  <2> QED BY <1>0, <2>6, <2>7, QuietMoveKeeps
<1>3. CASE file.content \notin Reveals
  BY <1>0, <1>3, IdleReady, QuietMoveKeeps DEF TakeReveal, Exits
<1> QED BY <1>2, <1>3

LEMMA StartKeeps ==
    ASSUME ServerInv, NEW k \in Keepers, StartKeeper(k)
    PROVE  ServerInv'
<1>1. PICK t : t = [Idle EXCEPT !.pc = "start"]
  OBVIOUS
<1>2. Idle \in KeeperType
  BY IdleReady DEF Ready
<1>3. t \in KeeperType /\ t.pc = "start"
  BY <1>1, <1>2 DEF KeeperType
<1>4. Ready(t)
  BY <1>3 DEF Ready, HoldsReveal
<1>5. keeper' = [keeper EXCEPT ![k] = t] /\ Env /\ UNCHANGED <<file, sent, report, failures>>
  BY <1>1 DEF StartKeeper
<1>6. failures' \in 0 .. MaxFailures
  BY <1>5 DEF ServerInv, TypeOK
<1> QED BY <1>4, <1>5, <1>6, QuietMoveKeeps

LEMMA ReadKeeps ==
    ASSUME ServerInv, NEW k \in Keepers, ReadRound(k)
    PROVE  ServerInv'
<1>1. PICK p : p = IF round.settled THEN "report"
                   ELSE IF ~round.exists /\ slot >= OPENED_AT THEN "missed" ELSE "load"
  OBVIOUS
<1>2. p \in {"report", "missed", "load"} /\ (p = "report" => round.settled)
  BY <1>1
<1>3. keeper \in [Keepers -> KeeperType] /\ keeper[k] \in KeeperType /\ round \in RoundType
  BY DEF ServerInv, TypeOK
<1>4. PICK u : u = [keeper[k] EXCEPT !.seen = round]
  OBVIOUS
<1>5. u \in KeeperType
  BY <1>3, <1>4 DEF KeeperType
<1>6. PICK t : t = [u EXCEPT !.pc = p]
  OBVIOUS
<1>7. t \in KeeperType /\ t.pc = p
  BY <1>2, <1>5, <1>6 DEF KeeperType
<1>8. Ready(t)
  BY <1>2, <1>7 DEF Ready, HoldsReveal
<1>9. keeper' = [keeper EXCEPT ![k] = t]
  BY <1>1, <1>3, <1>4, <1>6 DEF ReadRound
<1>10. Env /\ UNCHANGED <<file, sent, report, failures>>
  BY DEF ReadRound
<1>11. failures' \in 0 .. MaxFailures
  BY <1>10 DEF ServerInv, TypeOK
<1> QED BY <1>8, <1>9, <1>10, <1>11, QuietMoveKeeps

LEMMA LoadKeeps ==
    ASSUME ServerInv, NEW k \in Keepers, LoadReveal(k)
    PROVE  ServerInv'
<1>0. Env /\ UNCHANGED <<file, sent, report, failures>> /\ failures' \in 0 .. MaxFailures
  BY DEF LoadReveal, ServerInv, TypeOK
<1>1. CASE file.content # "absent"
  BY <1>0, <1>1, TakeKeeps DEF LoadReveal
<1>2. CASE file.content = "absent"
  <2>1. PICK r \in Reveals : keeper' = [keeper EXCEPT ![k].reveal = r, ![k].pc = "create"]
    BY <1>2 DEF LoadReveal
  <2>2. keeper \in [Keepers -> KeeperType] /\ keeper[k] \in KeeperType
    BY DEF ServerInv, TypeOK
  <2>3. PICK u : u = [keeper[k] EXCEPT !.reveal = r]
    OBVIOUS
  <2>4. PICK t : t = [u EXCEPT !.pc = "create"]
    OBVIOUS
  <2>5. u \in KeeperType /\ u.reveal = r
    BY <2>2, <2>3 DEF KeeperType
  <2>6. t \in KeeperType /\ t.pc = "create" /\ t.reveal = r
    BY <2>4, <2>5 DEF KeeperType
  <2>7. keeper' = [keeper EXCEPT ![k] = t]
    BY <2>1, <2>2, <2>3, <2>4
  <2>8. Ready(t)
    BY <2>6 DEF Ready, HoldsReveal
  <2> QED BY <1>0, <2>7, <2>8, QuietMoveKeeps
<1> QED BY <1>1, <1>2

\* A creation is exclusive: from then on this keeper alone writes, and no
\* preimage is out.
LEMMA CreateKeeps ==
    ASSUME ServerInv, NEW k \in Keepers, CreateReveal(k)
    PROVE  ServerInv'
<1>0. Env /\ UNCHANGED <<sent, report, failures>>
  BY DEF CreateReveal
<1>1. CASE file.content # "absent"
  BY <1>0, <1>1, TakeKeeps DEF CreateReveal
<1>2. CASE file.content = "absent"
  <2>1. Step(k, "create", "write") /\ file' = [content |-> "empty", synced |-> FALSE]
    BY <1>2 DEF CreateReveal
  <2>2. PICK t \in KeeperType : /\ keeper' = [keeper EXCEPT ![k] = t]
                                /\ t.pc = "write" /\ t.reveal = keeper[k].reveal
    BY <2>1, StepMoves
  <2>3. keeper \in [Keepers -> KeeperType]
    BY DEF ServerInv, TypeOK
  <2>4. keeper'[k] = t /\ \A j \in Keepers : j # k => keeper'[j] = keeper[j]
    BY <2>2, <2>3
  <2>5. file.content \notin Reveals /\ file.content # "empty"
    BY <1>2, ServerRoundAssumption
  <2>6. /\ round.commitment = NoReveal
        /\ \A j \in Keepers : keeper[j].pc \notin HoldsReveal
        /\ \A tx \in sent : tx.kind # "prepare"
    BY <2>5, WriterAlone
  <2>7. \A j \in Keepers : keeper[j].pc # "write"
    BY <2>5 DEF ServerInv, FileLeads
  <2>8. keeper[k].reveal \in Reveals
    BY <2>1 DEF Step, ServerInv, FileLeads
  <2>9. slot' = slot /\ blocks' = blocks /\ round' = round
    BY <1>0 DEF Env
  <2>10. keeper' \in [Keepers -> KeeperType]
    BY <2>2, <2>3
  <2>11. TypeOK'
    BY <1>0, <2>1, <2>9, <2>10 DEF ServerInv, TypeOK
  <2>12. LockLeads'
    BY <2>9 DEF ServerInv, LockLeads
  <2>13. PreimageKept' /\ \A tx \in sent' : tx.kind # "prepare"
    BY <1>0, <2>6, <2>9 DEF PreimageKept
  <2>14. file'.content = "empty"
    BY <2>1
  <2>15. ASSUME NEW j \in Keepers
         PROVE  /\ keeper'[j].pc \in {"create", "write"} => keeper'[j].reveal \in Reveals
                /\ keeper'[j].pc = "write" => j = k
                /\ keeper'[j].pc \notin HoldsReveal
                /\ keeper'[j].pc \in {"report", "report_own"} => round'.settled
    <3>1. CASE j = k
      BY <3>1, <2>2, <2>4, <2>8 DEF HoldsReveal
    <3>2. CASE j # k
      BY <3>2, <2>4, <2>6, <2>7, <2>9 DEF ServerInv, FileLeads, ReportFollows
    <3> QED BY <3>1, <3>2
  <2>16. FileLeads'
    BY <2>13, <2>14, <2>15 DEF FileLeads
  <2>17. ReportFollows'
    BY <1>0, <2>9, <2>15 DEF ServerInv, ReportFollows, HonestReport
  <2> QED BY <2>11, <2>12, <2>16, <2>17 DEF ServerInv
<1> QED BY <1>1, <1>2

LEMMA WriteKeeps ==
    ASSUME ServerInv, NEW k \in Keepers, WriteReveal(k)
    PROVE  ServerInv'
<1>0. Env /\ UNCHANGED <<sent, report, failures>>
  BY DEF WriteReveal
<1>1. Step(k, "write", "sync") /\ file' = [content |-> keeper[k].reveal, synced |-> FALSE]
  BY DEF WriteReveal
<1>2. PICK t \in KeeperType : /\ keeper' = [keeper EXCEPT ![k] = t]
                              /\ t.pc = "sync" /\ t.reveal = keeper[k].reveal
  BY <1>1, StepMoves
<1>3. keeper \in [Keepers -> KeeperType]
  BY DEF ServerInv, TypeOK
<1>4. keeper'[k] = t /\ \A j \in Keepers : j # k => keeper'[j] = keeper[j]
  BY <1>2, <1>3
<1>5. /\ keeper[k].pc = "write" /\ keeper[k].reveal \in Reveals /\ file.content = "empty"
      /\ \A j \in Keepers : keeper[j].pc = "write" => j = k
  BY <1>1 DEF Step, ServerInv, FileLeads
<1>6. /\ round.commitment = NoReveal
      /\ \A j \in Keepers : keeper[j].pc \notin HoldsReveal
      /\ \A tx \in sent : tx.kind # "prepare"
  BY <1>5, WriterAlone, ServerRoundAssumption
<1>7. slot' = slot /\ blocks' = blocks /\ round' = round
  BY <1>0 DEF Env
<1>8. keeper' \in [Keepers -> KeeperType]
  BY <1>2, <1>3
<1>9. TypeOK'
  BY <1>0, <1>1, <1>5, <1>7, <1>8 DEF ServerInv, TypeOK
<1>10. LockLeads'
  BY <1>7 DEF ServerInv, LockLeads
<1>11. PreimageKept' /\ \A tx \in sent' : tx.kind # "prepare"
  BY <1>0, <1>6, <1>7 DEF PreimageKept
<1>12. file'.content = t.reveal /\ t.reveal \in Reveals
  BY <1>1, <1>2, <1>5
<1>13. ASSUME NEW j \in Keepers
       PROVE  /\ keeper'[j].pc # "write"
              /\ keeper'[j].pc = "create" => keeper'[j].reveal \in Reveals
              /\ keeper'[j].pc \in HoldsReveal =>
                    keeper'[j].reveal \in Reveals /\ file'.content = keeper'[j].reveal
              /\ keeper'[j].pc \in {"report", "report_own"} => round'.settled
  <2>1. CASE j = k
    BY <2>1, <1>2, <1>4, <1>12 DEF HoldsReveal
  <2>2. CASE j # k
    BY <2>2, <1>4, <1>5, <1>6, <1>7 DEF ServerInv, FileLeads, ReportFollows
  <2> QED BY <2>1, <2>2
<1>14. FileLeads'
  BY <1>11, <1>13 DEF FileLeads
<1>15. ReportFollows'
  BY <1>0, <1>7, <1>13 DEF ServerInv, ReportFollows, HonestReport
<1> QED BY <1>9, <1>10, <1>14, <1>15 DEF ServerInv

LEMMA SyncKeeps ==
    ASSUME ServerInv, NEW k \in Keepers, SyncReveal(k)
    PROVE  ServerInv'
<1>1. Step(k, "sync", "prepare") /\ file' = [file EXCEPT !.synced = TRUE] /\ Env
      /\ UNCHANGED <<sent, report, failures>>
  BY DEF SyncReveal
<1>2. PICK t \in KeeperType : /\ keeper' = [keeper EXCEPT ![k] = t]
                              /\ t.pc = "prepare" /\ t.reveal = keeper[k].reveal
  BY <1>1, StepMoves
<1>3. keeper[k].reveal \in Reveals /\ file.content = keeper[k].reveal
  BY <1>1 DEF Step, ServerInv, FileLeads, HoldsReveal
<1>4. Ready(t)
  BY <1>2, <1>3 DEF Ready
<1>5. file' \in FileType /\ file'.content = file.content
  BY <1>1 DEF ServerInv, TypeOK, FileType
<1>6. sent' \subseteq SentType
  BY <1>1 DEF ServerInv, TypeOK, SentType
<1>7. \A tx \in sent' : tx.kind = "prepare" => tx.reveal \in Reveals /\ file.content = tx.reveal
  BY <1>1 DEF ServerInv, FileLeads
<1>8. report' \in {"none", "met", "missed"} /\ HonestReport' /\ failures' \in 0 .. MaxFailures
  BY <1>1 DEF ServerInv, TypeOK, ReportFollows, HonestReport, Env
<1> QED BY <1>1, <1>2, <1>4, <1>5, <1>6, <1>7, <1>8, MoveKeeps

\* A keeper that moves on, and may send what it holds.
LEMMA SendingKeeps ==
    ASSUME ServerInv, NEW k \in Keepers, NEW from \in HoldsReveal,
           NEW to \in HoldsReveal \cup {"report", "report_own"},
           Step(k, from, to), to \in {"report", "report_own"} => round.settled,
           NEW kind \in {"prepare", "lock", "settle"},
           NEW what \in {keeper[k].reveal, NoReveal}, kind = "prepare" => what # NoReveal,
           \/ Send(kind, what) \/ UNCHANGED sent,
           Env, UNCHANGED <<file, report, failures>>
    PROVE  ServerInv'
<1>1. PICK t \in KeeperType : /\ keeper' = [keeper EXCEPT ![k] = t]
                              /\ t.pc = to /\ t.reveal = keeper[k].reveal
  BY StepMoves DEF HoldsReveal
<1>2. keeper[k].reveal \in Reveals /\ file.content = keeper[k].reveal
  BY DEF Step, ServerInv, FileLeads
<1>3. Ready(t)
  BY <1>1, <1>2 DEF Ready, HoldsReveal
<1>4. file' \in FileType /\ file'.content = file.content
  BY DEF ServerInv, TypeOK, FileType
<1>5. PICK tx0 : tx0 = [kind |-> kind, reveal |-> what]
  OBVIOUS
<1>6. tx0 \in SentType /\ tx0.kind = kind /\ tx0.reveal = what
  BY <1>2, <1>5 DEF SentType
<1>7. sent \subseteq SentType
  BY DEF ServerInv, TypeOK, SentType
<1>8. sent' \subseteq sent \cup {tx0}
  BY <1>5 DEF Send
<1>9. \A tx \in sent : tx.kind = "prepare" => tx.reveal \in Reveals /\ file.content = tx.reveal
  BY DEF ServerInv, FileLeads
<1>10. \A tx \in sent' : tx.kind = "prepare" => tx.reveal \in Reveals /\ file.content = tx.reveal
  BY <1>2, <1>6, <1>8, <1>9
<1>11. report' \in {"none", "met", "missed"} /\ HonestReport' /\ failures' \in 0 .. MaxFailures
  BY DEF ServerInv, TypeOK, ReportFollows, HonestReport, Env
<1> QED BY <1>1, <1>3, <1>4, <1>6, <1>7, <1>8, <1>10, <1>11, MoveKeeps

LEMMA PrepareKeeps ==
    ASSUME ServerInv, NEW k \in Keepers, PrepareRound(k)
    PROVE  ServerInv'
<1>0. Env /\ UNCHANGED <<file, report, failures>>
  BY DEF PrepareRound
<1>1. "prepare" \in HoldsReveal /\ "await_bind" \in HoldsReveal /\ "betting" \in HoldsReveal
  BY DEF HoldsReveal
<1>2. keeper[k].reveal # NoReveal
  BY <1>1, ServerRoundAssumption DEF PrepareRound, ServerInv, FileLeads
<1>3. CASE ~keeper[k].seen.exists
  <2>1. Step(k, "prepare", "await_bind") /\ Send("prepare", keeper[k].reveal)
    BY <1>3 DEF PrepareRound
  <2> QED BY <1>0, <1>1, <1>2, <2>1, SendingKeeps
<1>4. CASE keeper[k].seen.exists
  <2>1. CASE keeper[k].seen.commitment = keeper[k].reveal
    <3>1. Step(k, "prepare", "betting") /\ UNCHANGED sent
      BY <1>4, <2>1 DEF PrepareRound
    <3> QED BY <1>0, <1>1, <1>2, <3>1, SendingKeeps
  <2>2. CASE keeper[k].seen.commitment # keeper[k].reveal
    <3>1. Exits(k) /\ UNCHANGED sent
      BY <1>4, <2>2 DEF PrepareRound
    <3>2. failures' \in 0 .. MaxFailures
      BY <1>0 DEF ServerInv, TypeOK
    <3> QED BY <1>0, <3>1, <3>2, IdleReady, QuietMoveKeeps DEF Exits
  <2> QED BY <2>1, <2>2
<1> QED BY <1>3, <1>4

LEMMA SeeKeeps ==
    ASSUME ServerInv, NEW k \in Keepers, SeeBound(k) \/ SeeLocked(k) \/ SeeSettled(k)
    PROVE  ServerInv'
<1>0. Env /\ UNCHANGED <<file, sent, report, failures>>
  BY DEF SeeBound, SeeLocked, SeeSettled
<1>1. PICK to \in HoldsReveal \cup {"report", "report_own"} :
         /\ \E from \in HoldsReveal : Step(k, from, to)
         /\ to \in {"report", "report_own"} => round.settled
  <2>1. CASE SeeBound(k)
    BY <2>1 DEF SeeBound, HoldsReveal
  <2>2. CASE SeeLocked(k)
    BY <2>2 DEF SeeLocked, HoldsReveal
  <2>3. CASE SeeSettled(k)
    BY <2>3 DEF SeeSettled, HoldsReveal
  <2> QED BY <2>1, <2>2, <2>3
<1>2. PICK from \in HoldsReveal : Step(k, from, to)
  BY <1>1
<1> QED BY <1>0, <1>1, <1>2, SendingKeeps

LEMMA LockEntropyKeeps ==
    ASSUME ServerInv, NEW k \in Keepers, LockEntropy(k)
    PROVE  ServerInv'
<1>0. Env /\ UNCHANGED <<file, report, failures>>
  BY DEF LockEntropy
<1>1. "betting" \in HoldsReveal /\ "await_lock" \in HoldsReveal /\ "entropy" \in HoldsReveal
  BY DEF HoldsReveal
<1>2. CASE round.settled
  <2>1. Step(k, "betting", "report") /\ UNCHANGED sent
    BY <1>2 DEF LockEntropy
  <2> QED BY <1>0, <1>1, <1>2, <2>1, SendingKeeps
<1>3. CASE ~round.settled /\ round.randomness = "pending"
  <2>1. Step(k, "betting", "await_lock") /\ Send("lock", NoReveal)
    BY <1>3 DEF LockEntropy
  <2> QED BY <1>0, <1>1, <2>1, SendingKeeps
<1>4. CASE ~round.settled /\ round.randomness # "pending"
  <2>1. Step(k, "betting", "entropy") /\ UNCHANGED sent
    BY <1>4 DEF LockEntropy
  <2> QED BY <1>0, <1>1, <2>1, SendingKeeps
<1> QED BY <1>2, <1>3, <1>4

LEMMA AwaitKeeps ==
    ASSUME ServerInv, NEW k \in Keepers, AwaitEntropy(k)
    PROVE  ServerInv'
<1>0. Env /\ UNCHANGED <<file, report, failures>>
  BY DEF AwaitEntropy
<1>1. CASE Exits(k) /\ UNCHANGED sent
  <2>1. failures' \in 0 .. MaxFailures
    BY <1>0 DEF ServerInv, TypeOK
  <2> QED BY <1>0, <1>1, <2>1, IdleReady, QuietMoveKeeps DEF Exits
<1>2. CASE Step(k, "entropy", "await_settle") /\ Send("settle", keeper[k].reveal)
  <2>1. "entropy" \in HoldsReveal /\ "await_settle" \in HoldsReveal
    BY DEF HoldsReveal
  <2> QED BY <1>0, <1>2, <2>1, SendingKeeps
<1> QED BY <1>1, <1>2 DEF AwaitEntropy

\* A verdict of "met" is that of a settlement whose block was in time.
LEMMA ReportKeeps ==
    ASSUME ServerInv, NEW k \in Keepers, ReportOwnSettlement(k) \/ ReportSettlement(k)
    PROVE  ServerInv'
<1>1. Env /\ UNCHANGED <<file, sent, failures>> /\ report' \in Verdicts
  BY DEF ReportOwnSettlement, ReportSettlement
<1>2. PICK from \in {"report", "report_own"} : Step(k, from, "done")
  BY DEF ReportOwnSettlement, ReportSettlement
<1>3. PICK t \in KeeperType : /\ keeper' = [keeper EXCEPT ![k] = t]
                              /\ t.pc = "done" /\ t.reveal = keeper[k].reveal
  BY <1>2, StepMoves
<1>4. round.settled
  BY <1>2 DEF Step, ServerInv, ReportFollows
<1>5. PICK evidence \in {{round.settled_in}, {}} :
         report' = IF \E t1 \in evidence : t1 < RESULT_DEADLINE THEN "met" ELSE "missed"
  BY <1>1 DEF Verdicts, finalizedTransactionTimeSeconds
<1>6. report' \in {"none", "met", "missed"} /\ (report' = "met" => round.settled_in < RESULT_DEADLINE)
  BY <1>5
<1>7. HonestReport'
  BY <1>1, <1>4, <1>6 DEF HonestReport, Env
<1>8. Ready(t)
  BY <1>3 DEF Ready, HoldsReveal
<1>9. file' \in FileType /\ file'.content = file.content
  BY <1>1 DEF ServerInv, TypeOK, FileType
<1>10. sent' \subseteq SentType
  BY <1>1 DEF ServerInv, TypeOK, SentType
<1>11. \A tx \in sent' : tx.kind = "prepare" => tx.reveal \in Reveals /\ file.content = tx.reveal
  BY <1>1 DEF ServerInv, FileLeads
<1>12. failures' \in 0 .. MaxFailures
  BY <1>1 DEF ServerInv, TypeOK
<1> QED BY <1>1, <1>3, <1>6, <1>7, <1>8, <1>9, <1>10, <1>11, <1>12, MoveKeeps

LEMMA EndKeeps ==
    ASSUME ServerInv, NEW k \in Keepers, TimeOut(k) \/ Die(k)
    PROVE  ServerInv'
<1>1. Exits(k) /\ Env /\ UNCHANGED <<file, sent, report>>
  BY DEF TimeOut, Die
<1>2. failures' \in 0 .. MaxFailures
  BY ServerRoundAssumption DEF TimeOut, Die, ServerInv, TypeOK
<1> QED BY <1>1, <1>2, IdleReady, QuietMoveKeeps DEF Exits

-----------------------------------------------------------------------------
(* The chain, instruction by instruction.                                  *)

\* The account moves; who acts on a preimage still acts on the one in the file.
LEMMA AccountKeeps ==
    ASSUME ServerInv, round' \in RoundType, UNCHANGED <<slot, blocks, file, keeper, report>>,
           sent' \subseteq sent, failures' \in 0 .. MaxFailures,
           round'.commitment = round.commitment \/ round'.commitment = file.content,
           round.settled => round'.settled /\ round'.settled_in = round.settled_in,
           LockLeads'
    PROVE  ServerInv'
<1>1. TypeOK'
  BY DEF ServerInv, TypeOK
<1>2. PreimageKept'
  BY DEF ServerInv, FileLeads, PreimageKept
<1>3. FileLeads'
  BY <1>2 DEF ServerInv, FileLeads
<1>4. ReportFollows'
  BY DEF ServerInv, ReportFollows, HonestReport
<1> QED BY <1>1, <1>3, <1>4 DEF ServerInv

LEMMA PrepareLands ==
    ASSUME ServerInv, NEW tx \in sent, tx.kind = "prepare", prepare(tx.reveal),
           sent' \subseteq sent, UNCHANGED <<slot, blocks, file, keeper, report, failures>>
    PROVE  ServerInv'
<1>1. tx.reveal \in Reveals /\ file.content = tx.reveal
  BY DEF ServerInv, FileLeads
<1>2. round' = [exists |-> TRUE, commitment |-> tx.reveal, randomness |-> "pending",
                commit_slot |-> 0, locked_in |-> 0, settled |-> FALSE, entropy |-> 0,
                settled_in |-> 0]
  BY DEF prepare, NoRound
<1>3. round' \in RoundType
  BY <1>1, <1>2 DEF RoundType
<1>4. LockLeads' /\ round'.commitment = file.content
  BY <1>1, <1>2 DEF LockLeads
<1>5. ~round.settled
  BY DEF prepare, ServerInv, LockLeads
<1>6. failures' \in 0 .. MaxFailures
  BY DEF ServerInv, TypeOK
<1> QED BY <1>3, <1>4, <1>5, <1>6, AccountKeeps

LEMMA LockLands ==
    ASSUME ServerInv, lock_round_server_entropy,
           sent' \subseteq sent, UNCHANGED <<slot, blocks, file, keeper, report, failures>>
    PROVE  ServerInv'
<1>1. round \in RoundType /\ slot \in Nat
  BY ServerRoundAssumption DEF ServerInv, TypeOK
<1>2. PICK u : u = [round EXCEPT !.randomness = "locked"]
  OBVIOUS
<1>3. u \in RoundType /\ u.randomness = "locked" /\ u.settled = round.settled
      /\ u.commitment = round.commitment
  BY <1>1, <1>2 DEF RoundType
<1>4. PICK c \in Nat : c = slot + SERVER_ENTROPY_DELAY_SLOTS /\ c > slot
  BY <1>1, ServerRoundAssumption
<1>5. PICK v : v = [u EXCEPT !.commit_slot = c]
  OBVIOUS
<1>6. v \in RoundType /\ v.randomness = "locked" /\ v.settled = round.settled
      /\ v.commitment = round.commitment /\ v.commit_slot = c
  BY <1>3, <1>4, <1>5 DEF RoundType
<1>7. PICK w : w = [v EXCEPT !.locked_in = slot]
  OBVIOUS
<1>8. w \in RoundType /\ w.randomness = "locked" /\ w.settled = round.settled
      /\ w.commitment = round.commitment /\ w.commit_slot = c /\ w.locked_in = slot
  BY <1>1, <1>6, <1>7 DEF RoundType
<1>9. round' = w
  BY <1>2, <1>4, <1>5, <1>7 DEF lock_round_server_entropy
<1>10. ~round.settled
  BY DEF lock_round_server_entropy
<1>11. LockLeads'
  BY <1>4, <1>8, <1>9, <1>10 DEF LockLeads
<1>12. failures' \in 0 .. MaxFailures
  BY DEF ServerInv, TypeOK
<1> QED BY <1>8, <1>9, <1>10, <1>11, <1>12, AccountKeeps

LEMMA SettleLands ==
    ASSUME ServerInv, NEW reveal, settle_round_server(reveal),
           sent' \subseteq sent, UNCHANGED <<slot, blocks, file, keeper, report, failures>>
    PROVE  ServerInv'
<1>1. round \in RoundType /\ slot \in Nat /\ blocks \subseteq Nat
  BY ServerRoundAssumption DEF ServerInv, TypeOK
<1>2. PICK target \in Nat : target = round.commit_slot
  BY <1>1 DEF RoundType
<1>3. PICK T : T = {s \in blocks : s >= target}
  OBVIOUS
<1>4. EligibleEntropy(target) # {}
  BY <1>2 DEF settle_round_server
<1>5. EligibleEntropy(target) = T /\ T # {}
  BY <1>3, <1>4, EntropyIsFirst DEF ServerInv
<1>6. Min(T) \in T /\ T \subseteq Nat
  <2>1. T \subseteq Nat
    BY <1>1, <1>3
  <2> QED BY <1>5, <2>1, LeastNatural
<1>7. PICK e \in Nat : e = Min(T)
  BY <1>6
<1>8. PICK u : u = [round EXCEPT !.settled = TRUE]
  OBVIOUS
<1>9. u \in RoundType /\ u.settled /\ u.commit_slot = target /\ u.exists = round.exists
      /\ u.randomness = round.randomness /\ u.commitment = round.commitment
      /\ u.locked_in = round.locked_in
  BY <1>1, <1>2, <1>8 DEF RoundType
<1>10. PICK v : v = [u EXCEPT !.entropy = e]
  OBVIOUS
<1>11. v \in RoundType /\ v.settled /\ v.commit_slot = target /\ v.exists = round.exists
       /\ v.randomness = round.randomness /\ v.commitment = round.commitment
       /\ v.locked_in = round.locked_in /\ v.entropy = e
  BY <1>7, <1>9, <1>10 DEF RoundType
<1>12. PICK w : w = [v EXCEPT !.settled_in = slot]
  OBVIOUS
<1>13. w \in RoundType /\ w.settled /\ w.commit_slot = target /\ w.exists = round.exists
       /\ w.randomness = round.randomness /\ w.commitment = round.commitment
       /\ w.locked_in = round.locked_in /\ w.entropy = e
  BY <1>1, <1>11, <1>12 DEF RoundType
<1>14. round' = [round EXCEPT !.settled = TRUE, !.entropy = e, !.settled_in = slot]
  BY <1>2, <1>5, <1>7 DEF settle_round_server, select_slot_hash_at_or_after
<1>15. round' = w
  BY <1>8, <1>10, <1>12, <1>14
<1>16. round.exists /\ ~round.settled /\ round.randomness = "locked"
  BY DEF settle_round_server
<1>17. target > round.locked_in
  BY <1>2, <1>16 DEF ServerInv, LockLeads
<1>18. {s \in blocks' : s >= round'.commit_slot} = T
  BY <1>3, <1>13, <1>15
<1>19. LockLeads'
  BY <1>5, <1>7, <1>13, <1>15, <1>16, <1>17, <1>18 DEF LockLeads
<1>20. failures' \in 0 .. MaxFailures
  BY DEF ServerInv, TypeOK
<1> QED BY <1>13, <1>15, <1>16, <1>19, <1>20, AccountKeeps

LEMMA DeliveryKeeps ==
    ASSUME ServerInv, NEW tx \in sent, Land(tx) \/ Lose(tx)
    PROVE  ServerInv'
<1>1. tx.kind \in {"prepare", "lock", "settle"}
  BY DEF ServerInv, TypeOK
<1>2. CASE Land(tx)
  <2>1. Execute(tx) /\ sent' \subseteq sent /\ UNCHANGED <<slot, blocks, file, keeper, report, failures>>
    BY <1>2 DEF Land
  <2>2. CASE tx.kind = "prepare"
    <3>1. prepare(tx.reveal)
      BY <2>1, <2>2 DEF Execute
    <3> QED BY <2>1, <2>2, <3>1, PrepareLands
  <2>3. CASE tx.kind = "lock"
    <3>1. lock_round_server_entropy
      BY <2>1, <2>3 DEF Execute
    <3> QED BY <2>1, <3>1, LockLands
  <2>4. CASE tx.kind = "settle"
    <3>1. settle_round_server(tx.reveal)
      BY <2>1, <2>4 DEF Execute
    <3> QED BY <2>1, <3>1, SettleLands
  <2> QED BY <1>1, <2>2, <2>3, <2>4
<1>3. CASE Lose(tx)
  <2>1. sent' \subseteq sent /\ UNCHANGED <<slot, blocks, round, file, keeper, report>>
    BY <1>3 DEF Lose
  <2>2. failures' = failures \/ (failures < MaxFailures /\ failures' = failures + 1)
    BY <1>3 DEF Lose
  <2>3. failures' \in 0 .. MaxFailures
    BY <2>2, ServerRoundAssumption DEF ServerInv, TypeOK
  <2>4. round' \in RoundType /\ LockLeads'
    BY <2>1 DEF ServerInv, TypeOK, LockLeads
  <2> QED BY <2>1, <2>3, <2>4, AccountKeeps
<1> QED BY <1>2, <1>3

LEMMA NextSlotKeeps ==
    ASSUME ServerInv, NextSlot
    PROVE  ServerInv'
<1>1. PICK s \in slot + 1 .. slot + 2 : s <= MaxSlot /\ slot' = s
  BY DEF NextSlot
<1>2. blocks' = blocks \cup {slot} /\ UNCHANGED <<round, file, sent, keeper, report, failures>>
  BY DEF NextSlot
<1>3. slot \in Nat /\ slot \in FirstSlot .. MaxSlot /\ blocks \subseteq 0 .. slot - 1 /\ FirstSlot \in Nat
  BY ServerRoundAssumption DEF ServerInv, TypeOK
<1>4. slot' \in FirstSlot .. MaxSlot /\ blocks' \subseteq 0 .. slot' - 1
  BY <1>1, <1>2, <1>3
<1>5. TypeOK'
  BY <1>2, <1>4 DEF ServerInv, TypeOK
<1>6. ASSUME round.settled
      PROVE  /\ {y \in blocks' : y >= round.commit_slot} # {}
             /\ round.entropy = Min({y \in blocks' : y >= round.commit_slot})
  <2>1. PICK target \in Nat : target = round.commit_slot
    BY DEF ServerInv, TypeOK, RoundType
  <2>2. blocks \subseteq Nat /\ \A y \in blocks : y < slot
    BY <1>3
  <2>3. {y \in blocks : y >= target} # {} /\ round.entropy = Min({y \in blocks : y >= target})
    BY <1>6, <2>1 DEF ServerInv, LockLeads
  <2>4. /\ {y \in blocks \cup {slot} : y >= target} # {}
        /\ Min({y \in blocks \cup {slot} : y >= target}) = Min({y \in blocks : y >= target})
    <3>1. PICK A, n : A = blocks /\ n = slot
      OBVIOUS
    <3>2. A \subseteq Nat /\ n \in Nat /\ \A y \in A : y < n
      BY <1>3, <2>2, <3>1
    <3>3. {y \in A : y >= target} # {}
      BY <2>3, <3>1
    <3>4. /\ {y \in A \cup {n} : y >= target} # {}
          /\ Min({y \in A \cup {n} : y >= target}) = Min({y \in A : y >= target})
      BY <3>2, <3>3, FirstStays, ZenonT(60)
    <3> QED BY <3>1, <3>4
  <2> QED BY <1>2, <2>1, <2>3, <2>4
<1>7. LockLeads'
  BY <1>2, <1>6 DEF ServerInv, LockLeads
<1>8. FileLeads' /\ ReportFollows'
  BY <1>2 DEF ServerInv, FileLeads, PreimageKept, ReportFollows, HonestReport
<1> QED BY <1>5, <1>7, <1>8 DEF ServerInv

-----------------------------------------------------------------------------
(* The theorems.                                                           *)

LEMMA ServerInvariant == Spec => []ServerInv
<1>1. Init => ServerInv
  <2> SUFFICES ASSUME Init PROVE ServerInv
    OBVIOUS
  <2>1. NoRound \in RoundType
    BY DEF NoRound, RoundType
  <2>2. Idle \in KeeperType /\ Idle.pc = "off"
    BY <2>1 DEF Idle, KeeperType
  <2>3. \A k \in Keepers : keeper[k] = Idle
    BY DEF Init
  <2>4. slot \in FirstSlot .. MaxSlot /\ blocks \subseteq 0 .. slot - 1
    BY ServerRoundAssumption DEF Init
  <2>5. keeper \in [Keepers -> KeeperType]
    BY <2>2 DEF Init
  <2>6. TypeOK
    BY <2>1, <2>4, <2>5, ServerRoundAssumption DEF Init, TypeOK
  <2>7. FileLeads
    BY <2>2, <2>3 DEF Init, FileLeads, PreimageKept, HoldsReveal, NoRound
  <2>8. LockLeads
    BY DEF Init, LockLeads, NoRound
  <2>9. ReportFollows
    BY <2>2, <2>3 DEF Init, ReportFollows, HonestReport
  <2> QED BY <2>6, <2>7, <2>8, <2>9 DEF ServerInv
<1>2. ServerInv /\ [Next]_vars => ServerInv'
  <2> SUFFICES ASSUME ServerInv, [Next]_vars PROVE ServerInv'
    OBVIOUS
  <2>1. CASE NextSlot
    BY <2>1, NextSlotKeeps
  <2>2. CASE Delivery
    BY <2>2, DeliveryKeeps DEF Delivery
  <2>3. CASE LockByOther
    BY <2>3, LockLands DEF LockByOther
  <2>4. ASSUME NEW k \in Keepers, KeeperStep(k) \/ Die(k) PROVE ServerInv'
    BY <2>4, StartKeeps, ReadKeeps, LoadKeeps, CreateKeeps, WriteKeeps, SyncKeeps,
       PrepareKeeps, SeeKeeps, LockEntropyKeeps, AwaitKeeps, ReportKeeps, EndKeeps DEF KeeperStep
  <2>5. CASE UNCHANGED vars
    <3>1. UNCHANGED <<slot, blocks, round, file, sent, keeper, report, failures>>
      BY <2>5 DEF vars
    <3>2. round' \in RoundType /\ LockLeads' /\ failures' \in 0 .. MaxFailures
      BY <3>1 DEF ServerInv, TypeOK, LockLeads
    <3> QED BY <3>1, <3>2, AccountKeeps
  <2> QED BY <2>1, <2>2, <2>3, <2>4, <2>5 DEF Next
<1> QED BY <1>1, <1>2, PTL DEF Spec

\* A bound preimage is never lost, whichever keepers die and however late
\* their transactions land, and the entropy of a settled round is the first
\* slot after a target that was in the future when it was locked.
THEOREM CommitRevealIsSound == Spec => []CommitRevealSound
<1>1. ServerInv => CommitRevealSound
  BY DEF ServerInv, FileLeads, LockLeads, CommitRevealSound, EntropyFixedByLock
<1> QED BY <1>1, ServerInvariant, PTL

\* A deadline reported as met was met, by the settlement's own block.
THEOREM ReportIsHonest == Spec => []HonestReport
<1>1. ServerInv => HonestReport
  BY DEF ServerInv, ReportFollows
<1> QED BY <1>1, ServerInvariant, PTL
=============================================================================
