----------------------------- MODULE WorkerHost -----------------------------
(***************************************************************************)
(* The production host: one scheduler that starts a keeper process for each *)
(* scheduled round, restarts the ones that die, audits the chain against   *)
(* the deadlines of the schedule, and latches every missed deadline in a   *)
(* file that only an operator's acknowledgement clears.                    *)
(*                                                                         *)
(* The scheduler awaits between its reads (the config, then the accounts),  *)
(* so the chain moves, children report and exit, and timers fire between   *)
(* them.  A child's last message and its exit are separate events that may *)
(* arrive in either order; a message sent just before process.exit may be  *)
(* lost.  Keeper steps are those of ServerRound, reduced to what the host  *)
(* sees of them.                                                           *)
(***************************************************************************)
EXTENDS Integers, Sequences, FiniteSets

CONSTANTS
    ROUND,          \* roundDurationSeconds
    BETTING,        \* bettingDurationSeconds, also the preparation lead
    MARGIN,         \* preparationSafetyMarginSeconds
    GRACE,          \* nextRoundPrebindGraceSeconds
    LOOKBACK,       \* ROUND_HEALTH_LOOKBACK
    RETAINED,       \* finished rounds kept in memory, 2 in the code
    FirstManaged,   \* MYNE_FIRST_SERVER_ROUND_ID
    LastRound,      \* bound: the last round of the schedule
    MaxTime,        \* bound: chain time
    MaxFaults,      \* bound: deaths of processes, failed writes and reads
    MaxPauses,      \* bound: times governance pauses the protocol
    NoRound         \* no round

\* requireExactSettlementWindow and the assertions of canonicalRoundDeadlines.
ScheduleBounds ==
    /\ ROUND \in Nat /\ BETTING \in Nat /\ MARGIN \in Nat /\ GRACE \in Nat
    /\ BETTING < ROUND /\ GRACE > 0 /\ MARGIN + GRACE < BETTING
    /\ LOOKBACK \in 1..32

\* With the bounds, what the instances assume.
WorkerHostAssumption ==
    /\ ScheduleBounds
    /\ RETAINED \in Nat /\ FirstManaged \in Nat /\ LastRound \in Nat
    /\ MaxTime \in Nat /\ FirstManaged * ROUND <= MaxTime

Managed == FirstManaged..LastRound
Stages == {"prepare", "prebind", "lock", "settlement"}

VARIABLES
    clock,      \* confirmed chain time
    paused,     \* ProtocolConfig.paused
    rounds,     \* what the chain says of each round
    kids,       \* keeper processes of each round, oldest first
    inbox,      \* messages of children the host has not handled
    exits,      \* exits of children the host has not handled
    host,       \* memory of the host
    disk,       \* incidents in the file with clearedAt = null
    faults, pauses

chainVars == <<clock, paused, rounds>>
childVars == <<kids, inbox, exits>>
vars == <<clock, paused, rounds, kids, inbox, exits, host, disk, faults, pauses>>

-----------------------------------------------------------------------------
(* The schedule.                                                           *)

canonicalRoundDeadlines(r) ==
    LET openedAt == r * ROUND IN
    [preparationStartsAt |-> openedAt - BETTING + MARGIN,
     prebindAt |-> openedAt - BETTING + MARGIN + GRACE,
     prepareAt |-> openedAt,
     lockAt |-> openedAt + BETTING,
     settleAt |-> openedAt + ROUND]

CurrentRound(now) == now \div ROUND

roundIdsToPrepare(now) ==
    LET next == CurrentRound(now) + 1
    IN {CurrentRound(now)} \cup
       (IF now >= canonicalRoundDeadlines(next).preparationStartsAt THEN {next} ELSE {})

firstSafeResumeRoundId(now) ==
    LET next == CurrentRound(now) + 1
    IN IF now < canonicalRoundDeadlines(next).prebindAt THEN next ELSE next + 1

settlementConfirmedWithinResultWindow(at, r) == at < canonicalRoundDeadlines(r).settleAt

\* The deadlines missed, each with its stage.  A lock that is late is always
\* reported as a settlement that is late: the later condition replaces it.
assessRoundScheduleHealth(now, floor, rows) ==
    LET current == CurrentRound(now)
        ids == {r \in Managed : r >= floor /\ r >= current - LOOKBACK /\ r <= current + 1}
        d(r) == canonicalRoundDeadlines(r)
    IN {<<r, "prepare">> : r \in {x \in ids : x = current /\ rows[x] = "absent"}}
       \cup {<<r, "prebind">> : r \in {x \in ids :
                x = current + 1 /\ rows[x] = "absent" /\ now > d(x).prebindAt}}
       \cup {<<r, "settlement">> : r \in {x \in ids :
                rows[x] \in {"bound", "locked"} /\ now >= d(x).settleAt}}

-----------------------------------------------------------------------------
(* The incident latch.                                                     *)

NoActivation == [round |-> NoRound, prebound |-> TRUE]

\* An incident of the same round and stage that is not cleared is kept as it is.
record(doc, incidents) == doc \cup incidents

\* In memory at once, in the file when persisted.
recordDurableRoundIncident(h, incidents) ==
    IF incidents \subseteq h.doc THEN h
    ELSE [h EXCEPT !.doc = record(@, incidents), !.error = "incident"]

applyDurableIncidentState(h) ==
    [h EXCEPT !.error = IF h.doc = {} THEN "none" ELSE "incident"]

PersistLatchesOnly ==
    /\ host.up /\ host.doc # host.latched
    /\ host' = [host EXCEPT !.latched = host.doc]
    /\ UNCHANGED <<chainVars, childVars, disk, faults, pauses>>
persist ==
    /\ host.up /\ host.doc # host.latched
    /\ disk' = host.doc
    /\ host' = [host EXCEPT !.latched = host.doc]
    /\ UNCHANGED <<chainVars, childVars, faults, pauses>>

\* The error is shown and the same record is tried again two seconds later.
persistFails ==
    /\ host.up /\ host.doc # host.latched /\ faults < MaxFaults
    /\ host' = [host EXCEPT !.error = "persistence"]
    /\ faults' = faults + 1
    /\ UNCHANGED <<chainVars, childVars, disk, pauses>>

-----------------------------------------------------------------------------
(* The host process.                                                       *)

Down ==
    [up |-> FALSE, seenPaused |-> TRUE, floor |-> FirstManaged, launched |-> {},
     retry |-> {}, violated |-> {}, doc |-> {}, latched |-> {}, fatal |-> NoRound,
     error |-> "none", activation |-> NoActivation, late |-> {}, tick |-> "config"]

\* createRoundDeadlineIncidentLatch: the document in the file is read back.
readIncidentDocument(h, latched) == [h EXCEPT !.doc = latched, !.latched = latched]

\* The incidents left when the operator has acknowledged some by name.
clearExact(incidents, cleared) == incidents \ cleared

\* The file is read, and one incident is cleared when the operator names it and
\* the protocol is paused.
main(cleared) ==
    /\ ~host.up
    /\ cleared # {} => paused
    /\ disk' = clearExact(disk, cleared)
    /\ host' = applyDurableIncidentState(
                  readIncidentDocument([Down EXCEPT !.up = TRUE, !.seenPaused = paused],
                                       clearExact(disk, cleared)))
    /\ UNCHANGED <<chainVars, childVars, faults, pauses>>

NoChildren ==
    /\ kids' = [r \in Managed |-> <<>>] /\ inbox' = {} /\ exits' = {}

\* SIGTERM: children are stopped and the latch is flushed before the exit.
shutdown ==
    /\ host.up /\ faults < MaxFaults
    /\ disk' = host.doc /\ host' = Down /\ NoChildren
    /\ faults' = faults + 1
    /\ UNCHANGED <<chainVars, pauses>>

\* The container is lost: what was not written is forgotten.
HostDies ==
    /\ host.up /\ faults < MaxFaults
    /\ host' = Down /\ NoChildren
    /\ faults' = faults + 1
    /\ UNCHANGED <<chainVars, disk, pauses>>

-----------------------------------------------------------------------------
(* The scheduler.                                                          *)

\* The floor under the rounds the host manages never moves down.
selectResumeActivation(h, now) ==
    LET safe == firstSafeResumeRoundId(now)
        floor == IF safe > h.floor THEN safe ELSE h.floor
    IN [h EXCEPT !.floor = floor, !.activation = [round |-> floor, prebound |-> FALSE]]

refreshScheduleConfig ==
    /\ host.up /\ host.tick = "config"
    /\ LET resumed == IF host.seenPaused /\ ~paused
                      THEN selectResumeActivation(host, clock) ELSE host
           seen == [resumed EXCEPT !.seenPaused = paused, !.tick = "audit"]
       IN host' = IF host.fatal = NoRound THEN applyDurableIncidentState(seen) ELSE seen
    /\ UNCHANGED <<chainVars, childVars, disk, faults, pauses>>

\* A read of the scheduler fails: the tick ends and health shows the error.
SchedulerReadFails ==
    /\ host.up /\ faults < MaxFaults
    /\ host' = [host EXCEPT !.tick = "config", !.error = "read"]
    /\ faults' = faults + 1
    /\ UNCHANGED <<chainVars, childVars, disk, pauses>>

\* A prebound activation ends a fatal error of an older round.
Activated(h) ==
    LET a == h.activation IN
    IF a.prebound \/ a.round \notin Managed THEN h
    ELSE IF rounds[a.round] = "absent" THEN h
    ELSE LET recovered == h.fatal # NoRound /\ h.fatal < a.round
             h1 == [h EXCEPT !.activation.prebound = TRUE,
                             !.fatal = IF recovered THEN NoRound ELSE @]
         IN IF recovered /\ h.error = "fatal" THEN applyDurableIncidentState(h1) ELSE h1

\* The misses of this audit, recorded; one of preparation is fatal.
MissedPreparations(late) == {i[1] : i \in {x \in late : x[2] = "prepare"}}
refreshRoundHealth(h, late) ==
    [recordDurableRoundIncident(h, late) EXCEPT
        !.late = late, !.tick = "config",
        !.violated = @ \cup ({i[1] : i \in late} \cap h.launched),
        !.fatal = IF MissedPreparations(late) = {} THEN @
                  ELSE CHOOSE r \in MissedPreparations(late) : TRUE]

\* startRoundWorker, for a set of rounds.
StartableAgain(h, R) == {r \in R \cap Managed : ~h.seenPaused /\ r >= h.floor}
Startable(h, R) == {r \in R \cap Managed : ~h.seenPaused /\ r >= h.floor /\ r \notin h.launched}
Spawn(R) == kids' = [r \in Managed |-> IF r \in R THEN Append(kids[r], "boot") ELSE kids[r]]

HasChild(r) == kids[r] # <<>> \/ \E x \in exits : x[1] = r

\* A live host that finds its current round missing moves the floor, once.
Rederive(h) ==
    LET missing == MissedPreparations(h.late)
        a == h.activation
    IN missing # {} /\ (a = NoActivation \/ (a.prebound /\ \A r \in missing : a.round < r))

\* The audit and the launch.  A miss is written before the launch goes on; the
\* write changes nothing the launch looks at, so it is left to persist.
scheduleRoundWorkers ==
    /\ host.up /\ host.tick = "audit"
    /\ \E late \in {IF host.seenPaused THEN {}
                     ELSE assessRoundScheduleHealth(clock, host.floor, rounds)} :
       \E audited \in {refreshRoundHealth(Activated(host), late)} :
       \E h \in {IF Rederive(audited) THEN selectResumeActivation(audited, clock) ELSE audited} :
       \E starting \in {Startable(h, roundIdsToPrepare(clock))} :
       \E old \in {{r \in h.launched \ starting :
                       r < CurrentRound(clock) - RETAINED /\ ~HasChild(r)}} :
          IF host.seenPaused
          THEN host' = audited /\ UNCHANGED kids
          ELSE /\ Spawn(starting)
               /\ host' = [h EXCEPT !.launched = (@ \cup starting) \ old,
                                    !.violated = @ \ old]
    /\ UNCHANGED <<chainVars, inbox, exits, disk, faults, pauses>>

\* The restart timer of a keeper that died.
restartTimer(r) ==
    /\ host.up /\ r \in host.retry
    /\ LET h == [host EXCEPT !.retry = @ \ {r}, !.launched = @ \ {r}]
           starting == Startable(h, {r})
       IN Spawn(starting) /\ host' = [h EXCEPT !.launched = @ \cup starting]
    /\ UNCHANGED <<chainVars, inbox, exits, disk, faults, pauses>>

-----------------------------------------------------------------------------
(* Events of children.                                                     *)

onMessage(m) ==
    /\ host.up /\ m \in inbox
    /\ inbox' = inbox \ {m}
    /\ host' = [recordDurableRoundIncident(host, {m}) EXCEPT !.violated = @ \cup {m[1]}]
    /\ UNCHANGED <<chainVars, kids, exits, disk, faults, pauses>>

MissedPreparation(h, r) ==
    [recordDurableRoundIncident(h, {<<r, "prepare">>}) EXCEPT
        !.violated = @ \cup {r}, !.fatal = r, !.error = "fatal"]
ForgetCrash(h, r, code) ==
    CASE code = "deferred" -> [h EXCEPT !.launched = @ \ {r}]
      [] code = "missed" /\ r >= h.floor -> MissedPreparation(h, r)
      [] OTHER -> h
AfterExit(h, r, code) ==
    CASE code = "deferred" -> [h EXCEPT !.launched = @ \ {r}]
      [] code = "missed" /\ r >= h.floor -> MissedPreparation(h, r)
      [] code = "crash" -> [h EXCEPT !.retry = @ \cup {r}]
      [] OTHER -> h

onExit(x) ==
    /\ host.up /\ x \in exits
    /\ exits' = exits \ {x}
    /\ host' = AfterExit(host, x[1], x[2])
    /\ UNCHANGED <<chainVars, kids, inbox, disk, faults, pauses>>

-----------------------------------------------------------------------------
(* Keeper processes, as the host sees them.                                *)

Living == {p \in Managed \X (1..2) : p[2] \in DOMAIN kids[p[1]]}
Become(p, st) == kids' = [kids EXCEPT ![p[1]][p[2]] = st]
Exit(p, code) ==
    /\ kids' = [kids EXCEPT ![p[1]] = SubSeq(@, 1, p[2] - 1) \o SubSeq(@, p[2] + 1, Len(@))]
    /\ exits' = exits \cup {<<p[1], code>>}
Say(msgs) == inbox' = inbox \cup msgs

keeperPreflight(p) ==
    /\ kids[p[1]][p[2]] = "boot"
    /\ IF paused THEN Exit(p, "deferred") ELSE Become(p, "run") /\ UNCHANGED exits
    /\ UNCHANGED <<clock, paused, rounds, inbox>>

keeperPrepare(p) ==
    LET r == p[1]
        d == canonicalRoundDeadlines(r)
    IN
    /\ kids[r][p[2]] = "run" /\ rounds[r] = "absent"
    /\ \/ /\ clock >= d.prepareAt
          /\ Exit(p, "missed")
          /\ \E heard \in BOOLEAN : Say(IF heard THEN {<<r, "prepare">>} ELSE {})
          /\ UNCHANGED rounds
       \/ /\ clock < d.prepareAt /\ paused     \* open_round refuses
          /\ Exit(p, "crash") /\ UNCHANGED <<inbox, rounds>>
       \/ /\ clock < d.prepareAt /\ ~paused
          /\ rounds' = [rounds EXCEPT ![r] = "bound"]
          /\ Say(IF clock > d.prebindAt THEN {<<r, "prebind">>} ELSE {})
          /\ UNCHANGED <<kids, exits>>
    /\ UNCHANGED <<clock, paused>>

keeperLock(p) ==
    LET r == p[1]
        d == canonicalRoundDeadlines(r)
    IN
    /\ kids[r][p[2]] = "run" /\ rounds[r] = "bound" /\ clock >= d.lockAt
    /\ rounds' = [rounds EXCEPT ![r] = "locked"]
    /\ Say(IF clock >= d.settleAt THEN {<<r, "lock">>} ELSE {})
    /\ UNCHANGED <<clock, paused, kids, exits>>

keeperSettle(p) ==
    LET r == p[1]
        met == settlementConfirmedWithinResultWindow(clock, r)
    IN
    /\ kids[r][p[2]] = "run" /\ rounds[r] = "locked"
    /\ rounds' = [rounds EXCEPT ![r] = IF met THEN "settled" ELSE "late"]
    /\ Say(IF met THEN {} ELSE {<<r, "settlement">>})
    /\ Exit(p, "ok")
    /\ UNCHANGED <<clock, paused>>

\* A keeper that finds its round settled reconstructs when it was: evidence it
\* cannot get counts as a missed deadline.
auditRecoveredSettlement(p) ==
    LET r == p[1] IN
    /\ kids[r][p[2]] = "run" /\ rounds[r] \in {"settled", "late"}
    /\ \E found \in BOOLEAN :
          Say(IF found /\ rounds[r] = "settled" THEN {} ELSE {<<r, "settlement">>})
    /\ Exit(p, "ok")
    /\ UNCHANGED <<clock, paused, rounds>>

KeeperStep ==
    /\ host.up
    /\ \E p \in Living : \/ keeperPreflight(p) \/ keeperPrepare(p) \/ keeperLock(p)
                         \/ keeperSettle(p) \/ auditRecoveredSettlement(p)
    /\ UNCHANGED <<host, disk, faults, pauses>>

KeeperCrashes ==
    /\ host.up /\ faults < MaxFaults
    /\ \E p \in Living : Exit(p, "crash")
    /\ faults' = faults + 1
    /\ UNCHANGED <<chainVars, inbox, host, disk, pauses>>

KeeperHangs ==
    /\ host.up /\ faults < MaxFaults
    /\ \E p \in Living : kids[p[1]][p[2]] # "hung" /\ Become(p, "hung")
    /\ faults' = faults + 1
    /\ UNCHANGED <<chainVars, inbox, exits, host, disk, pauses>>

\* A keeper silent for too long is terminated, with SIGKILL if need be; its
\* replacement is started by its exit, not here.
checkWorkerHeartbeats ==
    /\ host.up
    /\ \E p \in Living : kids[p[1]][p[2]] = "hung" /\ Exit(p, "crash")
    /\ UNCHANGED <<chainVars, inbox, host, disk, faults, pauses>>

-----------------------------------------------------------------------------
Tick ==
    /\ clock < MaxTime /\ clock' = clock + 1
    /\ UNCHANGED <<paused, rounds, childVars, host, disk, faults, pauses>>

SetPaused ==
    /\ ~paused => pauses < MaxPauses
    /\ paused' = ~paused /\ pauses' = IF paused THEN pauses ELSE pauses + 1
    /\ UNCHANGED <<clock, rounds, childVars, host, disk, faults>>

\* Deployed paused; the schedule has just reached the first managed round.
Init ==
    /\ clock = FirstManaged * ROUND /\ paused = TRUE
    /\ rounds = [r \in Managed |-> "absent"]
    /\ kids = [r \in Managed |-> <<>>] /\ inbox = {} /\ exits = {}
    /\ host = Down /\ disk = {} /\ faults = 0 /\ pauses = 0

HostEvents ==
    \/ persist \/ checkWorkerHeartbeats
    \/ \E r \in Managed : restartTimer(r)
    \/ \E m \in inbox : onMessage(m)
    \/ \E x \in exits : onExit(x)
Scheduler == refreshScheduleConfig \/ scheduleRoundWorkers

Next ==
    \/ main({}) \/ HostEvents \/ Scheduler \/ KeeperStep \/ Tick \/ SetPaused
    \/ \E i \in disk : main({i})
    \/ persistFails \/ shutdown \/ HostDies \/ SchedulerReadFails
    \/ KeeperCrashes \/ KeeperHangs

Spec == Init /\ [][Next]_vars

\* A running host drains its events and timers, its scheduler ticks, and a
\* keeper that is not hung goes on.  Nothing is promised about the clock.
FairSpec ==
    /\ Spec
    /\ WF_vars(main({})) /\ WF_vars(HostEvents) /\ WF_vars(Scheduler) /\ WF_vars(KeeperStep)

-----------------------------------------------------------------------------
\* publicHealth, the part about rounds.
publicHealth(h) ==
    /\ h.error = "none" /\ h.doc = {}
    /\ \A r \in h.violated : r < h.floor
    /\ h.seenPaused \/ (h.late = {} /\ h.activation.prebound)

\* The rounds, the inbox, the incident file and the host's table of launched rounds
\* keep their types.
TypeOK ==
    /\ clock \in 0..MaxTime /\ rounds \in [Managed -> {"absent", "bound", "locked", "settled", "late"}]
    /\ inbox \subseteq Managed \X Stages /\ disk \subseteq Managed \X Stages
    /\ host.launched \subseteq Managed /\ host.retry \subseteq Managed

\* A round never has two keeper processes, whatever timers, deferrals, pruning
\* and watchdogs do to the table of launched rounds.
OneKeeperPerRound == \A r \in Managed : Len(kids[r]) <= 1

\* A green health check means no missed deadline is waiting for review, in this
\* process or in the file an earlier one left.
HealthyMeansReviewed == host.up /\ publicHealth(host) => disk = {} /\ host.doc = {}

\* A miss the host has seen reaches the file, unless the host dies first.
IncidentReachesDisk == []<>(host.doc \subseteq disk)

\* A keeper that died is replaced: a round that waits for its lock or its
\* settlement never stays without a process, while the host manages it and the
\* protocol is live.
DeadKeeperReplaced ==
    \A r \in Managed : []<>(rounds[r] \in {"bound", "locked"} =>
        (\/ kids[r] # <<>> \/ paused \/ ~host.up
         \/ r < host.floor \/ r < CurrentRound(clock)))
=============================================================================
