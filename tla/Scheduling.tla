---- MODULE Scheduling ----
(* The background tier around the sweep of Alerts: workers that elect one scheduler by a lease
   (db/leases.ts, worker/scheduler.ts), the health report of a tick and the alerts about the
   installation it raises (packages/health), the polling cadence of a connection
   (sync/schedule.ts, sync/cadence.ts) and the retention sweep (packages/retention).
   A unit of time is the tick interval, 30 seconds; a statement and a tick last any time, and
   the workers read the clock of the database. A worker process has an id of its own, so one
   that stops or dies does not come back.
   Left out: job counters, versions, wording and remediation texts. *)
EXTENDS Alerts

CONSTANTS RenewEvery, LeaseFor, TickEvery, ContendEvery,   \* in ticks
          HEARTBEAT_STALE, HEARTBEAT_MISSING,
          MIN_INTERVAL, MAX_INTERVAL, DEFAULT_INTERVAL, Tolerance,
          Intervals,       \* what an operator asks for
          Backlogs,        \* how many jobs wait for the connection
          MaxRows,         \* rows retention finds at a time
          RETENTION_BATCH, DEFAULT_HISTORY, DEFAULT_RAW,
          Windows          \* retention windows an operator saves

ASSUME SchedulingAssumption ==
    /\ "nobody" \notin Workers /\ {RenewEvery, LeaseFor, TickEvery, ContendEvery} \subseteq Nat
    /\ RenewEvery > 0 /\ Tolerance \in Nat \ {0} /\ Backlogs \subseteq Nat
    /\ {MIN_INTERVAL, MAX_INTERVAL, DEFAULT_INTERVAL} \subseteq Nat /\ Intervals \subseteq Int

VARIABLES lease, sched, beats, host, outstanding, reports,
          settings, polls, polled, rows, policy, sweeping

leaderVars == <<lease, sched, beats, host, outstanding, reports>>
cadenceVars == <<settings, polls, polled>>
retentionVars == <<rows, policy, sweeping>>

------------------------------------------------------------------------------
(* The lease and the scheduler's loop. *)

NoLease == [holder |-> "nobody", expires |-> None, beat |-> None]

\* An insert that takes over an expired lease, or keeps one's own.
mayAcquire(w) == lease = NoLease \/ lease.expires < now \/ lease.holder = w
\* A lapsed lease is not renewed, even when nobody has taken it.
mayRenew(w) == lease.holder = w /\ lease.expires > now
held(w) == [holder |-> w, expires |-> now + LeaseFor, beat |-> now]

\* Deletes the row only while it is this worker's.
releaseSchedulerLease_Anyone(w) == NoLease
releaseSchedulerLease(w) == IF lease.holder = w THEN NoLease ELSE lease

recordHeartbeat(w, role) == [beats EXCEPT ![w] = [role |-> role, at |-> now]]
pruneHeartbeats(b) ==
    [w \in Workers |-> IF b[w].at < now - 2 * HEARTBEAT_MISSING
                       THEN [role |-> "none", at |-> None] ELSE b[w]]

\* at: what the loop waits for; begun: the clock as its step began.
NewProcess == [state |-> "new", at |-> "idle", leader |-> FALSE, begun |-> None, lastRenew |-> None,
               lastTick |-> None, wake |-> None]
soonest(a, b) == IF a < b THEN a ELSE b
Ready(w) == sched[w].state = "up" /\ sched[w].at = "idle" /\ sched[w].wake <= now
Ticking(w) == sched[w].at = "ticking"
Ends(s) == [s EXCEPT !.at = "idle", !.begun = None, !.wake = now + soonest(RenewEvery, TickEvery)]
\* A follower looks at neither of the leader's times.
Follows == [NewProcess EXCEPT !.state = "up", !.wake = now + ContendEvery]

startWorker(w) ==
    /\ sched[w].state = "new"
    /\ sched' = [sched EXCEPT ![w] = [NewProcess EXCEPT !.state = "up", !.wake = now]]
    /\ UNCHANGED <<lease, beats, host, outstanding, reports>>

\* A leader whose renewal is not due goes on to its heartbeat; others ask for the lease.
step(w) ==
    /\ Ready(w)
    /\ sched' = [sched EXCEPT ![w].begun = now,
                              ![w].at = IF sched[w].leader /\ now - sched[w].lastRenew < RenewEvery
                                        THEN "beat" ELSE "ask"]
    /\ UNCHANGED <<lease, beats, host, outstanding, reports>>
\* A leader renews, a follower contends; the clock it keeps is the one of the step's beginning.
\* A first tick follows the election.
renewOrAcquire(w) ==
    LET s == sched[w]
    IN /\ s.at = "ask" /\ host.database
       /\ IF IF s.leader THEN mayRenew(w) ELSE mayAcquire(w)
          THEN /\ lease' = held(w)
               /\ sched' = [sched EXCEPT ![w] =
                     [s EXCEPT !.at = "beat", !.leader = TRUE, !.lastRenew = s.begun,
                               !.lastTick = IF s.leader THEN @ ELSE None]]
          ELSE sched' = [sched EXCEPT ![w] = Follows] /\ UNCHANGED lease
       /\ UNCHANGED <<beats, host, outstanding, reports>>
\* Whoever came so far beats as the scheduler.
schedulerBeat(w) ==
    /\ sched[w].at = "beat" /\ host.database
    /\ beats' = recordHeartbeat(w, "scheduler")
    /\ sched' = [sched EXCEPT ![w].at = "due"]
    /\ UNCHANGED <<lease, host, outstanding, reports>>
\* The tick starts if one is due by now, whatever became of the lease.
startTick(w) ==
    LET s == sched[w]
    IN /\ s.at = "due"
       /\ sched' = [sched EXCEPT ![w] =
             IF s.lastTick = None \/ now - s.lastTick >= TickEvery
             THEN [s EXCEPT !.at = "ticking", !.lastTick = now] ELSE Ends(s)]
       /\ UNCHANGED <<lease, beats, host, outstanding, reports>>

\* A statement of the step throws, perhaps after it took effect: the worker no longer calls
\* itself the leader.
iterateFails(w) ==
    /\ sched[w].at \in {"ask", "beat"}
    /\ \/ UNCHANGED <<lease, beats>>
       \/ /\ sched[w].at = "ask" /\ (IF sched[w].leader THEN mayRenew(w) ELSE mayAcquire(w))
          /\ lease' = held(w) /\ UNCHANGED beats
       \/ /\ sched[w].at = "beat"
          /\ beats' = recordHeartbeat(w, "scheduler") /\ UNCHANGED lease
    /\ sched' = [sched EXCEPT ![w] = Follows]
    /\ UNCHANGED <<host, outstanding, reports>>

\* The entry point's interval beats for every process, in the role it then has.
heartbeatInterval(w) ==
    /\ sched[w].state = "up" /\ host.database
    /\ beats' = recordHeartbeat(w, IF sched[w].leader THEN "scheduler" ELSE "worker")
    /\ UNCHANGED <<lease, sched, host, outstanding, reports>>

\* SIGTERM: the step in flight, its tick included, ends before the lease is given back, which
\* may fail.
stop(w) ==
    /\ sched[w].state = "up" /\ sched[w].at = "idle"
    /\ sched' = [sched EXCEPT ![w] = [NewProcess EXCEPT !.state = "down"]]
    /\ \/ sched[w].leader /\ lease' = releaseSchedulerLease(w)
       \/ UNCHANGED lease
    /\ UNCHANGED <<beats, host, outstanding, reports>>
workerDies(w) ==
    /\ sched[w].state = "up"
    /\ sched' = [sched EXCEPT ![w] = [NewProcess EXCEPT !.state = "down"]]
    /\ reports' = [reports EXCEPT ![w] = <<>>]
    /\ UNCHANGED <<lease, beats, host, outstanding>>
------------------------------------------------------------------------------
(* The health report and what the tick does with it. *)

\* The status of a check: 0 ok, 1 degraded, 2 failing.
verdict(value, slow, bad) == IF value >= bad THEN 2 ELSE IF value >= slow THEN 1 ELSE 0

heartbeatVerdict(at) ==
    IF at = None THEN 2 ELSE verdict(now - at, HEARTBEAT_STALE, HEARTBEAT_MISSING)
\* Waiting work is judged by the age of the oldest job, in minutes: 5 is slow, 30 stalled.
queueVerdict(age, depth) == IF age = None \/ depth = 0 THEN 0 ELSE verdict(age, 5, 30)
\* Seconds from the database clock, in either direction.
clockVerdict(drift) == verdict(IF drift < 0 THEN 0 - drift ELSE drift, 2, 30)
\* Hours since the last backup that succeeded.
backupVerdict(age) == IF age = None THEN 1 ELSE verdict(age, 36, 72)
\* Percent free; below five growth is paused until eight, whatever was decided before.
diskVerdict(free, days, wasPaused) ==
    [status |-> CASE free = None -> 1
                  [] free # None /\ free < 10 -> 2
                  [] OTHER -> IF free < 20 \/ (days # None /\ days <= 7) THEN 1 ELSE 0,
     pauseGrowth |-> free # None /\ (free < 5 \/ (free < 8 /\ wasPaused))]

FreshestBeat(role) ==
    LET seen == {beats[w].at : w \in {x \in Workers : beats[x].role = role}}
    IN IF seen = {} THEN None ELSE CHOOSE t \in seen : \A u \in seen : u <= t

databaseCheck == IF host.database THEN 0 ELSE 2
schemaCheck == IF host.database /\ host.schema THEN 0 ELSE 2
clockCheck == IF host.database THEN clockVerdict(host.drift) ELSE 1
schedulerCheck == IF host.database THEN heartbeatVerdict(lease.beat) ELSE 1
\* Only rows whose role is 'worker'; the leader's own row is the scheduler's.
workerCheck == IF host.database THEN heartbeatVerdict(FreshestBeat("worker")) ELSE 1
queueCheck == IF host.database THEN queueVerdict(host.oldest, host.depth) ELSE 0
\* The worker passes neither growth nor an earlier pause.
storageCheck == diskVerdict(host.free, None, FALSE).status
backupCheck == IF host.database THEN backupVerdict(host.backup) ELSE 1
mailCheck == IF host.relay THEN 0 ELSE 2
assessHealth ==
    [database |-> databaseCheck, schema |-> schemaCheck, clock |-> clockCheck,
     scheduler |-> schedulerCheck, workers |-> workerCheck, queue |-> queueCheck,
     storage |-> storageCheck, backups |-> backupCheck, smtp |-> mailCheck]

\* The alert about a degraded check and the one about a failing check are two; a check that
\* is well again withdraws both.
severityFor(check, status) ==
    IF status = 1 THEN 2 ELSE IF check \in {"database", "storage"} THEN 4 ELSE 3
watchInstallation(report) ==
    {o \in outstanding : report[o[1]] # 0}
    \cup {<<c, report[c], severityFor(c, report[c])>> : c \in {x \in DOMAIN report : report[x] # 0}}

\* onTick: the report is read, then acted on.
tickAssesses(w) ==
    /\ Ticking(w) /\ reports[w] = <<>>
    /\ reports' = [reports EXCEPT ![w] = assessHealth]
    /\ beats' = pruneHeartbeats(beats)
    /\ UNCHANGED <<lease, sched, host, outstanding>>
tickEnds(w) ==
    /\ Ticking(w) /\ reports[w] # <<>>
    /\ outstanding' = IF host.database THEN watchInstallation(reports[w]) ELSE outstanding
    /\ reports' = [reports EXCEPT ![w] = <<>>]
    /\ sched' = [sched EXCEPT ![w] = Ends(@)]
    /\ UNCHANGED <<lease, beats, host>>
\* A statement of the tick throws: the tick is over, the scheduler goes on.
tickFails(w) ==
    /\ Ticking(w)
    /\ reports' = [reports EXCEPT ![w] = <<>>]
    /\ sched' = [sched EXCEPT ![w] = Ends(@)]
    /\ UNCHANGED <<lease, beats, host, outstanding>>

Well == [database |-> TRUE, schema |-> TRUE, drift |-> 0, oldest |-> None, depth |-> 0,
         free |-> 50, backup |-> 0, relay |-> TRUE]
hostChanges ==
    /\ host' \in {Well, [Well EXCEPT !.relay = FALSE], [Well EXCEPT !.free = 6],
                  [Well EXCEPT !.oldest = 30, !.depth = 1], [Well EXCEPT !.drift = 0 - 2],
                  [Well EXCEPT !.backup = 40], [Well EXCEPT !.database = FALSE]}
    /\ UNCHANGED <<lease, sched, beats, outstanding, reports>>
------------------------------------------------------------------------------
(* The cadence of a connection: settings is its row of connection_sync_settings, polls the
   scheduler passes under way, polled when a poll was last enqueued. *)

clampInterval(seconds) ==
    CASE seconds < MIN_INTERVAL -> MIN_INTERVAL
      [] seconds > MAX_INTERVAL -> MAX_INTERVAL
      [] OTHER -> seconds

Quotas == [unknown |-> 1, normal |-> 1, warning |-> 2, high |-> 4, critical |-> 8]
Healths == [healthy |-> 1, unknown |-> 1, degraded |-> 3, failing |-> 8]
\* The worst pressure decides, never their product, and never past the longest interval.
effectiveCadence(target, quota, health, backlog) ==
    LET overload == IF backlog > Tolerance
                    THEN soonest(8, (backlog + Tolerance - 1) \div Tolerance) ELSE 1
        pressures == {Quotas[quota], Healths[health], overload}
        most == CHOOSE p \in pressures : \A q \in pressures : q <= p
    IN soonest(MAX_INTERVAL, clampInterval(target) * most)

\* The intervals a target comes to under the pressures there can be.
Cadences(target) ==
    {effectiveCadence(target, quota, health, b) :
       quota \in DOMAIN Quotas, health \in DOMAIN Healths, b \in Backlogs}

NoSettings == [target |-> None]
FreshSettings == [target |-> DEFAULT_INTERVAL, effective |-> DEFAULT_INTERVAL,
                  lastPoll |-> None, paused |-> FALSE]
\* connection_sync_settings_effective_not_faster
notFaster(row) == row.effective >= row.target

NoPass == [at |-> None]

\* scheduleConnection reads the row, creating it; the cadence is judged from that reading.
readSyncSettings(p) ==
    /\ polls[p] = NoPass
    /\ settings' = IF settings = NoSettings THEN FreshSettings ELSE settings
    /\ \E effective \in Cadences(settings'.target) :
          polls' = [polls EXCEPT ![p] =
              [at |-> now, step |-> "store", effective |-> effective,
               lastPoll |-> settings'.lastPoll, paused |-> settings'.paused]]
    /\ UNCHANGED polled

\* The row refuses an interval below a target raised meanwhile, and the pass is over.
storeCadence(p) ==
    /\ polls[p] # NoPass /\ polls[p].step = "store"
    /\ LET new == [settings EXCEPT !.effective = polls[p].effective]
       IN IF notFaster(new)
          THEN /\ settings' = new
               /\ polls' = [polls EXCEPT ![p] = IF @.paused THEN NoPass
                                                ELSE [@ EXCEPT !.step = "queue"]]
          ELSE polls' = [polls EXCEPT ![p] = NoPass] /\ UNCHANGED settings
    /\ UNCHANGED polled

\* A tenth of the interval is random.
isDue(last, interval, at, jitter) == last = None \/ at - last >= interval + jitter

\* MUTANT of queuePoll: the poll is marked before it is enqueued.
queuePoll_MarkFirst(p) ==
    /\ polls[p] # NoPass /\ polls[p].step = "queue"
    /\ settings' = [settings EXCEPT !.lastPoll = polls[p].at]
    /\ polls' = [polls EXCEPT ![p].step = "mark"]
    /\ UNCHANGED polled

queuePoll(p) ==
    /\ polls[p] # NoPass /\ polls[p].step = "queue"
    /\ \E jitter \in 0..((polls[p].effective + 9) \div 10) :
          IF isDue(polls[p].lastPoll, polls[p].effective, polls[p].at, jitter)
          THEN polled' = now /\ polls' = [polls EXCEPT ![p].step = "mark"]
          ELSE polls' = [polls EXCEPT ![p] = NoPass] /\ UNCHANGED polled
    /\ UNCHANGED settings
markPoll(p) ==
    /\ polls[p] # NoPass /\ polls[p].step = "mark"
    /\ settings' = [settings EXCEPT !.lastPoll = polls[p].at]
    /\ polls' = [polls EXCEPT ![p] = NoPass]
    /\ UNCHANGED polled
passDies(p) ==
    /\ polls[p] # NoPass
    /\ polls' = [polls EXCEPT ![p] = NoPass]
    /\ UNCHANGED <<settings, polled>>

setTargetInterval(seconds) ==
    LET s == clampInterval(seconds)
    IN /\ settings' = IF settings = NoSettings
                      THEN [FreshSettings EXCEPT !.target = s, !.effective = s]
                      ELSE [settings EXCEPT !.target = s,
                                            !.effective = IF s > @ THEN s ELSE @]
       /\ UNCHANGED <<polls, polled>>
setSyncPaused(paused) ==
    /\ settings' = [(IF settings = NoSettings THEN FreshSettings ELSE settings)
                       EXCEPT !.paused = paused]
    /\ UNCHANGED <<polls, polled>>
------------------------------------------------------------------------------
(* Retention: rows of the classes it sweeps, each with its age mark and whether it is
   finished (an alert resolved, a convergence sample no longer pending). *)

historyDataClasses == {"notification_deliveries", "resolved_alerts", "ai_suggestions",
                       "convergence_samples", "withheld_writes"}
rawDataClasses == {"webhook_deliveries", "processed_events"}
retentionDataClasses == historyDataClasses \cup rawDataClasses
MustBeFinished == {"resolved_alerts", "convergence_samples"}

policyOf(saved) ==
    IF saved = <<>> THEN [history |-> DEFAULT_HISTORY, raw |-> DEFAULT_RAW] ELSE saved
\* Zero keeps history for ever; raw bodies always expire.
cutoffFor(class, p, at) ==
    LET days == IF class \in rawDataClasses THEN p.raw ELSE p.history
    IN CASE days > 0 -> at - days
         [] days <= 0 /\ class \in rawDataClasses -> at - DEFAULT_RAW
         [] OTHER -> None

\* saveRetentionAction refuses a raw window of zero.
saveRetentionSettings(p) ==
    p.raw >= 1 /\ policy' = p /\ UNCHANGED <<rows, sweeping>>
sweepBusiness ==
    /\ sweeping = <<>>
    /\ sweeping' = [policy |-> policyOf(policy), at |-> now, left |-> retentionDataClasses]
    /\ UNCHANGED <<rows, policy>>
\* Old enough and, where that matters, finished: at most a batch per class and night.
Expired(class, cutoff) ==
    {r \in rows : r.class = class /\ r.at < cutoff /\ (class \in MustBeFinished => r.finished)}
deleteBatch ==
    /\ sweeping # <<>> /\ sweeping.left # {}
    /\ LET class == CHOOSE c \in sweeping.left : TRUE
           cutoff == cutoffFor(class, sweeping.policy, sweeping.at)
           old == IF cutoff = None THEN {} ELSE Expired(class, cutoff)
       IN \E gone \in SUBSET old :
             /\ Cardinality(gone) = soonest(RETENTION_BATCH, Cardinality(old))
             /\ rows' = rows \ gone
             /\ sweeping' = [sweeping EXCEPT !.left = @ \ {class}]
    /\ UNCHANGED policy
sweepDone ==
    /\ sweeping # <<>> /\ sweeping.left = {}
    /\ sweeping' = <<>> /\ UNCHANGED <<rows, policy>>
rowArrives(class, finished) ==
    /\ Cardinality(rows) < MaxRows
    /\ rows' = rows \cup {[class |-> class, at |-> now, finished |-> finished]}
    /\ UNCHANGED <<policy, sweeping>>
------------------------------------------------------------------------------
SchedulingInit ==
    /\ lease = NoLease /\ sched = [w \in Workers |-> NewProcess]
    /\ beats = [w \in Workers |-> [role |-> "none", at |-> None]]
    /\ host = Well /\ outstanding = {} /\ reports = [w \in Workers |-> <<>>]
    /\ settings = NoSettings /\ polls = [p \in 1..2 |-> NoPass] /\ polled = None
    /\ rows = {} /\ policy = <<>> /\ sweeping = <<>>

LeaderNext ==
    \/ \E w \in Workers :
          \/ Cardinality({v \in Workers : sched[v].state # "new"}) < Setting[scene].processes
             /\ startWorker(w)
          \/ step(w) \/ renewOrAcquire(w) \/ schedulerBeat(w) \/ startTick(w)
          \/ iterateFails(w) \/ stop(w) \/ workerDies(w) \/ tickFails(w)
          \/ scene = "health" /\ (heartbeatInterval(w) \/ tickAssesses(w) \/ tickEnds(w))
    \/ scene = "health" /\ hostChanges
CadenceNext ==
    \/ \E p \in 1..2 : readSyncSettings(p) \/ storeCadence(p) \/ queuePoll(p) \/ markPoll(p)
                       \/ passDies(p)
    \/ \E s \in Intervals : setTargetInterval(s)
    \/ \E b \in BOOLEAN : setSyncPaused(b)
RetentionNext ==
    \/ \E p \in Windows : saveRetentionSettings(p)
    \/ sweepBusiness \/ deleteBatch \/ sweepDone
    \/ \E c \in retentionDataClasses, f \in BOOLEAN : rowArrives(c, f)

SchedulingNext ==
    /\ \/ scene \in {"leader", "health"} /\ LeaderNext /\ UNCHANGED <<cadenceVars, retentionVars>>
       \/ scene = "cadence" /\ CadenceNext /\ UNCHANGED <<leaderVars, retentionVars>>
       \/ scene = "retention" /\ RetentionNext /\ UNCHANGED <<leaderVars, cadenceVars>>
    /\ UNCHANGED <<scene, now>>

\* Everything together; a behaviour belongs to one scene.
watchVars == <<scene, now, alertVars, leaderVars, cadenceVars, retentionVars>>
WatchInit == AlertsInit /\ SchedulingInit
WatchNext ==
    \/ AlertsNext /\ UNCHANGED <<leaderVars, cadenceVars, retentionVars>>
    \/ SchedulingNext /\ UNCHANGED alertVars
WatchSpec == WatchInit /\ [][WatchNext]_watchVars
------------------------------------------------------------------------------
(* Properties. *)

\* Two workers tick at the same time only when the step of one of them, its renewal and its
\* heartbeat included, has lasted longer than the lease outlasts a renewal interval: elections,
\* lapses, slow or failed statements, deaths and shutdowns in any order never bring a second
\* tick beside a step that is quicker.
OverlapMeansOverrun ==
    \A v, w \in Workers :
        v # w /\ Ticking(v) /\ Ticking(w)
        => \E x \in {v, w} : now - sched[x].begun > LeaseFor - RenewEvery

\* A poll that is marked as done was enqueued at or after the moment it is marked with,
\* also when the pass died between its statements or another pass overtook it.
MarkedPollWasQueued ==
    settings # NoSettings /\ settings.lastPoll # None
    => polled # None /\ polled >= settings.lastPoll

\* The heartbeats leave nothing unreported (scheduler.ts): while some worker process has
\* beaten recently, the health check of the workers does not call them failing.
LiveWorkerIsReported ==
    (\E w \in Workers : /\ sched[w].state = "up"
                        /\ beats[w].at # None /\ now - beats[w].at < HEARTBEAT_STALE)
    => workerCheck # 2
====
