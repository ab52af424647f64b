------------------------------- MODULE JobQueue -------------------------------
(***************************************************************************)
(* The durable job queue of packages/jobs: enqueuing with coalescing,      *)
(* claims with leases, heartbeats, retries and dead letters, the recovery  *)
(* sweeps and the lanes of the worker loop (queue.ts, retry.ts, runner.ts, *)
(* over the tables and indexes of migrations 0014 and 0015).               *)
(*                                                                         *)
(* Every database statement is one action.  Where an operation is two      *)
(* statements outside a transaction (succeed, supersede, fail and release  *)
(* update the job and then its attempt record; enqueue inserts and then    *)
(* looks up) it is two actions, and a crash may come in between.           *)
(*                                                                         *)
(* Instants are kept as the time left until them: run_at as runIn, the     *)
(* lease as lease, expires_at as window.  Tick lets one unit pass.  A job  *)
(* has a key, which is its serialization key and, for the keys that        *)
(* coalesce wake-ups, its dedupe key too, as order_sync and order_poll do. *)
(***************************************************************************)
EXTENDS Integers, Sequences, FiniteSets, FiniteSetsExt

CONSTANTS
  Keys,             \* serialization keys
  DedupedKeys,      \* the keys whose jobs also carry a dedupe key
  Lanes, Workers, WorkerOf,  \* each worker process runs some lanes
  MaxAttempts, Window, Lease,
  Delays,           \* retry delays: the jittered schedule or Retry-After
  Circumstances,    \* what a deployment has to bear, see JobQueueConstants
  MaxJobs, MaxClaims    \* bounds

NoWorker == "no worker"

\* Of a deployment: the keys each worker has a handler for, whether the timer of a live
\* worker renews before the lease lapses, and how many crashes, lost statements and
\* replays there are at most.
ASSUME JobQueueConstants ==
  /\ DedupedKeys \subseteq Keys
  /\ WorkerOf \in [Lanes -> Workers] /\ NoWorker \notin Workers
  /\ Circumstances \subseteq
       [handled : [Workers -> SUBSET Keys], renewing : BOOLEAN, crashes : Nat, faults : Nat,
        replays : Nat]
  /\ MaxAttempts \in Nat \ {0}
  /\ Window \in Nat \ {0}
  /\ Lease \in Nat \ {0, 1}
  /\ Delays \subseteq Nat /\ Delays # {}
  /\ {MaxJobs, MaxClaims} \subseteq Nat

Statuses == {"ready", "running", "succeeded", "dead", "cancelled"}
Finished == {"succeeded", "dead", "cancelled"}
Outcomes == {"open", "succeeded", "failed", "superseded", "reclaimed"}

VARIABLES
  jobs,        \* background_jobs, in the order of creation
  attemptLog,  \* background_job_attempts: the claims of each job, in order
  lane,        \* what each lane of each worker is doing
  swallowed,   \* keys whose enqueue was refused by the dedupe index and is
               \* about to look the winner up
  unserved,    \* keys with a wake-up no finished run has covered yet
  crashes, faults, replays, \* how often each has happened
  circumstances  \* those of this deployment

vars ==
  <<jobs, attemptLog, lane, swallowed, unserved, crashes, faults, replays, circumstances>>

Ids == DOMAIN jobs

JobRows ==
  [key : Keys, deduped : BOOLEAN, status : Statuses, attempts : 0..MaxAttempts,
   runIn : Nat, window : Nat, lease : 0..Lease, holder : Workers \cup {NoWorker},
   started : Nat]

Less(n) == IF n = 0 THEN 0 ELSE n - 1

IdleLane == [pc |-> "idle"]

BusyLanes ==
  [pc : {"unhandled", "working", "caught", "closing"}, job : Nat, attempt : Nat,
   attempts : Nat, window : Nat, covers : BOOLEAN, outcome : Outcomes, guarded : BOOLEAN]

LaneStates == {IdleLane} \cup BusyLanes

(* Types, and the checks of migration 0014 on the columns.                   *)
TypeOK ==
  /\ jobs \in Seq(JobRows)
  /\ \A j \in Ids : (jobs[j].status = "running") = (jobs[j].holder # NoWorker)
  /\ attemptLog \in Seq(Seq(Outcomes)) /\ DOMAIN attemptLog = Ids
  /\ lane \in [Lanes -> LaneStates]
  /\ swallowed \subseteq DedupedKeys
  /\ unserved \subseteq Keys
  /\ circumstances \in Circumstances
  /\ crashes \in 0..circumstances.crashes
  /\ faults \in 0..circumstances.faults
  /\ replays \in 0..circumstances.replays

Init ==
  /\ jobs = << >>
  /\ attemptLog = << >>
  /\ lane = [l \in Lanes |-> IdleLane]
  /\ swallowed = {}
  /\ unserved = {}
  /\ crashes = 0
  /\ faults = 0
  /\ replays = 0
  /\ circumstances \in Circumstances

-------------------------------------------------------------------------------
(* Enqueuing.                                                              *)

\* MUTANT of Pending: the index of migration 0014, which also covered running jobs.
Pending_OrRunning(key) ==
  {j \in Ids : jobs[j].key = key /\ jobs[j].deduped /\ jobs[j].status \in {"ready", "running"}}

\* What background_jobs_pending_dedupe indexes.
Pending(key) == {j \in Ids : jobs[j].key = key /\ jobs[j].deduped /\ jobs[j].status = "ready"}

NewJob(key, deduped) ==
  [key |-> key, deduped |-> deduped, status |-> "ready", attempts |-> 0, runIn |-> 0,
   window |-> Window, lease |-> 0, holder |-> NoWorker, started |-> 0]

Insert(row) == jobs' = Append(jobs, row) /\ attemptLog' = Append(attemptLog, << >>)

\* A handler that has begun has read the state as it was then: it does not
\* cover a wake-up that comes later.
WakeUp(key) ==
  /\ unserved' = unserved \cup {key}
  /\ lane' = [l \in Lanes |->
       IF lane[l].pc = "working" /\ jobs[lane[l].job].key = key
       THEN [lane[l] EXCEPT !.covers = FALSE] ELSE lane[l]]

\* enqueue, first statement: the insert, or nothing when the index refuses it.
enqueue(key) ==
  /\ key \notin swallowed
  /\ Len(jobs) < MaxJobs
  /\ IF key \in DedupedKeys /\ Pending(key) # {}
     THEN swallowed' = swallowed \cup {key} /\ UNCHANGED <<jobs, attemptLog>>
     ELSE Insert(NewJob(key, key \in DedupedKeys)) /\ UNCHANGED swallowed
  /\ WakeUp(key)
  /\ UNCHANGED <<crashes, faults, replays, circumstances>>

\* enqueue, second statement: the winner is returned, or, when it is no longer
\* pending, the job is inserted without its dedupe key.
LookUpWinner(key) ==
  /\ key \in swallowed
  /\ swallowed' = swallowed \ {key}
  /\ IF Pending(key) # {} THEN UNCHANGED <<jobs, attemptLog>>
     ELSE Insert(NewJob(key, FALSE))
  /\ UNCHANGED <<lane, unserved, crashes, faults, replays, circumstances>>

-------------------------------------------------------------------------------
(* Claiming.                                                               *)

Running(key) == {j \in Ids : jobs[j].key = key /\ jobs[j].status = "running"}

\* MUTANT of Claimable: jobs of one key may run side by side.
Claimable_IgnoresKey ==
  {j \in Ids : /\ jobs[j].status = "ready" /\ jobs[j].runIn = 0 /\ jobs[j].window > 0
               /\ jobs[j].attempts < MaxAttempts}

\* The candidates of claimOnce.  Its order by only prefers among them: skip locked
\* passes over any row another transaction holds, whatever its priority.
Claimable ==
  {j \in Ids : /\ jobs[j].status = "ready" /\ jobs[j].runIn = 0 /\ jobs[j].window > 0
               /\ jobs[j].attempts < MaxAttempts
               /\ Running(jobs[j].key) = {}}

\* The update and the attempt record, in one transaction; then execute starts
\* the handler, which reads the state it works on, if the worker has one.
claim(l, j) ==
  /\ lane[l].pc = "idle"
  /\ j \in Claimable
  /\ Len(attemptLog[j]) < MaxClaims
  /\ LET handled == jobs[j].key \in circumstances.handled[WorkerOf[l]]
     IN  /\ jobs' = [jobs EXCEPT ![j].status = "running", ![j].attempts = @ + 1,
                                 ![j].holder = WorkerOf[l], ![j].lease = Lease,
                                 ![j].started = @ + IF handled THEN 1 ELSE 0]
         /\ attemptLog' = [attemptLog EXCEPT ![j] = Append(@, "open")]
         /\ lane' = [lane EXCEPT ![l] =
              [pc |-> IF handled THEN "working" ELSE "unhandled", job |-> j,
               attempt |-> Len(attemptLog[j]) + 1, attempts |-> jobs[j].attempts + 1,
               window |-> jobs[j].window, covers |-> handled, outcome |-> "open",
               guarded |-> handled]]
  /\ UNCHANGED <<swallowed, unserved, crashes, faults, replays, circumstances>>

HoldsClaim(l) ==
  LET j == lane[l].job
  IN  jobs[j].status = "running" /\ jobs[j].holder = WorkerOf[l]

heartbeat(l) ==
  /\ lane[l].pc \in {"working", "caught"}
  /\ HoldsClaim(l)
  /\ jobs[lane[l].job].lease < Lease
  /\ jobs' = [jobs EXCEPT ![lane[l].job].lease = Lease]
  /\ UNCHANGED <<attemptLog, lane, swallowed, unserved,
                 crashes, faults, replays, circumstances>>

-------------------------------------------------------------------------------
(* Settling a claim: the job first, its attempt record afterwards.         *)

Unclaimed(row, status) == [row EXCEPT !.status = status, !.holder = NoWorker, !.lease = 0]

\* The lane goes on to close its attempt record.
Closing(l, outcome) == lane' = [lane EXCEPT ![l].pc = "closing", ![l].outcome = outcome]

\* A run that ends well has served what it read when it began.
Serve(l) ==
  unserved' = IF lane[l].covers THEN unserved \ {jobs[lane[l].job].key} ELSE unserved

\* Whoever holds the job by now, and whatever its status is.
succeed(l) ==
  /\ lane[l].pc = "working"
  /\ jobs' = [jobs EXCEPT ![lane[l].job] = Unclaimed(@, "succeeded")]
  /\ Serve(l)
  /\ Closing(l, "succeeded")
  /\ UNCHANGED <<attemptLog, swallowed, crashes, faults, replays, circumstances>>

supersede(l) ==
  /\ lane[l].pc = "working"
  /\ jobs' = IF jobs[lane[l].job].status \in {"ready", "running"}
             THEN [jobs EXCEPT ![lane[l].job] = Unclaimed(@, "cancelled")] ELSE jobs
  /\ Serve(l)
  /\ Closing(l, "superseded")
  /\ UNCHANGED <<attemptLog, swallowed, crashes, faults, replays, circumstances>>

\* Not retryable, out of attempts, out of window, or asked to wait past it.
nextAttempt(attempt, window, retryable, delay) ==
  IF ~ retryable \/ attempt >= MaxAttempts \/ window = 0 \/ delay > window
  THEN "dead_letter" ELSE "retry"

\* The update of fail to ready, or of reclaimExpired, would make a second pending
\* job under one dedupe key: background_jobs_pending_dedupe refuses it.
Conflicts(reopened) ==
  \E i \in reopened : /\ jobs[i].deduped
                      /\ \E j \in (Ids \ {i}) : /\ jobs[j].key = jobs[i].key /\ jobs[j].deduped
                                                /\ j \in reopened \/ jobs[j].status = "ready"

\* The rest of execute after an exception: one raised inside its try is caught and
\* answered with a fail, one raised by that fail or by release leaves the job alone.
Thrown(l) ==
  lane' = [lane EXCEPT ![l] =
    IF @.guarded THEN [@ EXCEPT !.pc = "caught", !.guarded = FALSE] ELSE IdleLane]

\* MUTANT of fail: a failed attempt is given back, as release gives back one never begun.
fail_Refunds(l, retryable, delay) ==
  /\ \/ lane[l].pc = "working"
     \/ lane[l].pc = "caught" /\ retryable
  /\ LET j == lane[l].job
         decision == nextAttempt(lane[l].attempts, lane[l].window, retryable, delay)
     IN  IF decision = "dead_letter"
         THEN jobs' = [jobs EXCEPT ![j] = Unclaimed(@, "dead")] /\ Closing(l, "failed")
         ELSE IF ~ Conflicts({j})
         THEN /\ jobs' = [jobs EXCEPT ![j] = [Unclaimed(@, "ready") EXCEPT !.runIn = delay, !.attempts = Less(@)]]
              /\ Closing(l, "failed")
         ELSE Thrown(l) /\ UNCHANGED jobs
  /\ UNCHANGED <<attemptLog, swallowed, unserved,
                 crashes, faults, replays, circumstances>>

\* fail, from what the lane knew when it claimed the job: on the handler's word, or
\* for what was caught.
fail(l, retryable, delay) ==
  /\ \/ lane[l].pc = "working"
     \/ lane[l].pc = "caught" /\ retryable
  /\ LET j == lane[l].job
         decision == nextAttempt(lane[l].attempts, lane[l].window, retryable, delay)
     IN  IF decision = "dead_letter"
         THEN jobs' = [jobs EXCEPT ![j] = Unclaimed(@, "dead")] /\ Closing(l, "failed")
         ELSE IF ~ Conflicts({j})
         THEN /\ jobs' = [jobs EXCEPT ![j] = [Unclaimed(@, "ready") EXCEPT !.runIn = delay]]
              /\ Closing(l, "failed")
         ELSE Thrown(l) /\ UNCHANGED jobs
  /\ UNCHANGED <<attemptLog, swallowed, unserved,
                 crashes, faults, replays, circumstances>>

\* MUTANT of release: only a claim whose lease is still running is handed back.
release_WithinLease(l) ==
  /\ lane[l].pc = "unhandled"
  /\ LET j == lane[l].job
         back == Unclaimed(jobs[j], "ready")
     IN  IF ~ HoldsClaim(l) \/ jobs[j].lease = 0 THEN Closing(l, "reclaimed") /\ UNCHANGED jobs
         ELSE IF Conflicts({j}) THEN Thrown(l) /\ UNCHANGED jobs
         ELSE /\ jobs' = [jobs EXCEPT ![j] = [back EXCEPT !.attempts = Less(@)]]
              /\ Closing(l, "reclaimed")
  /\ UNCHANGED <<attemptLog, swallowed, unserved,
                 crashes, faults, replays, circumstances>>

\* No handler on this worker: handed back, and the attempt refunded.
release(l) ==
  /\ lane[l].pc = "unhandled"
  /\ LET j == lane[l].job
         back == Unclaimed(jobs[j], "ready")
     IN  IF ~ HoldsClaim(l) THEN Closing(l, "reclaimed") /\ UNCHANGED jobs
         ELSE IF Conflicts({j}) THEN Thrown(l) /\ UNCHANGED jobs
         ELSE /\ jobs' = [jobs EXCEPT ![j] = [back EXCEPT !.attempts = Less(@)]]
              /\ Closing(l, "reclaimed")
  /\ UNCHANGED <<attemptLog, swallowed, unserved,
                 crashes, faults, replays, circumstances>>

CloseAttempt(l) ==
  /\ lane[l].pc = "closing"
  /\ attemptLog' = [attemptLog EXCEPT ![lane[l].job][lane[l].attempt] = lane[l].outcome]
  /\ lane' = [lane EXCEPT ![l] = IdleLane]
  /\ UNCHANGED <<jobs, swallowed, unserved, crashes, faults, replays, circumstances>>

\* The database loses the second statement; the first one stands.
CloseFails(l) ==
  /\ faults < circumstances.faults
  /\ lane[l].pc = "closing"
  /\ faults' = faults + 1
  /\ Thrown(l)
  /\ UNCHANGED <<jobs, attemptLog, swallowed, unserved,
                 crashes, replays, circumstances>>

-------------------------------------------------------------------------------
(* Crashes, sweeps, operators and time.                                    *)

\* The process dies, with every lane it ran; its successor starts with idle lanes.
Crash(w) ==
  /\ crashes < circumstances.crashes
  /\ \E l \in Lanes : WorkerOf[l] = w /\ lane[l].pc # "idle"
  /\ crashes' = crashes + 1
  /\ lane' = [l \in Lanes |-> IF WorkerOf[l] = w THEN IdleLane ELSE lane[l]]
  /\ UNCHANGED <<jobs, attemptLog, swallowed, unserved, faults, replays, circumstances>>

Lapsed == {j \in Ids : jobs[j].status = "running" /\ jobs[j].lease = 0}

Reopened == {j \in Lapsed : jobs[j].attempts < MaxAttempts}

CloseOpenAttempts(S) ==
  attemptLog' = [j \in Ids |->
    [a \in DOMAIN attemptLog[j] |->
       IF j \in S /\ attemptLog[j][a] = "open" THEN "reclaimed" ELSE attemptLog[j][a]]]

\* One statement for every lapsed lease; refused as a whole on a conflict.
reclaimExpired ==
  /\ Lapsed # {}
  /\ ~ Conflicts(Reopened)
  /\ jobs' = [j \in Ids |->
       IF j \in Lapsed THEN Unclaimed(jobs[j], IF j \in Reopened THEN "ready" ELSE "dead")
       ELSE jobs[j]]
  /\ CloseOpenAttempts(Lapsed)
  /\ UNCHANGED <<lane, swallowed, unserved, crashes, faults, replays, circumstances>>

Overdue == {j \in Ids : jobs[j].status = "ready" /\ jobs[j].window = 0}

expireOverdue ==
  /\ Overdue # {}
  /\ jobs' = [j \in Ids |-> IF j \in Overdue THEN [jobs[j] EXCEPT !.status = "dead"] ELSE jobs[j]]
  /\ UNCHANGED <<attemptLog, lane, swallowed, unserved,
                 crashes, faults, replays, circumstances>>

\* The operator's replay; a pending job of the same dedupe key refuses it.
replay(j) ==
  /\ replays < circumstances.replays
  /\ jobs[j].status = "dead"
  /\ ~ Conflicts({j})
  /\ replays' = replays + 1
  /\ jobs' = [jobs EXCEPT ![j].status = "ready", ![j].attempts = 0, ![j].started = 0,
                          ![j].runIn = 0, ![j].window = Window]
  /\ UNCHANGED <<attemptLog, lane, swallowed, unserved, crashes, faults, circumstances>>

\* A lane that works keeps its lease, because the interval timer renews it at a third
\* of its length, and a hand-back takes no time.
Renewed ==
  \A l \in Lanes : lane[l].pc \in {"unhandled", "working", "caught"} /\ HoldsClaim(l) =>
    jobs[lane[l].job].lease > 1

Tick ==
  /\ circumstances.renewing => Renewed
  /\ jobs' = [j \in Ids |-> [jobs[j] EXCEPT !.runIn = Less(@), !.window = Less(@), !.lease = Less(@)]]
  /\ lane' = [l \in Lanes |-> IF lane[l].pc = "idle" THEN IdleLane
                              ELSE [lane[l] EXCEPT !.window = Less(@)]]
  /\ jobs' # jobs
  /\ UNCHANGED <<attemptLog, swallowed, unserved,
                 crashes, faults, replays, circumstances>>

-------------------------------------------------------------------------------
Settle(l) ==
  \/ succeed(l)
  \/ supersede(l)
  \/ \E retryable \in BOOLEAN, delay \in Delays : fail(l, retryable, delay)
  \/ release(l)

LaneStep(l) ==
  \/ \E j \in Ids : claim(l, j)
  \/ Settle(l)
  \/ CloseAttempt(l)

Next ==
  \/ \E key \in Keys : enqueue(key) \/ LookUpWinner(key)
  \/ \E l \in Lanes : LaneStep(l) \/ heartbeat(l) \/ CloseFails(l)
  \/ \E w \in Workers : Crash(w)
  \/ reclaimExpired
  \/ expireOverdue
  \/ \E j \in Ids : replay(j)
  \/ Tick

Spec == Init /\ [][Next]_vars

\* The lanes keep going, their handlers return, and time passes.  The worker's entry point
\* starts lanes and nothing else: that anybody runs the two sweeps is not assumed.
Fairness ==
  /\ \A l \in Lanes : WF_vars(LaneStep(l))
  /\ \A key \in Keys : WF_vars(LookUpWinner(key))
  /\ WF_vars(Tick)

FairSpec == Spec /\ Fairness

-------------------------------------------------------------------------------
(* Properties.                                                             *)

\* Leases are renewed in time, and no settlement has been cut in half so far: the catch of
\* execute answers a lost attempt record with a fail of a job that others may hold by then.
Orderly == circumstances.renewing /\ faults = 0

(* Work that must not run concurrently does not: while leases are renewed in *)
(* time and settlements are whole, no two handlers work under one            *)
(* serialization key (claim, the unique index on running jobs, and every way *)
(* a claim ends).                                                            *)
HandlersRunAlone ==
  Orderly => \A l, m \in Lanes :
    l # m /\ lane[l].pc = "working" /\ lane[m].pc = "working" =>
      jobs[lane[l].job].key # jobs[lane[m].job].key

(* A wake-up is never lost while leases are renewed in time and settlements  *)
(* are whole: until a run that began after it has ended well, some job of    *)
(* its key is pending, dead-lettered, or running towards it.                 *)
NoWakeUpLost ==
  Orderly => \A key \in unserved \ swallowed :
    \E j \in Ids :
      /\ jobs[j].key = key
      /\ \/ jobs[j].status \in {"ready", "dead"}
         \/ /\ jobs[j].status = "running"
            /\ ~ \E l \in Lanes : lane[l].pc = "working" /\ lane[l].job = j /\ ~ lane[l].covers

(* The retry budget: no job has its handler started more often than it has   *)
(* attempts, crashes and hand-backs included, until an operator replays it.  *)
AttemptBudget == \A j \in Ids : jobs[j].started <= MaxAttempts

\* Claimed, and no lane is at work on it: its worker died, or the lane could not put it back
\* because a second job of its dedupe key had come.
Stranded(j) ==
  /\ jobs[j].status = "running"
  /\ ~ \E l \in Lanes : lane[l].pc \in {"unhandled", "working", "caught"} /\ lane[l].job = j
  /\ \/ crashes > 0
     \/ jobs[j].deduped /\ \E i \in Ids \ {j} : jobs[i].deduped /\ jobs[i].key = jobs[j].key

(* A job never goes round for ever, and no lane drops it: without any sweep  *)
(* it ends, or its window runs out while it waits, or it is stranded by a    *)
(* crash or by the index, under retries, hand-backs, lapsed leases, halved   *)
(* settlements and replays.  What stays behind is what reclaimExpired and    *)
(* expireOverdue are for.                                                    *)
JobStops ==
  \A j \in 1..MaxJobs :
    (j \in Ids /\ jobs[j].status \notin Finished)
      ~> (j \in Ids /\ (jobs[j].status \in Finished \/ j \in Overdue \/ Stranded(j)))

===============================================================================
