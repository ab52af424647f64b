---------------------------- MODULE JobQueueProofs ----------------------------
(***************************************************************************)
(* The safety properties of the queue for every number of keys, lanes,     *)
(* workers and jobs, every retry schedule and every deployment.            *)
(*                                                                         *)
(* A run ends a job without looking at who holds it, so the argument is    *)
(* about lanes: while leases are renewed and settlements are whole, a lane *)
(* at work holds the claim of its job, with lease left, and no other lane  *)
(* works on that job (ClaimsHeld).  Jobs of one key do not run together    *)
(* whatever happens (OneRunning).  The budget needs neither: it rests on   *)
(* the hand-back refunding only claims that started no handler.            *)
(***************************************************************************)
EXTENDS JobQueue, SequenceTheorems, TLAPS

AtWork == {"unhandled", "working", "caught"}

\* A lane that is not idle is about a job of the table.
LanesHaveJobs == \A l \in Lanes : lane[l].pc # "idle" => lane[l].job \in Ids

\* Every start of a handler is an attempt, and a claim by a worker without a
\* handler is an attempt that is no start.
StartsAreAttempts ==
  \A j \in Ids :
    /\ jobs[j].started <= jobs[j].attempts
    /\ jobs[j].status = "running"
         /\ jobs[j].key \notin circumstances.handled[jobs[j].holder] =>
       jobs[j].started < jobs[j].attempts

UnhandledHasNoHandler ==
  \A l \in Lanes : lane[l].pc = "unhandled" =>
    jobs[lane[l].job].key \notin circumstances.handled[WorkerOf[l]]

\* What the unique index on running jobs enforces.
OneRunning ==
  \A i, j \in Ids : /\ jobs[i].status = "running" /\ jobs[j].status = "running"
                    /\ jobs[i].key = jobs[j].key
                    => i = j

ClaimsHeld ==
  Orderly =>
    /\ \A l \in Lanes : lane[l].pc \in AtWork =>
         HoldsClaim(l) /\ jobs[lane[l].job].lease > 0
    /\ \A l, m \in Lanes :
         lane[l].pc \in AtWork /\ lane[m].pc \in AtWork /\ lane[l].job = lane[m].job => l = m

Inv ==
  /\ TypeOK
  /\ LanesHaveJobs
  /\ StartsAreAttempts
  /\ UnhandledHasNoHandler
  /\ OneRunning
  /\ ClaimsHeld
  /\ NoWakeUpLost

-------------------------------------------------------------------------------
(* The pieces that steps are made of.                                        *)

\* The table as a sequence of rows.
LEMMA RowTypes ==
  ASSUME TypeOK
  PROVE  /\ jobs \in Seq(JobRows) /\ attemptLog \in Seq(Seq(Outcomes))
         /\ Len(jobs) \in Nat /\ Ids = 1..Len(jobs) /\ Len(attemptLog) = Len(jobs)
         /\ \A j \in Ids : jobs[j] \in JobRows /\ attemptLog[j] \in Seq(Outcomes)
<1>1. jobs \in Seq(JobRows) /\ attemptLog \in Seq(Seq(Outcomes)) /\ DOMAIN attemptLog = Ids
  BY DEF TypeOK
<1>2. Ids = 1..Len(jobs) /\ Len(jobs) \in Nat /\ Len(attemptLog) \in Nat
      /\ DOMAIN attemptLog = 1..Len(attemptLog)
  BY <1>1 DEF Ids
<1>3. \A j \in Ids : jobs[j] \in JobRows /\ attemptLog[j] \in Seq(Outcomes)
  BY <1>1, <1>2
<1>4. Len(attemptLog) = Len(jobs)
  BY <1>1, <1>2
<1>5. QED
  BY <1>1, <1>2, <1>3, <1>4

\* One row changes.
LEMMA OneRow ==
  ASSUME TypeOK, NEW j \in Ids, NEW r \in JobRows, jobs' = [jobs EXCEPT ![j] = r]
  PROVE  /\ jobs' \in Seq(JobRows) /\ Ids' = Ids
         /\ \A i \in Ids : jobs'[i] = IF i = j THEN r ELSE jobs[i]
<1>1. jobs \in Seq(JobRows) /\ Ids = 1..Len(jobs) /\ Len(jobs) \in Nat
  BY RowTypes
<1>2. jobs' \in Seq(JobRows) /\ Len(jobs') = Len(jobs)
      /\ \A i \in 1..Len(jobs) : jobs'[i] = IF i = j THEN r ELSE jobs[i]
  BY <1>1, ExceptSeq
<1>3. Ids' = 1..Len(jobs')
  BY <1>2 DEF Ids
<1>4. QED
  BY <1>1, <1>2, <1>3

\* Every row may change, none comes or goes.
LEMMA AllRows ==
  ASSUME TypeOK, NEW f \in [Ids -> JobRows], jobs' = f
  PROVE  /\ jobs' \in Seq(JobRows) /\ Ids' = Ids
         /\ \A i \in Ids : jobs'[i] = f[i]
<1>1. Ids = 1..Len(jobs) /\ Len(jobs) \in Nat
  BY RowTypes
<1>2. jobs' \in Seq(JobRows)
  BY <1>1, SeqDef
<1>3. QED
  BY <1>2 DEF Ids

\* One row is added, with an empty record of its attempts.
LEMMA NewRow ==
  ASSUME TypeOK, NEW r \in JobRows, Insert(r)
  PROVE  /\ jobs' \in Seq(JobRows)
         /\ attemptLog' \in Seq(Seq(Outcomes)) /\ DOMAIN attemptLog' = Ids'
         /\ \E n : n \notin Ids /\ Ids' = Ids \cup {n} /\ jobs'[n] = r
         /\ \A i \in Ids : jobs'[i] = jobs[i]
<1>1. /\ jobs \in Seq(JobRows) /\ attemptLog \in Seq(Seq(Outcomes)) /\ Len(jobs) \in Nat
      /\ Ids = 1..Len(jobs) /\ Len(attemptLog) = Len(jobs)
  BY RowTypes
<1>2. /\ jobs' \in Seq(JobRows) /\ Len(jobs') = Len(jobs) + 1
      /\ \A i \in 1..Len(jobs) : jobs'[i] = jobs[i]
      /\ jobs'[Len(jobs) + 1] = r
  BY <1>1 DEF Insert
<1>3. << >> \in Seq(Outcomes)
  OBVIOUS
<1>4. attemptLog' \in Seq(Seq(Outcomes)) /\ Len(attemptLog') = Len(attemptLog) + 1
  BY <1>1, <1>3 DEF Insert
<1>5. Ids' = 1..(Len(jobs) + 1) /\ DOMAIN attemptLog' = 1..(Len(jobs) + 1)
  BY <1>1, <1>2, <1>4 DEF Ids
<1>6. 1..(Len(jobs) + 1) = Ids \cup {Len(jobs) + 1} /\ Len(jobs) + 1 \notin Ids
  BY <1>1
<1>7. QED
  BY <1>1, <1>2, <1>4, <1>5, <1>6

\* A row given back by whoever held it.
LEMMA UnclaimedRow ==
  ASSUME NEW row \in JobRows, NEW status \in Statuses
  PROVE  /\ Unclaimed(row, status) \in JobRows
         /\ Unclaimed(row, status).status = status
         /\ Unclaimed(row, status).holder = NoWorker
         /\ Unclaimed(row, status).key = row.key
         /\ Unclaimed(row, status).started = row.started
         /\ Unclaimed(row, status).attempts = row.attempts
<1>1. 0 \in 0..Lease
  BY JobQueueConstants
<1> DEFINE a == [row EXCEPT !.status = status]
           b == [a EXCEPT !.holder = NoWorker]
<1>2. a \in JobRows /\ a.status = status
      /\ a.key = row.key /\ a.started = row.started /\ a.attempts = row.attempts
  BY DEF JobRows
<1> HIDE DEF a
<1>3. b \in JobRows /\ b.status = status /\ b.holder = NoWorker
      /\ b.key = row.key /\ b.started = row.started /\ b.attempts = row.attempts
  BY <1>2 DEF JobRows
<1> HIDE DEF b
<1>4. Unclaimed(row, status) = [b EXCEPT !.lease = 0]
  BY DEF Unclaimed, a, b
<1>5. QED
  BY <1>1, <1>3, <1>4 DEF JobRows

LEMMA LessType == \A n \in Nat : Less(n) \in Nat /\ Less(n) <= n /\ (n > 0 => Less(n) = n - 1)
  BY DEF Less

-------------------------------------------------------------------------------
(* A step that adds no job and claims none.  Jobs keep their keys, none      *)
(* starts to run or changes hands, lanes at work go on or leave, and         *)
(* whatever stood for an uncovered wake-up still does.                       *)

JobsStay ==
  /\ Ids' = Ids
  /\ \A i \in Ids :
       /\ jobs'[i].key = jobs[i].key
       /\ jobs'[i].status = "running" =>
            jobs[i].status = "running" /\ jobs'[i].holder = jobs[i].holder

BudgetStays ==
  \A i \in Ids :
    /\ jobs'[i].started <= jobs'[i].attempts
    /\ jobs'[i].status = "running" =>
         jobs'[i].started = jobs[i].started /\ jobs'[i].attempts = jobs[i].attempts

LanesGoOn ==
  \A l \in Lanes :
    /\ lane'[l].pc # "idle" => lane[l].pc # "idle" /\ lane'[l].job = lane[l].job
    /\ lane'[l].pc = "unhandled" => lane[l].pc = "unhandled"
    /\ lane'[l].pc = "working" => lane[l].pc = "working" /\ lane'[l].covers = lane[l].covers

ClaimsStay ==
  \A l \in Lanes : lane'[l].pc \in AtWork =>
    /\ lane[l].pc \in AtWork
    /\ jobs'[lane[l].job].status = "running" /\ jobs'[lane[l].job].lease > 0

WakeUpsStay ==
  \A i \in Ids : jobs[i].key \in unserved' =>
    /\ jobs[i].status \in {"ready", "dead"} => jobs'[i].status \in {"ready", "dead"}
    /\ jobs[i].status = "running" =>
         \/ jobs'[i].status \in {"ready", "running", "dead"}
         \/ \E l \in Lanes : lane[l].pc = "working" /\ lane[l].job = i /\ ~ lane[l].covers

Counted ==
  /\ swallowed' = swallowed /\ unserved' \subseteq unserved
  /\ circumstances' = circumstances /\ faults \in Nat /\ faults' \in Nat /\ faults <= faults'

LEMMA StepKeeps ==
  ASSUME Inv, TypeOK', JobsStay, BudgetStays, LanesGoOn, Counted,
         Orderly' => ClaimsStay /\ WakeUpsStay
  PROVE  Inv'
<1>1. Orderly' => Orderly
  BY DEF Orderly, Counted
<1>2. LanesHaveJobs'
  BY DEF Inv, LanesHaveJobs, JobsStay, LanesGoOn
<1>3. StartsAreAttempts'
  BY DEF Inv, StartsAreAttempts, JobsStay, BudgetStays, Counted
<1>4. UnhandledHasNoHandler'
  <2> SUFFICES ASSUME NEW l \in Lanes, lane'[l].pc = "unhandled"
               PROVE  jobs'[lane'[l].job].key \notin circumstances'.handled[WorkerOf[l]]
    BY DEF UnhandledHasNoHandler
  <2>1. lane[l].pc = "unhandled" /\ lane'[l].job = lane[l].job /\ lane[l].job \in Ids
    BY DEF LanesGoOn, Inv, LanesHaveJobs
  <2>2. jobs'[lane[l].job].key = jobs[lane[l].job].key
    BY <2>1 DEF JobsStay
  <2>3. QED
    BY <2>1, <2>2 DEF Inv, UnhandledHasNoHandler, Counted
<1>5. OneRunning'
  BY DEF Inv, OneRunning, JobsStay
<1>6. ClaimsHeld'
  <2> SUFFICES ASSUME Orderly'
               PROVE  /\ \A l \in Lanes : lane'[l].pc \in AtWork =>
                           HoldsClaim(l)' /\ jobs'[lane'[l].job].lease > 0
                      /\ \A l, m \in Lanes : /\ lane'[l].pc \in AtWork /\ lane'[m].pc \in AtWork
                                             /\ lane'[l].job = lane'[m].job
                                             => l = m
    BY DEF ClaimsHeld
  <2>1. ASSUME NEW l \in Lanes, lane'[l].pc \in AtWork
        PROVE  /\ lane[l].pc \in AtWork /\ lane'[l].job = lane[l].job /\ lane[l].job \in Ids
               /\ jobs'[lane[l].job].status = "running" /\ jobs'[lane[l].job].lease > 0
    BY <2>1 DEF ClaimsStay, LanesGoOn, Inv, LanesHaveJobs, AtWork
  <2>2. ASSUME NEW l \in Lanes, lane'[l].pc \in AtWork
        PROVE  HoldsClaim(l)' /\ jobs'[lane'[l].job].lease > 0
    <3>1. HoldsClaim(l)
      BY <1>1, <2>1, <2>2 DEF Inv, ClaimsHeld
    <3>2. jobs'[lane[l].job].holder = jobs[lane[l].job].holder
      BY <2>1, <2>2 DEF JobsStay
    <3>3. QED
      BY <2>1, <2>2, <3>1, <3>2 DEF HoldsClaim
  <2>3. ASSUME NEW l \in Lanes, NEW m \in Lanes, lane'[l].pc \in AtWork, lane'[m].pc \in AtWork,
               lane'[l].job = lane'[m].job
        PROVE  l = m
    BY <1>1, <2>1, <2>3 DEF Inv, ClaimsHeld
  <2>4. QED
    BY <2>2, <2>3
<1>7. NoWakeUpLost'
  <2> SUFFICES ASSUME Orderly', NEW key \in unserved' \ swallowed'
               PROVE  \E j \in Ids' :
                        /\ jobs'[j].key = key
                        /\ \/ jobs'[j].status \in {"ready", "dead"}
                           \/ /\ jobs'[j].status = "running"
                              /\ ~ \E l \in Lanes : /\ lane'[l].pc = "working" /\ lane'[l].job = j
                                                    /\ ~ lane'[l].covers
    BY DEF NoWakeUpLost
  <2>1. key \in unserved \ swallowed
    BY DEF Counted
  <2>2. PICK j \in Ids :
          /\ jobs[j].key = key
          /\ \/ jobs[j].status \in {"ready", "dead"}
             \/ /\ jobs[j].status = "running"
                /\ ~ \E l \in Lanes : lane[l].pc = "working" /\ lane[l].job = j /\ ~ lane[l].covers
    BY <1>1, <2>1 DEF Inv, NoWakeUpLost
  <2>3. j \in Ids' /\ jobs'[j].key = key
    BY <2>2 DEF JobsStay
  <2>4. jobs'[j].status \in {"ready", "running", "dead"}
    BY <2>2 DEF WakeUpsStay
  <2>5. jobs'[j].status = "running" => jobs[j].status = "running"
    BY <2>2 DEF JobsStay
  <2>6. jobs[j].status = "running" =>
          ~ \E l \in Lanes : lane'[l].pc = "working" /\ lane'[l].job = j /\ ~ lane'[l].covers
    BY <2>2 DEF LanesGoOn
  <2>7. QED
    BY <2>3, <2>4, <2>5, <2>6
<1>8. QED
  BY <1>2, <1>3, <1>4, <1>5, <1>6, <1>7 DEF Inv

-------------------------------------------------------------------------------
(* What lanes do.                                                            *)

LEMMA BusyLane ==
  ASSUME TypeOK, NEW l \in Lanes
  PROVE  /\ lane[l].pc = "idle" => lane[l] = IdleLane
         /\ lane[l].pc # "idle" => lane[l] \in BusyLanes
  BY DEF TypeOK, LaneStates, IdleLane, BusyLanes

\* One lane moves.
LEMMA OneLane ==
  ASSUME TypeOK, NEW l \in Lanes, NEW s \in LaneStates, lane' = [lane EXCEPT ![l] = s]
  PROVE  /\ lane' \in [Lanes -> LaneStates]
         /\ lane'[l] = s /\ \A m \in Lanes : m # l => lane'[m] = lane[m]
  BY DEF TypeOK

LEMMA ClosingLane ==
  ASSUME TypeOK, NEW l \in Lanes, lane[l].pc # "idle", NEW o \in Outcomes, Closing(l, o)
  PROVE  /\ lane' \in [Lanes -> LaneStates]
         /\ lane'[l].pc = "closing" /\ lane'[l].job = lane[l].job
         /\ \A m \in Lanes : m # l => lane'[m] = lane[m]
<1> DEFINE s == [lane[l] EXCEPT !.pc = "closing", !.outcome = o]
<1>1. lane[l] \in BusyLanes
  BY BusyLane
<1>2. s \in BusyLanes /\ s.pc = "closing" /\ s.job = lane[l].job
  <2> DEFINE t == [lane[l] EXCEPT !.pc = "closing"]
  <2>1. t \in BusyLanes /\ t.pc = "closing" /\ t.job = lane[l].job
    BY <1>1 DEF BusyLanes
  <2> HIDE DEF t
  <2>2. [t EXCEPT !.outcome = o] \in BusyLanes
    BY <2>1 DEF BusyLanes
  <2>3. [t EXCEPT !.outcome = o].pc = "closing" /\ [t EXCEPT !.outcome = o].job = lane[l].job
    BY <2>1 DEF BusyLanes
  <2>4. s = [t EXCEPT !.outcome = o]
    BY DEF t
  <2>5. QED
    BY <2>2, <2>3, <2>4
<1>3. lane' = [lane EXCEPT ![l] = s]
  BY DEF Closing
<1> HIDE DEF s
<1>4. s \in LaneStates
  BY <1>2 DEF LaneStates
<1>5. QED
  BY <1>2, <1>3, <1>4, OneLane

LEMMA ThrownLane ==
  ASSUME TypeOK, NEW l \in Lanes, lane[l].pc # "idle", Thrown(l)
  PROVE  /\ lane' \in [Lanes -> LaneStates]
         /\ lane'[l].pc \in {"idle", "caught"}
         /\ lane'[l].pc = "caught" => lane'[l].job = lane[l].job /\ lane[l].guarded
         /\ \A m \in Lanes : m # l => lane'[m] = lane[m]
<1>1. lane[l] \in BusyLanes
  BY BusyLane
<1>2. CASE ~ lane[l].guarded
  <2>1. lane' = [lane EXCEPT ![l] = IdleLane]
    BY <1>2 DEF Thrown
  <2>2. QED
    BY <2>1, OneLane DEF LaneStates, IdleLane
<1>3. CASE lane[l].guarded
  <2> DEFINE s == [lane[l] EXCEPT !.pc = "caught", !.guarded = FALSE]
             t == [lane[l] EXCEPT !.pc = "caught"]
  <2>1. t \in BusyLanes /\ t.pc = "caught" /\ t.job = lane[l].job
    BY <1>1 DEF BusyLanes
  <2>2. s = [t EXCEPT !.guarded = FALSE]
    OBVIOUS
  <2>3. lane' = [lane EXCEPT ![l] = s]
    BY <1>3 DEF Thrown
  <2> HIDE DEF s, t
  <2>4. s \in BusyLanes /\ s.pc = "caught" /\ s.job = lane[l].job
    BY <2>1, <2>2 DEF BusyLanes
  <2>5. s \in LaneStates
    BY <2>4 DEF LaneStates
  <2>6. QED
    BY <1>3, <2>3, <2>4, <2>5, OneLane
<1>4. QED
  BY <1>2, <1>3

-------------------------------------------------------------------------------
(* Settling.                                                                 *)

\* What the other lanes and jobs see of a lane that leaves its job.
LEMMA LaneLeaves ==
  ASSUME Inv, NEW l \in Lanes, lane[l].pc \in AtWork, lane'[l].pc \in {"idle", "closing"},
         lane'[l].pc = "closing" => lane'[l].job = lane[l].job,
         \A m \in Lanes : m # l => lane'[m] = lane[m],
         Ids' = Ids, \A i \in Ids : i # lane[l].job => jobs'[i] = jobs[i],
         faults' = faults, circumstances' = circumstances
  PROVE  LanesGoOn /\ (Orderly' => ClaimsStay)
<1>1. LanesGoOn
  BY DEF LanesGoOn, AtWork
<1>2. ASSUME Orderly', NEW m \in Lanes, lane'[m].pc \in AtWork
      PROVE  /\ lane[m].pc \in AtWork
             /\ jobs'[lane[m].job].status = "running" /\ jobs'[lane[m].job].lease > 0
  <2>1. m # l /\ lane[m].pc \in AtWork
    BY <1>2 DEF AtWork
  <2>2. Orderly
    BY <1>2 DEF Orderly
  <2>3. HoldsClaim(m) /\ jobs[lane[m].job].lease > 0 /\ lane[m].job # lane[l].job
    BY <2>1, <2>2 DEF Inv, ClaimsHeld
  <2>4. jobs'[lane[m].job] = jobs[lane[m].job]
    BY <2>1, <2>3 DEF Inv, LanesHaveJobs, AtWork
  <2>5. QED
    BY <2>1, <2>3, <2>4 DEF HoldsClaim
<1>3. QED
  BY <1>1, <1>2 DEF ClaimsStay

\* A lane ends its job with status st: it serves the key, or the job stays to be run
\* or to be looked at.
LEMMA SettleInv ==
  ASSUME Inv, NEW l \in Lanes, lane[l].pc \in AtWork, NEW r \in JobRows, NEW o \in Outcomes,
         jobs' = [jobs EXCEPT ![lane[l].job] = r], Closing(l, o),
         r.status # "running", r.holder = NoWorker,
         r.key = jobs[lane[l].job].key, r.started <= r.attempts,
         unserved' \subseteq unserved,
         Orderly => \/ r.status \in {"ready", "dead"} \/ r.key \notin unserved'
                    \/ lane[l].pc = "working" /\ ~ lane[l].covers,
         UNCHANGED <<attemptLog, swallowed, crashes, faults, replays, circumstances>>
  PROVE  Inv'
<1> DEFINE j == lane[l].job
<1>1. TypeOK /\ j \in Ids
  BY DEF Inv, LanesHaveJobs, AtWork
<1>2. jobs' \in Seq(JobRows) /\ Ids' = Ids /\ \A i \in Ids : jobs'[i] = IF i = j THEN r ELSE jobs[i]
  BY <1>1, OneRow
<1>3. /\ lane' \in [Lanes -> LaneStates]
      /\ lane'[l].pc = "closing" /\ lane'[l].job = j
      /\ \A m \in Lanes : m # l => lane'[m] = lane[m]
  BY <1>1, ClosingLane DEF AtWork
<1> HIDE DEF j
<1>4. TypeOK'
  BY <1>1, <1>2, <1>3 DEF TypeOK
<1>5. JobsStay
  BY <1>1, <1>2 DEF JobsStay, j
<1>6. BudgetStays
  BY <1>1, <1>2 DEF BudgetStays, Inv, StartsAreAttempts
<1>7. LanesGoOn /\ (Orderly' => ClaimsStay)
  <2>1. \A i \in Ids : i # lane[l].job => jobs'[i] = jobs[i]
    BY <1>2 DEF j
  <2>2. QED
    BY <1>2, <1>3, <2>1, LaneLeaves DEF j
<1>8. Orderly' => WakeUpsStay
  <2> SUFFICES ASSUME Orderly PROVE WakeUpsStay
    BY DEF Orderly
  <2> SUFFICES ASSUME NEW i \in Ids, jobs[i].key \in unserved'
               PROVE  /\ jobs[i].status \in {"ready", "dead"} => jobs'[i].status \in {"ready", "dead"}
                      /\ jobs[i].status = "running" =>
                           \/ jobs'[i].status \in {"ready", "running", "dead"}
                           \/ \E m \in Lanes : lane[m].pc = "working" /\ lane[m].job = i /\ ~ lane[m].covers
    BY DEF WakeUpsStay
  <2>1. CASE i # j
    BY <1>2, <2>1
  <2>2. CASE i = j
    <3>1. jobs[j].status = "running"
      BY DEF Inv, ClaimsHeld, HoldsClaim, j
    <3>2. jobs'[j].status \in {"ready", "dead"} \/ (lane[l].pc = "working" /\ ~ lane[l].covers)
      BY <1>1, <1>2, <2>2 DEF j
    <3>3. QED
      BY <2>2, <3>1, <3>2 DEF j
  <2>3. QED
    BY <2>1, <2>2
<1>9. Counted
  BY <1>1 DEF Counted, TypeOK
<1>10. QED
  BY <1>4, <1>5, <1>6, <1>7, <1>8, <1>9, StepKeeps

\* Only one lane moves: it leaves its job, or falls into the catch of a run that has not
\* ended its job.
LEMMA LaneMoveInv ==
  ASSUME Inv, NEW l \in Lanes, lane[l].pc # "idle", lane' \in [Lanes -> LaneStates],
         lane'[l].pc \in {"idle", "caught", "closing"},
         lane'[l].pc # "idle" => lane'[l].job = lane[l].job,
         lane'[l].pc = "caught" => lane[l].pc \in AtWork \/ ~ Orderly',
         \A m \in Lanes : m # l => lane'[m] = lane[m],
         attemptLog' \in Seq(Seq(Outcomes)), DOMAIN attemptLog' = DOMAIN attemptLog,
         faults' \in 0..circumstances.faults, faults <= faults',
         UNCHANGED <<jobs, swallowed, unserved, crashes, replays, circumstances>>
  PROVE  Inv'
<1>1. TypeOK
  BY DEF Inv
<1>2. faults \in Nat /\ faults' \in Nat
  BY <1>1 DEF TypeOK
<1>3. TypeOK'
  BY <1>1 DEF TypeOK, Ids
<1>4. JobsStay
  BY DEF JobsStay, Ids
<1>5. BudgetStays
  BY DEF BudgetStays, Inv, StartsAreAttempts
<1>6. LanesGoOn
  BY DEF LanesGoOn
<1>7. Orderly' => Orderly
  BY <1>2 DEF Orderly
<1>8. Orderly' => ClaimsStay
  <2> SUFFICES ASSUME Orderly', NEW m \in Lanes, lane'[m].pc \in AtWork
               PROVE  /\ lane[m].pc \in AtWork
                      /\ jobs'[lane[m].job].status = "running" /\ jobs'[lane[m].job].lease > 0
    BY DEF ClaimsStay
  <2>1. lane[m].pc \in AtWork
    BY DEF AtWork
  <2>2. QED
    BY <1>7, <2>1 DEF Inv, ClaimsHeld, HoldsClaim
<1>9. WakeUpsStay
  BY DEF WakeUpsStay
<1>10. Counted
  BY <1>2 DEF Counted
<1>11. QED
  BY <1>3, <1>4, <1>5, <1>6, <1>8, <1>9, <1>10, StepKeeps

LEMMA SucceedInv == ASSUME Inv, NEW l \in Lanes, succeed(l) PROVE Inv'
<1> DEFINE j == lane[l].job
           r == Unclaimed(jobs[j], "succeeded")
<1>1. TypeOK /\ lane[l].pc = "working" /\ j \in Ids
  BY DEF succeed, Inv, LanesHaveJobs
<1>2. jobs[j] \in JobRows /\ jobs[j].started <= jobs[j].attempts
  BY <1>1, RowTypes DEF Inv, StartsAreAttempts
<1>3. r \in JobRows /\ r.status = "succeeded" /\ r.holder = NoWorker /\ r.key = jobs[j].key
      /\ r.started = jobs[j].started /\ r.attempts = jobs[j].attempts
  BY <1>2, UnclaimedRow DEF Statuses
<1>4. jobs' = [jobs EXCEPT ![j] = r] /\ Closing(l, "succeeded") /\ Serve(l)
      /\ UNCHANGED <<attemptLog, swallowed, crashes, faults, replays, circumstances>>
  BY DEF succeed
<1>5. unserved' \subseteq unserved /\ (r.key \notin unserved' \/ ~ lane[l].covers)
  BY <1>3, <1>4 DEF Serve
<1> HIDE DEF r
<1>6. QED
  BY <1>1, <1>2, <1>3, <1>4, <1>5, SettleInv DEF AtWork, Outcomes

LEMMA SupersedeInv == ASSUME Inv, NEW l \in Lanes, supersede(l) PROVE Inv'
<1> DEFINE j == lane[l].job
           r == IF jobs[j].status \in {"ready", "running"} THEN Unclaimed(jobs[j], "cancelled")
                ELSE jobs[j]
<1>1. TypeOK /\ lane[l].pc = "working" /\ j \in Ids
  BY DEF supersede, Inv, LanesHaveJobs
<1>2. jobs[j] \in JobRows /\ jobs[j].started <= jobs[j].attempts
      /\ (jobs[j].status # "running" => jobs[j].holder = NoWorker)
  BY <1>1, RowTypes DEF Inv, StartsAreAttempts, TypeOK
<1>3. /\ r \in JobRows /\ r.status # "running" /\ r.holder = NoWorker /\ r.key = jobs[j].key
      /\ r.started = jobs[j].started /\ r.attempts = jobs[j].attempts
  <2>1. CASE jobs[j].status \in {"ready", "running"}
    BY <1>2, <2>1, UnclaimedRow DEF Statuses
  <2>2. CASE jobs[j].status \notin {"ready", "running"}
    BY <1>2, <2>2
  <2>3. QED
    BY <2>1, <2>2
<1>4. /\ Closing(l, "superseded") /\ Serve(l)
      /\ UNCHANGED <<attemptLog, swallowed, crashes, faults, replays, circumstances>>
  BY DEF supersede
<1>5. jobs' = [jobs EXCEPT ![j] = r]
  <2>1. CASE jobs[j].status \in {"ready", "running"}
    BY <2>1 DEF supersede
  <2>2. CASE jobs[j].status \notin {"ready", "running"}
    <3>1. jobs' = jobs /\ r = jobs[j]
      BY <2>2 DEF supersede
    <3>2. [jobs EXCEPT ![j] = jobs[j]] = jobs
      BY <1>1, RowTypes
    <3>3. QED
      BY <3>1, <3>2
  <2>3. QED
    BY <2>1, <2>2
<1>6. unserved' \subseteq unserved /\ (r.key \notin unserved' \/ ~ lane[l].covers)
  BY <1>3, <1>4 DEF Serve
<1> HIDE DEF r
<1>7. QED
  BY <1>1, <1>2, <1>3, <1>4, <1>5, <1>6, SettleInv DEF AtWork, Outcomes

LEMMA FailInv ==
  ASSUME Inv, NEW l \in Lanes, NEW retryable \in BOOLEAN, NEW delay \in Delays,
         fail(l, retryable, delay)
  PROVE  Inv'
<1> DEFINE j == lane[l].job
           dead == Unclaimed(jobs[j], "dead")
           back == Unclaimed(jobs[j], "ready")
           ready == [back EXCEPT !.runIn = delay]
<1>1. TypeOK /\ lane[l].pc \in {"working", "caught"} /\ j \in Ids
  BY DEF fail, Inv, LanesHaveJobs
<1>2. jobs[j] \in JobRows /\ jobs[j].started <= jobs[j].attempts
  BY <1>1, RowTypes DEF Inv, StartsAreAttempts
<1>3. dead \in JobRows /\ dead.status = "dead" /\ dead.holder = NoWorker /\ dead.key = jobs[j].key
      /\ dead.started = jobs[j].started /\ dead.attempts = jobs[j].attempts
  BY <1>2, UnclaimedRow DEF Statuses
<1>4. back \in JobRows /\ back.status = "ready" /\ back.holder = NoWorker /\ back.key = jobs[j].key
      /\ back.started = jobs[j].started /\ back.attempts = jobs[j].attempts
  BY <1>2, UnclaimedRow DEF Statuses
<1>5. /\ UNCHANGED <<attemptLog, swallowed, unserved, crashes, faults, replays, circumstances>>
      /\ \/ jobs' = [jobs EXCEPT ![j] = dead] /\ Closing(l, "failed")
         \/ jobs' = [jobs EXCEPT ![j] = ready] /\ Closing(l, "failed")
         \/ Thrown(l) /\ UNCHANGED jobs
  BY DEF fail
<1> HIDE DEF dead, back
<1>6. ready \in JobRows /\ ready.status = "ready" /\ ready.holder = NoWorker /\ ready.key = jobs[j].key
      /\ ready.started = jobs[j].started /\ ready.attempts = jobs[j].attempts
  <2>1. delay \in Nat
    BY JobQueueConstants
  <2>2. QED
    BY <1>4, <2>1 DEF JobRows
<1> HIDE DEF ready
<1>7. CASE jobs' = [jobs EXCEPT ![j] = dead] /\ Closing(l, "failed")
  BY <1>1, <1>2, <1>3, <1>5, <1>7, SettleInv DEF AtWork, Outcomes
<1>8. CASE jobs' = [jobs EXCEPT ![j] = ready] /\ Closing(l, "failed")
  BY <1>1, <1>2, <1>5, <1>6, <1>8, SettleInv DEF AtWork, Outcomes
<1>9. CASE Thrown(l) /\ UNCHANGED jobs
  <2>1. lane[l].pc \in AtWork /\ lane[l].pc # "idle"
    BY <1>1 DEF AtWork
  <2>2. /\ lane' \in [Lanes -> LaneStates] /\ lane'[l].pc \in {"idle", "caught"}
        /\ lane'[l].pc = "caught" => lane'[l].job = lane[l].job
        /\ \A m \in Lanes : m # l => lane'[m] = lane[m]
    BY <1>1, <1>9, <2>1, ThrownLane
  <2>3. /\ attemptLog' \in Seq(Seq(Outcomes)) /\ DOMAIN attemptLog' = DOMAIN attemptLog
        /\ faults' \in 0..circumstances.faults /\ faults <= faults'
    BY <1>1, <1>5 DEF TypeOK
  <2>4. QED
    BY <1>5, <1>9, <2>1, <2>2, <2>3, LaneMoveInv
<1>10. QED
  BY <1>5, <1>7, <1>8, <1>9

\* The hand-back gives back an attempt that started no handler.
LEMMA ReleaseInv == ASSUME Inv, NEW l \in Lanes, release(l) PROVE Inv'
<1> DEFINE j == lane[l].job
           back == Unclaimed(jobs[j], "ready")
           r == [back EXCEPT !.attempts = Less(@)]
<1>1. TypeOK /\ lane[l].pc = "unhandled" /\ j \in Ids
  BY DEF release, Inv, LanesHaveJobs
<1>2. jobs[j] \in JobRows
  BY <1>1, RowTypes
<1>3. back \in JobRows /\ back.status = "ready" /\ back.holder = NoWorker /\ back.key = jobs[j].key
      /\ back.started = jobs[j].started /\ back.attempts = jobs[j].attempts
  BY <1>2, UnclaimedRow DEF Statuses
<1>4. /\ UNCHANGED <<attemptLog, swallowed, unserved, crashes, faults, replays, circumstances>>
      /\ \/ ~ HoldsClaim(l) /\ Closing(l, "reclaimed") /\ UNCHANGED jobs
         \/ Thrown(l) /\ UNCHANGED jobs
         \/ HoldsClaim(l) /\ jobs' = [jobs EXCEPT ![j] = r] /\ Closing(l, "reclaimed")
  BY DEF release
<1>5. /\ attemptLog' \in Seq(Seq(Outcomes)) /\ DOMAIN attemptLog' = DOMAIN attemptLog
      /\ faults' \in 0..circumstances.faults /\ faults <= faults'
  BY <1>1, <1>4 DEF TypeOK
<1>6. CASE Closing(l, "reclaimed") /\ UNCHANGED jobs
  <2>1. /\ lane' \in [Lanes -> LaneStates] /\ lane'[l].pc = "closing" /\ lane'[l].job = j
        /\ \A m \in Lanes : m # l => lane'[m] = lane[m]
    BY <1>1, <1>6, ClosingLane DEF Outcomes
  <2>2. QED
    BY <1>1, <1>4, <1>5, <1>6, <2>1, LaneMoveInv
<1>7. CASE Thrown(l) /\ UNCHANGED jobs
  <2>1. /\ lane' \in [Lanes -> LaneStates] /\ lane'[l].pc \in {"idle", "caught"}
        /\ lane'[l].pc = "caught" => lane'[l].job = lane[l].job
        /\ \A m \in Lanes : m # l => lane'[m] = lane[m]
    BY <1>1, <1>7, ThrownLane
  <2>2. QED
    BY <1>1, <1>4, <1>5, <1>7, <2>1, LaneMoveInv DEF AtWork
<1>8. CASE HoldsClaim(l) /\ jobs' = [jobs EXCEPT ![j] = r] /\ Closing(l, "reclaimed")
  <2>1. jobs[j].started < jobs[j].attempts
    BY <1>1, <1>8 DEF Inv, StartsAreAttempts, UnhandledHasNoHandler, HoldsClaim
  <2>2. jobs[j].started \in Nat /\ jobs[j].attempts \in 0..MaxAttempts /\ MaxAttempts \in Nat
    BY <1>2, JobQueueConstants DEF JobRows
  <2>3. Less(jobs[j].attempts) \in 0..MaxAttempts /\ jobs[j].started <= Less(jobs[j].attempts)
    BY <2>1, <2>2 DEF Less
  <2> HIDE DEF back
  <2>4. /\ r \in JobRows /\ r.status = "ready" /\ r.holder = NoWorker /\ r.key = jobs[j].key
        /\ r.started <= r.attempts
    BY <1>3, <2>3 DEF JobRows
  <2> HIDE DEF r
  <2>5. lane[l].pc \in AtWork /\ "reclaimed" \in Outcomes
    BY <1>1 DEF AtWork, Outcomes
  <2>6. QED
    BY <1>4, <1>8, <2>4, <2>5, SettleInv
<1>9. QED
  BY <1>4, <1>6, <1>7, <1>8

LEMMA CloseAttemptInv == ASSUME Inv, NEW l \in Lanes, CloseAttempt(l) PROVE Inv'
<1> DEFINE j == lane[l].job
           log == [attemptLog[j] EXCEPT ![lane[l].attempt] = lane[l].outcome]
<1>1. TypeOK /\ lane[l].pc = "closing" /\ j \in Ids
  BY DEF CloseAttempt, Inv, LanesHaveJobs
<1>2. lane[l].outcome \in Outcomes
  BY <1>1, BusyLane DEF BusyLanes
<1>3. log \in Seq(Outcomes)
  <2>1. attemptLog[j] \in Seq(Outcomes)
    BY <1>1, RowTypes
  <2>2. CASE lane[l].attempt \in 1..Len(attemptLog[j])
    BY <1>2, <2>1, <2>2, ExceptSeq
  <2>3. CASE lane[l].attempt \notin 1..Len(attemptLog[j])
    <3>1. lane[l].attempt \notin DOMAIN attemptLog[j]
      BY <2>1, <2>3
    <3>2. log = attemptLog[j]
      BY <2>1, <3>1
    <3>3. QED
      BY <2>1, <3>2
  <2>4. QED
    BY <2>2, <2>3
<1>4. attemptLog' \in Seq(Seq(Outcomes)) /\ DOMAIN attemptLog' = DOMAIN attemptLog
  <2>1. attemptLog' = [attemptLog EXCEPT ![j] = log]
    BY DEF CloseAttempt
  <2>2. attemptLog \in Seq(Seq(Outcomes)) /\ j \in 1..Len(attemptLog)
    BY <1>1, RowTypes
  <2> HIDE DEF log
  <2>3. QED
    BY <1>3, <2>1, <2>2, ExceptSeq
<1>5. lane' \in [Lanes -> LaneStates] /\ lane'[l].pc = "idle"
      /\ \A m \in Lanes : m # l => lane'[m] = lane[m]
  <2>1. IdleLane \in LaneStates /\ IdleLane.pc = "idle"
    BY DEF LaneStates, IdleLane
  <2>2. QED
    BY <1>1, <2>1, OneLane DEF CloseAttempt
<1>6. faults' \in 0..circumstances.faults /\ faults <= faults'
      /\ UNCHANGED <<jobs, swallowed, unserved, crashes, replays, circumstances>>
  BY <1>1 DEF CloseAttempt, TypeOK
<1>7. QED
  BY <1>1, <1>4, <1>5, <1>6, LaneMoveInv

\* From here on settlements are not whole.
LEMMA CloseFailsInv == ASSUME Inv, NEW l \in Lanes, CloseFails(l) PROVE Inv'
<1>1. TypeOK /\ lane[l].pc = "closing" /\ Thrown(l)
      /\ UNCHANGED <<jobs, attemptLog, swallowed, unserved, crashes, replays, circumstances>>
  BY DEF CloseFails, Inv
<1>2. /\ lane' \in [Lanes -> LaneStates] /\ lane'[l].pc \in {"idle", "caught"}
      /\ lane'[l].pc = "caught" => lane'[l].job = lane[l].job
      /\ \A m \in Lanes : m # l => lane'[m] = lane[m]
  BY <1>1, ThrownLane
<1>3. circumstances.faults \in Nat
  BY <1>1, JobQueueConstants DEF TypeOK
<1>4. faults' \in 0..circumstances.faults /\ faults <= faults' /\ faults' # 0
  BY <1>1, <1>3 DEF CloseFails, TypeOK
<1>5. ~ Orderly'
  BY <1>4 DEF Orderly
<1>6. attemptLog' \in Seq(Seq(Outcomes)) /\ DOMAIN attemptLog' = DOMAIN attemptLog
  BY <1>1 DEF TypeOK
<1>7. QED
  BY <1>1, <1>2, <1>4, <1>5, <1>6, LaneMoveInv

LEMMA CrashInv == ASSUME Inv, NEW w \in Workers, Crash(w) PROVE Inv'
<1>1. TypeOK /\ UNCHANGED <<jobs, attemptLog, swallowed, unserved, faults, replays, circumstances>>
  BY DEF Crash, Inv
<1>2. /\ lane' \in [Lanes -> LaneStates]
      /\ \A l \in Lanes : lane'[l].pc = "idle" \/ lane'[l] = lane[l]
  BY <1>1 DEF Crash, TypeOK, LaneStates, IdleLane
<1>3. crashes' \in 0..circumstances'.crashes
  <2>1. circumstances.crashes \in Nat
    BY <1>1, JobQueueConstants DEF TypeOK
  <2>2. QED
    BY <1>1, <2>1 DEF Crash, TypeOK
<1>4. TypeOK'
  BY <1>1, <1>2, <1>3 DEF TypeOK, Ids
<1>5. JobsStay /\ WakeUpsStay
  BY <1>1 DEF JobsStay, WakeUpsStay, Ids
<1>6. BudgetStays
  BY <1>1 DEF BudgetStays, Inv, StartsAreAttempts
<1>7. LanesGoOn
  BY <1>2 DEF LanesGoOn
<1>8. Orderly' => ClaimsStay
  BY <1>1, <1>2 DEF Orderly, ClaimsStay, Inv, ClaimsHeld, HoldsClaim, AtWork
<1>9. Counted
  BY <1>1 DEF Counted, TypeOK
<1>10. QED
  BY <1>4, <1>5, <1>6, <1>7, <1>8, <1>9, StepKeeps

-------------------------------------------------------------------------------
(* Heartbeats, sweeps, operators and time: only rows change.                 *)

LEMMA RowsMoveInv ==
  ASSUME Inv, jobs' \in Seq(JobRows), Ids' = Ids,
         \A i \in Ids : /\ jobs'[i].key = jobs[i].key
                        /\ (jobs'[i].status = "running") = (jobs'[i].holder # NoWorker)
                        /\ jobs'[i].started <= jobs'[i].attempts
                        /\ jobs'[i].status = "running" =>
                             /\ jobs[i].status = "running" /\ jobs'[i].holder = jobs[i].holder
                             /\ jobs'[i].started = jobs[i].started
                             /\ jobs'[i].attempts = jobs[i].attempts
                        /\ jobs[i].status = "running" =>
                             jobs'[i].status \in {"ready", "running", "dead"}
                        /\ jobs[i].status \in {"ready", "dead"} =>
                             jobs'[i].status \in {"ready", "dead"},
         Orderly => \A l \in Lanes : lane[l].pc \in AtWork =>
           jobs'[lane[l].job].status = "running" /\ jobs'[lane[l].job].lease > 0,
         lane' \in [Lanes -> LaneStates],
         \A l \in Lanes : lane'[l].pc = lane[l].pc
                          /\ (lane[l].pc # "idle" => lane'[l].job = lane[l].job
                                                     /\ lane'[l].covers = lane[l].covers),
         attemptLog' \in Seq(Seq(Outcomes)), DOMAIN attemptLog' = DOMAIN attemptLog,
         replays' \in 0..circumstances.replays,
         UNCHANGED <<swallowed, unserved, crashes, faults, circumstances>>
  PROVE  Inv'
<1>1. TypeOK
  BY DEF Inv
<1>2. TypeOK'
  BY <1>1 DEF TypeOK
<1>3. JobsStay /\ BudgetStays /\ WakeUpsStay
  BY DEF JobsStay, BudgetStays, WakeUpsStay
<1>4. LanesGoOn
  BY DEF LanesGoOn
<1>5. Orderly' => ClaimsStay
  BY DEF Orderly, ClaimsStay
<1>6. Counted
  BY <1>1 DEF Counted, TypeOK
<1>7. QED
  BY <1>2, <1>3, <1>4, <1>5, <1>6, StepKeeps

\* What rows are before a step.
LEMMA RowFacts ==
  ASSUME Inv, NEW i \in Ids
  PROVE  /\ jobs[i] \in JobRows /\ jobs[i].started <= jobs[i].attempts
         /\ (jobs[i].status = "running") = (jobs[i].holder # NoWorker)
  BY RowTypes DEF Inv, TypeOK, StartsAreAttempts

\* A lane at work in an orderly deployment.
LEMMA ClaimFacts ==
  ASSUME Inv, Orderly, NEW l \in Lanes, lane[l].pc \in AtWork
  PROVE  /\ lane[l].job \in Ids /\ HoldsClaim(l)
         /\ jobs[lane[l].job].status = "running" /\ jobs[lane[l].job].lease > 0
  BY DEF Inv, LanesHaveJobs, ClaimsHeld, HoldsClaim, AtWork

LEMMA SameTypes ==
  ASSUME Inv
  PROVE  /\ attemptLog \in Seq(Seq(Outcomes)) /\ lane \in [Lanes -> LaneStates]
         /\ replays \in 0..circumstances.replays
  BY DEF Inv, TypeOK

LEMMA HeartbeatInv == ASSUME Inv, NEW l \in Lanes, heartbeat(l) PROVE Inv'
<1> DEFINE j == lane[l].job
           r == [jobs[j] EXCEPT !.lease = Lease]
<1>1. TypeOK /\ j \in Ids
  BY DEF heartbeat, Inv, LanesHaveJobs
<1>2. r \in JobRows /\ r.key = jobs[j].key /\ r.status = jobs[j].status /\ r.holder = jobs[j].holder
      /\ r.started = jobs[j].started /\ r.attempts = jobs[j].attempts /\ r.lease > 0
  BY <1>1, RowFacts, JobQueueConstants DEF JobRows
<1>3. jobs' = [jobs EXCEPT ![j] = r]
      /\ UNCHANGED <<attemptLog, lane, swallowed, unserved, crashes, faults, replays, circumstances>>
  BY DEF heartbeat
<1> HIDE DEF r, j
<1>4. jobs' \in Seq(JobRows) /\ Ids' = Ids /\ \A i \in Ids : jobs'[i] = IF i = j THEN r ELSE jobs[i]
  BY <1>1, <1>2, <1>3, OneRow
<1>5. \A i \in Ids : /\ jobs'[i].key = jobs[i].key /\ jobs'[i].status = jobs[i].status
                     /\ jobs'[i].holder = jobs[i].holder /\ jobs'[i].started = jobs[i].started
                     /\ jobs'[i].attempts = jobs[i].attempts
                     /\ (jobs[i].lease > 0 => jobs'[i].lease > 0)
  BY <1>2, <1>4
<1>6. Orderly => \A m \in Lanes : lane[m].pc \in AtWork =>
        jobs'[lane[m].job].status = "running" /\ jobs'[lane[m].job].lease > 0
  BY <1>5, ClaimFacts
<1>7. QED
  BY <1>3, <1>4, <1>5, <1>6, RowFacts, SameTypes, RowsMoveInv

\* No lane at work of an orderly deployment has a lapsed lease.
LEMMA ReclaimInv == ASSUME Inv, reclaimExpired PROVE Inv'
<1> DEFINE row(i) == Unclaimed(jobs[i], IF i \in Reopened THEN "ready" ELSE "dead")
           f == [i \in Ids |-> IF i \in Lapsed THEN row(i) ELSE jobs[i]]
<1>1. TypeOK
  BY DEF Inv
<1>2. ASSUME NEW i \in Ids
      PROVE  /\ row(i) \in JobRows /\ row(i).status \in {"ready", "dead"}
             /\ row(i).holder = NoWorker /\ row(i).key = jobs[i].key
             /\ row(i).started <= row(i).attempts
  <2>1. jobs[i] \in JobRows /\ jobs[i].started <= jobs[i].attempts
    BY RowFacts
  <2>2. CASE i \in Reopened
    BY <2>1, <2>2, UnclaimedRow DEF Statuses
  <2>3. CASE i \notin Reopened
    BY <2>1, <2>3, UnclaimedRow DEF Statuses
  <2>4. QED
    BY <2>2, <2>3
<1>3. jobs' = f /\ CloseOpenAttempts(Lapsed)
      /\ UNCHANGED <<lane, swallowed, unserved, crashes, faults, replays, circumstances>>
  BY DEF reclaimExpired
<1> HIDE DEF row
<1>4. f \in [Ids -> JobRows]
  BY <1>2, RowFacts
<1>5. jobs' \in Seq(JobRows) /\ Ids' = Ids
      /\ \A i \in Ids : jobs'[i] = IF i \in Lapsed THEN row(i) ELSE jobs[i]
  <2>1. \A i \in Ids : f[i] = IF i \in Lapsed THEN row(i) ELSE jobs[i]
    OBVIOUS
  <2> HIDE DEF f
  <2>2. QED
    BY <1>1, <1>3, <1>4, <2>1, AllRows
<1>6. attemptLog' \in Seq(Seq(Outcomes)) /\ DOMAIN attemptLog' = DOMAIN attemptLog
  <2> DEFINE log(j) == [a \in DOMAIN attemptLog[j] |->
                 IF j \in Lapsed /\ attemptLog[j][a] = "open" THEN "reclaimed" ELSE attemptLog[j][a]]
  <2>1. ASSUME NEW j \in Ids PROVE log(j) \in Seq(Outcomes)
    <3>1. attemptLog[j] \in Seq(Outcomes)
      BY <1>1, RowTypes
    <3>2. DOMAIN attemptLog[j] = 1..Len(attemptLog[j]) /\ Len(attemptLog[j]) \in Nat
          /\ \A a \in DOMAIN attemptLog[j] : attemptLog[j][a] \in Outcomes
      BY <3>1
    <3>3. log(j) \in [1..Len(attemptLog[j]) -> Outcomes]
      BY <3>2 DEF Outcomes
    <3> HIDE DEF log
    <3>4. QED
      BY <3>2, <3>3, SeqDef
  <2>2. attemptLog' = [j \in Ids |-> log(j)]
    BY <1>3 DEF CloseOpenAttempts
  <2> HIDE DEF log
  <2>3. attemptLog' \in [Ids -> Seq(Outcomes)] /\ Ids = 1..Len(jobs) /\ Len(jobs) \in Nat
    BY <1>1, <2>1, <2>2, RowTypes
  <2>4. attemptLog' \in Seq(Seq(Outcomes))
    BY <2>3, SeqDef
  <2>5. QED
    BY <1>1, <2>3, <2>4 DEF TypeOK
<1>7. \A i \in Ids : i \notin Lapsed => jobs'[i] = jobs[i]
  BY <1>5
<1>8. \A i \in Ids : i \in Lapsed => /\ jobs[i].status = "running" /\ jobs[i].lease = 0
                                     /\ jobs'[i].key = jobs[i].key /\ jobs'[i].holder = NoWorker
                                     /\ jobs'[i].status \in {"ready", "dead"}
                                     /\ jobs'[i].started <= jobs'[i].attempts
  BY <1>2, <1>5 DEF Lapsed
<1>9. Orderly => \A m \in Lanes : lane[m].pc \in AtWork =>
        jobs'[lane[m].job].status = "running" /\ jobs'[lane[m].job].lease > 0
  <2> SUFFICES ASSUME Orderly, NEW m \in Lanes, lane[m].pc \in AtWork
               PROVE  jobs'[lane[m].job].status = "running" /\ jobs'[lane[m].job].lease > 0
    OBVIOUS
  <2>1. lane[m].job \in Ids /\ jobs[lane[m].job].status = "running" /\ jobs[lane[m].job].lease > 0
    BY ClaimFacts
  <2>2. QED
    BY <1>7, <1>8, <2>1
<1> HIDE DEF f
<1>10. \A i \in Ids : /\ jobs'[i].key = jobs[i].key
                      /\ (jobs'[i].status = "running") = (jobs'[i].holder # NoWorker)
                      /\ jobs'[i].started <= jobs'[i].attempts
                      /\ jobs'[i].status = "running" => jobs'[i] = jobs[i]
                      /\ jobs'[i].status # jobs[i].status => jobs'[i].status \in {"ready", "dead"}
  BY <1>7, <1>8, RowFacts
<1>11. QED
  BY <1>3, <1>5, <1>6, <1>9, <1>10, SameTypes, RowsMoveInv

LEMMA ExpireInv == ASSUME Inv, expireOverdue PROVE Inv'
<1> DEFINE row(i) == [jobs[i] EXCEPT !.status = "dead"]
           f == [i \in Ids |-> IF i \in Overdue THEN row(i) ELSE jobs[i]]
<1>1. TypeOK
  BY DEF Inv
<1>2. ASSUME NEW i \in Ids
      PROVE  /\ row(i) \in JobRows /\ row(i).status = "dead" /\ row(i).key = jobs[i].key
             /\ row(i).holder = jobs[i].holder
             /\ row(i).started = jobs[i].started /\ row(i).attempts = jobs[i].attempts
  BY RowFacts DEF JobRows, Statuses
<1>3. jobs' = f
      /\ UNCHANGED <<attemptLog, lane, swallowed, unserved, crashes, faults, replays, circumstances>>
  BY DEF expireOverdue
<1> HIDE DEF row
<1>4. f \in [Ids -> JobRows]
  BY <1>2, RowFacts
<1>5. \A i \in Ids : f[i] = IF i \in Overdue THEN row(i) ELSE jobs[i]
  OBVIOUS
<1> HIDE DEF f
<1>6. jobs' \in Seq(JobRows) /\ Ids' = Ids
      /\ \A i \in Ids : jobs'[i] = IF i \in Overdue THEN row(i) ELSE jobs[i]
  BY <1>1, <1>3, <1>4, <1>5, AllRows
<1>7. \A i \in Ids : i \in Overdue => jobs[i].status = "ready" /\ jobs[i].holder = NoWorker
  BY RowFacts DEF Overdue
<1>8. \A i \in Ids : /\ jobs'[i].key = jobs[i].key
                     /\ (jobs'[i].status = "running") = (jobs'[i].holder # NoWorker)
                     /\ jobs'[i].started <= jobs'[i].attempts
                     /\ jobs'[i].status = "running" => jobs'[i] = jobs[i]
                     /\ jobs[i].status = "running" => jobs'[i] = jobs[i]
                     /\ jobs'[i].status # jobs[i].status => jobs'[i].status = "dead"
  BY <1>2, <1>6, <1>7, RowFacts
<1>9. Orderly => \A m \in Lanes : lane[m].pc \in AtWork =>
        jobs'[lane[m].job].status = "running" /\ jobs'[lane[m].job].lease > 0
  BY <1>8, ClaimFacts
<1>10. QED
  BY <1>3, <1>6, <1>8, <1>9, SameTypes, RowsMoveInv

LEMMA ReplayInv == ASSUME Inv, NEW j \in Ids, replay(j) PROVE Inv'
<1> DEFINE r == [jobs[j] EXCEPT !.status = "ready", !.attempts = 0, !.started = 0,
                                !.runIn = 0, !.window = Window]
<1>1. TypeOK /\ jobs[j] \in JobRows /\ jobs[j].status = "dead" /\ jobs[j].holder = NoWorker
  BY RowFacts DEF Inv, replay
<1>2. r \in JobRows /\ r.status = "ready" /\ r.key = jobs[j].key /\ r.holder = jobs[j].holder
      /\ r.started = 0 /\ r.attempts = 0
  <2> DEFINE a == [jobs[j] EXCEPT !.status = "ready"]
             b == [a EXCEPT !.attempts = 0]
             c == [b EXCEPT !.started = 0]
             d == [c EXCEPT !.runIn = 0]
  <2>1. 0 \in 0..MaxAttempts /\ Window \in Nat
    BY JobQueueConstants
  <2>2. a \in JobRows /\ a.status = "ready" /\ a.key = jobs[j].key /\ a.holder = jobs[j].holder
    BY <1>1 DEF JobRows, Statuses
  <2>3. r = [d EXCEPT !.window = Window]
    OBVIOUS
  <2> HIDE DEF r, a
  <2>4. b \in JobRows /\ b.status = "ready" /\ b.key = jobs[j].key /\ b.holder = jobs[j].holder
        /\ b.attempts = 0
    BY <2>1, <2>2 DEF JobRows
  <2> HIDE DEF b
  <2>5. c \in JobRows /\ c.status = "ready" /\ c.key = jobs[j].key /\ c.holder = jobs[j].holder
        /\ c.attempts = 0 /\ c.started = 0
    BY <2>4 DEF JobRows
  <2> HIDE DEF c
  <2>6. d \in JobRows /\ d.status = "ready" /\ d.key = jobs[j].key /\ d.holder = jobs[j].holder
        /\ d.attempts = 0 /\ d.started = 0
    BY <2>5 DEF JobRows
  <2> HIDE DEF d
  <2>7. QED
    BY <2>1, <2>3, <2>6 DEF JobRows
<1>3. jobs' = [jobs EXCEPT ![j] = r] /\ replays < circumstances.replays /\ replays' = replays + 1
      /\ UNCHANGED <<attemptLog, lane, swallowed, unserved, crashes, faults, circumstances>>
  BY DEF replay
<1> HIDE DEF r
<1>4. jobs' \in Seq(JobRows) /\ Ids' = Ids /\ \A i \in Ids : jobs'[i] = IF i = j THEN r ELSE jobs[i]
  BY <1>1, <1>2, <1>3, OneRow
<1>5. replays' \in 0..circumstances.replays
  <2>1. circumstances.replays \in Nat
    BY <1>1, JobQueueConstants DEF TypeOK
  <2>2. QED
    BY <1>3, <2>1, SameTypes
<1>6. \A i \in Ids : /\ jobs'[i].key = jobs[i].key
                     /\ (jobs'[i].status = "running") = (jobs'[i].holder # NoWorker)
                     /\ jobs'[i].started <= jobs'[i].attempts
                     /\ jobs'[i].status = "running" => jobs'[i] = jobs[i]
                     /\ jobs[i].status = "running" => jobs'[i] = jobs[i]
                     /\ jobs'[i].status # jobs[i].status => jobs'[i].status = "ready"
  BY <1>1, <1>2, <1>4, RowFacts
<1>7. Orderly => \A m \in Lanes : lane[m].pc \in AtWork =>
        jobs'[lane[m].job].status = "running" /\ jobs'[lane[m].job].lease > 0
  BY <1>6, ClaimFacts
<1>8. QED
  BY <1>3, <1>4, <1>5, <1>6, <1>7, SameTypes, RowsMoveInv

\* Time passes, and no renewed lease lapses.
LEMMA TickInv == ASSUME Inv, Tick PROVE Inv'
<1> DEFINE row(i) == [jobs[i] EXCEPT !.runIn = Less(@), !.window = Less(@), !.lease = Less(@)]
           f == [i \in Ids |-> row(i)]
<1>1. TypeOK
  BY DEF Inv
<1>2. ASSUME NEW i \in Ids
      PROVE  /\ row(i) \in JobRows /\ row(i).status = jobs[i].status /\ row(i).key = jobs[i].key
             /\ row(i).holder = jobs[i].holder
             /\ row(i).started = jobs[i].started /\ row(i).attempts = jobs[i].attempts
             /\ row(i).lease = Less(jobs[i].lease)
  <2> DEFINE a == [jobs[i] EXCEPT !.runIn = Less(@)]
             b == [a EXCEPT !.window = Less(@)]
  <2>1. jobs[i] \in JobRows
    BY RowFacts
  <2>2. \A n \in 0..Lease : Less(n) \in 0..Lease
    BY JobQueueConstants DEF Less
  <2>3. a \in JobRows /\ a.status = jobs[i].status /\ a.key = jobs[i].key /\ a.holder = jobs[i].holder
        /\ a.started = jobs[i].started /\ a.attempts = jobs[i].attempts /\ a.lease = jobs[i].lease
        /\ a.window = jobs[i].window
    BY <2>1, LessType DEF JobRows
  <2>4. row(i) = [b EXCEPT !.lease = Less(@)]
    BY <2>1 DEF JobRows
  <2> HIDE DEF a
  <2>5. b \in JobRows /\ b.status = jobs[i].status /\ b.key = jobs[i].key /\ b.holder = jobs[i].holder
        /\ b.started = jobs[i].started /\ b.attempts = jobs[i].attempts /\ b.lease = jobs[i].lease
    BY <2>3, LessType DEF JobRows
  <2> HIDE DEF b, row
  <2>6. QED
    BY <2>2, <2>4, <2>5 DEF JobRows
<1>3. jobs' = f /\ (circumstances.renewing => Renewed)
      /\ UNCHANGED <<attemptLog, swallowed, unserved, crashes, faults, replays, circumstances>>
  BY DEF Tick
<1> HIDE DEF row
<1>4. f \in [Ids -> JobRows] /\ \A i \in Ids : f[i] = row(i)
  BY <1>2
<1> HIDE DEF f
<1>5. jobs' \in Seq(JobRows) /\ Ids' = Ids /\ \A i \in Ids : jobs'[i] = row(i)
  BY <1>1, <1>3, <1>4, AllRows
<1>6. \A i \in Ids : /\ jobs'[i].key = jobs[i].key /\ jobs'[i].status = jobs[i].status
                     /\ jobs'[i].holder = jobs[i].holder
                     /\ jobs'[i].started = jobs[i].started /\ jobs'[i].attempts = jobs[i].attempts
                     /\ jobs'[i].lease = Less(jobs[i].lease)
  BY <1>2, <1>5
<1>7. ASSUME Orderly, NEW m \in Lanes, lane[m].pc \in AtWork
      PROVE  jobs'[lane[m].job].status = "running" /\ jobs'[lane[m].job].lease > 0
  <2>1. lane[m].job \in Ids /\ HoldsClaim(m) /\ jobs[lane[m].job].status = "running"
    BY <1>7, ClaimFacts
  <2>2. jobs[lane[m].job].lease > 1
    BY <1>3, <1>7, <2>1 DEF Orderly, Renewed, AtWork
  <2>3. jobs[lane[m].job].lease \in Nat
    BY <2>1, RowFacts, JobQueueConstants DEF JobRows
  <2>4. QED
    BY <1>6, <2>1, <2>2, <2>3 DEF Less
<1>8. /\ lane' \in [Lanes -> LaneStates]
      /\ \A l \in Lanes : lane'[l].pc = lane[l].pc
                          /\ (lane[l].pc # "idle" => lane'[l].job = lane[l].job
                                                     /\ lane'[l].covers = lane[l].covers)
  <2> DEFINE s(l) == [lane[l] EXCEPT !.window = Less(@)]
  <2>1. lane' = [l \in Lanes |-> IF lane[l].pc = "idle" THEN IdleLane ELSE s(l)]
    BY DEF Tick
  <2>2. ASSUME NEW l \in Lanes, lane[l].pc # "idle"
        PROVE  s(l) \in BusyLanes /\ s(l).pc = lane[l].pc /\ s(l).job = lane[l].job
               /\ s(l).covers = lane[l].covers
    BY <1>1, <2>2, BusyLane, LessType DEF BusyLanes
  <2> HIDE DEF s
  <2>3. QED
    BY <2>1, <2>2 DEF LaneStates, IdleLane
<1>9. QED
  BY <1>3, <1>5, <1>6, <1>7, <1>8, RowFacts, SameTypes, RowsMoveInv

-------------------------------------------------------------------------------
(* Enqueuing and claiming.                                                   *)

LEMMA NewJobType ==
  ASSUME NEW key \in Keys, NEW deduped \in BOOLEAN
  PROVE  /\ NewJob(key, deduped) \in JobRows /\ NewJob(key, deduped).status = "ready"
         /\ NewJob(key, deduped).key = key /\ NewJob(key, deduped).holder = NoWorker
         /\ NewJob(key, deduped).started = 0 /\ NewJob(key, deduped).attempts = 0
<1>1. Window \in Nat /\ 0 \in 0..Lease /\ 0 \in 0..MaxAttempts
  BY JobQueueConstants
<1>2. QED
  BY <1>1 DEF NewJob, JobRows, Statuses

\* A wake-up for key is recorded, with a new job or relying on a pending one: whatever
\* is uncovered and not about to be looked up has a job that is ready.
LEMMA WakeUpInv ==
  ASSUME Inv, NEW key \in Keys,
         \/ UNCHANGED <<jobs, attemptLog>>
         \/ \E deduped \in BOOLEAN : Insert(NewJob(key, deduped)),
         lane' \in [Lanes -> LaneStates],
         \A l \in Lanes : /\ lane'[l].pc = lane[l].pc
                          /\ lane[l].pc # "idle" => lane'[l].job = lane[l].job
                          /\ lane[l].pc = "working" =>
                               lane'[l].covers = lane[l].covers \/ jobs[lane[l].job].key = key,
         swallowed' \subseteq DedupedKeys, unserved' \subseteq Keys,
         \A k \in unserved' \ swallowed' : k # key => k \in unserved \ swallowed,
         key \in unserved' \ swallowed' =>
           \E j \in Ids' : jobs'[j].key = key /\ jobs'[j].status = "ready",
         UNCHANGED <<crashes, faults, replays, circumstances>>
  PROVE  Inv'
<1>1. TypeOK
  BY DEF Inv
<1>2. /\ jobs' \in Seq(JobRows) /\ attemptLog' \in Seq(Seq(Outcomes)) /\ DOMAIN attemptLog' = Ids'
      /\ Ids \subseteq Ids' /\ \A i \in Ids : jobs'[i] = jobs[i]
      /\ \A i \in Ids' \ Ids : /\ jobs'[i].status = "ready" /\ jobs'[i].holder = NoWorker
                               /\ jobs'[i].started = 0 /\ jobs'[i].attempts = 0
  <2>1. CASE UNCHANGED <<jobs, attemptLog>>
    BY <1>1, <2>1 DEF TypeOK, Ids
  <2>2. CASE \E deduped \in BOOLEAN : Insert(NewJob(key, deduped))
    <3>1. PICK deduped \in BOOLEAN : Insert(NewJob(key, deduped))
      BY <2>2
    <3> DEFINE r == NewJob(key, deduped)
    <3>2. r \in JobRows /\ r.status = "ready" /\ r.holder = NoWorker /\ r.started = 0 /\ r.attempts = 0
      BY NewJobType
    <3> HIDE DEF r
    <3>3. /\ jobs' \in Seq(JobRows)
          /\ attemptLog' \in Seq(Seq(Outcomes)) /\ DOMAIN attemptLog' = Ids'
          /\ \E n : n \notin Ids /\ Ids' = Ids \cup {n} /\ jobs'[n] = r
          /\ \A i \in Ids : jobs'[i] = jobs[i]
      BY <1>1, <3>1, <3>2, NewRow DEF r
    <3>4. QED
      BY <3>2, <3>3
  <2>3. QED
    BY <2>1, <2>2
<1>3. TypeOK'
  <2>1. \A j \in Ids' : (jobs'[j].status = "running") = (jobs'[j].holder # NoWorker)
    BY <1>1, <1>2 DEF TypeOK
  <2>2. QED
    BY <1>1, <1>2, <2>1 DEF TypeOK
<1>4. LanesHaveJobs'
  BY <1>2 DEF Inv, LanesHaveJobs
<1>5. StartsAreAttempts'
  <2> SUFFICES ASSUME NEW j \in Ids'
               PROVE  /\ jobs'[j].started <= jobs'[j].attempts
                      /\ jobs'[j].status = "running"
                           /\ jobs'[j].key \notin circumstances.handled[jobs'[j].holder] =>
                         jobs'[j].started < jobs'[j].attempts
    BY DEF StartsAreAttempts
  <2>1. CASE j \in Ids
    BY <1>2, <2>1 DEF Inv, StartsAreAttempts
  <2>2. CASE j \notin Ids
    BY <1>2, <2>2
  <2>3. QED
    BY <2>1, <2>2
<1>6. UnhandledHasNoHandler'
  BY <1>2 DEF Inv, UnhandledHasNoHandler, LanesHaveJobs
<1>7. OneRunning'
  <2>1. \A i \in Ids' : jobs'[i].status = "running" => i \in Ids /\ jobs'[i] = jobs[i]
    BY <1>2
  <2>2. QED
    BY <2>1 DEF Inv, OneRunning
<1>8. Orderly' => Orderly
  BY DEF Orderly
<1>9. ClaimsHeld'
  <2> SUFFICES ASSUME Orderly'
               PROVE  /\ \A l \in Lanes : lane'[l].pc \in AtWork =>
                           HoldsClaim(l)' /\ jobs'[lane'[l].job].lease > 0
                      /\ \A l, m \in Lanes : /\ lane'[l].pc \in AtWork /\ lane'[m].pc \in AtWork
                                             /\ lane'[l].job = lane'[m].job
                                             => l = m
    BY DEF ClaimsHeld
  <2>1. \A l \in Lanes : lane'[l].pc \in AtWork =>
          lane[l].pc \in AtWork /\ lane'[l].job = lane[l].job
    BY DEF AtWork
  <2>2. ASSUME NEW l \in Lanes, lane'[l].pc \in AtWork
        PROVE  HoldsClaim(l)' /\ jobs'[lane'[l].job].lease > 0
    <3>1. lane[l].job \in Ids /\ HoldsClaim(l) /\ jobs[lane[l].job].lease > 0
      BY <1>8, <2>1, <2>2, ClaimFacts
    <3>2. jobs'[lane'[l].job] = jobs[lane[l].job]
      BY <1>2, <2>1, <2>2, <3>1
    <3>3. QED
      BY <3>1, <3>2 DEF HoldsClaim
  <2>3. \A l, m \in Lanes :
          lane[l].pc \in AtWork /\ lane[m].pc \in AtWork /\ lane[l].job = lane[m].job => l = m
    BY <1>8 DEF Inv, ClaimsHeld
  <2>4. QED
    BY <2>1, <2>2, <2>3
<1>10. NoWakeUpLost'
  <2> SUFFICES ASSUME Orderly', NEW k \in unserved' \ swallowed'
               PROVE  \E j \in Ids' :
                        /\ jobs'[j].key = k
                        /\ \/ jobs'[j].status \in {"ready", "dead"}
                           \/ /\ jobs'[j].status = "running"
                              /\ ~ \E l \in Lanes : /\ lane'[l].pc = "working" /\ lane'[l].job = j
                                                    /\ ~ lane'[l].covers
    BY DEF NoWakeUpLost
  <2>1. CASE k = key
    BY <2>1
  <2>2. CASE k # key
    <3>1. PICK j \in Ids :
            /\ jobs[j].key = k
            /\ \/ jobs[j].status \in {"ready", "dead"}
               \/ /\ jobs[j].status = "running"
                  /\ ~ \E l \in Lanes : lane[l].pc = "working" /\ lane[l].job = j /\ ~ lane[l].covers
      BY <1>8, <2>2 DEF Inv, NoWakeUpLost
    <3>2. j \in Ids' /\ jobs'[j] = jobs[j]
      BY <1>2
    <3>3. \A l \in Lanes : lane'[l].pc = "working" /\ lane'[l].job = j =>
            lane[l].pc = "working" /\ lane[l].job = j /\ lane'[l].covers = lane[l].covers
      BY <2>2, <3>1
    <3>4. QED
      BY <3>1, <3>2, <3>3
  <2>3. QED
    BY <2>1, <2>2
<1>11. QED
  BY <1>3, <1>4, <1>5, <1>6, <1>7, <1>9, <1>10 DEF Inv

\* The new row of an insert is pending.
LEMMA InsertedIsReady ==
  ASSUME TypeOK, NEW key \in Keys, NEW deduped \in BOOLEAN, Insert(NewJob(key, deduped))
  PROVE  \E j \in Ids' : jobs'[j].key = key /\ jobs'[j].status = "ready"
<1> DEFINE r == NewJob(key, deduped)
<1>1. r \in JobRows /\ r.key = key /\ r.status = "ready"
  BY NewJobType
<1> HIDE DEF r
<1>2. \E n : n \notin Ids /\ Ids' = Ids \cup {n} /\ jobs'[n] = r
  BY <1>1, NewRow DEF r
<1>3. QED
  BY <1>1, <1>2

LEMMA EnqueueInv == ASSUME Inv, NEW key \in Keys, enqueue(key) PROVE Inv'
<1> DEFINE s(l) == [lane[l] EXCEPT !.covers = FALSE]
<1>1. TypeOK
  BY DEF Inv
<1>2. /\ lane' \in [Lanes -> LaneStates]
      /\ \A l \in Lanes : /\ lane'[l].pc = lane[l].pc
                          /\ lane[l].pc # "idle" => lane'[l].job = lane[l].job
                          /\ lane[l].pc = "working" =>
                               lane'[l].covers = lane[l].covers \/ jobs[lane[l].job].key = key
  <2>1. ASSUME NEW l \in Lanes, lane[l].pc = "working"
        PROVE  s(l) \in BusyLanes /\ s(l).pc = lane[l].pc /\ s(l).job = lane[l].job
    BY <1>1, <2>1, BusyLane DEF BusyLanes
  <2>2. lane' = [l \in Lanes |-> IF lane[l].pc = "working" /\ jobs[lane[l].job].key = key
                                 THEN s(l) ELSE lane[l]]
    BY DEF enqueue, WakeUp
  <2>3. \A l \in Lanes : lane[l] \in LaneStates
    BY <1>1 DEF TypeOK
  <2> HIDE DEF s
  <2>4. QED
    BY <2>1, <2>2, <2>3 DEF LaneStates
<1>3. unserved' = unserved \cup {key} /\ UNCHANGED <<crashes, faults, replays, circumstances>>
  BY DEF enqueue, WakeUp
<1>4. CASE key \in DedupedKeys /\ Pending(key) # {}
  <2>1. swallowed' = swallowed \cup {key} /\ UNCHANGED <<jobs, attemptLog>>
    BY <1>4 DEF enqueue
  <2>2. QED
    BY <1>1, <1>2, <1>3, <1>4, <2>1, WakeUpInv DEF TypeOK
<1>5. CASE ~ (key \in DedupedKeys /\ Pending(key) # {})
  <2>1. Insert(NewJob(key, key \in DedupedKeys)) /\ UNCHANGED swallowed
    BY <1>5 DEF enqueue
  <2> DEFINE isDeduped == key \in DedupedKeys
  <2>0. isDeduped \in BOOLEAN
    OBVIOUS
  <2>2. PICK deduped \in BOOLEAN : Insert(NewJob(key, deduped))
    BY Zenon, <2>1, <2>0
  <2>3. \E j \in Ids' : jobs'[j].key = key /\ jobs'[j].status = "ready"
    BY <1>1, <2>2, InsertedIsReady
  <2>4. QED
    BY <1>1, <1>2, <1>3, <2>1, <2>2, <2>3, WakeUpInv DEF TypeOK
<1>6. QED
  BY <1>4, <1>5

LEMMA LookUpInv == ASSUME Inv, NEW key \in Keys, LookUpWinner(key) PROVE Inv'
<1>1. TypeOK
  BY DEF Inv
<1>2. /\ swallowed' = swallowed \ {key}
      /\ UNCHANGED <<lane, unserved, crashes, faults, replays, circumstances>>
  BY DEF LookUpWinner
<1>3. CASE Pending(key) # {}
  <2>1. UNCHANGED <<jobs, attemptLog>>
    BY <1>3 DEF LookUpWinner
  <2>2. \E j \in Ids' : jobs'[j].key = key /\ jobs'[j].status = "ready"
    BY <1>3, <2>1 DEF Pending, Ids
  <2>3. QED
    BY <1>1, <1>2, <2>1, <2>2, WakeUpInv DEF TypeOK
<1>4. CASE Pending(key) = {}
  <2>1. Insert(NewJob(key, FALSE))
    BY <1>4 DEF LookUpWinner
  <2>2. \E j \in Ids' : jobs'[j].key = key /\ jobs'[j].status = "ready"
    BY <1>1, <2>1, InsertedIsReady
  <2>3. /\ lane' \in [Lanes -> LaneStates] /\ swallowed' \subseteq DedupedKeys
        /\ unserved' \subseteq Keys /\ \A k \in unserved' \ swallowed' : k # key => k \in unserved \ swallowed
    BY <1>1, <1>2 DEF TypeOK
  <2>4. \E deduped \in BOOLEAN : Insert(NewJob(key, deduped))
    BY <2>1
  <2>5. QED
    BY <1>2, <2>2, <2>3, <2>4, WakeUpInv
<1>5. QED
  BY <1>3, <1>4

LEMMA ClaimInv == ASSUME Inv, NEW l \in Lanes, NEW j \in Ids, claim(l, j) PROVE Inv'
<1> DEFINE handled == jobs[j].key \in circumstances.handled[WorkerOf[l]]
           r == [jobs[j] EXCEPT !.status = "running", !.attempts = @ + 1,
                                !.holder = WorkerOf[l], !.lease = Lease,
                                !.started = @ + IF handled THEN 1 ELSE 0]
           s == [pc |-> IF handled THEN "working" ELSE "unhandled", job |-> j,
                 attempt |-> Len(attemptLog[j]) + 1, attempts |-> jobs[j].attempts + 1,
                 window |-> jobs[j].window, covers |-> handled, outcome |-> "open",
                 guarded |-> handled]
<1>1. /\ TypeOK /\ lane[l].pc = "idle"
      /\ jobs[j] \in JobRows /\ jobs[j].started <= jobs[j].attempts
      /\ jobs[j].status = "ready" /\ jobs[j].attempts < MaxAttempts
      /\ \A i \in Ids : jobs[i].status = "running" => jobs[i].key # jobs[j].key
  BY RowFacts DEF claim, Claimable, Running, Inv
<1>2. /\ jobs' = [jobs EXCEPT ![j] = r]
      /\ attemptLog' = [attemptLog EXCEPT ![j] = Append(@, "open")]
      /\ lane' = [lane EXCEPT ![l] = s]
      /\ UNCHANGED <<swallowed, unserved, crashes, faults, replays, circumstances>>
  BY DEF claim
<1>3. WorkerOf[l] \in Workers /\ WorkerOf[l] # NoWorker
  BY JobQueueConstants
<1>4. handled \in BOOLEAN
  OBVIOUS
<1> HIDE DEF handled
<1>5. /\ r \in JobRows /\ r.status = "running" /\ r.key = jobs[j].key /\ r.holder = WorkerOf[l]
      /\ r.attempts = jobs[j].attempts + 1 /\ r.lease > 0
      /\ r.started = jobs[j].started + (IF handled THEN 1 ELSE 0)
  <2> DEFINE a == [jobs[j] EXCEPT !.status = "running"]
             b == [a EXCEPT !.attempts = @ + 1]
             c == [b EXCEPT !.holder = WorkerOf[l]]
             d == [c EXCEPT !.lease = Lease]
  <2>1. Lease \in 0..Lease /\ Lease > 0 /\ jobs[j].attempts + 1 \in 0..MaxAttempts
    BY <1>1, JobQueueConstants DEF JobRows
  <2>2. a \in JobRows /\ a.status = "running" /\ a.key = jobs[j].key
        /\ a.attempts = jobs[j].attempts /\ a.started = jobs[j].started
    BY <1>1 DEF JobRows, Statuses
  <2>3. r = [d EXCEPT !.started = @ + IF handled THEN 1 ELSE 0]
    BY <1>1 DEF JobRows
  <2> HIDE DEF r, a
  <2>4. b \in JobRows /\ b.status = "running" /\ b.key = jobs[j].key
        /\ b.attempts = jobs[j].attempts + 1 /\ b.started = jobs[j].started
    BY <2>1, <2>2 DEF JobRows
  <2> HIDE DEF b
  <2>5. c \in JobRows /\ c.status = "running" /\ c.key = jobs[j].key
        /\ c.attempts = jobs[j].attempts + 1 /\ c.started = jobs[j].started
        /\ c.holder = WorkerOf[l]
    BY <1>3, <2>4 DEF JobRows
  <2> HIDE DEF c
  <2>6. d \in JobRows /\ d.status = "running" /\ d.key = jobs[j].key
        /\ d.attempts = jobs[j].attempts + 1 /\ d.started = jobs[j].started
        /\ d.holder = WorkerOf[l] /\ d.lease > 0
    BY <2>1, <2>5 DEF JobRows
  <2> HIDE DEF d
  <2>7. QED
    BY <2>3, <2>6 DEF JobRows
<1>6. s \in LaneStates /\ s.pc \in {"unhandled", "working"} /\ s.job = j
      /\ (s.pc = "unhandled" => ~ handled) /\ (s.pc = "working" => handled /\ s.covers)
  <2>1. Ids = 1..Len(jobs) /\ Len(jobs) \in Nat /\ Len(attemptLog[j]) \in Nat
    BY <1>1, RowTypes
  <2>2. s \in BusyLanes
    BY <1>1, <1>4, <2>1, JobQueueConstants, SMTT(30) DEF BusyLanes, JobRows, Outcomes
  <2>3. QED
    BY <1>4, <2>2 DEF LaneStates
<1> HIDE DEF r, s
<1>7. jobs' \in Seq(JobRows) /\ Ids' = Ids /\ \A i \in Ids : jobs'[i] = IF i = j THEN r ELSE jobs[i]
  BY <1>1, <1>2, <1>5, OneRow
<1>8. /\ lane' \in [Lanes -> LaneStates] /\ lane'[l] = s
      /\ \A m \in Lanes : m # l => lane'[m] = lane[m]
  BY <1>1, <1>2, <1>6, OneLane
<1>9. attemptLog' \in Seq(Seq(Outcomes)) /\ DOMAIN attemptLog' = DOMAIN attemptLog
  <2>1. attemptLog \in Seq(Seq(Outcomes)) /\ j \in 1..Len(attemptLog) /\ attemptLog[j] \in Seq(Outcomes)
    BY <1>1, RowTypes
  <2>2. Append(attemptLog[j], "open") \in Seq(Outcomes)
    BY <2>1 DEF Outcomes
  <2>3. QED
    BY <1>2, <2>1, <2>2, ExceptSeq
<1>10. TypeOK'
  <2>1. \A i \in Ids' : (jobs'[i].status = "running") = (jobs'[i].holder # NoWorker)
    BY <1>3, <1>5, <1>7, RowFacts
  <2>2. QED
    BY <1>1, <1>2, <1>7, <1>8, <1>9, <2>1 DEF TypeOK
<1>11. LanesHaveJobs'
  BY <1>6, <1>7, <1>8 DEF Inv, LanesHaveJobs
<1>12. StartsAreAttempts'
  <2> SUFFICES ASSUME NEW i \in Ids
               PROVE  /\ jobs'[i].started <= jobs'[i].attempts
                      /\ jobs'[i].status = "running"
                           /\ jobs'[i].key \notin circumstances.handled[jobs'[i].holder] =>
                         jobs'[i].started < jobs'[i].attempts
    BY <1>2, <1>7 DEF StartsAreAttempts
  <2>1. CASE i # j
    BY <1>7, <2>1 DEF Inv, StartsAreAttempts
  <2>2. CASE i = j
    <3>1. jobs[j].started \in Nat /\ jobs[j].attempts \in Nat
      BY <1>1, JobQueueConstants DEF JobRows
    <3>2. handled => jobs[j].key \in circumstances.handled[WorkerOf[l]]
      BY DEF handled
    <3>3. QED
      BY <1>1, <1>5, <1>7, <2>2, <3>1, <3>2, SMTT(30)
  <2>3. QED
    BY <2>1, <2>2
<1>13. UnhandledHasNoHandler'
  <2> SUFFICES ASSUME NEW m \in Lanes, lane'[m].pc = "unhandled"
               PROVE  jobs'[lane'[m].job].key \notin circumstances.handled[WorkerOf[m]]
    BY <1>2 DEF UnhandledHasNoHandler
  <2>1. CASE m = l
    BY <1>5, <1>6, <1>7, <1>8, <2>1 DEF handled
  <2>2. CASE m # l
    <3>1. lane'[m] = lane[m] /\ lane[m].job \in Ids
      BY <1>8, <2>2 DEF Inv, LanesHaveJobs
    <3>2. jobs'[lane[m].job].key = jobs[lane[m].job].key
      BY <1>5, <1>7, <3>1
    <3>3. QED
      BY <3>1, <3>2 DEF Inv, UnhandledHasNoHandler
  <2>3. QED
    BY <2>1, <2>2
<1>14. OneRunning'
  BY <1>1, <1>5, <1>7 DEF Inv, OneRunning
<1>15. Orderly' => Orderly
  BY <1>2 DEF Orderly
<1>16. ASSUME Orderly, NEW m \in Lanes, m # l, lane[m].pc \in AtWork
       PROVE  lane'[m] = lane[m] /\ lane[m].job # j /\ HoldsClaim(m)' /\ jobs'[lane[m].job].lease > 0
  <2>1. lane[m].job \in Ids /\ HoldsClaim(m)
        /\ jobs[lane[m].job].status = "running" /\ jobs[lane[m].job].lease > 0
    BY <1>16, ClaimFacts
  <2>2. lane'[m] = lane[m] /\ lane[m].job # j
    BY <1>1, <1>8, <1>16, <2>1
  <2>3. jobs'[lane[m].job] = jobs[lane[m].job]
    BY <1>7, <2>1, <2>2
  <2>4. QED
    BY <2>1, <2>2, <2>3 DEF HoldsClaim
<1>17. ClaimsHeld'
  <2> SUFFICES ASSUME Orderly
               PROVE  /\ \A m \in Lanes : lane'[m].pc \in AtWork =>
                           HoldsClaim(m)' /\ jobs'[lane'[m].job].lease > 0
                      /\ \A m, n \in Lanes : /\ lane'[m].pc \in AtWork /\ lane'[n].pc \in AtWork
                                             /\ lane'[m].job = lane'[n].job
                                             => m = n
    BY <1>15 DEF ClaimsHeld
  <2>1. HoldsClaim(l)' /\ jobs'[lane'[l].job].lease > 0 /\ lane'[l].job = j
    BY <1>5, <1>6, <1>7, <1>8 DEF HoldsClaim
  <2>2. \A m \in Lanes : m # l => lane'[m] = lane[m]
    BY <1>8
  <2>3. \A m, n \in Lanes :
          lane[m].pc \in AtWork /\ lane[n].pc \in AtWork /\ lane[m].job = lane[n].job => m = n
    BY DEF Inv, ClaimsHeld
  <2>4. QED
    BY <1>16, <2>1, <2>2, <2>3
<1>18. NoWakeUpLost'
  <2> SUFFICES ASSUME Orderly, NEW key \in unserved \ swallowed
               PROVE  \E i \in Ids :
                        /\ jobs'[i].key = key
                        /\ \/ jobs'[i].status \in {"ready", "dead"}
                           \/ /\ jobs'[i].status = "running"
                              /\ ~ \E m \in Lanes : /\ lane'[m].pc = "working" /\ lane'[m].job = i
                                                    /\ ~ lane'[m].covers
    BY <1>2, <1>7, <1>15 DEF NoWakeUpLost
  <2>1. PICK i \in Ids :
          /\ jobs[i].key = key
          /\ \/ jobs[i].status \in {"ready", "dead"}
             \/ /\ jobs[i].status = "running"
                /\ ~ \E m \in Lanes : lane[m].pc = "working" /\ lane[m].job = i /\ ~ lane[m].covers
    BY DEF Inv, NoWakeUpLost
  <2>2. CASE i = j
    <3>1. \A m \in Lanes : lane'[m].pc = "working" /\ lane'[m].job = j => m = l
      BY <1>8, <1>16 DEF AtWork
    <3>2. lane'[l].pc = "working" => lane'[l].covers
      BY <1>6, <1>8
    <3>3. QED
      BY <1>5, <1>7, <2>1, <2>2, <3>1, <3>2
  <2>3. CASE i # j
    <3>1. jobs'[i] = jobs[i]
      BY <1>7, <2>3
    <3>2. \A m \in Lanes : lane'[m].pc = "working" /\ lane'[m].job = i => lane'[m] = lane[m]
      BY <1>6, <1>8, <2>3
    <3>3. QED
      BY <2>1, <3>1, <3>2
  <2>4. QED
    BY <2>2, <2>3
<1>19. QED
  BY <1>10, <1>11, <1>12, <1>13, <1>14, <1>17, <1>18 DEF Inv

-------------------------------------------------------------------------------
(* The theorems.                                                             *)

LEMMA InitInv == ASSUME Init PROVE Inv
<1>1. Ids = {}
  BY DEF Init, Ids
<1>2. TypeOK
  <2>1. jobs \in Seq(JobRows) /\ attemptLog \in Seq(Seq(Outcomes)) /\ DOMAIN attemptLog = Ids
    BY DEF Init, Ids
  <2>2. lane \in [Lanes -> LaneStates]
    BY DEF Init, LaneStates
  <2>3. circumstances \in Circumstances /\ circumstances.crashes \in Nat
        /\ circumstances.faults \in Nat /\ circumstances.replays \in Nat
    BY JobQueueConstants DEF Init
  <2>4. QED
    BY <1>1, <2>1, <2>2, <2>3 DEF Init, TypeOK
<1>3. LanesHaveJobs /\ UnhandledHasNoHandler /\ ClaimsHeld
  BY DEF Init, LanesHaveJobs, UnhandledHasNoHandler, ClaimsHeld, IdleLane, AtWork
<1>4. StartsAreAttempts /\ OneRunning
  BY <1>1 DEF StartsAreAttempts, OneRunning
<1>5. NoWakeUpLost
  BY DEF Init, NoWakeUpLost
<1>6. QED
  BY <1>2, <1>3, <1>4, <1>5 DEF Inv

LEMMA NextInv == ASSUME Inv, [Next]_vars PROVE Inv'
<1>1. CASE UNCHANGED vars
  <2>1. UNCHANGED <<jobs, attemptLog, lane, swallowed, unserved, crashes, faults, replays, circumstances>>
    BY <1>1 DEF vars
  <2>2. Ids' = Ids
    BY <2>1 DEF Ids
  <2>3. QED
    BY <2>1, <2>2, RowFacts, SameTypes, ClaimFacts, RowsMoveInv DEF Inv, TypeOK
<1>2. ASSUME NEW key \in Keys, enqueue(key) \/ LookUpWinner(key) PROVE Inv'
  BY <1>2, EnqueueInv, LookUpInv
<1>3. ASSUME NEW l \in Lanes, LaneStep(l) \/ heartbeat(l) \/ CloseFails(l) PROVE Inv'
  <2>1. ASSUME NEW j \in Ids, claim(l, j) PROVE Inv'
    BY <2>1, ClaimInv
  <2>2. ASSUME Settle(l) PROVE Inv'
    BY <2>2, SucceedInv, SupersedeInv, FailInv, ReleaseInv DEF Settle
  <2>3. QED
    BY <1>3, <2>1, <2>2, CloseAttemptInv, HeartbeatInv, CloseFailsInv DEF LaneStep
<1>4. ASSUME NEW w \in Workers, Crash(w) PROVE Inv'
  BY <1>4, CrashInv
<1>5. ASSUME NEW j \in Ids, replay(j) PROVE Inv'
  BY <1>5, ReplayInv
<1>6. CASE reclaimExpired \/ expireOverdue \/ Tick
  BY <1>6, ReclaimInv, ExpireInv, TickInv
<1>7. QED
  BY <1>1, <1>2, <1>3, <1>4, <1>5, <1>6 DEF Next

LEMMA Invariance == Spec => []Inv
<1>1. Inv /\ [Next]_vars => Inv'
  BY NextInv
<1>2. Init => Inv
  BY InitInv
<1>3. QED
  BY <1>1, <1>2, PTL DEF Spec

(* The columns of the tables keep their types, a running job has a holder    *)
(* and no other has (migration 0014's checks).                               *)
THEOREM TypeCorrect == Spec => []TypeOK
<1>1. Inv => TypeOK
  BY DEF Inv
<1>2. QED
  BY <1>1, Invariance, PTL

(* No two handlers work under one serialization key, while leases are        *)
(* renewed in time and settlements are whole, whatever crashes, sweeps,      *)
(* replays and hand-backs do (claim, fail, release, reclaimExpired).         *)
THEOREM RunAlone == Spec => []HandlersRunAlone
<1>1. ASSUME Inv PROVE HandlersRunAlone
  <2> SUFFICES ASSUME Orderly, NEW l \in Lanes, NEW m \in Lanes, l # m,
                      lane[l].pc = "working", lane[m].pc = "working"
               PROVE  jobs[lane[l].job].key # jobs[lane[m].job].key
    BY DEF HandlersRunAlone
  <2>1. /\ lane[l].job \in Ids /\ jobs[lane[l].job].status = "running"
        /\ lane[m].job \in Ids /\ jobs[lane[m].job].status = "running"
    BY <1>1, ClaimFacts DEF AtWork
  <2>2. lane[l].job # lane[m].job
    BY <1>1 DEF Inv, ClaimsHeld, AtWork
  <2>3. QED
    BY <1>1, <2>1, <2>2 DEF Inv, OneRunning
<1>2. Inv => HandlersRunAlone
  BY <1>1
<1>3. QED
  BY <1>2, Invariance, PTL

(* Coalescing loses no wake-up under the same conditions (enqueue with its   *)
(* two statements, and every way a run ends).                                *)
THEOREM WakeUpsStayCovered == Spec => []NoWakeUpLost
<1>1. Inv => NoWakeUpLost
  BY DEF Inv
<1>2. QED
  BY <1>1, Invariance, PTL

(* The retry budget holds in every deployment, also when leases lapse under  *)
(* workers that go on and settlements are cut in half.                       *)
THEOREM BudgetIsKept == Spec => []AttemptBudget
<1>1. ASSUME Inv PROVE AttemptBudget
  <2> SUFFICES ASSUME NEW j \in Ids PROVE jobs[j].started <= MaxAttempts
    BY DEF AttemptBudget
  <2>1. jobs[j] \in JobRows /\ jobs[j].started <= jobs[j].attempts
    BY <1>1, RowFacts
  <2>2. QED
    BY <2>1, JobQueueConstants DEF JobRows
<1>2. Inv => AttemptBudget
  BY <1>1
<1>3. QED
  BY <1>2, Invariance, PTL

===============================================================================
