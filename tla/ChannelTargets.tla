--------------------------- MODULE ChannelTargets ---------------------------
(* What one mapping should advertise, and the writes that carry it there.    *)
(*                                                                           *)
(* One row of channel_targets (sync/targets.ts), the write and verification  *)
(* jobs of its mapping (sync/dispatch.ts), the reconciliation that compares  *)
(* the row with the channel (sync/reconcile.ts) and the convergence samples  *)
(* that time each change (pilot/samples.ts).  The provider is external: a    *)
(* quantity and the opaque token its conditional writes compare.             *)
(*                                                                           *)
(* Mappings share nothing here, so one is enough.  The handlers run outside  *)
(* any transaction: every statement of theirs that another actor can observe *)
(* or disturb is a step of its own.  The job queue is reduced to what        *)
(* JobQueue.tla shows of it: any pending job may be next, a mapping's jobs   *)
(* run one at a time while leases are renewed, and a job whose worker dies   *)
(* or loses its lease is pending again.  What a worker that outlived its     *)
(* lease does to the job's own row when it settles it is JobQueue.tla's.     *)
EXTENDS Integers, FiniteSetsExt

CONSTANTS
    Quantities,      \* what a channel can advertise
    Workers,         \* lanes that execute the jobs of this mapping
    Conditional,     \* supportsOptimisticConcurrency of the adapter
    MaxVersion,      \* bound: target versions recorded
    MaxJobs,         \* bound: equal jobs pending before another is asked for
    Faults,          \* how a provider call can fail, besides a stale token
    Limit,           \* bound: how often each kind of disturbance happens
    MaxDisturbances  \* bound: how many of them happen together

\* What can come between the steps of a write: a provider call that fails, a
\* worker that dies, a lease lost by a worker that goes on, somebody else's
\* change on the channel, a change of what the mapping is permitted, and a
\* reconciliation.
Kinds == {"fault", "crash", "lapse", "edit", "switch", "pass"}

ASSUME BoundsAssumption ==
    /\ Quantities \subseteq Nat
    /\ Conditional \in BOOLEAN
    /\ Faults \subseteq {"unavailable", "unauthorized", "rejected"}
    /\ Limit \in [Kinds -> Nat]
    /\ {MaxVersion, MaxJobs, MaxDisturbances} \subseteq Nat

NoQuantity == -1                   \* a null quantity column
Versions == 1..MaxVersion          \* 0 stands for a null version

States == {"pending", "converged", "degraded", "blocked"}

\* 'permitted' folds resolveWriteTarget and the pilot gate: a paused or
\* ineligible mapping is refused, one outside the pilot stage is withheld.
Permissions == {"writable", "refused", "withheld"}

Jobs == [kind : {"write"}, version : Versions]
        \cup [kind : {"verify"}, version : {0}]

VARIABLES
    target,     \* the channel_targets row; version 0 while there is none
    samples,    \* version |-> convergence_samples.outcome, "none" if not open
    excluded,   \* versions whose sample carries an excluded_reason
    jobs,       \* job |-> how many of it are pending
    run,        \* worker |-> the handler it executes
    rec,        \* the reconciliation examining this mapping
    conflict,   \* an inventory_conflicts row of this mapping is open
    channel,    \* external: the provider's quantity and token; `by` is the
                \* newest version applied, `edited` that others changed it since
    permitted,
    reached,    \* the versions the provider has applied
    suffered    \* how often each kind of disturbance has happened

vars == <<target, samples, excluded, jobs, run, rec, conflict, channel,
          permitted, reached, suffered>>

Idle == [pc |-> "idle", job |-> [kind |-> "verify", version |-> 0],
         held |-> FALSE, version |-> 0, quantity |-> NoQuantity,
         token |-> 0, answer |-> "none"]

Resting == [pc |-> "idle", version |-> 0, desired |-> NoQuantity,
            written |-> NoQuantity, seen |-> NoQuantity, token |-> 0]

-----------------------------------------------------------------------------
(* The pending jobs of the mapping, all under the key mapping:<id>.          *)

Write(v) == [kind |-> "write", version |-> v]
Verify == [kind |-> "verify", version |-> 0]

Put(queue, job) == [queue EXCEPT ![job] = @ + 1]
Take(queue, job) == [queue EXCEPT ![job] = @ - 1]

enqueueChannelWrite(v) == jobs' = Put(jobs, Write(v))

Bearable == MapThenSumSet(LAMBDA k : suffered[k], Kinds) < MaxDisturbances

\* A disturbance, within the bounds.
Suffer(k) ==
    /\ Bearable
    /\ suffered[k] < Limit[k]
    /\ suffered' = [suffered EXCEPT ![k] = @ + 1]

\* Mutant: the serialization key is not looked at.
Claimable_IgnoresKey(w, job) ==
    /\ run[w] = Idle
    /\ jobs[job] > 0

\* The serialization key: no other worker holds an unlapsed claim.
Claimable(w, job) ==
    /\ run[w] = Idle
    /\ jobs[job] > 0
    /\ \A x \in Workers : ~run[x].held

\* The handler returns.  A worker that lost its lease has no job to give back.
Return(w) == run' = [run EXCEPT ![w] = Idle]

\* Mutant: the job is not given back.
Retried_Dropped(w) == jobs

Retried(w) == IF run[w].held THEN Put(jobs, run[w].job) ELSE jobs

-----------------------------------------------------------------------------
(* Convergence samples.  Each closes at most once.                           *)

openSample(v) ==
    samples' = IF samples[v] = "none"
               THEN [samples EXCEPT ![v] = "pending"] ELSE samples

Close(v, outcome) ==
    samples' = IF samples[v] = "pending"
               THEN [samples EXCEPT ![v] = outcome] ELSE samples

markConverged(v) == Close(v, "converged")
markSuperseded(v) == Close(v, "superseded")

excludeSample(v) ==
    excluded' = IF samples[v] = "none" THEN excluded ELSE excluded \cup {v}

-----------------------------------------------------------------------------
(* The row.                                                                  *)

\* The row recordDesiredTarget leaves: only another quantity advances the
\* version, and with it the state goes back to pending whatever it was.
Desired(q) ==
    IF target.version = 0 \/ target.desired # q
    THEN [target EXCEPT !.version = @ + 1, !.desired = q, !.state = "pending"]
    ELSE target

\* Stock moved and the projection of this mapping is now q.  The sample and
\* the write are asked for when the version has not been written yet.
refreshTargetsForItem(q) ==
    LET next == Desired(q)
        changed == next.version > next.written
    IN  /\ permitted # "refused"
        /\ next.version <= MaxVersion
        /\ target' = next
        /\ IF changed
           THEN /\ jobs[Write(next.version)] < MaxJobs
                /\ openSample(next.version)
                /\ enqueueChannelWrite(next.version)
           ELSE UNCHANGED <<samples, jobs>>
        /\ UNCHANGED <<excluded, run, rec, conflict, channel, permitted,
                       reached, suffered>>

\* Mutant: converged whatever has been recorded meanwhile.
Acknowledged_AlwaysConverged(v, q, token) ==
    IF target.written < v
    THEN [target EXCEPT !.written = v, !.writtenQuantity = q, !.token = token,
                        !.state = "converged"]
    ELSE target

\* settleWriteAttempt with an acknowledgement: nothing if a later version has
\* been written, converged only if nothing newer has been recorded.
Acknowledged(v, q, token) ==
    IF target.written < v
    THEN [target EXCEPT !.written = v, !.writtenQuantity = q, !.token = token,
                        !.state = IF target.version = v THEN "converged"
                                                        ELSE "pending"]
    ELSE target

blockTarget == [target EXCEPT !.state = "blocked"]

-----------------------------------------------------------------------------
(* handleChannelWrite.  The row is read once; what follows uses that reading. *)

AlreadyWritten == target.written >= target.version

\* Early returns: a newer version exists, the row is blocked, or the version
\* has been written already.
StandDown(w, v) ==
    /\ Claimable(w, Write(v))
    /\ \/ /\ v < target.version
          /\ markSuperseded(v)
          /\ UNCHANGED excluded
       \/ /\ v >= target.version
          /\ target.state = "blocked"
          /\ excludeSample(target.version)
          /\ UNCHANGED samples
       \/ /\ v >= target.version
          /\ target.state # "blocked"
          /\ AlreadyWritten
          /\ markConverged(target.version)
          /\ UNCHANGED excluded
    /\ jobs' = Take(jobs, Write(v))
    /\ UNCHANGED <<target, run, rec, conflict, channel, permitted, reached, suffered>>

\* The reading a write goes on with.
ReadForWrite(w, v) ==
    /\ Claimable(w, Write(v))
    /\ v >= target.version
    /\ target.state # "blocked"
    /\ ~AlreadyWritten
    /\ jobs' = Take(jobs, Write(v))
    /\ run' = [run EXCEPT ![w] =
                 [Idle EXCEPT !.pc = "permit", !.job = Write(v), !.held = TRUE,
                              !.version = target.version,
                              !.quantity = target.desired,
                              !.token = target.token]]
    /\ UNCHANGED <<target, samples, excluded, rec, conflict, channel, permitted,
                   reached, suffered>>

\* resolveWriteTarget refuses: the row is blocked until somebody acts.
Refuse(w) ==
    /\ run[w].pc = "permit"
    /\ permitted = "refused"
    /\ target' = blockTarget
    /\ excludeSample(run[w].version)
    /\ Return(w)
    /\ UNCHANGED <<samples, jobs, rec, conflict, channel, permitted, reached, suffered>>

\* The pilot gate withholds: the write is recorded and dropped.
Withhold(w) ==
    /\ run[w].pc = "permit"
    /\ permitted = "withheld"
    /\ excludeSample(run[w].version)
    /\ Return(w)
    /\ UNCHANGED <<target, samples, jobs, rec, conflict, channel, permitted,
                   reached, suffered>>

\* Both gates are open; beginWriteAttempt records the call about to be made.
beginWriteAttempt(w) ==
    /\ run[w].pc = "permit"
    /\ permitted = "writable"
    /\ run' = [run EXCEPT ![w].pc = "call"]
    /\ UNCHANGED <<target, samples, excluded, jobs, rec, conflict, channel,
                   permitted, reached, suffered>>

\* External: the channel after it has taken a write.  The token moves only
\* when the quantity does.
Applied(v, q) ==
    [quantity |-> q, by |-> v, edited |-> FALSE,
     token |-> IF channel.quantity = q THEN channel.token ELSE channel.token + 1]

\* External: a conditional write based on a token that is not current.
Stale(w) ==
    /\ Conditional
    /\ run[w].token # 0
    /\ run[w].token # channel.token

\* External: the provider's answer to one write.  An unavailable provider may
\* or may not have applied it.
writeQuantities(w) ==
    LET Answer(a, token) ==
            run' = [run EXCEPT ![w].pc = "settle", ![w].answer = a,
                               ![w].token = token]
        Reach == /\ channel' = Applied(run[w].version, run[w].quantity)
                 /\ reached' = reached \cup {run[w].version}
        Fail == Suffer("fault")
    IN  /\ run[w].pc = "call"
        /\ \/ /\ ~Stale(w)
              /\ Reach
              /\ Answer("success", channel'.token)
              /\ UNCHANGED suffered
           \/ /\ Stale(w)
              /\ Answer("conflict", 0)
              /\ UNCHANGED <<channel, reached, suffered>>
           \/ /\ Fail
              /\ ~Stale(w)
              /\ "unavailable" \in Faults
              /\ Reach
              /\ Answer("unavailable", 0)
           \/ /\ Fail
              /\ \E a \in Faults : Answer(a, 0)
              /\ UNCHANGED <<channel, reached>>
        /\ UNCHANGED <<target, samples, excluded, jobs, rec, conflict, permitted>>

\* settleWriteAttempt after an acknowledgement.
settleWriteAttempt(w) ==
    /\ run[w].pc = "settle"
    /\ run[w].answer = "success"
    /\ target' = Acknowledged(run[w].version, run[w].quantity, run[w].token)
    /\ run' = [run EXCEPT ![w].pc = "close"]
    /\ UNCHANGED <<samples, excluded, jobs, rec, conflict, channel, permitted,
                   reached, suffered>>

\* The sample closes and a verification is asked for.
CloseWrite(w) ==
    /\ run[w].pc = "close"
    /\ markConverged(run[w].version)
    /\ jobs' = Put(jobs, Verify)
    /\ Return(w)
    /\ UNCHANGED <<target, excluded, rec, conflict, channel, permitted, reached,
                   suffered>>

\* failWrite and toJobFailure: a revoked credential blocks the row, an outage
\* is excluded from the objective, an outage or a conflict is retried.
failWrite(w) ==
    LET answer == run[w].answer
    IN  /\ run[w].pc = "settle"
        /\ answer # "success"
        /\ target' = [target EXCEPT !.state = IF answer = "unauthorized"
                                              THEN "blocked" ELSE "degraded"]
        /\ IF answer = "unavailable" THEN excludeSample(run[w].version)
                                     ELSE UNCHANGED excluded
        /\ jobs' = IF answer \in {"unavailable", "conflict"} THEN Retried(w)
                                                             ELSE jobs
        /\ Return(w)
        /\ UNCHANGED <<samples, rec, conflict, channel, permitted, reached, suffered>>

-----------------------------------------------------------------------------
(* handleChannelVerify.                                                      *)

\* A mapping that is not writable is not read.
SkipVerify(w) ==
    /\ Claimable(w, Verify)
    /\ permitted = "refused"
    /\ jobs' = Take(jobs, Verify)
    /\ UNCHANGED <<target, samples, excluded, run, rec, conflict, channel,
                   permitted, reached, suffered>>

\* The provider is read; `quantity` is what it says.
readQuantities(w) ==
    /\ Claimable(w, Verify)
    /\ permitted # "refused"
    /\ jobs' = Take(jobs, Verify)
    /\ run' = [run EXCEPT ![w] =
                 [Idle EXCEPT !.pc = "observe", !.held = TRUE,
                              !.quantity = channel.quantity,
                              !.token = channel.token]]
    /\ UNCHANGED <<target, samples, excluded, rec, conflict, channel, permitted,
                   reached, suffered>>

\* The read fails: retried, or given up when asking again cannot help.
FailVerify(w) ==
    /\ Claimable(w, Verify)
    /\ permitted # "refused"
    /\ Suffer("fault")
    /\ \E a \in Faults :
          jobs' = IF a = "unavailable" THEN jobs ELSE Take(jobs, Verify)
    /\ UNCHANGED <<target, samples, excluded, run, rec, conflict, channel,
                   permitted, reached>>

\* recordObservation, and the row read again to compare with: only a worker
\* that has lost its lease could change what was written in between.
Observe(w) ==
    /\ run[w].pc = "observe"
    /\ target' = [target EXCEPT !.token = run[w].token]
    /\ run' = [run EXCEPT ![w].pc = "judge",
                          ![w].answer = IF run[w].quantity = target.writtenQuantity
                                        THEN "agrees" ELSE "differs"]
    /\ UNCHANGED <<samples, excluded, jobs, rec, conflict, channel, permitted,
                   reached, suffered>>

\* The state the comparison gives a row that has been written.
Judged(agrees) ==
    IF target.written = 0 THEN target.state
    ELSE IF ~agrees THEN "degraded"
    ELSE IF target.version = target.written THEN "converged" ELSE "pending"

Judge(w) ==
    /\ run[w].pc = "judge"
    /\ target' = [target EXCEPT !.state = Judged(run[w].answer = "agrees")]
    /\ Return(w)
    /\ UNCHANGED <<samples, excluded, jobs, rec, conflict, channel, permitted,
                   reached, suffered>>

-----------------------------------------------------------------------------
(* reconcile: not a job of the mapping, so not serialized with its writes.   *)

\* examineMapping reads the row of an active mapping.
examineMapping ==
    /\ rec.pc = "idle"
    /\ permitted # "refused"
    /\ target.version # 0
    /\ Suffer("pass")
    /\ rec' = [Resting EXCEPT !.pc = "read", !.version = target.version,
                              !.desired = target.desired,
                              !.written = target.writtenQuantity]
    /\ UNCHANGED <<target, samples, excluded, jobs, run, conflict, channel,
                   permitted, reached>>

ReadChannel ==
    /\ rec.pc = "read"
    /\ rec' = [rec EXCEPT !.pc = "record", !.seen = channel.quantity,
                          !.token = channel.token]
    /\ UNCHANGED <<target, samples, excluded, jobs, run, conflict, channel,
                   permitted, reached, suffered>>

\* What the provider said is recorded whatever it is.
recordObservation ==
    /\ rec.pc = "record"
    /\ rec' = [rec EXCEPT !.pc = "decide"]
    /\ target' = [target EXCEPT !.token = rec.token]
    /\ UNCHANGED <<samples, excluded, jobs, run, conflict, channel, permitted,
                   reached, suffered>>

Unreachable ==
    /\ rec.pc = "read"
    /\ Suffer("fault")
    /\ rec' = Resting
    /\ UNCHANGED <<target, samples, excluded, jobs, run, conflict, channel,
                   permitted, reached>>

Explainable == rec.written # NoQuantity /\ rec.seen = rec.written
Overstating == rec.seen > rec.desired

\* The channel agrees.
Match ==
    /\ rec.pc = "decide"
    /\ rec.seen = rec.desired
    /\ rec' = Resting
    /\ UNCHANGED <<target, samples, excluded, jobs, run, conflict, channel,
                   permitted, reached, suffered>>

\* A dry run only says what it would do.
DryRun ==
    /\ rec.pc = "decide"
    /\ rec.seen # rec.desired
    /\ rec' = Resting
    /\ UNCHANGED <<target, samples, excluded, jobs, run, conflict, channel,
                   permitted, reached, suffered>>

\* The channel shows our previous write: the newest target is sent again.
Resend ==
    /\ rec.pc = "decide"
    /\ rec.seen # rec.desired
    /\ Explainable
    /\ enqueueChannelWrite(rec.version)
    /\ rec' = Resting
    /\ UNCHANGED <<target, samples, excluded, run, conflict, channel, permitted,
                   reached, suffered>>

\* An unexplained quantity: a conflict is open and the row is blocked.
openConflict ==
    /\ rec.pc = "decide"
    /\ rec.seen # rec.desired
    /\ ~Explainable
    /\ conflict' = TRUE
    /\ target' = blockTarget
    /\ rec' = IF Overstating THEN [rec EXCEPT !.pc = "reduce"] ELSE Resting
    /\ UNCHANGED <<samples, excluded, jobs, run, channel, permitted, reached, suffered>>

\* A channel that overstates is to be brought down to the target.
ProtectiveReduction ==
    /\ rec.pc = "reduce"
    /\ target' = [target EXCEPT !.state = "pending"]
    /\ enqueueChannelWrite(rec.version)
    /\ rec' = Resting
    /\ UNCHANGED <<samples, excluded, run, conflict, channel, permitted, reached,
                   suffered>>

\* A person closes the conflict; the row is no longer under investigation.
resolveConflict ==
    /\ conflict
    /\ conflict' = FALSE
    /\ target' = [target EXCEPT !.state = "pending"]
    /\ UNCHANGED <<samples, excluded, jobs, run, rec, channel, permitted, reached,
                   suffered>>

-----------------------------------------------------------------------------
(* What happens around the code.                                             *)

\* A worker dies with its job, which the queue's sweep makes pending again.
Crash(w) ==
    /\ run[w].pc # "idle"
    /\ Suffer("crash")
    /\ jobs' = Retried(w)
    /\ Return(w)
    /\ UNCHANGED <<target, samples, excluded, rec, conflict, channel, permitted,
                   reached>>

\* A worker loses its lease and goes on: its job is pending a second time.
Lapse(w) ==
    /\ run[w].held
    /\ Suffer("lapse")
    /\ jobs' = Put(jobs, run[w].job)
    /\ run' = [run EXCEPT ![w].held = FALSE]
    /\ UNCHANGED <<target, samples, excluded, rec, conflict, channel, permitted,
                   reached>>

\* External: somebody else changes the quantity on the channel.
ExternalEdit(q) ==
    /\ q # channel.quantity
    /\ Suffer("edit")
    /\ channel' = [channel EXCEPT !.quantity = q, !.token = @ + 1, !.edited = TRUE]
    /\ UNCHANGED <<target, samples, excluded, jobs, run, rec, conflict, permitted,
                   reached>>

\* The mapping is paused or resumed, or the pilot stage is changed.
SwitchPermission(p) ==
    /\ p # permitted
    /\ Suffer("switch")
    /\ permitted' = p
    /\ UNCHANGED <<target, samples, excluded, jobs, run, rec, conflict, channel,
                   reached>>

-----------------------------------------------------------------------------
Init ==
    /\ target = [version |-> 0, desired |-> NoQuantity, written |-> 0,
                 writtenQuantity |-> NoQuantity, token |-> 0, state |-> "pending"]
    /\ samples = [v \in Versions |-> "none"]
    /\ excluded = {}
    /\ jobs = [j \in Jobs |-> 0]
    /\ run = [w \in Workers |-> Idle]
    /\ rec = Resting
    /\ conflict = FALSE
    /\ \E q \in Quantities :
          channel = [quantity |-> q, token |-> 1, by |-> 0, edited |-> FALSE]
    /\ permitted = "writable"
    /\ reached = {}
    /\ suffered = [k \in Kinds |-> 0]

\* handleChannelWrite, once its reading has been taken.
WriteStep(w) ==
    \/ Refuse(w) \/ Withhold(w) \/ beginWriteAttempt(w) \/ writeQuantities(w)
    \/ settleWriteAttempt(w) \/ CloseWrite(w) \/ failWrite(w)

StartWrite(w, v) == StandDown(w, v) \/ ReadForWrite(w, v)
StartVerify(w) == SkipVerify(w) \/ readQuantities(w) \/ FailVerify(w)
VerifyStep(w) == Observe(w) \/ Judge(w)

Reconcile ==
    \/ examineMapping \/ ReadChannel \/ Unreachable \/ recordObservation
    \/ Match \/ DryRun \/ Resend \/ openConflict \/ ProtectiveReduction

Next ==
    \/ \E q \in Quantities : refreshTargetsForItem(q) \/ ExternalEdit(q)
    \/ \E w \in Workers :
          \/ \E v \in Versions : StartWrite(w, v)
          \/ WriteStep(w) \/ StartVerify(w) \/ VerifyStep(w)
          \/ Crash(w) \/ Lapse(w)
    \/ Reconcile
    \/ resolveConflict
    \/ \E p \in Permissions : SwitchPermission(p)

Spec == Init /\ [][Next]_vars

\* A lane goes on with the handler it runs, and takes every job in the end: a
\* claim takes the oldest job of the highest priority, writes before reads.
Fairness ==
    \A w \in Workers :
        /\ WF_vars(WriteStep(w) \/ VerifyStep(w))
        /\ \A v \in Versions : SF_vars(StartWrite(w, v))
        /\ SF_vars(StartVerify(w))

\* A reconciliation that has begun runs to its end.
FairReconcile == WF_vars(Reconcile /\ rec.pc # "idle")

FairSpec == Spec /\ Fairness /\ FairReconcile

-----------------------------------------------------------------------------
(* Properties.                                                               *)

Targets ==
    [version : Nat, desired : Quantities \cup {NoQuantity},
     written : Nat, writtenQuantity : Quantities \cup {NoQuantity},
     token : Nat, state : States]

Runs ==
    [pc : {"idle", "permit", "call", "settle", "close", "observe", "judge"},
     job : Jobs, held : BOOLEAN, version : Nat,
     quantity : Quantities \cup {NoQuantity}, token : Nat,
     answer : {"none", "success", "unavailable", "unauthorized", "rejected",
               "conflict", "agrees", "differs"}]

Readings ==
    [pc : {"idle", "read", "record", "decide", "reduce"}, version : Nat,
     desired : Quantities \cup {NoQuantity},
     written : Quantities \cup {NoQuantity},
     seen : Quantities \cup {NoQuantity}, token : Nat]

Channels ==
    [quantity : Quantities \cup {NoQuantity}, token : Nat, by : Nat,
     edited : BOOLEAN]

\* Every column, job and handler holds a value of its kind; a written version
\* is never ahead of the recorded one (the check of migration 0015).
TypeOK ==
    /\ target \in Targets
    /\ target.written <= target.version
    /\ samples \in [Versions -> {"none", "pending", "converged", "superseded"}]
    /\ excluded \subseteq Versions
    /\ jobs \in [Jobs -> Nat]
    /\ run \in [Workers -> Runs]
    /\ rec \in Readings
    /\ conflict \in BOOLEAN
    /\ channel \in Channels
    /\ permitted \in Permissions
    /\ reached \subseteq Versions
    /\ suffered \in [Kinds -> Nat]

\* Section 12 in migration 0015: an older target never overwrites a newer one
\* on the channel, whatever is retried, crashed or ambiguously answered, as
\* long as no worker outlives its lease.
OlderNeverOverwritesNewer ==
    [][suffered["lapse"] = 0 => channel'.by >= channel.by]_vars

\* A mapping is reported converged only while the channel shows the newest
\* desired quantity, unless somebody else has changed it since our last write
\* or a worker has outlived its lease.
ConvergedIsTrue ==
    target.state = "converged" /\ suffered["lapse"] = 0 =>
        channel.edited \/ channel.quantity = target.desired

\* settleWriteAttempt: a late acknowledgement of an old version cannot make
\* the mapping look converged, nor take back a later version's.
LateAcknowledgementHarmless ==
    /\ target.state = "converged" => target.written = target.version
    /\ \A w \in Workers :
          run[w].pc = "close" => target.written >= run[w].version

\* Every recorded target ends up on its channel: once stock stops moving the
\* channel shows the desired quantity for good.
TargetIsDelivered ==
    <>[](target.version = 0 \/ channel.quantity = target.desired)

\* sync/reconcile.ts: a channel found to offer more than the target while the
\* conflict stays open is brought down to it.
OverstatementIsReduced ==
    (rec.pc = "reduce") ~> (channel.quantity <= target.desired)

=============================================================================
