------------------------------ MODULE MCJobQueue ------------------------------
(***************************************************************************)
(* Small instances of JobQueue.                                            *)
(***************************************************************************)
EXTENDS JobQueue, TLC

\* The order.sync jobs of one order: one key, which serializes and coalesces them.
JustOrder == {"order"}
TwoLanes == {"l1", "l2"}
TwoWorkers == {"w1", "w2"}
OneEach == "l1" :> "w1" @@ "l2" :> "w2"

\* Live workers renew in time; there may be a crash and a replay.
Steady == [handled |-> [w \in Workers |-> Keys], renewing |-> TRUE,
           crashes |-> 1, faults |-> 0, replays |-> 1]
\* A rolling deployment: the second worker has no handler for orders yet, and leases
\* lapse under slow workers.
Rolling == [handled |-> [w \in Workers |-> IF w = "w1" THEN Keys ELSE {}], renewing |-> FALSE,
            crashes |-> 0, faults |-> 0, replays |-> 0]
\* Leases are renewed, but one settlement loses its second statement.
Halved == [Steady EXCEPT !.crashes = 0, !.faults = 1, !.replays = 0]
MCCircumstances == {Steady, Rolling, Halved}

(* Every job ends, ten attempts or the window, whichever comes first.  It does not: the *)
(* worker calls neither reclaimExpired nor expireOverdue, so a job whose window runs    *)
(* out while it waits stays pending, and one whose worker died stays claimed.           *)
EveryJobEnds ==
  \A j \in 1..MaxJobs :
    (j \in Ids /\ jobs[j].status \notin Finished) ~> (j \in Ids /\ jobs[j].status \in Finished)

===============================================================================
