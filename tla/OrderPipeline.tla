---------------------------- MODULE OrderPipeline ----------------------------
(* How an order of a channel becomes reservations, and what happens to them. *)
(*                                                                           *)
(* One order of one connection: the wake-ups that ask for it                 *)
(* (sync/pipeline.ts), the transaction that records what the provider says   *)
(* and commits or settles stock for its lines (sync/orders.ts,               *)
(* sync/lifecycle.ts, sync/events.ts), the copying of another channel's      *)
(* order into this one (listings/order-copy.ts) and the restock decisions of *)
(* a person.                                                                 *)
(*                                                                           *)
(* Orders share nothing here but stock, which is Reservations.tla.  Of a     *)
(* reservation this module keeps only its status.  The order's jobs run one  *)
(* at a time (its serialization key, JobQueue.tla), so there is one worker;  *)
(* the provider is external and may answer with an older revision.           *)
EXTENDS Integers, FiniteSets

CONSTANTS
    Lines,         \* the order's lines
    Quantity,      \* ordered units of every line
    Mode,          \* the business's consumption mode
    Numbered,      \* the provider numbers the revisions of an order
    MaxRevisions,  \* bound: changes of the order at the provider
    MaxFaults      \* bound: crashes, failed calls, refusals, mapping changes

ASSUME OrderAssumption ==
    /\ Quantity \in Nat \ {0}
    /\ Mode \in {"reserve_until_fulfilled", "consume_immediately"}
    /\ Numbered \in BOOLEAN
    /\ {MaxRevisions, MaxFaults} \subseteq Nat

DemandStates == {"awaiting", "committed", "fulfilled", "cancelled", "refunded"}
Mappings == {"none", "eligible", "ineligible"}
Origins == {"cancellation_after_shipment", "refund"}

\* What fetchOrder answers: the provider's state of the order.  An unreported
\* shipped quantity and a missing sequence are 0.
Payloads ==
    [state : DemandStates, shipped : [Lines -> 0..Quantity], seq : 0..MaxRevisions]

VARIABLES
    provider,    \* external: the order as it stands; state "absent" if none
    past,        \* external: the revision before it
    owed,        \* external: no wake-up has been sent since it changed
    pending,     \* an order.sync job of this order is ready
    sync,        \* the handler of the one that runs
    order,       \* the channel_orders row
    lines,       \* its channel_order_lines, with the status of the reservation
    events,      \* processed_events: what has been claimed
    candidates,  \* restock_candidates of every line and origin
    mapping,     \* whether each line's channel entity may move stock
    copy,        \* the mirrored_orders row of which this order is the copy
    faults,      \* how many disturbances have happened
    misread      \* the provider has answered with an older revision

external == <<provider, past, owed>>
stored == <<order, lines, events, candidates>>
vars == <<external, pending, sync, stored, mapping, copy, faults, misread>>

Suffer == faults < MaxFaults /\ faults' = faults + 1

Larger(a, b) == IF a > b THEN a ELSE b

-----------------------------------------------------------------------------
(* External: the provider.                                                   *)

Payload(s, shipped, n) ==
    [state |-> s, shipped |-> shipped, seq |-> IF Numbered THEN n ELSE 0]

Nothing == [l \in Lines |-> 0]

\* The order changes, and the provider owes a wake-up.
Change(s, shipped, n) ==
    /\ n <= MaxRevisions
    /\ provider' = [state |-> s, shipped |-> shipped, seq |-> n]
    /\ past' = provider
    /\ owed' = TRUE

\* A customer places the order.
Place(s) ==
    /\ provider.seq = 0
    /\ copy = "none"
    /\ Change(s, Nothing, 1)
    /\ UNCHANGED <<pending, sync, stored, mapping, copy, faults, misread>>

\* It is paid, held, shipped, cancelled, reinstated or refunded.  A revision
\* may report one shipment of several.
Revise(s, shipped) ==
    /\ provider.state # "absent"
    /\ <<s, shipped>> # <<provider.state, provider.shipped>>
    /\ Change(s, shipped, provider.seq + 1)
    /\ UNCHANGED <<pending, sync, stored, mapping, copy, faults, misread>>

\* It is deleted.
Remove ==
    /\ provider.state # "absent"
    /\ Change("absent", provider.shipped, provider.seq + 1)
    /\ UNCHANGED <<pending, sync, stored, mapping, copy, faults, misread>>

-----------------------------------------------------------------------------
(* Wake-ups.  A webhook, a sweep or a person asks for the same job, and equal *)
(* ones that wait are one.                                                   *)

requestOrderSync ==
    /\ provider.seq > 0
    /\ pending' = TRUE
    /\ owed' = FALSE
    /\ UNCHANGED <<provider, past, sync, stored, mapping, copy, faults,
                   misread>>

-----------------------------------------------------------------------------
(* handleOrderSync: the fetch, outside any transaction.                      *)

NoSync == [pc |-> "idle", payload |-> Payload("awaiting", Nothing, 0)]

Fetched(revision) ==
    /\ sync.pc = "idle"
    /\ pending
    /\ revision.state # "absent"
    /\ pending' = FALSE
    /\ sync' = [pc |-> "apply",
                payload |-> Payload(revision.state, revision.shipped, revision.seq)]
    /\ UNCHANGED <<external, stored, mapping, copy>>

fetchOrder == Fetched(provider) /\ UNCHANGED <<faults, misread>>

\* External: a replica of the provider answers with the revision before.
FetchStale == Fetched(past) /\ Suffer /\ misread' = TRUE

\* orderFetchFailure: an order that is gone needs nothing more.
FetchNotFound ==
    /\ sync.pc = "idle"
    /\ pending
    /\ provider.state = "absent"
    /\ pending' = FALSE
    /\ UNCHANGED <<external, sync, stored, mapping, copy, faults, misread>>

\* The worker dies, the transaction is rolled back or the call fails: the job
\* is ready again.
Retry ==
    /\ sync.pc # "idle"
    /\ Suffer
    /\ pending' = TRUE
    /\ sync' = NoSync
    /\ UNCHANGED <<external, stored, mapping, copy, misread>>

-----------------------------------------------------------------------------
(* ingestOrder, as functions of the payload.                                 *)

\* mirrorSourceOf: found by the identifier the store gave the copy.
mirrorSourceOf == copy = "recorded"

\* Mutant: arrival order.
Superseded_Never(p) == FALSE

\* An older revision than the one recorded.
Superseded(p) == Numbered /\ p.seq < order.seq

upsertOrder(p) ==
    IF Superseded(p) THEN order
    ELSE [known |-> TRUE, demand |-> p.state, seq |-> Larger(order.seq, p.seq),
          committedOnce |-> order.committedOnce \/ p.state = "committed"]

\* Mutant: the reported figure is taken as it is.
upsertLines_Overwrite(p) ==
    [l \in Lines |-> [lines[l] EXCEPT !.shipped = p.shipped[l]]]

\* Shipped quantities only grow.
upsertLines(p) ==
    [l \in Lines |-> [lines[l] EXCEPT !.shipped = Larger(@, p.shipped[l])]]

\* Mutant: every qualifying delivery commits.
shouldCommit_EveryTime(p) == p.state = "committed" /\ ~mirrorSourceOf

\* The first qualifying state of an order that is not a copy.
shouldCommit(p) ==
    p.state = "committed" /\ ~order.committedOnce /\ ~mirrorSourceOf

\* A line's reservation is made once; a line that may not move stock is marked.
treatLine(line, l) ==
    CASE mapping[l] = "none" -> [line EXCEPT !.treatment = "unmapped"]
      [] mapping[l] = "ineligible" -> [line EXCEPT !.treatment = "ineligible"]
      [] OTHER ->
           [line EXCEPT
              !.treatment = IF Mode = "consume_immediately" THEN "consumed"
                                                            ELSE "reserved",
              !.reservation = IF @ = "none" THEN "open" ELSE @]

treatLines(p) ==
    LET recorded == upsertLines(p)
    IN  IF shouldCommit(p) THEN [l \in Lines |-> treatLine(recorded[l], l)]
                           ELSE recorded

ingestOrder(p) == IF Superseded(p) THEN lines ELSE treatLines(p)

-----------------------------------------------------------------------------
(* The lifecycle decisions, line by line.  They follow the payload's state    *)
(* whether or not the import found it superseded.                            *)

\* Unshipped units go back where they came from.
Cancelled(line) ==
    IF line.shipped > 0 \/ line.reservation # "open" THEN line
    ELSE [line EXCEPT !.reservation = "released", !.treatment = "released"]

\* Reserved units leave; without a reported figure the whole line has shipped.
Fulfilled(line, shipped, refused) ==
    [line EXCEPT
       !.shipped = Larger(@, IF shipped > 0 THEN shipped ELSE Quantity),
       !.reservation = IF @ = "open" /\ ~refused THEN "fulfilled" ELSE @]

\* Mutant: the type of an event is not part of its identity, so the claim of
\* the import is taken for the lifecycle's.
applyLifecycle_Deduplicated(p, current, refused) == current

\* applyFulfillment, applyCancellation and applyRefund.
applyLifecycle(p, current, refused) ==
    CASE p.state = "cancelled" -> [l \in Lines |-> Cancelled(current[l])]
      [] p.state = "fulfilled" ->
           [l \in Lines |-> Fulfilled(current[l], p.shipped[l], l \in refused)]
      [] OTHER -> current

\* One candidate for each line and origin, whatever is redelivered.  It names
\* an item only if the line has committed one.
raiseRestockCandidate(l, origin, line) ==
    IF candidates[l][origin].status # "none" THEN candidates[l][origin]
    ELSE [status |-> "pending", linked |-> line.reservation # "none"]

Raises(p, line) ==
    CASE p.state = "cancelled" /\ line.shipped > 0 -> {"cancellation_after_shipment"}
      [] p.state = "refunded" -> {"refund"}
      [] OTHER -> {}

Candidates(p, current) ==
    [l \in Lines |->
       [o \in Origins |->
          IF o \in Raises(p, current[l]) THEN raiseRestockCandidate(l, o, current[l])
                                         ELSE candidates[l][o]]]

\* Mutant: the revision is not part of an event's identity, so a state the
\* order has been in before is taken for a redelivery.
AlreadyProcessed_Unnumbered(p) ==
    \E e \in events : e.state = p.state /\ e.shipped = p.shipped

\* claimEvent: the same state of the order has been processed before.
AlreadyProcessed(p) == p \in events

\* Reservations whose shipment the ledger may refuse.
Refusable(p, current) ==
    IF p.state = "fulfilled" /\ Mode = "reserve_until_fulfilled"
    THEN {l \in Lines : current[l].reservation = "open"} ELSE {}

\* The transaction of handleOrderSync: import first, then what the state says.
handleOrderSync ==
    LET p == sync.payload
        imported == ingestOrder(p)
    IN  /\ sync.pc = "apply"
        /\ sync' = [sync EXCEPT !.pc = "settle"]
        /\ IF AlreadyProcessed(p) THEN UNCHANGED <<stored, faults>>
           ELSE \E refused \in SUBSET Refusable(p, imported) :
                  /\ IF refused = {} THEN UNCHANGED faults ELSE Suffer
                  /\ order' = upsertOrder(p)
                  /\ lines' = applyLifecycle(p, imported, refused)
                  /\ candidates' = Candidates(p, imported)
                  /\ events' = events \cup {p}
        /\ UNCHANGED <<external, pending, mapping, copy, misread>>

Settle ==
    /\ sync.pc = "settle"
    /\ sync' = NoSync
    /\ UNCHANGED <<external, pending, stored, mapping, copy, faults, misread>>

-----------------------------------------------------------------------------
(* People.                                                                   *)

Decide(l, o, status) ==
    /\ candidates[l][o].status = "pending"
    /\ candidates' = [candidates EXCEPT ![l][o].status = status]
    /\ UNCHANGED <<external, pending, sync, order, lines, events, mapping,
                   copy, faults, misread>>

confirmRestock(l, o) == candidates[l][o].linked /\ Decide(l, o, "confirmed")
declineRestock(l, o) == Decide(l, o, "declined")

\* A line's channel entity is mapped, paused, resumed or goes missing.
SwitchMapping(l, m) ==
    /\ m # mapping[l]
    /\ Suffer
    /\ mapping' = [mapping EXCEPT ![l] = m]
    /\ UNCHANGED <<external, pending, sync, stored, copy, misread>>

-----------------------------------------------------------------------------
(* executeOrderCopy: this order is the copy of one sold elsewhere.           *)

ReserveMirror ==
    /\ copy = "none"
    /\ provider.seq = 0
    /\ copy' = "reserved"
    /\ UNCHANGED <<external, pending, sync, stored, mapping, faults, misread>>

\* External: the store creates the order, unshipped ones as processing.
createMirroredOrder(s) ==
    /\ copy = "reserved"
    /\ copy' = "created"
    /\ Change(s, Nothing, 1)
    /\ UNCHANGED <<pending, sync, stored, mapping, faults, misread>>

\* The identifier the store gave it is recorded.
RecordMirror ==
    /\ copy = "created"
    /\ copy' = "recorded"
    /\ UNCHANGED <<external, pending, sync, stored, mapping, faults, misread>>

\* The call fails, its stock reduction is not suppressed or the process dies.
AbandonCopy ==
    /\ copy \in {"reserved", "created"}
    /\ Suffer
    /\ copy' = "abandoned"
    /\ UNCHANGED <<external, pending, sync, stored, mapping, misread>>

-----------------------------------------------------------------------------
Init ==
    /\ provider = [state |-> "absent", shipped |-> Nothing, seq |-> 0]
    /\ past = provider
    /\ owed = FALSE
    /\ pending = FALSE
    /\ sync = NoSync
    /\ order = [known |-> FALSE, demand |-> "awaiting", seq |-> 0,
                committedOnce |-> FALSE]
    /\ lines = [l \in Lines |-> [shipped |-> 0, treatment |-> "untreated",
                                 reservation |-> "none"]]
    /\ events = {}
    /\ candidates = [l \in Lines |->
                       [o \in Origins |-> [status |-> "none", linked |-> FALSE]]]
    /\ mapping \in [Lines -> Mappings]
    /\ copy = "none"
    /\ faults = 0
    /\ misread = FALSE

Fetch == fetchOrder \/ FetchNotFound
Sync == Fetch \/ handleOrderSync \/ Settle

Next ==
    \/ \E s \in DemandStates : Place(s)
    \/ \E s \in DemandStates, shipped \in [Lines -> 0..Quantity] : Revise(s, shipped)
    \/ Remove
    \/ requestOrderSync
    \/ Sync \/ FetchStale \/ Retry
    \/ \E l \in Lines, o \in Origins : confirmRestock(l, o) \/ declineRestock(l, o)
    \/ \E l \in Lines, m \in Mappings : SwitchMapping(l, m)
    \/ ReserveMirror
    \/ \E s \in {"committed", "fulfilled"} : createMirroredOrder(s)
    \/ RecordMirror \/ AbandonCopy

Spec == Init /\ [][Next]_vars

\* A ready job is run, and a change is announced in the end, by the webhook or
\* by the sweep that makes up for a lost one.
Fairness == WF_vars(Sync) /\ WF_vars(owed /\ requestOrderSync)

FairSpec == Spec /\ Fairness

-----------------------------------------------------------------------------
(* Properties.                                                               *)

Revisions ==
    [state : DemandStates \cup {"absent"}, shipped : [Lines -> 0..Quantity],
     seq : 0..MaxRevisions]
OrderRows ==
    [known : BOOLEAN, demand : DemandStates, seq : 0..MaxRevisions,
     committedOnce : BOOLEAN]
LineRows ==
    [shipped : 0..Quantity,
     treatment : {"untreated", "reserved", "consumed", "unmapped", "ineligible",
                  "released"},
     reservation : {"none", "open", "released", "fulfilled"}]
CandidateRows ==
    [status : {"none", "pending", "confirmed", "declined"}, linked : BOOLEAN]

\* The provider, the rows and the jobs hold values of their kinds.
TypeOK ==
    /\ {provider, past} \subseteq Revisions
    /\ {owed, pending, misread} \subseteq BOOLEAN
    /\ sync \in [pc : {"idle", "apply", "settle"}, payload : Payloads]
    /\ order \in OrderRows
    /\ lines \in [Lines -> LineRows]
    /\ events \subseteq Payloads
    /\ candidates \in [Lines -> [Origins -> CandidateRows]]
    /\ mapping \in [Lines -> Mappings]
    /\ copy \in {"none", "reserved", "created", "recorded", "abandoned"}
    /\ faults \in 0..MaxFaults

\* The treatment of a line is what has become of its reservation.
Truthful(line) ==
    /\ line.treatment \in {"reserved", "consumed"} =>
         line.reservation \in {"open", "fulfilled"}
    /\ line.treatment = "released" <=> line.reservation = "released"
    /\ line.treatment \in {"untreated", "unmapped", "ineligible"} =>
         line.reservation = "none"

\* What a line says was done about it is what was done, however the order is
\* resent, cancelled and reinstated.
TreatmentIsTrue == \A l \in Lines : Truthful(lines[l])

\* An order recorded as cancelled holds no stock for an unshipped line, one
\* recorded as refunded has asked about every line, one recorded as fulfilled
\* has shipped every line.
DemandIsSettled ==
    \A l \in Lines :
        /\ order.demand = "cancelled" /\ lines[l].reservation = "open" =>
             lines[l].shipped > 0
        /\ order.demand = "refunded" => candidates[l]["refund"].status # "none"
        /\ order.demand = "fulfilled" => lines[l].shipped > 0

\* Cancelled after shipment: the units of a line known to have shipped are not
\* given back by anything the channel says.
ShippedIsNeverRestored ==
    [][\A l \in Lines :
         lines[l].shipped > 0 /\ lines[l].reservation # "released" =>
           lines'[l].reservation # "released"]_vars

\* An order recorded as the copy of another commits no stock.
KnownCopyCommitsNothing ==
    [][copy = "recorded" =>
         \A l \in Lines : lines[l].reservation = "none" =>
                            lines'[l].reservation = "none"]_vars

\* A provider's revision beats arrival order: a delivery that is older than
\* the recorded revision does not roll the status back.
StatusNeverGoesBack ==
    [][order.known /\ order'.demand # order.demand => order'.seq > order.seq]_vars

\* A change is recorded in the end though wake-ups are coalesced and workers
\* die, unless the provider itself has answered with an older revision.
EveryChangeArrives ==
    <>[](\/ provider.state = "absent" \/ misread
         \/ order.known /\ order.demand = provider.state)

\* listings/order-copy.ts: the pipeline can never see the copy first, so the
\* copy of an order does not become a second sale.
CopyIsNotASale ==
    copy \in {"created", "recorded", "abandoned"} =>
        \A l \in Lines : lines[l].reservation = "none"

=============================================================================
