----------------------------- MODULE Reservations -----------------------------
(***************************************************************************)
(* Stock, the ledger that explains it, and the reservations that commit it *)
(* to order lines: packages/inventory, ledger.ts, adjustments.ts and       *)
(* reservations.ts, over the tables of migrations 0001 and 0013.           *)
(*                                                                         *)
(* Every operation is a PostgreSQL transaction at READ COMMITTED.  Stock   *)
(* is changed only between taking the row locks of lockBalances and the    *)
(* commit, so that part of a transaction is one action; what a transaction *)
(* reads BEFORE it holds those locks is an action of its own, and the      *)
(* transactions of other callers run in between.  A transaction that       *)
(* refuses is rolled back and changes nothing.                             *)
(*                                                                         *)
(* One posting of the ledger stands for the entries postMovements writes   *)
(* in one call: at most one movement per <<item, location>>, so the entry  *)
(* of posting i at key k is named by i and k.                              *)
(***************************************************************************)
EXTENDS Allocation

CONSTANTS
  Items,              \* canonical items that are stocked
  Order,              \* the active locations, in priority order
  Lines,              \* order lines: <<connection, order, line>>
  Recipe,             \* what one ordered unit of a line consumes
  Quantity,           \* the ordered quantity of a line
  DefaultSafetyStock, \* the business default
  ItemOverride,       \* safety stock set on an item, or Unset
  LocationOverride,   \* safety stock set on an item at a location, or Unset
  SplitSettings,      \* the values the split_fulfillment setting takes
  Opening,            \* the stock received before the first step
  Changes,            \* the adjustments an operator may enter
  TransferQuantities, \* the quantities an operator may move between locations
  Callers,            \* concurrent requests and job handlers
  Ops,                \* the operations the callers perform
  SerializedByLine,   \* TRUE: the order handlers of one line never overlap, as
                      \* under the order:<id> serialization key of the job
                      \* queue; a switch of the mode has no such key
  MaxPostings         \* bound on the length of the ledger

Locations == Range(Order)
Keys == Items \X Locations
Modes == {"reserve_until_fulfilled", "consume_immediately"}
Statuses == {"none", "open", "consumed", "released"}
OpNames == {"reserve", "fulfill", "release", "switch", "adjust", "transfer", "reverse"}
Zero == [k \in Keys |-> 0]

\* No reversal, no ledger entry: the null of an entry identifier.
NoEntry == 0
\* A posting that is not about an order line.
NoLine == "no line"

ASSUME ReservationConstants ==
  /\ IsFiniteSet(Lines)
  /\ Order \in Seq(Locations) /\ IsInjective(Order)
  /\ \A l \in Lines : /\ DOMAIN Recipe[l] # {} /\ DOMAIN Recipe[l] \subseteq Items
                       /\ \A i \in DOMAIN Recipe[l] : Recipe[l][i] \in Nat \ {0}
  /\ Quantity \in [Lines -> Nat \ {0}]
  /\ DefaultSafetyStock \in Nat
  /\ ItemOverride \in [Items -> Nat \cup {Unset}]
  /\ LocationOverride \in [Keys -> Nat \cup {Unset}]
  /\ SplitSettings \subseteq BOOLEAN
  /\ Opening \in [Keys -> Nat]
  /\ Changes \subseteq [how : {"absolute"}, amount : Nat] \cup [how : {"delta"}, amount : Int]
  /\ TransferQuantities \subseteq Nat \ {0}
  /\ Ops \subseteq OpNames
  /\ SerializedByLine \in BOOLEAN
  /\ MaxPostings \in Nat \ {0}
  /\ NoLine \notin Lines

VARIABLES
  onHand, reserved,   \* location_balances
  rows,               \* the keys that have a location_balances row
  ledger,             \* inventory_ledger, one element per postMovements call
  reservation,        \* stock_reservations and reservation_allocations, by line
  mode,               \* business_inventory_settings.consumption_mode
  task,               \* where each caller is, and what it has read so far
  crossed             \* history: the lines a switch of the mode and somebody
                      \* else had read at once

stock == <<onHand, reserved, rows, ledger>>
vars == <<stock, reservation, mode, task, crossed>>

-------------------------------------------------------------------------------
(* State shapes.                                                           *)

Postings ==
  [kind : {"adjustment", "transfer", "shipment", "reversal"},
   delta : [Keys -> Int], reverses : Nat, line : Lines \cup {NoLine}]

ReservationRows ==
  [status : Statuses, mode : Modes, shortage : Nat, takes : [Keys -> Nat], entry : Nat]

NotRecorded ==
  [status |-> "none", mode |-> "reserve_until_fulfilled", shortage |-> 0,
   takes |-> Zero, entry |-> NoEntry]

Idle == [pc |-> "idle"]

\* Between two transactions or between two reads of one transaction.
Tasks ==
  {Idle}
  \cup [pc : {"reserving"}, line : Lines, mode : Modes]
  \cup [pc : {"rows_locked"}, line : Lines, mode : Modes, locked : SUBSET Keys]
  \cup [pc : {"planned"}, line : Lines, mode : Modes, locked : SUBSET Keys,
        takes : [Keys -> Nat], shortage : Nat]
  \cup [pc : {"row_read", "allocations_read"}, op : {"fulfill", "release", "migrate"},
        line : Lines, status : Statuses, mode : Modes, entry : Nat,
        to : Modes, todo : SUBSET Lines]
  \cup [pc : {"switch_previewed", "switching"}, to : Modes, todo : SUBSET Lines]
  \cup [pc : {"adjusting"}, key : Keys, change : Changes]
  \cup [pc : {"reversing"}, entry : Nat, key : Keys]

(* Types, and the shape of what each caller has read.                        *)
StateTypes ==
  /\ onHand \in [Keys -> Nat]
  /\ reserved \in [Keys -> Nat]
  /\ rows \subseteq Keys
  /\ ledger \in Seq(Postings)
  /\ reservation \in [Lines -> ReservationRows]
  /\ mode \in Modes
  /\ task \in [Callers -> Tasks]

TypeOK == StateTypes /\ crossed \subseteq Lines

Init ==
  /\ onHand = Opening
  /\ reserved = Zero
  /\ rows = {k \in Keys : Opening[k] > 0}
  /\ ledger = <<[kind |-> "adjustment", delta |-> Opening, reverses |-> NoEntry, line |-> NoLine]>>
  /\ reservation = [l \in Lines |-> NotRecorded]
  /\ mode \in Modes
  /\ task = [c \in Callers |-> Idle]
  /\ crossed = {}

-------------------------------------------------------------------------------
(* The ledger.                                                             *)

Touched(delta) == {k \in Keys : delta[k] # 0}

Negated(f) == [k \in Keys |-> -f[k]]

\* MUTANT of Postable: reserved units may be moved away.
Postable_IgnoresReserved(delta) ==
  /\ Touched(delta) # {}
  /\ \A k \in Touched(delta) : onHand[k] + delta[k] >= 0

\* postMovements accepts a posting when it moves something, takes no balance
\* below zero and leaves every reserved unit on hand.
Postable(delta) ==
  /\ Touched(delta) # {}
  /\ \A k \in Touched(delta) : onHand[k] + delta[k] >= reserved[k]

\* MUTANT of postMovements: the balance is lowered without a ledger entry.
postMovements_NoEntry(kind, delta, reverses, line) ==
  /\ Len(ledger) < MaxPostings
  /\ ledger' = IF kind = "shipment" THEN ledger
               ELSE Append(ledger, [kind |-> kind, delta |-> delta,
                                    reverses |-> reverses, line |-> line])
  /\ onHand' = [k \in Keys |-> onHand[k] + delta[k]]
  /\ rows' = rows \cup Touched(delta)

\* An accepted posting: rows created, entries inserted, balances updated.
postMovements(kind, delta, reverses, line) ==
  /\ Len(ledger) < MaxPostings
  /\ ledger' = Append(ledger, [kind |-> kind, delta |-> delta,
                               reverses |-> reverses, line |-> line])
  /\ onHand' = [k \in Keys |-> onHand[k] + delta[k]]
  /\ rows' = rows \cup Touched(delta)

addReserved(takes) == reserved' = [k \in Keys |-> reserved[k] + takes[k]]

\* MUTANT of releaseReserved: the units stay held for an order that is done.
releaseReserved_Never(takes) == UNCHANGED reserved

releaseReserved(takes) == reserved' = [k \in Keys |-> NonNegative(reserved[k] - takes[k])]

-------------------------------------------------------------------------------
(* Adjustments, transfers and reversals.                                   *)

Starts(c, op) == op \in Ops /\ task[c] = Idle

\* The row locks that outlast an action: those of a reserve that found some of
\* its balance rows missing.
LockedByOthers(c) ==
  UNION {task[d].locked : d \in {e \in Callers \ {c} : task[e].pc \in {"rows_locked", "planned"}}}

\* lockBalances waits until nobody else holds a row it wants.
lockBalances(c, keys) == keys \cap LockedByOthers(c) = {}

deltaFor(change, current) ==
  IF change.how = "absolute" THEN change.amount - current ELSE change.amount

OnlyAt(k, n) == [Zero EXCEPT ![k] = n]

\* applyAdjustment where the balance row exists: the row is locked first, and
\* the delta is computed from what the lock shows.
applyAdjustment(c, k, change) ==
  /\ Starts(c, "adjust")
  /\ k \in rows
  /\ lockBalances(c, {k})
  /\ LET delta == OnlyAt(k, deltaFor(change, onHand[k]))
     IN  Postable(delta) /\ postMovements("adjustment", delta, NoEntry, NoLine)
  /\ UNCHANGED <<reserved, reservation, mode, task>>

\* applyAdjustment where there is no row yet: nothing is locked, and the
\* caller goes on with a balance of zero.
AdjustAbsentRow(c, k, change) ==
  /\ Starts(c, "adjust")
  /\ k \notin rows
  /\ deltaFor(change, 0) # 0
  /\ task' = [task EXCEPT ![c] = [pc |-> "adjusting", key |-> k, change |-> change]]
  /\ UNCHANGED <<stock, reservation, mode>>

PostAbsentRow(c) ==
  /\ task[c].pc = "adjusting"
  /\ lockBalances(c, {task[c].key})
  /\ LET delta == OnlyAt(task[c].key, deltaFor(task[c].change, 0))
     IN  \/ Postable(delta) /\ postMovements("adjustment", delta, NoEntry, NoLine)
         \/ ~ Postable(delta) /\ UNCHANGED <<onHand, rows, ledger>>
  /\ task' = [task EXCEPT ![c] = Idle]
  /\ UNCHANGED <<reserved, reservation, mode>>

transferStock(c, item, from, to, quantity) ==
  /\ Starts(c, "transfer")
  /\ from # to
  /\ lockBalances(c, {<<item, from>>, <<item, to>>})
  /\ LET delta == [Zero EXCEPT ![<<item, from>>] = -quantity, ![<<item, to>>] = quantity]
     IN  Postable(delta) /\ postMovements("transfer", delta, NoEntry, NoLine)
  /\ UNCHANGED <<reserved, reservation, mode, task>>

Reversals(i, k) == {j \in DOMAIN ledger : ledger[j].reverses = i /\ ledger[j].delta[k] # 0}

\* reverseEntry up to its postMovements: the entry and its reversals are read
\* before any lock is held.
reverseEntry(c, i, k) ==
  /\ Starts(c, "reverse")
  /\ ledger[i].delta[k] # 0
  /\ ledger[i].kind # "reversal"
  /\ Reversals(i, k) = {}
  /\ task' = [task EXCEPT ![c] = [pc |-> "reversing", entry |-> i, key |-> k]]
  /\ UNCHANGED <<stock, reservation, mode>>

PostReversal(c) ==
  /\ task[c].pc = "reversing"
  /\ lockBalances(c, {task[c].key})
  /\ LET i == task[c].entry
         k == task[c].key
         delta == OnlyAt(k, -ledger[i].delta[k])
     IN  \/ Postable(delta) /\ postMovements("reversal", delta, i, ledger[i].line)
         \/ ~ Postable(delta) /\ UNCHANGED <<onHand, rows, ledger>>
  /\ task' = [task EXCEPT ![c] = Idle]
  /\ UNCHANGED <<reserved, reservation, mode>>

-------------------------------------------------------------------------------
(* Reserving.                                                              *)

SafetyStock(k) == effectiveSafetyStock(DefaultSafetyStock, ItemOverride[k[1]], LocationOverride[k])

\* MUTANT of availableByItem: the safety stock is not withheld.
availableByItem_NoSafetyStock ==
  [k \in Keys |-> availableToSellAtLocation(onHand[k], reserved[k], 0)]

\* What may be sold at each key, read under the locks.
availableByItem ==
  [k \in Keys |-> availableToSellAtLocation(onHand[k], reserved[k], SafetyStock(k))]

WorksOn(c, l) ==
  /\ task[c].pc \in {"reserving", "rows_locked", "planned", "row_read", "allocations_read"}
  /\ task[c].line = l

Migrating(c) == task[c].pc \in {"row_read", "allocations_read"} /\ task[c].op = "migrate"

\* Order handlers of one line overlap unless the job queue prevents it.  The migration of
\* a mode switch holds no key: handlers do not wait for it, nor it for them.
LineFree(c, l) ==
  SerializedByLine => \A d \in Callers \ {c} : WorksOn(d, l) => Migrating(d)

\* reserve up to its locks: no reservation is recorded for the line, and the
\* settings in force are read.
reserve(c, l) ==
  /\ Starts(c, "reserve")
  /\ LineFree(c, l)
  /\ reservation[l].status = "none"
  /\ task' = [task EXCEPT ![c] = [pc |-> "reserving", line |-> l, mode |-> mode]]
  /\ UNCHANGED <<stock, reservation, mode>>

\* stock_reservations_line_unique has an entry for the line.
LineTaken(l) == reservation[l].status # "none"

\* The reservation row that takes and a shortage are recorded in.
Recorded(m, takes, shortage) ==
  [status |-> "open", mode |-> m, shortage |-> shortage, takes |-> takes,
   entry |-> IF m = "consume_immediately" /\ Touched(takes) # {}
             THEN Len(ledger) + 1 ELSE NoEntry]

\* MUTANT of Accepted: the balance check refuses to promise the last unit.
Accepted_NeverTheLast(row) ==
  IF row.entry # NoEntry THEN Postable(Negated(row.takes))
  ELSE row.mode = "reserve_until_fulfilled" =>
         \A k \in Touched(row.takes) : reserved[k] + row.takes[k] < onHand[k]

\* postMovements accepts what is consumed; the balance check of migration 0001
\* accepts what is held.
Accepted(row) ==
  IF row.entry # NoEntry THEN Postable(Negated(row.takes))
  ELSE row.mode = "reserve_until_fulfilled" =>
         \A k \in Keys : reserved[k] + row.takes[k] <= onHand[k]

\* The writes of reserve.  When another caller recorded the line meanwhile,
\* stock_reservations_line_unique refuses the insert.
Record(l, row) ==
  IF LineTaken(l) \/ ~ Accepted(row) THEN UNCHANGED <<stock, reservation>>
  ELSE /\ reservation' = [reservation EXCEPT ![l] = row]
       /\ IF row.entry # NoEntry
          THEN /\ postMovements("shipment", Negated(row.takes), NoEntry, l)
               /\ UNCHANGED reserved
          ELSE /\ IF row.mode = "consume_immediately" THEN UNCHANGED reserved
                  ELSE addReserved(row.takes)
               /\ UNCHANGED <<onHand, rows, ledger>>

\* Every balance the line could draw on.
RowsOf(l) == {k \in Keys : k[1] \in DOMAIN Recipe[l]}

Plan(l, split) == planAllocation(Quantity[l], Recipe[l], Order, availableByItem, split)

\* The rest of reserve where every balance row exists: all are locked, so the
\* plan is made and recorded with nobody in between.
CommitReserve(c, split) ==
  /\ task[c].pc = "reserving"
  /\ LET l    == task[c].line
         plan == Plan(l, split)
     IN  /\ RowsOf(l) \subseteq rows
         /\ lockBalances(c, RowsOf(l))
         /\ Record(l, Recorded(task[c].mode, takesFor(Recipe[l], plan, Keys), plan.shortage))
  /\ task' = [task EXCEPT ![c] = Idle]
  /\ UNCHANGED mode

\* Where a balance row is missing there is nothing of it to lock: other callers
\* may create and change it before the plan is made and before it is recorded.
LockExistingRows(c) ==
  /\ task[c].pc = "reserving"
  /\ LET l == task[c].line
     IN  /\ ~ RowsOf(l) \subseteq rows
         /\ lockBalances(c, RowsOf(l) \cap rows)
         /\ task' = [task EXCEPT ![c] = [pc |-> "rows_locked", line |-> l, mode |-> task[c].mode,
                                         locked |-> RowsOf(l) \cap rows]]
  /\ UNCHANGED <<stock, reservation, mode>>

PlanUnlocked(c, split) ==
  /\ task[c].pc = "rows_locked"
  /\ LET l    == task[c].line
         plan == Plan(l, split)
     IN  task' = [task EXCEPT ![c] =
           [pc |-> "planned", line |-> l, mode |-> task[c].mode, locked |-> task[c].locked,
            takes |-> takesFor(Recipe[l], plan, Keys), shortage |-> plan.shortage]]
  /\ UNCHANGED <<stock, reservation, mode>>

CommitPlan(c) ==
  /\ task[c].pc = "planned"
  /\ lockBalances(c, Touched(task[c].takes))
  /\ Record(task[c].line, Recorded(task[c].mode, task[c].takes, task[c].shortage))
  /\ task' = [task EXCEPT ![c] = Idle]
  /\ UNCHANGED mode

-------------------------------------------------------------------------------
(* Resolving: shipping, cancelling, moving to the other consumption mode.  *)

\* readForResolution, first statement: the status and the mode, unlocked.
ReadRow(c, op, l, to, todo) ==
  /\ reservation[l].status # "none"
  /\ task' = [task EXCEPT ![c] =
       [pc |-> "row_read", op |-> op, line |-> l,
        status |-> reservation[l].status, mode |-> reservation[l].mode,
        entry |-> NoEntry, to |-> to, todo |-> todo]]
  /\ UNCHANGED <<stock, reservation, mode>>

fulfillReservation(c, l) ==
  Starts(c, "fulfill") /\ LineFree(c, l) /\ ReadRow(c, "fulfill", l, mode, {})

releaseReservation(c, l) ==
  Starts(c, "release") /\ LineFree(c, l) /\ ReadRow(c, "release", l, mode, {})

\* readForResolution, second statement: the allocations and their entries.
ReadAllocations(c) ==
  /\ task[c].pc = "row_read"
  /\ task' = [task EXCEPT ![c].pc = "allocations_read",
                          ![c].entry = reservation[task[c].line].entry]
  /\ UNCHANGED <<stock, reservation, mode>>

\* A fulfilment or a release ends its caller's work; a migration goes on with
\* the next reservation of the switch.
Finished(c) ==
  task' = [task EXCEPT ![c] =
    IF task[c].op = "migrate"
    THEN [pc |-> "switching", to |-> task[c].to, todo |-> task[c].todo]
    ELSE Idle]

\* MUTANT of FoundOpen: the status that was read is not looked at.
FoundOpen_Unchecked(c) == TRUE

\* What the caller read before its locks, which is what it goes by.
FoundOpen(c) == task[c].status = "open"

Takes(c) == reservation[task[c].line].takes

\* readForResolution, third statement: the rows of the allocations are locked.
Resolving(c, op) ==
  /\ task[c].pc = "allocations_read" /\ task[c].op = op
  /\ lockBalances(c, Touched(Takes(c)))

\* The rollback: not open any more, nothing to migrate, or the posting refused.
Abandon(c) == UNCHANGED <<stock, reservation, mode>> /\ Finished(c)

SetStatus(c, s) == reservation' = [reservation EXCEPT ![task[c].line].status = s]

\* fulfillReservation under its locks: the movement first, then the release of
\* the reserved units, then the status, whatever it is by now.
CommitFulfill(c) ==
  /\ Resolving(c, "fulfill")
  /\ IF ~ FoundOpen(c) THEN Abandon(c)
     ELSE IF task[c].mode = "reserve_until_fulfilled" /\ Touched(Takes(c)) # {}
     THEN IF Postable(Negated(Takes(c)))
          THEN /\ postMovements("shipment", Negated(Takes(c)), NoEntry, task[c].line)
               /\ releaseReserved(Takes(c))
               /\ SetStatus(c, "consumed")
               /\ Finished(c) /\ UNCHANGED mode
          ELSE Abandon(c)
     ELSE SetStatus(c, "consumed") /\ Finished(c) /\ UNCHANGED <<stock, mode>>

\* releaseReservation under its locks: the consumed units come back as a
\* reversal of the entry that consumed them, or the reserved ones are freed.
CommitRelease(c) ==
  /\ Resolving(c, "release")
  /\ IF ~ FoundOpen(c) THEN Abandon(c)
     ELSE /\ IF task[c].mode = "consume_immediately"
             THEN /\ IF task[c].entry # NoEntry
                     THEN postMovements("reversal", Takes(c), task[c].entry, task[c].line)
                     ELSE UNCHANGED <<onHand, rows, ledger>>
                  /\ UNCHANGED reserved
             ELSE releaseReserved(Takes(c)) /\ UNCHANGED <<onHand, rows, ledger>>
          /\ SetStatus(c, "released")
          /\ Finished(c) /\ UNCHANGED mode

SetMode(c, entry) ==
  reservation' = [reservation EXCEPT ![task[c].line].mode = task[c].to,
                                     ![task[c].line].entry = entry]

\* migrateReservation under its locks.  The balance check of migration 0001
\* refuses an addReserved that would exceed what is on hand; that error leaves
\* the loop of switchConsumptionMode, so the switch itself is given up.
CommitMigrate(c) ==
  /\ Resolving(c, "migrate")
  /\ LET takes == Takes(c)
         back == IF task[c].entry # NoEntry THEN takes ELSE Zero
     IN  IF ~ FoundOpen(c) \/ task[c].mode = task[c].to THEN Abandon(c)
         ELSE IF Touched(takes) = {}
         THEN SetMode(c, reservation[task[c].line].entry) /\ Finished(c) /\ UNCHANGED <<stock, mode>>
         ELSE IF task[c].to = "consume_immediately"
         THEN IF Postable(Negated(takes))
              THEN /\ postMovements("shipment", Negated(takes), NoEntry, task[c].line)
                   /\ releaseReserved(takes)
                   /\ SetMode(c, Len(ledger) + 1)
                   /\ Finished(c) /\ UNCHANGED mode
              ELSE Abandon(c)
         ELSE IF \A k \in Keys : reserved[k] + takes[k] <= onHand[k] + back[k]
         THEN /\ IF task[c].entry # NoEntry
                 THEN postMovements("reversal", takes, task[c].entry, task[c].line)
                 ELSE UNCHANGED <<onHand, rows, ledger>>
              /\ addReserved(takes)
              /\ SetMode(c, NoEntry)
              /\ Finished(c) /\ UNCHANGED mode
         ELSE task' = [task EXCEPT ![c] = Idle] /\ UNCHANGED <<stock, reservation, mode>>

-------------------------------------------------------------------------------
(* Switching the consumption mode: four separate reads and writes.         *)

OpenLines == {l \in Lines : reservation[l].status = "open"}

\* previewModeSwitch, and the refusal of open reservations nobody agreed to
\* migrate.
switchConsumptionMode(c, to, migrateOpenReservations) ==
  /\ Starts(c, "switch")
  /\ mode # to
  /\ OpenLines # {} => migrateOpenReservations
  /\ task' = [task EXCEPT ![c] = [pc |-> "switch_previewed", to |-> to, todo |-> {}]]
  /\ UNCHANGED <<stock, reservation, mode>>

ListOpen(c) ==
  /\ task[c].pc = "switch_previewed"
  /\ task' = [task EXCEPT ![c].pc = "switching", ![c].todo = OpenLines]
  /\ UNCHANGED <<stock, reservation, mode>>

migrateReservation(c, l) ==
  /\ task[c].pc = "switching"
  /\ l \in task[c].todo
  /\ ReadRow(c, "migrate", l, task[c].to, task[c].todo \ {l})

SaveMode(c) ==
  /\ task[c].pc = "switching"
  /\ task[c].todo = {}
  /\ mode' = task[c].to
  /\ task' = [task EXCEPT ![c] = Idle]
  /\ UNCHANGED <<stock, reservation>>

-------------------------------------------------------------------------------
Begin(c) ==
  \/ \E k \in Keys, change \in Changes : applyAdjustment(c, k, change) \/ AdjustAbsentRow(c, k, change)
  \/ \E item \in Items, from, to \in Locations, n \in TransferQuantities :
       transferStock(c, item, from, to, n)
  \/ \E i \in DOMAIN ledger, k \in Keys : reverseEntry(c, i, k)
  \/ \E l \in Lines : reserve(c, l) \/ fulfillReservation(c, l) \/ releaseReservation(c, l)
  \/ \E to \in Modes, confirmed \in BOOLEAN : switchConsumptionMode(c, to, confirmed)

Continue(c) ==
  \/ PostAbsentRow(c)
  \/ PostReversal(c)
  \/ \E split \in SplitSettings : CommitReserve(c, split) \/ PlanUnlocked(c, split)
  \/ LockExistingRows(c)
  \/ CommitPlan(c)
  \/ ReadAllocations(c)
  \/ CommitFulfill(c)
  \/ CommitRelease(c)
  \/ CommitMigrate(c)
  \/ ListOpen(c)
  \/ \E l \in Lines : migrateReservation(c, l)
  \/ SaveMode(c)

\* The line c begins to resolve beside somebody else, one of them for a switch.
Crossing(c) ==
  {l \in Lines : /\ task'[c].pc = "row_read" /\ task'[c].line = l
                 /\ \E d \in Callers \ {c} : WorksOn(d, l) /\ (task'[c].op = "migrate" \/ Migrating(d))}

Next ==
  \E c \in Callers : (Begin(c) \/ Continue(c)) /\ crossed' = crossed \cup Crossing(c)

Spec == Init /\ [][Next]_vars

-------------------------------------------------------------------------------
(* Properties.                                                             *)

\* The units of k that postings about the lines of L moved.
Moved(k, L) ==
  SumFunction([i \in DOMAIN ledger |-> IF ledger[i].line \in L THEN ledger[i].delta[k] ELSE 0])

\* The units of k that are held for the line of a row, and those that have left stock for it.
HeldBy(row, k) ==
  IF row.status = "open" /\ row.mode = "reserve_until_fulfilled" THEN row.takes[k] ELSE 0

GoneFor(row, k) ==
  IF row.status = "consumed" \/ (row.status = "open" /\ row.mode = "consume_immediately")
  THEN row.takes[k] ELSE 0

(* No balance is negative and no unit is reserved that is not on hand, under *)
(* every interleaving of every operation.  Movements keep it by the check of *)
(* postMovements, and orders planned under locks by their plan.  On two      *)
(* paths nothing but the location_balances checks of migration 0001 does: an *)
(* order that met a missing row (Accepted) and the migration that takes      *)
(* consumed units back as reserved ones (CommitMigrate).                     *)
ReservedWithinOnHand == \A k \in Keys : 0 <= reserved[k] /\ reserved[k] <= onHand[k]

(* The balance is what replaying the ledger gives, at every commit: "the     *)
(* ledger is the record of what happened; this table is the answer without   *)
(* replaying it" (migration 0001).                                           *)
LedgerExplainsOnHand == \A k \in Keys : onHand[k] = Moved(k, Lines \cup {NoLine})

\* No line that was crossed has units of this key.
Undisturbed == {k \in Keys : \A l \in crossed : reservation[l].takes[k] = 0}

(* What is reserved at a key is what the open reservations of that mode took *)
(* there, no more and no less: no unit is held for nobody, and none that is  *)
(* held can be sold again; wherever no crossed line has units.               *)
ReservedIsCommitted ==
  \A k \in Undisturbed : reserved[k] = SumFunction([l \in Lines |-> HeldBy(reservation[l], k)])

(* A line that nobody crossed moves its units out of stock exactly once:     *)
(* when it ships, or when it is recorded under consume_immediately; a        *)
(* released line has moved nothing on balance.                               *)
LineMovesItsUnitsOnce ==
  \A l \in Lines \ crossed, k \in Keys : Moved(k, {l}) = -GoneFor(reservation[l], k)

(* Two orders for the last unit: an order whose balances are all locked is   *)
(* recorded, with the shortage it has, and never refused because the units   *)
(* it planned with are gone ("the database would refuse the second write,    *)
(* but as an error rather than as the shortage section 11 asks for").        *)
LockedPlanIsAccepted ==
  [][\A c \in Callers :
       task[c].pc = "reserving" /\ task'[c] = Idle =>
         reservation'[task[c].line].status # "none"]_vars

(* Taking an order never sells a protected unit: where an order whose        *)
(* balances are all locked took something, the safety stock is still         *)
(* unreserved on hand afterwards.                                            *)
OrdersLeaveSafetyStock ==
  [][\A c \in Callers, k \in Keys :
       /\ task[c].pc = "reserving" /\ task'[c] = Idle
       /\ reservation[task[c].line].status = "none"
       /\ reservation'[task[c].line].takes[k] > 0
       => onHand'[k] - reserved'[k] >= SafetyStock(k)]_vars

(* Reserved units can be shipped: the posting of fulfillReservation is       *)
(* accepted for every open reservation whose units are on hand and reserved. *)
ReservedUnitsCanShip ==
  \A l \in OpenLines :
    reservation[l].mode = "reserve_until_fulfilled" /\ Touched(reservation[l].takes) # {} =>
      Postable(Negated(reservation[l].takes))

===============================================================================
