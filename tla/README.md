# A TLA+ verification of eCommerce Inventory Manager

eCommerce Inventory Manager keeps one stock for a shop that sells through eBay and
WooCommerce. Orders of the channels are imported, reserve or consume stock, and every change
of stock makes a new number that each channel has to be told. Everything is kept in
PostgreSQL; web requests and several worker processes act on it concurrently, and the
channels fail, redeliver, answer late and are edited by others.

This directory holds TLA+ models of that program, the TLC configurations that check them and
TLAPS proofs of the most important results. Every definition that models code is listed in
`PROJECT.json` under `map` with the lines it stands for.

## 1. Inventory of the system

| part | state it keeps | operations | interacts with | what is hard about it |
|---|---|---|---|---|
| `packages/domain` | none | safety stock, availability of items and kits, allocation | called by inventory | rounding, ties, splitting |
| `packages/inventory`: ledger, adjustments, reservations | balances, ledger, reservations with their allocations, consumption mode | reserve, fulfill, release, switch mode, adjust, transfer, reverse | called by sync and by web actions | transactions that read before they lock; rows that do not exist yet |
| `packages/inventory`: items, locations, kits, mappings, activation, projection | `canonical_items`, `locations`, `kit_recipes`, `channel_mappings` and their versions | create, archive, link; declare, draft, approve; propose, approve, revise, activate, pause, archive | permits writes and commitments of sync; reads what imports recorded | decisions on rows nobody locked; constraints that decide races |
| `packages/jobs` | `background_jobs`, attempts | enqueue, claim, heartbeat, settle, retry, reclaim, expire, replay | runs the handlers of sync | leases, coalescing, retries, half-done settlements |
| `packages/sync`: targets, dispatch, reconcile | `channel_targets`, write attempts, conflicts | refresh a target, write, verify, reconcile, resolve a conflict | called after every stock movement; uses jobs, pilot and the adapters | late acknowledgements, retries, drift |
| `packages/sync`: orders, lifecycle, events, pipeline | `channel_orders`, lines, `processed_events`, `restock_candidates` | wake up, fetch, import, cancel, fulfil, refund, confirm a restock | calls inventory and targets in one transaction | redelivery, reordering, skipped revisions |
| `packages/sync`: schedule, cadence; `apps/worker`; `health`; `retention` | sync settings, scheduler lease, heartbeats, retention settings | elect a leader, tick, enqueue polls, assess, delete by age | starts everything periodic | a leader that outlives its lease; passes that die half way |
| `packages/notifications` | alerts, deliveries, preferences | raise, acknowledge, snooze, resolve, escalate, route, deliver | fed by all parts | several writers of one row; dying senders |
| `packages/pilot` | stages, enrollments, samples, incidents, drills | widen or narrow a stage, enroll, classify, assess | asked before every write | ceilings against concurrent enrollment |
| `packages/review`, `listings`, `shipping` | `reviewed_operations`, mirrored orders, packages, labels | propose, confirm, execute; draft, publish, reprice, copy; pack, buy, void, track | provider calls outside any transaction | unknown outcomes, two executions of one confirmation |
| `packages/integrations` | connections, secrets, cursors, import runs, webhooks, quota windows, health | authorize, refresh, import, register, rotate, erase, disconnect | wakes the pipeline | resumed imports, token rotation, overlap of registrations |
| `packages/identity`, `authz`, `ratelimit` | users, sessions, challenges, second factors, memberships, rate windows | sign in, invite, remove, delete a business | guards the web tier | single use of proofs, withdrawn invitations |
| `packages/ai` | endpoint, usage, suggestions | configure, test, ask | called by web pages | a budget read before the call |
| `crypto`, `config`, `observability`, `mail`, `audit`, `testing`, pages of `apps/web`, `apps/e2e` | none of their own, or append-only | | | I/O and formatting |

What makes the parts correct:

* **stock**: nothing is promised twice, every unit on hand is explained by the ledger, an
  order line moves its units once, an order that can be filled is filled, and the plan is the
  one the arithmetic promises;
* **catalog and pilot**: a mapping's history says what was in force, a decision to archive
  stays, a kit never holds stock, a pilot passes by what happened since it began;
* **jobs**: two jobs of one key never run together, no wake-up is lost, every job ends, and
  within its attempts;
* **targets**: the newest number reaches the channel and is not overwritten by an older one,
  and a row that says it has converged has;
* **orders**: each change of an order has its effect once, in the provider's order, and
  units that have left are not given back by a message;
* **reviewed operations**: at most one effect for one confirmation, and none without;
* **connections**: one sign-in for one authorization, one refresh for many waiters, nothing
  skipped by a resumed import, no silence during a rotation, no erasure claimed that was not made;
* **access**: a proof is good once, guesses are few, what was withdrawn stays withdrawn;
* **alerts and scheduling**: a serious alert is not forgotten, nobody is told for ever, one
  leader ticks, and a poll marked as done was queued.

`PROJECT.json` lists the places where these can go wrong (`hazards`), each at its line.

## 2. The modules

| module | models | uses |
|---|---|---|
| `Allocation` | `domain/` arithmetic, as operators and recursive functions | |
| `Reservations` | ledger, balances, reservations | extends `Allocation` |
| `Catalog` | items, locations, kits, mappings, activation, projection, and their web actions | extends `Allocation`, `Authz` |
| `Pilot` | stages, enrollment, incidents, drills, the acceptance report | |
| `JobQueue` | the queue and the lanes of its workers | |
| `ChannelTargets` | one mapping's target, writes, verification, reconciliation, samples | takes the queue in the form `JobQueue` establishes |
| `OrderPipeline` | one order from wake-up to restock decision; its copy | takes the queue from `JobQueue`, reservations from `Reservations` |
| `Authz` | the decision for a subject, a permission and a target | |
| `ReviewGate` | propose, confirm, execute | extends `Authz`; implements `ConfirmedOnce` |
| `ConfirmedOnce` | abstract specification of the gate | |
| `Listings`, `Shipping` | the operations that pass the gate, with the channel and the carrier | extend `ReviewGate` |
| `Suggestions` | the AI endpoint, its budget, a suggestion | extends `ReviewGate`'s permissions |
| `Operations` | the last three together: they share the rows of the gate and its executors | extends `Listings`, `Shipping`, `Suggestions` |
| `Connections` | authorization, credentials, sign-in, disconnection | extends `Authz` |
| `Imports`, `Webhooks`, `EbayNotifications`, `Standing` | what runs over a connection | extend `Connections` |
| `Integrations` | the last five together: they share connections, credentials and callers | extends all of them |
| `SignIn`, `Members` | identity and rate limits; who belongs to a business | |
| `Alerts` | alerts, routing, deliveries | |
| `Scheduling` | leader election, tick, health, cadence, retention | extends `Alerts` |
| `...Proofs` | theorems about `Reservations` (with `Allocation`), `JobQueue`, `ChannelTargets`, `Operations`, `Integrations`; `SalesProofs` about `OrderPipeline` and `Catalog`, `ServiceProofs` about `SignIn`, `Members`, `Alerts`, `Scheduling` and `Pilot` | extend the module they are about |
| `Sums` | theorems about adding up a function over a finite set | used by `ReservationsProofs`, `OperationsProofs` |
| `MC...` | instances for TLC | extend the modules they check |

How code becomes actions is the same everywhere. A statement, or a transaction that holds the
row it decides on, is one action. Whatever is read before a lock, before a provider call or
outside a transaction is an action of its own that puts what was read into the caller's
record, so that others come in between; a process may die after any of them. Unique indexes,
checks and foreign keys are part of the statement they can refuse, and a refusal rolls back.
Web actions appear as the guard (permission, recent sign-in) and the order of calls around an
operation.

**Allocation.** `planAllocation`, `splitPlan`, `singleLocationPlan`, `capacityAt`, the kit
availability and the safety-stock rule, over functions from `<<item, location>>` to units.
The loop of `splitPlan` is the recursive function `remainingAfter`.

**Reservations.** Balance rows (existing or not), the ledger as a sequence of postings, the
reservation of every order line, the settings and what each concurrent caller has read so far.
`SerializedByLine` says whether order handlers come through the job queue, which keeps two of
them off one order. A switch of the consumption mode takes no key, so nothing keeps its
migration off a line that a handler has read; the history `crossed` remembers those lines.

**Catalog.** `Write` is a mapping change under `readForUpdate`; activation and pausing read the
mapping without a lock (`ActivateMappingAction`, `pauseMapping`), read the version again
(`bumpVersion`) and settle (`activationWrites`) where the unique index on versions
and the checks on the row (`rowIsAllowed`) have the last word. `declareKit`, `draftRecipe` and
`approveRecipe` are split the same way. Sales and imports are single steps here.

**Pilot.** No statement of `setStage` or `enroll` shares a transaction with another, because the
web actions pass the pool. The write gate is asked between them, also about a business that has no
stage row yet, which it lets through. The history `served` is the day of the first write it let through
once there was a row. The report is a set of operators over incidents, drills and the
evidence other components left.

**JobQueue.** One action per SQL statement. `succeed`, `supersede`, `fail` and `release` are
two statements without a transaction, so they are two actions with a possible crash between
them. Instants are kept as the time that is left, and `Tick` lets it pass. `circumstances` says
what may go wrong in a behaviour: crashes, lost statements, lapsing leases, missing handlers.

**ChannelTargets.** The handlers of `dispatch.ts` and the pass of `reconcile.ts` run outside
any transaction: each read, provider call and statement is a step. The provider is a quantity
and an opaque version token. What can come in between, and how often, is counted by kind: a
failing call, a dead worker, a lost lease, an edit on the channel, a pause, a reconciliation.

**OrderPipeline.** The transaction of `handleOrderSync` is one action, written as the
composition of `upsertOrder`, `upsertLines`, `treatLines` and the lifecycle decisions as
functions of the payload. The fetch before it and the settlement after it are separate. The
provider revises the order freely, and may answer with the revision before. The five columns
of an order that the decisions do not read are left out, and so are changed line quantities:
`upsertLines` records them and nothing resizes the reservation.

**ReviewGate and ConfirmedOnce.** An operation is a row that is proposed from values read from
a provider, confirmed by somebody who is shown those values, and executed around a provider
call. `effects` counts what arrived outside. `ConfirmedOnce` knows six stages of an operation
and says that it has at most one effect, only after agreement, and that what was decided
stays decided; `Promise` in `ReviewGate` is the instance with the refinement mapping `Stage`, and
`AtMostOnceWhenConfirmed` is checked and proved for the listing and shipping operations
together (`Operations`).

**Listings, Shipping.** Each kind of operation has its proposal (with eligibility), its call and
its settlement. The channel and the carrier do what the repository's fakes do, and may fail
before or after they have acted. Packing, voiding and tracking are done by clerks whose
steps interleave with purchases.

**Suggestions.** Asking reads the endpoint and the month's usage, leaves, and records when it is
back; meanwhile others reconfigure, remove or ask.

**Connections.** A caller's request is a sequence of steps named by `acting[k]`; tokens and keys
live in `secrets`, and a refresh waits for an advisory lock. `Imports` adds the seven
streams of the two providers over small catalogues; `Webhooks` the registrations of one topic
as the store has them and as they are recorded, where requests that change them overlap since
nothing in the code keeps them apart (the history `overlapped` remembers that two did); `EbayNotifications` deletion requests,
destination, topics, keys and tokens; `Standing` readiness, health, quota and the HTTP client.

**SignIn, Members.** Challenges, sessions, authenticator steps, recovery codes, passkeys and the
setup token, each spent by a conditional update after an unlocked read; invitations, roles,
ownership, and the deletion of a business, whose requests keep their identifiers: one may be
withdrawn and another made while a confirmation that read the first is on its way.

**Alerts, Scheduling.** A sweep loads due alerts, writes the intents, counts the notification and
delivers, and may die anywhere; workers take, renew, lose and release the lease by
the conditional statements of `leases.ts`. A step of the scheduler reads its clock, asks for the lease,
beats and starts its tick in actions of their own, with any time in between.

Definitions named `X_Something` are plausible bugs of `X`: `PROJECT.json` names, for each property,
one that breaks it. `JoinBusiness_Unchecked` is a second one for `CancelledIsFinal`.

## 3. What TLC checks

A run asks several questions of one instance. Where they need different circumstances, a
variable that never changes (`regime`, `circumstances`, `scene`, `part`, `features`) says what a
behaviour is about, and the state spaces add up instead of multiplying.

| run | what it covers | distinct states |
|---|---|---|
| `reservations` | a plain line and a kit line at two locations, one without a row; two callers, every operation; `in_turn`: order handlers of a line take turns and the mode is switched beside them, `races`: nothing takes turns, entries are reversed and the mode of the stock stays | 1,939,634 |
| `jobs` | wake-ups of one order over two workers; `Steady`: leases renewed, one crash, one replay; `Rolling`: a worker without handler, lapsed leases; `Halved`: leases renewed, one lost statement; liveness | 650,972 |
| `targets` | two stock movements, two lanes; `any`: any two disturbances, conditional writes; `outages`: two outages, liveness | 2,040,086 |
| `orders` | an order or a copy, any three revisions, one disturbance; safety and liveness | 1,001,375 |
| `operations` | two operations, two executors, one clerk, one crash; groups of features, from drafts to labels in several packages and suggestions | 482,032 |
| `connections` | two concurrent requests, one crash; fourteen scenes, from authorization to redirects | 3,799,478 |
| `access` | two concurrent requests; codes, second factor, passkeys, setup, members with two requests to delete the business | 3,528,258 |
| `watch` | up to three workers; alerts, mail, routing, leader election, health, cadence, retention | 3,444,834 |
| `catalog` | two calls at once; mappings, variations, kits, places, items; the pilot's stages and its report; every stock level 0..2 of two items at three locations for order lines of 1..3 | 972,940 |

What these runs show.

* *Stock.* Reserved units are on hand (`ReservedWithinOnHand`) and on-hand figures are the sum
  of the ledger (`LedgerExplainsOnHand`), with or without turns. For the first the application's own
  checks suffice except on two paths, where only the checks of `location_balances` refuse: an order that
  met a missing row, and a migration that takes consumed units back as reserved ones. While the order handlers of a line
  take turns, reserved units belong to open lines (`CommittedInTurn`) and a line moves its units
  once (`MovedOnceInTurn`), except at lines where a switch of the mode and a handler had both read the
  reservation before either wrote it; orders all of whose balance rows are locked leave the safety stock alone
  (`OrdersLeaveSafetyStock`), and a plan made under locks is accepted (`LockedPlanIsAccepted`).
* *Arithmetic.* The greedy plans and the closed-form kit counts agree with definitions that
  say what the answer must be (`PlanIsTheRightOne`).
* *Queue.* While leases are renewed and no settlement has lost its second statement, handlers of
  one key run alone (`HandlersRunAlone`) and no wake-up is lost (`NoWakeUpLost`); both conditions
  are needed, and the second was found by the proof (section 4). In every circumstance attempts stay within the budget
  (`AttemptBudget`). No sweep is assumed to run, since nothing in the worker calls one, and `JobStops` says
  what is left then: a job ends, or waits past its window, or stays claimed because a worker
  crashed or because another wake-up of its key is pending.
* *Targets.* A converged row was acknowledged for its newest version and quantity
  (`ConvergedIsTrue`); no older version reaches the channel after a newer one unless a worker
  has outlived its lease (`OlderNeverOverwritesNewer`); after outages the last of
  several changes is on the channel for good (`DeliveredAfterOutages`). After a crash that would need the
  sweep over lapsed claims, and is not stated.
* *Orders.* What a line says was done about it is what was done (`TreatmentIsTrue`); an order
  recorded as cancelled, refunded or fulfilled has been settled as such (`DemandIsSettled`);
  shipped units are not restored (`ShippedIsNeverRestored`); the status follows the revisions
  (`StatusNeverGoesBack`); every change arrives (`EveryChangeArrives`).
* *Operations.* The gate implements `ConfirmedOnce` (`AtMostOnceWhenConfirmed`): one effect for a
  confirmation although executors die, overtake each other and begin again, thanks to the
  idempotency keys. A stored label was bought at the price confirmed (`StoredLabelIsPaidFor`), an
  order is told completed only when packages that left hold all of it (`CompletedWhenShipped`), and the AI budget
  is passed by at most the requests already under way (`BudgetOverrunIsBounded`).
* *Connections.* One authorization state is worth one sign-in (`AuthorizationSpentOnce`); waiting
  refreshers share a token (`RefreshIsShared`); a cursor has only written ground behind it
  (`CursorCoversWrittenGround`), as long as the provider's listing stands still; rotating webhooks leaves no silent moment
  (`OverlapNeverSilences`), as long as the store is not changed by others or disconnected, no answer of it
  is lost and no two requests change registrations at once; a deletion request is recorded as completed only when every business
  has erased (`RecordedErasureIsTrue`).
* *Access.* Wrong guesses are bounded although counting is a separate statement
  (`GuessesAreBounded`), no proof is accepted twice (`ProofIsSpentOnce`), nobody joins by a
  withdrawn invitation and no withdrawn deletion is carried out (`CancelledIsFinal`), also not by way of a
  request made after it.
* *Watch.* A serious alert that nobody dealt with is still to be announced
  (`OutstandingIsHeard`), a message is sent a bounded number of times (`SendsAreBounded`), a
  notification that was counted was written while one sweep runs at a time (`CountedWasWritten`), ticks
  overlap only when a step, with its renewal and heartbeat, lasts longer than the lease outlasts a renewal
  interval (`OverlapMeansOverrun`), and a poll that is marked was queued (`MarkedPollWasQueued`).
* *Catalog.* The version history explains every mapping (`HistoryExplainsMapping`): it is the
  unique index that keeps activations which read no lock from breaking it. An archived
  mapping stays archived (`ArchivedMappingIsFinal`): it is the check
  `channel_mappings_archival_recorded` that refuses an activation overtaken by an archival. A kit
  is never a container (`KitIsARecipe`). A pilot that passes answers for every oversale filed since the gate
  first let a write through under a stage (`PassIsEarned`).

### Three disagreements with a run of their own

| run | the code | what it contradicts |
|---|---|---|
| `ship` | with three units on hand and two reserved for a line, `fulfillReservation` is refused: the movement is checked against the reserved figure before the units are released from it | `reservations.ts:261` "Ships the reserved units" |
| `protective_reduction` | reconciliation queues its protective write for a version that was written before the channel drifted, and the handler stands down as already written | `reconcile.ts:314` "attempt a protective reduction to the target" |
| `copied_order` | the row of a copied order is looked up by an identifier that is recorded only after the store has answered; a webhook in between commits the copy as a second sale | `order-copy.ts:294` "the pipeline can never see the copy first" |

### Statements that fail, kept as definitions

These say what a comment or document of the repository promises. No run checks them; adding
the name to the `INVARIANTS` of the configuration shows the counterexample.

| definition, configuration | the code | what it contradicts |
|---|---|---|
| `CeilingHolds`, `MCCatalog` | `enroll` locks the stage row by a statement that commits at once, since the web actions pass the pool (`actions/pilot.ts:139`); two callers enroll from one count, and a stage is narrowed from a count that is old | `pilot/src/stages.ts:259` "two operators enrolling at once must not both read" |
| `PreviewIsWhatIsWritten`, `MCCatalog` | the preview adds up the mapping's own item at all chosen locations; the projection takes a kit's capacity and leaves archived locations out (`projection.ts:236`) | `activation.ts:110` "Computes the outbound target the same way the projection will" |
| `NothingPackedTwice`, `MCOperations` | a package is cancelled while its label is being bought; storing the label makes it `labelled` whatever it was (`purchase.ts:363`), and its units have been packed again | `packages.ts:22` "the packages of one line never claim more than the line has left to ship" |
| `EscalationIsHeard`, `MCWatch` | the sweep records an acknowledged alert as suppressed without asking whether it got worse (`sweep.ts:142`) | `alerts.ts:186` acknowledging "does not stop an escalation" |
| `LiveWorkerIsReported`, `MCWatch` | the leader's beat is recorded under the role `scheduler` and the check reads one row of role `worker` (`report.ts:203`) | `scheduler.ts:143` "nothing goes unreported" |
| `AnOwnerCanAct`, `MCAccess` | the trigger counts owners, suspended or not (`0001_foundation.sql:298`) | the same trigger: a business "must retain at least one owner" |
| `CompletedMeansErased`, `MCConnections` | a second delivery of a request that is still at work is answered `completed` (`deletion.ts:201`) | `deletion.ts:33` "it is complete only" when every business has answered |
| `EvenCrossedLinesMoveOnce`, `MCReservations` | `readForResolution` takes no lock on the reservation (`reservations.ts:706`) and the migration of a switch no key of the queue: a shipment that read the reservation as reserved, before a switch consumed it, ships it once more | `reservations.ts:261` "Ships the reserved units: they leave on hand and stop being reserved" |
| `EveryJobEnds`, `MCJobQueue` | nothing in `apps/worker` calls `reclaimExpired` or `expireOverdue` | `queue.ts:441` "PostgreSQL leases and heartbeats make worker jobs reclaimable after crashes" |
| `OverlappingRequestsNeverSilence`, `MCConnections` | `reconcile` reads the rows after it listed the store's webhooks (`registration.ts:168`), and two requests share no lock: one retires as gone what the other has just registered | `registration.ts:31` "Rotation is overlapping (section 14) and the overlap is the whole design", so that no event "is lost with no record that it existed" |
| `OverlapMeansSlowTick`, `MCWatch` | the step awaits its renewal and its heartbeat before it starts the tick (`scheduler.ts:144`), and does not look at the lease again | `leases.ts:95` "continuing would mean two processes driving one clock, which is the situation this whole mechanism exists to avoid" |
| `PassAnswersForEveryDay`, `MCCatalog` | a business without a stage row may be written to (`stages.ts:133`), and the pilot is dated by its first `setStage` | `stages.ts:199` the thirty days "are measured from the first moment a real provider could be written to" |
| `TightestWindowDecides`, `MCConnections` | the window with the largest used fraction decides; one with a small limit and a smaller fraction may have nothing left for a priority | `quota.ts:154` "The tightest live window decides" |

### Bounds, and why they are enough

* Two callers, lanes, executors or requests: the races are between two transactions, and a
  third only repeats one of the roles. `watch` has three workers, so that a lease changes
  hands while two others hold on. Two locations are needed for transfers and splitting, three
  for priority among ties (`catalog`, scene `allocation`).
* Mappings share no state but stock, lines of an order are decided one by one, orders share
  only stock: one mapping, one order and one line are enough for `ChannelTargets` and
  `OrderPipeline`. Locking across the lines of an order is outside these modules.
* `MaxPostings`, `MaxVersion`, `MaxVersions`, `MaxRevisions`, `MaxJobs`, `MaxClaims`, `MaxBegun`,
  `MaxSeeds`, `MaxRows` cap counters that only grow. Three revisions allow an order to leave a
  state and come back to it; five versions a mapping that is proposed, approved, activated and
  archived while a second change is under way.
* Clocks are small and every duration is a constant of one or two units, so that each deadline
  is met early, on time and late.
* In `watch` a lease lasts three ticks and is renewed every two, over four ticks, so that a step can
  outlast the margin of one. In `access` there are two requests to delete the business, so that one can
  be withdrawn and another made.
* Disturbances are limited in number: two of any kind, or one. A mutant of each property is
  caught within them.
* Symmetry is used for callers, workers, executors and clerks, which nothing tells apart, and
  only in runs without liveness.
* Deadlock is not checked where the bounds, or the finished work, make the system stop.

### Fairness

* `JobQueue`: weak fairness of every lane and of time. The lanes are loops (`runner.ts` 191-232). The
  sweeps may run and are not fair: the worker's entry point does not call them, and `JobStops`
  says which jobs wait for one.
* `ChannelTargets`: a lane that has begun goes on; a pending job is claimed if it is ready
  again and again (strong fairness, since the other job of the mapping excludes it in
  between: `claimOnce` takes the oldest first). Failing calls and crashes are not fair.
* `OrderPipeline`: a ready job is run, and a change that no wake-up has announced is announced
  in the end, by a webhook or by the sweep over changed orders.
* The other modules state safety only and no fairness.

## 4. What is proved

All proofs are for every value of the constants that satisfies the named assumptions of the
modules (natural numbers where the schema has non-negative integers, recipes with positive
quantities, a priority order without repetition), hence for any number of items, locations,
lines, callers, workers and versions.

* `ReservationsProofs!TakesAreAvailable`: a plan takes whole units, at most what is available
  of every component everywhere. The loop of `splitPlan` gives up at each location no more
  than the capacity there, and capacity times recipe is below the stock by the floor of the
  division. `remainingAfter` is a recursive function; only its one-step unfolding is needed.
* `ReservationsProofs`: `TypeCorrect`, `NoOversell` (`ReservedWithinOnHand`),
  `LockedPlansAreAccepted` and `SafetyStockIsLeft` (`OrdersLeaveSafetyStock`). The inductive
  invariant is `TypeOK`, `ReservedWithinOnHand` and
  `ReversedEntryExists`: a reversal that a caller has read about names an entry of the
  ledger, without which the type of the reversed amount is lost. The bound is kept by
  `Postable`, the check of `postMovements`, and for reservations by
  `TakesAreAvailable`. `LockedPlansAreAccepted` follows since a plan within the available
  units passes both checks, and `SafetyStockIsLeft` since the available units already leave the
  safety stock out and locked rows do not change between plan and posting: it speaks of orders all
  of whose balances are locked (section 5 says why).
* `ReservationsProofs`, the sums: `LedgerExplains` (`LedgerExplainsOnHand`), `CommittedInTurnHolds` and
  `MovedOnceInTurnHolds`, for any ledger and any number of lines. Each is an equation between a
  figure of a row and a sum over a set that grows (entries of the ledger, open lines). The first
  needs that every posting adds as many units to a row as its entry says. The other two are proved
  for lines whose order handlers take turns (`SerializedByLine`; the code runs the events of one order
  through one queue key) and which no switch of the mode crossed. A switch takes no key, so the history `crossed`
  collects the lines that it and somebody else had read at once, and the first equation is claimed of the
  balances of which no such line has units (`Undisturbed`). `TurnInv` says that one caller is busy with a
  line that is not crossed (`OneCallerPerLine`),
  that what it read of the line's reservations still stands (`ReadIsCurrent`), that units consumed
  at once have the entry that consumed them (`ConsumedHasEntry`) and that the reserved figure of a
  row is the sum of its open reservations (`ReservedIsCommitted`); `MoveInv` adds that the line
  moved its units once (`LineMovesItsUnitsOnce`), for lines whose entries nobody reverses by hand and, again, that are not crossed.
* `Sums`: `SumFunctionOnSet` of the community modules is a fold in an order that `CHOOSE` picks.
  `FiniteInduction` derives induction over finite sets from the library's well-founded subset
  ordering, stated about a set of good sets instead of a predicate, so that no operator
  parameter has to be instantiated; with it the sum does not depend on the order, and
  adding, taking away and changing one element change it as one expects.
* `JobQueueProofs`: `TypeCorrect`, `RunAlone` (`HandlersRunAlone`), `WakeUpsStayCovered`
  (`NoWakeUpLost`) and `BudgetIsKept` (`AttemptBudget`), for any number of jobs, keys, workers and
  lanes. The invariant `Inv` adds to the types that a busy lane has a job, that no job was begun
  more often than it counts attempts, that two running jobs of one key are one job, and, while
  the queue is `Orderly`, that a lane at work holds the running claim of its job and shares it
  with nobody (`ClaimsHeld`). `BudgetIsKept` does not need `Orderly`. The attempt to prove
  `RunAlone` from renewed leases alone failed for a reason in the code: when the attempt record
  of a settlement is lost, the catch of `execute` answers with a `fail` that asks for no holder
  (`runner.ts:141`), and by then another worker may hold the job. Hence the second condition.
* `ChannelTargetsProofs`: `TypeCorrect`, `LateAcknowledgements`, `NewestStays` and
  `ConvergedStaysTrue` (`ConvergedIsTrue`). The
  invariant adds to the types that nothing refers to a row before it exists, that each
  worker's reading trails the row, and that as long as no lease has been lost at most one
  worker is active and its reading is not older than what the channel was sent. `NewestStays`
  is an action property; it needs exactly that last part. `ConvergedStaysTrue` is a second
  induction over `Delivery`: what was last sent is on the channel unless it was edited, and what
  a worker is about to record is what it sent for the version it read.
* `SalesProofs`, orders: for any number of lines, units, revisions and faults.
  `TypeCorrect`, `TreatmentStaysTrue`, `ShippedStaysShipped` and `CopiesCommitNothing` rest on
  the invariant `Inv`: the types, `TreatmentIsTrue`, and `NothingBeforeCommitment`, without
  which a shipment of a line that was never committed would break the second. The proof
  follows one line through `ingestOrder` and `applyLifecycle`, for every demand state and every
  choice of refused movements. `DemandStaysSettled` is an induction of its own: an older
  revision handed to the lifecycle handlers can undo nothing the newest one settled.
  `StatusFollowsRevisions` assumes a provider that numbers its revisions. Its invariant
  `Agreement` says that the row, the payload in flight, the current and the previous revision
  show the same state wherever they carry the same number; without it a payload of equal
  revision, which `upsertOrder` accepts, might change the state.

* `SalesProofs`, catalog: for any number of items, places, mappings, recipes and calls at once.
  `KitsAreRecipes` (`KitIsARecipe`) rests on `KitInv`: a kit holds no stock row and is nobody's
  component (`KitsHoldNothing`), and one recipe of an item is in force (`OneInForce`). Every
  write keeps both, whatever its caller read before it. `HistoryIsExplained`
  (`HistoryExplainsMapping`) rests on `MappingInv`: the history has a row for each version up to
  the one in force and no two of one version (`HistoryIsWhole`), and what a caller saw of a mapping
  is a version in the history (`CallsOK`), so a write after a stale reading meets the unique index.
  `ArchivingIsFinal` (`ArchivedMappingIsFinal`) follows from the same invariant and `rowIsAllowed`,
  the check on the row.
* `ServiceProofs`, watch: for any number of workers, alerts, messages and attempts. `SendsStayBounded`,
  `AlertsStayHeard` and `CountsAreWritten` rest on `AlertsInv`: sweeps know only alerts that
  exist, the severity announced never exceeds the alert's own (`RankTrails`), every message on the
  wire is covered by an attempt counted before it (`AttemptsCover`), and, where one
  sweep runs at a time, its copy of an alert has the same next number as the row (`Numbered`). `OverlapsAreOverruns`
  rests on `LeaderInv`: whoever thinks it leads holds the lease for `LeaseFor` from the renewal it remembers, or
  that renewal is longer ago than `LeaseFor` (`LeaseOutlived`), and a step that has passed its renewal began less than `RenewEvery` after the one it
  remembers. Every statement in between may take any time, so a step that overlaps another's is one
  whose beginning is older than the margin. `MarkedPollsWereQueued` rests on
  `CadenceInv`: a pass that is about to mark has queued at or after the time it will write.
* `ServiceProofs`, access: for any number of users, requests, challenges, codes and seeds.
  `WithdrawalIsFinal` (`CancelledIsFinal`) rests on `MembersInv`: an invitation that was accepted
  was not cancelled, row locks are held by the requests that took them, and the request a deleted business was
  deleted through is confirmed, which no cancelled one ever is: the update that settles it asks for the identifier that was read. `GuessesStayBounded` and
  `ProofsAreSpentOnce` rest on `SignInInv`. For each kind of proof it says that one that was
  accepted is marked so in its row. For the authenticator this needs the step each request
  read before its conditional update (`StepsRead`). For guesses it adds to the attempts a
  challenge counts the requests that have compared and not counted yet. The behaviours of the
  run `access` are behaviours of `SignInSpec` and of `MembersSpec` beside each other.
* `ServiceProofs`, pilot: `PassesAreEarned` (`PassIsEarned`), for any number of days, mappings,
  incidents, drills and callers. `PilotInv` says that a business that has had a write let through under a
  stage is dated, no later than the day of the first (`served`), and that incidents are of days that have come.
  Thus every oversale from then on is in the report's window. The gate lets nothing through before the
  stage leaves observe, and every path out of observe stamps the date and none moves it; that is the content of the induction.

* `OperationsProofs`: for any number of operations, executors, attempts, crashes, clerks,
  packages and requests.
  * `GateKeepsPromise` (`AtMostOnceWhenConfirmed`): the listing and shipping operations implement
    `ConfirmedOnce`; every step is one of its steps or leaves what it sees unchanged. What the
    code relies on is in the providers, so the invariant `GateInv` is about them.
    `ProviderRemembers` says that an operation has had its effect exactly when the channel or the
    carrier holds its mark: the key, the draft a publication names, or the label. With it a
    second call has no second effect. `KeysApart` says that two operations never share a key. A
    restock has no key at all: there `RestockPassed` says that the listing's version has left
    the one that was read. An executor that is told of a success has had its effect
    (`RunTrue`), so `completeExecution` never records one that did not happen.
  * `LabelsArePaidFor` (`StoredLabelIsPaidFor`): a second induction, `LabelInv`, over the first. An
    executor that carries a success to the insert has a label in the carrier's books at the
    amount confirmed (`RunsPaid`), and the carrier never forgets one or changes its price; a
    clerk asks back only a label there is (`ClerksHold`).
  * `CompletionWaits` (`CompletedWhenShipped`): an induction over packages and what they hold, with
    the sums above. `ShipInv` says that a labelled package has a label (`LabelledHaveLabels`), that
    a label that no longer stands was taken back by the carrier (`LabelsStand`), and that a clerk
    about to tell of the completion has found what is owed among the packages that have gone
    (`ClaimsHold`): shipped, or shipped and labelled anew. What is owed never grows, since refunds
    only take away from it.
  * `BudgetIsPassedByFew` (`BudgetOverrunIsBounded`): `BudgetInv` counts what is recorded for a
    month together with the requests of that month that have passed the budget and not come
    back. It assumes finitely many requests at once, at least one.
* `IntegrationsProofs`: for any number of callers, connections, authorizations, notifications and
  businesses, and over every step of `Integrations`, so that no import, webhook or readiness check
  comes between unnoticed. Steps that only move their caller to a stage no invariant asks
  about are dealt with once (`Quiet`).
  * `AuthorizationIsSpentOnce` (`AuthorizationSpentOnce`): `AuthInv` says that an authorization was
    spent never, or once and is consumed; beginning and pruning touch pending ones only.
  * `RefreshStaysShared` (`RefreshIsShared`): `TokenInv` says that the lock of a connection has one
    holder (`Locked`), and that while a refresh nobody forced holds it the connection has no
    usable token from a refresh (`LooksAgain`). The second needs the first: only the holder stores
    such a token. A sign-in stores one without the lock, which is why the property is about
    tokens that a refresh stored.
  * `RecordedErasureStaysTrue` (`RecordedErasureIsTrue`): `ErasureInv` says of every pass at work that, as
    long as nothing failed in it, each business that was asked and still holds orders is yet
    before it. Passes of one request may overlap: none takes from another what it relies on
    (`Kept`), since erasing and importing only make the asked holders fewer. This counts from
    when a request was first taken up, see section 5.
  * `OverlapNeverFallsSilent` (`OverlapNeverSilences`): `HookInv` says, as long as nobody changed a
    registration at the store, no answer was lost, nobody disconnects and no two requests changed registrations
  at once, that the registration
    posted last from here is sound: active at the store, pointing here, verifiable
    (`LatestIsSound`). What a rotation, a repair or a promotion deletes, retires or pauses is behind it or
    was never at the store (`Minds`). This needs that one request changes registrations at a time
    (`OneChanges`), which the code does not arrange: it holds as long as no request began beside another,
    which the history `overlapped` records; and that a registration the store has is in its row or in the hands of the
    request that is to record it (`PostedIsSettled`).
  * `CursorsCoverGround` (`CursorCoversWrittenGround`): `CursorInv` says of the saved cursor, and of the
    cursor each run goes by, that every entry before it has a row, and of a run with a fetched page that
    the page holds the rest up to its next cursor (`Reads`, for offsets and for page numbers). Rows
    are added and never removed, so runs do not disturb each other.

Assumed of the constants, besides the types: `WebhooksAssumption` (identifiers of
registrations are positive, 0 stands for none), `ImportsAssumption` (pages are not empty; each
stream lists a sequence, and what is placed later is listed later, as `orderby=modified&order=asc`
asks for), `ShippingAssumption` (finitely many packages, the units ordered are a number),
`CatalogAssumption` (bounds are numbers, finitely many recipes) and `OpeningsAssumption` (a behaviour
opens before there is a kit, on items and balances of their types). TLC evaluates each of them in the run of its module.

Only model-checked: the liveness properties (`JobStops`, `DeliveredAfterOutages`,
`EveryChangeArrives`), since liveness and `ENABLED` are out of this prover's reach; and
`PlanIsTheRightOne`, that the allocation computes what its definition says, for every input of
the bounds, since it is about what a recursive function computes, which takes induction over data.
That a plan takes no more than there is, is proved.

## 5. Observed, not kept as a run

Behaviours met while modelling, each reproducible by a small change of a configuration.

* Without serialization per order, two resolutions that both read a reservation as open both
  move stock (`reservations.ts:706` reads without a lock). With it, a switch of the consumption mode
  still crosses a handler: a shipment that read the reservation before its migration moves its
  units again (`EvenCrossedLinesMoveOnce`).
* Two requests that reconcile or rotate webhooks can take from each other the registration either
  relies on (`OverlappingRequestsNeverSilence`).
* Nothing in `apps/worker` calls `reclaimExpired` or `expireOverdue`: the job of a worker that crashed stays
  claimed, and its serialization key with it (`EveryJobEnds`).
* A business that has no stage row is written to, and what happens before its first `setStage` is outside the
  pilot's window (`PassAnswersForEveryDay`).
* An order that meets a missing balance row is planned before that row is locked
  (`reservations.ts:119`), so two such orders can go below the safety stock together, though never
  below zero.
* A migration between consumption modes that cannot post is skipped without a word
  (`reservations.ts:569`); an absolute count on an item without a balance row is added to what
  another caller creates (`adjustments.ts:179`).
* `planAllocation` never assembles a kit across locations, though pooled availability
  advertises such kits (`availability.ts:125`, `allocation.ts:85`).
* `reclaimExpired` breaks the pending-dedupe index when a second wake-up of the same key waits,
  and then takes back no lease at all (`queue.ts:456`). A worker that lost its lease still
  settles the job of its successor (`queue.ts:306`).
* `blocked` is overwritten by the next stock movement (`targets.ts:410`). A conditional write
  refused as stale is retried with the same token (`failures.ts:37`). Drift is diagnosed while
  our own first write is still on its way (`reconcile.ts:254`). Withheld and refused writes are
  not sent when the stage widens or the mapping resumes.
* A revision found superseded is still given to the lifecycle handlers (`pipeline.ts:179`); an
  order first seen as fulfilled never reduces stock; an order reinstated after a cancellation
  is not committed again; a partial shipment keeps the rest of a cancelled line reserved
  (`lifecycle.ts:98`); a refused shipment is reported as already resolved (`lifecycle.ts:204`).
* A worker whose lease lapsed settles the job with the wake-up coalesced into it; a statement
  lost after `succeed` lets the caught error put the finished job back, also one that somebody
  else is running by then (`runner.ts:141`).
* Adopting a channel's quantity posts the difference from the preview's figure
  (`activation.ts:459`). A location is archived although units were received after the check
  (`locations.ts:215`), and an archived one can be linked to a channel. An approval that read a
  draft puts it in force again after it was superseded (`kits.ts:289`).
* An oversale filed again against an alert that was classified is not filed
  (`incidents.ts:39`), so a repeated oversale under one alert is counted once.
* The keys of publication and of an order copy name no attempt (`drafts.ts:370`,
  `order-copy.ts:189`), so after a failure the unique index on keys refuses the new proposal
  that `review.ts:379` speaks of. A purchase with an unknown outcome is recorded as failed, and
  the label that may exist is found by nobody (`purchase.ts:286`).
* The label of a package that was shipped can be taken back (`labels.ts:115` does not ask), and a
  purchase that was in flight then sets the package to labelled (`purchase.ts:361`) although it
  has left. `CompletedWhenShipped` therefore counts packages that were shipped and labelled anew. No
  checked scene has both several purchases and a completion to tell; the proof covers both.
* A resumed import concludes what is missing from its own start, though the pages before its
  cursor were seen by an earlier run (`imports/runner.ts:238`).
* Two deliveries of a deletion that both found the row of a forged one each take it up, since the
  update that does so asks for no status (`deletion.ts:183`). If an order arrives between, the
  pass of the first can record the request as completed while that of the second is still at
  work. `RecordedErasureIsTrue` therefore speaks of the businesses that held orders when the
  request was first taken up; four deliveries (`MaxReceived`) show the difference.
* A sender that dies on the last attempt leaves its delivery pending for ever
  (`dispatch.ts:159`). Enrolling a new authenticator forgets the last step used.

## 6. Plan

Done: stock, queue, targets and orders first; then reviewed operations with their abstract
specification, connections and what runs over them, identity, alerts and scheduling, catalog
and pilot; then the proofs of every safety invariant and action property but the one of
section 4. What is left, in this order:

1. An abstract channel ("the newest number, once") that `ChannelTargets` implements.
2. `LockOrder`: the balance rows that orders with several lines lock one line at a time
   (`orders.ts:379`); the watermark of the order sweep.

## 7. Not modelled

* Cryptography, signature checks and the verification of passkeys: whether a signature is right
  is an input of the modules that depend on it.
* Sockets, name resolution, SMTP, file storage, logging and its redaction, configuration, the
  migration runner and the connection pool: I/O without a decision to explore.
* Pages, components, wording of alerts and mails, formatting and the parsing of payload fields
  that no decision reads.
* Push and Telegram destinations, the conformance scripts of the pilot, read-only lists and
  statistics, and the test harnesses.
* Changed quantities of an order line, which the code records and never acts on, and the moment
  the pipeline raises its oversell alert: the alert itself is in `Alerts`, its incident in `Pilot`.
