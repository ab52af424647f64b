----------------------------- MODULE SalesProofs -----------------------------
(***************************************************************************)
(* What is sold and what is ordered.  First the order pipeline, for every  *)
(* number of lines, quantity, revisions and disturbances, in both          *)
(* consumption modes and whether or not the provider numbers its           *)
(* revisions.  Then the catalog, for every number of items, places,        *)
(* mappings, recipes and overlapping calls.                                *)
(***************************************************************************)
EXTENDS OrderPipeline, Catalog, FiniteSetTheorems, TLAPS

\* Nothing is reserved before the order has qualified: this is what makes the
\* one commitment safe, since treatLine overwrites whatever the line says.
NothingBeforeCommitment ==
    ~order.committedOnce => \A l \in Lines : lines[l].reservation = "none"

Inv == TypeOK /\ TreatmentIsTrue /\ NothingBeforeCommitment

-----------------------------------------------------------------------------
(* The pieces of the transaction.                                            *)

\* The larger of two figures stays in range and below neither.
LEMMA LargerInRange ==
    ASSUME NEW n \in Nat, NEW a \in 0..n, NEW b \in 0..n
    PROVE  /\ Larger(a, b) \in 0..n
           /\ Larger(a, b) >= a
           /\ Larger(a, b) >= b
BY DEF Larger

\* The payload of a fetched revision.
LEMMA PayloadType ==
    ASSUME NEW s \in DemandStates, NEW shipped \in [Lines -> 0..Quantity],
           NEW n \in 0..MaxRevisions
    PROVE  Payload(s, shipped, n) \in Payloads
<1>1. 0 \in 0..MaxRevisions
  BY OrderAssumption
<1> QED BY <1>1 DEF Payload, Payloads

\* Nothing has shipped.
LEMMA NothingType == Nothing \in [Lines -> 0..Quantity]
<1>1. 0 \in 0..Quantity
  BY OrderAssumption
<1> QED BY <1>1 DEF Nothing

\* The order row after the import (upsertOrder).
LEMMA UpsertOrderType ==
    ASSUME TypeOK, NEW p \in Payloads
    PROVE  /\ upsertOrder(p) \in OrderRows
           /\ order.committedOnce => upsertOrder(p).committedOnce
<1>1. MaxRevisions \in Nat
  BY OrderAssumption
<1>2. order.seq \in 0..MaxRevisions /\ p.seq \in 0..MaxRevisions /\ p.state \in DemandStates
  BY DEF TypeOK, OrderRows, Payloads
<1>3. Larger(order.seq, p.seq) \in 0..MaxRevisions
  BY <1>1, <1>2, LargerInRange
<1>4. order \in OrderRows
  BY DEF TypeOK
<1>5. (order.committedOnce \/ p.state = "committed") \in BOOLEAN
  OBVIOUS
<1> QED BY <1>2, <1>3, <1>4, <1>5 DEF upsertOrder, OrderRows

\* upsertLines keeps what a line says and only raises what has shipped.
LEMMA UpsertLinesStep ==
    ASSUME TypeOK, NEW p \in Payloads, NEW l \in Lines
    PROVE  /\ upsertLines(p)[l] \in LineRows
           /\ upsertLines(p)[l].shipped >= lines[l].shipped
           /\ upsertLines(p)[l].treatment = lines[l].treatment
           /\ upsertLines(p)[l].reservation = lines[l].reservation
<1>1. Quantity \in Nat
  BY OrderAssumption
<1>2. lines[l] \in LineRows
  BY DEF TypeOK
<1>3. lines[l].shipped \in 0..Quantity /\ p.shipped[l] \in 0..Quantity
  BY <1>2 DEF LineRows, Payloads
<1>4. /\ Larger(lines[l].shipped, p.shipped[l]) \in 0..Quantity
      /\ Larger(lines[l].shipped, p.shipped[l]) >= lines[l].shipped
  BY <1>1, <1>3, LargerInRange
<1>5. upsertLines(p)[l] =
        [lines[l] EXCEPT !.shipped = Larger(lines[l].shipped, p.shipped[l])]
  BY DEF upsertLines
<1> QED BY <1>2, <1>4, <1>5 DEF LineRows

\* A line that holds nothing is treated truthfully (treatLine).
LEMMA TreatLineStep ==
    ASSUME NEW l \in Lines, NEW line \in LineRows, line.reservation = "none",
           mapping[l] \in Mappings
    PROVE  /\ treatLine(line, l) \in LineRows
           /\ Truthful(treatLine(line, l))
           /\ treatLine(line, l).shipped = line.shipped
           /\ treatLine(line, l).reservation # "released"
BY DEF treatLine, LineRows, Truthful, Mappings

\* The import: every line stays truthful, no shipped figure falls, nothing is
\* given back, and what is reserved is reserved by a committed order.
LEMMA IngestStep ==
    ASSUME Inv, NEW p \in Payloads, NEW l \in Lines
    PROVE  /\ ingestOrder(p)[l] \in LineRows
           /\ Truthful(ingestOrder(p)[l])
           /\ ingestOrder(p)[l].shipped >= lines[l].shipped
           /\ lines[l].reservation # "released" =>
                ingestOrder(p)[l].reservation # "released"
           /\ ~upsertOrder(p).committedOnce =>
                ingestOrder(p)[l].reservation = "none"
<1> DEFINE u == upsertLines(p)[l]
<1>1. /\ u \in LineRows
      /\ u.shipped >= lines[l].shipped
      /\ u.treatment = lines[l].treatment
      /\ u.reservation = lines[l].reservation
  BY UpsertLinesStep DEF Inv
<1>2. lines[l] \in LineRows /\ Truthful(lines[l]) /\ mapping[l] \in Mappings
  BY DEF Inv, TypeOK, TreatmentIsTrue
<1>3. Truthful(u)
  BY <1>1, <1>2 DEF Truthful
<1>4. ~order.committedOnce => lines[l].reservation = "none"
  BY DEF Inv, NothingBeforeCommitment
<1>5. order.committedOnce => upsertOrder(p).committedOnce
  BY UpsertOrderType DEF Inv
<1>6. lines[l].shipped \in Int /\ lines[l].shipped >= lines[l].shipped
  BY <1>2, OrderAssumption DEF LineRows
<1>7. CASE Superseded(p)
  <2>1. ingestOrder(p)[l] = lines[l]
    BY <1>7 DEF ingestOrder
  <2> QED BY <2>1, <1>2, <1>4, <1>5, <1>6
<1>8. CASE ~Superseded(p) /\ ~shouldCommit(p)
  <2>1. ingestOrder(p)[l] = u
    BY <1>8 DEF ingestOrder, treatLines
  <2> QED BY <2>1, <1>1, <1>3, <1>4, <1>5
<1>9. CASE ~Superseded(p) /\ shouldCommit(p)
  <2>1. ingestOrder(p)[l] = treatLine(u, l)
    BY <1>9 DEF ingestOrder, treatLines
  <2>2. u.reservation = "none"
    BY <1>9, <1>1, <1>4 DEF shouldCommit
  <2>3. upsertOrder(p).committedOnce
    BY <1>9 DEF upsertOrder, shouldCommit
  <2>4. /\ treatLine(u, l) \in LineRows
        /\ Truthful(treatLine(u, l))
        /\ treatLine(u, l).shipped = u.shipped
        /\ treatLine(u, l).reservation # "released"
    <3> HIDE DEF u
    <3> QED BY <1>1, <1>2, <2>2, TreatLineStep
  <2> QED BY <2>1, <2>3, <2>4, <1>1
<1> QED BY <1>7, <1>8, <1>9

\* What a lifecycle decision may make of a line: it stays truthful, units that
\* have shipped are not given back, and nothing is reserved.
Follows(line, after) ==
    /\ after \in LineRows
    /\ Truthful(after)
    /\ line.shipped > 0 /\ line.reservation # "released" =>
         after.reservation # "released"
    /\ line.reservation = "none" => after.reservation = "none"
    /\ after.reservation = "open" => line.reservation = "open"
    /\ after.shipped >= line.shipped

\* A cancelled line (applyCancellation).
LEMMA CancelledFollows ==
    ASSUME NEW line \in LineRows, Truthful(line)
    PROVE  Follows(line, Cancelled(line))
<1>1. line.shipped \in Int /\ line.shipped >= line.shipped
  BY OrderAssumption DEF LineRows
<1> QED BY <1>1 DEF Cancelled, Follows, Truthful, LineRows

\* A shipped line (applyFulfillment).
LEMMA FulfilledFollows ==
    ASSUME NEW line \in LineRows, Truthful(line), NEW shipped \in 0..Quantity,
           NEW refused \in BOOLEAN
    PROVE  Follows(line, Fulfilled(line, shipped, refused))
<1> DEFINE reported == IF shipped > 0 THEN shipped ELSE Quantity
<1>1. Quantity \in Nat
  BY OrderAssumption
<1>2. reported \in 0..Quantity /\ line.shipped \in 0..Quantity
  BY <1>1 DEF LineRows
<1>3. /\ Larger(line.shipped, reported) \in 0..Quantity
      /\ Larger(line.shipped, reported) >= line.shipped
  BY <1>1, <1>2, LargerInRange
<1>4. Fulfilled(line, shipped, refused) =
        [line EXCEPT !.shipped = Larger(line.shipped, reported),
           !.reservation = IF line.reservation = "open" /\ ~refused
                           THEN "fulfilled" ELSE line.reservation]
  BY DEF Fulfilled
<1> HIDE DEF reported
<1> QED BY <1>3, <1>4 DEF Follows, Truthful, LineRows

\* The lifecycle decision about one line (applyLifecycle).
LEMMA LifecycleFollows ==
    ASSUME NEW p \in Payloads, NEW current, NEW refused, NEW l \in Lines,
           current[l] \in LineRows, Truthful(current[l])
    PROVE  Follows(current[l], applyLifecycle(p, current, refused)[l])
<1>1. CASE p.state = "cancelled"
  <2>1. applyLifecycle(p, current, refused)[l] = Cancelled(current[l])
    BY <1>1 DEF applyLifecycle
  <2> QED BY <2>1, CancelledFollows
<1>2. CASE p.state = "fulfilled"
  <2>1. applyLifecycle(p, current, refused)[l] =
          Fulfilled(current[l], p.shipped[l], l \in refused)
    BY <1>2 DEF applyLifecycle
  <2>2. p.shipped[l] \in 0..Quantity
    BY DEF Payloads
  <2>3. (l \in refused) \in BOOLEAN
    OBVIOUS
  <2>4. Follows(current[l], Fulfilled(current[l], p.shipped[l], l \in refused))
    BY <2>2, <2>3, FulfilledFollows
  <2> QED BY <2>1, <2>4
<1>3. CASE p.state \notin {"cancelled", "fulfilled"}
  <2>1. applyLifecycle(p, current, refused)[l] = current[l]
    BY <1>3 DEF applyLifecycle
  <2>2. current[l].shipped >= current[l].shipped
    BY OrderAssumption DEF LineRows
  <2> QED BY <2>1, <2>2 DEF Follows
<1> QED BY <1>1, <1>2, <1>3

\* The lines after the transaction are those of the order.
LEMMA ShapeOfLines ==
    ASSUME TypeOK, NEW p \in Payloads, NEW refused
    PROVE  LET after == applyLifecycle(p, ingestOrder(p), refused)
           IN  after = [l \in Lines |-> after[l]]
<1>1. lines = [l \in Lines |-> lines[l]]
  BY DEF TypeOK
<1>2. upsertLines(p) = [l \in Lines |-> upsertLines(p)[l]]
  BY DEF upsertLines
<1>3. ingestOrder(p) = [l \in Lines |-> ingestOrder(p)[l]]
  BY <1>1, <1>2 DEF ingestOrder, treatLines
<1> QED BY <1>3 DEF applyLifecycle

\* The candidates after the transaction.
LEMMA CandidatesType ==
    ASSUME TypeOK, NEW p, NEW current
    PROVE  Candidates(p, current) \in [Lines -> [Origins -> CandidateRows]]
<1>1. SUFFICES ASSUME NEW l \in Lines, NEW o \in Origins
               PROVE  Candidates(p, current)[l][o] \in CandidateRows
  BY DEF Candidates
<1>2. candidates[l][o] \in CandidateRows
  BY DEF TypeOK
<1>3. (current[l].reservation # "none") \in BOOLEAN
  OBVIOUS
<1>4. raiseRestockCandidate(l, o, current[l]) \in CandidateRows
  BY <1>2, <1>3 DEF raiseRestockCandidate, CandidateRows
<1> QED BY <1>2, <1>4 DEF Candidates

-----------------------------------------------------------------------------
(* The transaction, and every other step.                                    *)

\* What the transaction of handleOrderSync makes of one line.
LEMMA TransactionStep ==
    ASSUME Inv, NEW p \in Payloads, NEW refused, NEW l \in Lines
    PROVE  LET after == applyLifecycle(p, ingestOrder(p), refused)[l]
           IN  /\ after \in LineRows
               /\ Truthful(after)
               /\ lines[l].shipped > 0 /\ lines[l].reservation # "released" =>
                    after.reservation # "released"
               /\ ~upsertOrder(p).committedOnce => after.reservation = "none"
<1>1. /\ ingestOrder(p)[l] \in LineRows
      /\ Truthful(ingestOrder(p)[l])
      /\ ingestOrder(p)[l].shipped >= lines[l].shipped
      /\ lines[l].reservation # "released" =>
           ingestOrder(p)[l].reservation # "released"
      /\ ~upsertOrder(p).committedOnce =>
           ingestOrder(p)[l].reservation = "none"
  BY IngestStep
<1>2. Follows(ingestOrder(p)[l], applyLifecycle(p, ingestOrder(p), refused)[l])
  BY <1>1, LifecycleFollows
<1>3. lines[l].shipped \in Int /\ ingestOrder(p)[l].shipped \in Int
  BY <1>1, OrderAssumption DEF Inv, TypeOK, LineRows
<1> QED BY <1>1, <1>2, <1>3 DEF Follows

\* A change of the provider's order keeps its type.
LEMMA ChangeType ==
    ASSUME TypeOK, NEW s \in DemandStates \cup {"absent"},
           NEW shipped \in [Lines -> 0..Quantity], NEW n \in Nat,
           Change(s, shipped, n)
    PROVE  {provider', past'} \subseteq Revisions /\ owed' \in BOOLEAN
BY OrderAssumption DEF Change, TypeOK, Revisions

\* The initial state.
LEMMA InitInv == Init => Inv
<1> SUFFICES ASSUME Init PROVE Inv
  OBVIOUS
<1>1. 0 \in 0..Quantity /\ 0 \in 0..MaxRevisions /\ 0 \in 0..MaxFaults
  BY OrderAssumption
<1>2. Payload("awaiting", Nothing, 0) \in Payloads
  BY <1>1, PayloadType, NothingType DEF DemandStates
<1>3. {provider, past} \subseteq Revisions
  BY <1>1, NothingType DEF Init, Revisions
<1>4. sync \in [pc : {"idle", "apply", "settle"}, payload : Payloads]
  BY <1>2 DEF Init, NoSync
<1>5. order \in OrderRows
  BY <1>1 DEF Init, OrderRows, DemandStates
<1>6. lines \in [Lines -> LineRows]
  BY <1>1 DEF Init, LineRows
<1>7. candidates \in [Lines -> [Origins -> CandidateRows]]
  BY DEF Init, CandidateRows
<1>8. TypeOK
  BY <1>1, <1>3, <1>4, <1>5, <1>6, <1>7 DEF Init, TypeOK
<1>9. TreatmentIsTrue /\ NothingBeforeCommitment
  BY DEF Init, TreatmentIsTrue, NothingBeforeCommitment, Truthful
<1> QED BY <1>8, <1>9 DEF Inv

\* A step that leaves the order and its lines alone keeps what is said of them.
LEMMA Frame ==
    ASSUME Inv, TypeOK', UNCHANGED <<order, lines>>
    PROVE  Inv'
BY DEF Inv, TreatmentIsTrue, NothingBeforeCommitment

\* The provider's own steps.
LEMMA ProviderInv ==
    ASSUME Inv,
           \/ \E s \in DemandStates : Place(s)
           \/ \E s \in DemandStates, shipped \in [Lines -> 0..Quantity] :
                Revise(s, shipped)
           \/ Remove
    PROVE  Inv'
<1> USE DEF Inv
<1>1. provider \in Revisions
  BY DEF TypeOK
<1>2. provider.seq + 1 \in Nat /\ provider.shipped \in [Lines -> 0..Quantity]
  BY <1>1, OrderAssumption DEF Revisions
<1>3. {provider', past'} \subseteq Revisions /\ owed' \in BOOLEAN
  <2>1. ASSUME NEW s \in DemandStates, Place(s)
        PROVE  {provider', past'} \subseteq Revisions /\ owed' \in BOOLEAN
    BY <2>1, ChangeType, NothingType DEF Place
  <2>2. ASSUME NEW s \in DemandStates, NEW shipped \in [Lines -> 0..Quantity],
               Revise(s, shipped)
        PROVE  {provider', past'} \subseteq Revisions /\ owed' \in BOOLEAN
    BY <2>2, <1>2, ChangeType DEF Revise
  <2>3. CASE Remove
    BY <2>3, <1>2, ChangeType DEF Remove
  <2> QED BY <2>1, <2>2, <2>3
<1>4. UNCHANGED <<pending, sync, stored, mapping, copy, faults, misread>>
  BY DEF Place, Revise, Remove
<1>5. TypeOK'
  BY <1>3, <1>4 DEF TypeOK, stored
<1> QED BY <1>4, <1>5, Frame DEF stored

\* A disturbance stays within its bound.
LEMMA SufferType == ASSUME TypeOK, Suffer PROVE faults' \in 0..MaxFaults
BY OrderAssumption DEF TypeOK, Suffer

\* The job: asked for, fetched, found gone, retried, settled.
LEMMA JobInv ==
    ASSUME Inv,
           \/ requestOrderSync \/ fetchOrder \/ FetchStale \/ FetchNotFound
           \/ Retry \/ Settle
    PROVE  Inv'
<1> USE DEF Inv
<1>1. ASSUME NEW revision \in Revisions, Fetched(revision)
      PROVE  sync' \in [pc : {"idle", "apply", "settle"}, payload : Payloads]
  <2>1. /\ revision.state \in DemandStates
        /\ revision.shipped \in [Lines -> 0..Quantity]
        /\ revision.seq \in 0..MaxRevisions
    BY <1>1 DEF Fetched, Revisions
  <2>2. Payload(revision.state, revision.shipped, revision.seq) \in Payloads
    BY <2>1, PayloadType
  <2> QED BY <1>1, <2>2 DEF Fetched
<1>2. NoSync \in [pc : {"idle", "apply", "settle"}, payload : Payloads]
  <2>1. "awaiting" \in DemandStates /\ 0 \in 0..MaxRevisions
    BY OrderAssumption DEF DemandStates
  <2>2. Payload("awaiting", Nothing, 0) \in Payloads
    BY <2>1, PayloadType, NothingType
  <2> QED BY <2>2 DEF NoSync
<1>3. provider \in Revisions /\ past \in Revisions
  BY DEF TypeOK
<1>4. CASE requestOrderSync
  <2>1. TypeOK'
    BY <1>4 DEF requestOrderSync, TypeOK, stored
  <2> QED BY <1>4, <2>1, Frame DEF requestOrderSync, stored
<1>5. CASE fetchOrder
  <2>1. sync' \in [pc : {"idle", "apply", "settle"}, payload : Payloads]
    BY <1>1, <1>3, <1>5 DEF fetchOrder
  <2>2. TypeOK'
    BY <1>5, <2>1 DEF fetchOrder, Fetched, TypeOK, stored, external
  <2> QED BY <1>5, <2>2, Frame DEF fetchOrder, Fetched, stored
<1>6. CASE FetchStale
  <2>1. sync' \in [pc : {"idle", "apply", "settle"}, payload : Payloads]
    BY <1>1, <1>3, <1>6 DEF FetchStale
  <2>2. faults' \in 0..MaxFaults
    BY <1>6, SufferType DEF FetchStale
  <2>3. TypeOK'
    BY <1>6, <2>1, <2>2 DEF FetchStale, Fetched, TypeOK, stored, external
  <2> QED BY <1>6, <2>3, Frame DEF FetchStale, Fetched, stored
<1>7. CASE FetchNotFound
  <2>1. TypeOK'
    BY <1>7 DEF FetchNotFound, TypeOK, stored, external
  <2> QED BY <1>7, <2>1, Frame DEF FetchNotFound, stored
<1>8. CASE Retry
  <2>1. faults' \in 0..MaxFaults
    BY <1>8, SufferType DEF Retry
  <2>2. TypeOK'
    BY <1>2, <1>8, <2>1 DEF Retry, TypeOK, stored, external
  <2> QED BY <1>8, <2>2, Frame DEF Retry, stored
<1>9. CASE Settle
  <2>1. TypeOK'
    BY <1>2, <1>9 DEF Settle, TypeOK, stored, external
  <2> QED BY <1>9, <2>1, Frame DEF Settle, stored
<1> QED BY <1>4, <1>5, <1>6, <1>7, <1>8, <1>9

\* People and the copying of an order.
LEMMA OthersInv ==
    ASSUME Inv,
           \/ \E l \in Lines, o \in Origins : confirmRestock(l, o) \/ declineRestock(l, o)
           \/ \E l \in Lines, m \in Mappings : SwitchMapping(l, m)
           \/ ReserveMirror
           \/ \E s \in {"committed", "fulfilled"} : createMirroredOrder(s)
           \/ RecordMirror \/ AbandonCopy
    PROVE  Inv'
<1> USE DEF Inv
<1>1. ASSUME NEW l \in Lines, NEW o \in Origins,
             confirmRestock(l, o) \/ declineRestock(l, o)
      PROVE  Inv'
  <2>1. PICK status \in {"confirmed", "declined"} : Decide(l, o, status)
    BY <1>1 DEF confirmRestock, declineRestock
  <2>2. candidates \in [Lines -> [Origins -> CandidateRows]]
    BY DEF TypeOK
  <2>3. [candidates[l][o] EXCEPT !.status = status] \in CandidateRows
    BY <2>2 DEF CandidateRows
  <2>4. candidates' \in [Lines -> [Origins -> CandidateRows]]
    BY <2>1, <2>2, <2>3 DEF Decide
  <2>5. TypeOK'
    BY <2>1, <2>4 DEF Decide, TypeOK, external
  <2> QED BY <2>1, <2>5, Frame DEF Decide
<1>2. ASSUME NEW l \in Lines, NEW m \in Mappings, SwitchMapping(l, m) PROVE Inv'
  <2>1. faults' \in 0..MaxFaults
    BY <1>2, SufferType DEF SwitchMapping
  <2>2. TypeOK'
    BY <1>2, <2>1 DEF SwitchMapping, TypeOK, stored, external
  <2> QED BY <1>2, <2>2, Frame DEF SwitchMapping, stored
<1>3. CASE ReserveMirror
  <2>1. TypeOK'
    BY <1>3 DEF ReserveMirror, TypeOK, stored, external
  <2> QED BY <1>3, <2>1, Frame DEF ReserveMirror, stored
<1>4. ASSUME NEW s \in {"committed", "fulfilled"}, createMirroredOrder(s) PROVE Inv'
  <2>1. {provider', past'} \subseteq Revisions /\ owed' \in BOOLEAN
    <3>1. s \in DemandStates /\ 1 \in Nat
      BY DEF DemandStates
    <3> QED BY <1>4, <3>1, ChangeType, NothingType DEF createMirroredOrder
  <2>2. TypeOK'
    BY <1>4, <2>1 DEF createMirroredOrder, TypeOK, stored
  <2> QED BY <1>4, <2>2, Frame DEF createMirroredOrder, stored
<1>5. CASE RecordMirror
  <2>1. TypeOK'
    BY <1>5 DEF RecordMirror, TypeOK, stored, external
  <2> QED BY <1>5, <2>1, Frame DEF RecordMirror, stored
<1>6. CASE AbandonCopy
  <2>1. faults' \in 0..MaxFaults
    BY <1>6, SufferType DEF AbandonCopy
  <2>2. TypeOK'
    BY <1>6, <2>1 DEF AbandonCopy, TypeOK, stored, external
  <2> QED BY <1>6, <2>2, Frame DEF AbandonCopy, stored
<1> QED BY <1>1, <1>2, <1>3, <1>4, <1>5, <1>6

\* The transaction: order and lines as the functions of the payload say.
LEMMA HandleInv ==
    ASSUME Inv, handleOrderSync
    PROVE  Inv'
<1> USE DEF Inv
<1> DEFINE p == sync.payload
<1>1. p \in Payloads /\ sync' \in [pc : {"idle", "apply", "settle"}, payload : Payloads]
  BY DEF TypeOK, handleOrderSync
<1>2. UNCHANGED <<external, pending, mapping, copy, misread>>
  BY DEF handleOrderSync
<1>3. CASE AlreadyProcessed(p)
  <2>1. UNCHANGED <<stored, faults>>
    BY <1>3 DEF handleOrderSync
  <2>2. TypeOK'
    BY <1>1, <1>2, <2>1 DEF TypeOK, stored, external
  <2> QED BY <2>1, <2>2, Frame DEF stored
<1>4. CASE ~AlreadyProcessed(p)
  <2>1. PICK refused : /\ IF refused = {} THEN UNCHANGED faults ELSE Suffer
                       /\ order' = upsertOrder(p)
                       /\ lines' = applyLifecycle(p, ingestOrder(p), refused)
                       /\ candidates' = Candidates(p, ingestOrder(p))
                       /\ events' = events \cup {p}
    BY <1>4 DEF handleOrderSync
  <2> HIDE DEF p
  <2>2. \A l \in Lines : /\ lines'[l] \in LineRows
                         /\ Truthful(lines'[l])
                         /\ ~upsertOrder(p).committedOnce =>
                              lines'[l].reservation = "none"
    BY <1>1, <2>1, TransactionStep
  <2>3. lines' = [l \in Lines |-> lines'[l]]
    BY <1>1, <2>1, ShapeOfLines
  <2>4. lines' \in [Lines -> LineRows]
    BY <2>2, <2>3
  <2>5. order' \in OrderRows
    BY <1>1, <2>1, UpsertOrderType
  <2>6. candidates' \in [Lines -> [Origins -> CandidateRows]]
    BY <2>1, CandidatesType
  <2>7. faults' \in 0..MaxFaults
    <3>1. CASE refused = {}
      BY <2>1, <3>1 DEF TypeOK
    <3>2. CASE refused # {}
      BY <2>1, <3>2, SufferType
    <3> QED BY <3>1, <3>2
  <2>8. events' \subseteq Payloads
    BY <1>1, <2>1 DEF TypeOK
  <2>9. TypeOK'
    BY <1>1, <1>2, <2>4, <2>5, <2>6, <2>7, <2>8 DEF TypeOK, external
  <2>10. TreatmentIsTrue'
    BY <2>2 DEF TreatmentIsTrue, Truthful
  <2>11. NothingBeforeCommitment'
    BY <2>1, <2>2 DEF NothingBeforeCommitment
  <2> QED BY <2>9, <2>10, <2>11
<1> QED BY <1>3, <1>4

\* Every step keeps the invariant.
LEMMA NextInv == Inv /\ [Next]_vars => Inv'
<1> SUFFICES ASSUME Inv, [Next]_vars PROVE Inv'
  OBVIOUS
<1>1. CASE UNCHANGED vars
  <2>1. TypeOK'
    BY <1>1 DEF Inv, TypeOK, vars, external, stored
  <2> QED BY <1>1, <2>1, Frame DEF vars, stored
<1>2. CASE Next
  BY <1>2, ProviderInv, JobInv, OthersInv, HandleInv DEF Next, Sync, Fetch
<1> QED BY <1>1, <1>2

\* The invariant holds throughout.
THEOREM Invariance == Spec => []Inv
BY InitInv, NextInv, PTL DEF Spec

\* The provider, the rows and the jobs keep their types.
THEOREM TypeCorrect == Spec => []TypeOK
<1>1. Inv => TypeOK
  BY DEF Inv
<1> QED BY <1>1, Invariance, PTL

\* What a line says was done about it is what was done (treatLines, markLine,
\* applyCancellation), whatever is redelivered, reinstated or answered late.
THEOREM TreatmentStaysTrue == Spec => []TreatmentIsTrue
<1>1. Inv => TreatmentIsTrue
  BY DEF Inv
<1> QED BY <1>1, Invariance, PTL

-----------------------------------------------------------------------------
(* What a step may never do to a line.                                       *)

\* Only the transaction changes lines.
LEMMA OnlyTheTransaction ==
    ASSUME [Next]_vars, ~handleOrderSync
    PROVE  UNCHANGED <<order, lines>>
BY DEF Next, vars, stored, Place, Revise, Remove, requestOrderSync, Sync, Fetch,
       fetchOrder, FetchStale, Fetched, FetchNotFound, Retry, Settle, Decide,
       confirmRestock, declineRestock, SwitchMapping, ReserveMirror,
       createMirroredOrder, RecordMirror, AbandonCopy

\* The transaction either changes nothing or applies the payload.
LEMMA TransactionShape ==
    ASSUME Inv, handleOrderSync
    PROVE  /\ sync.payload \in Payloads
           /\ \/ UNCHANGED stored
              \/ \E refused :
                   /\ order' = upsertOrder(sync.payload)
                   /\ lines' = applyLifecycle(sync.payload,
                                              ingestOrder(sync.payload), refused)
                   /\ candidates' = Candidates(sync.payload,
                                               ingestOrder(sync.payload))
<1>1. sync.payload \in Payloads
  BY DEF Inv, TypeOK
<1>2. CASE AlreadyProcessed(sync.payload)
  BY <1>1, <1>2 DEF handleOrderSync
<1>3. CASE ~AlreadyProcessed(sync.payload)
  BY <1>1, <1>3 DEF handleOrderSync
<1> QED BY <1>2, <1>3

\* Units of a line that has shipped are not given back by anything the channel
\* says (applyCancellation, applyRefund), for every order.
THEOREM ShippedStaysShipped == Spec => ShippedIsNeverRestored
<1> DEFINE Kept == \A l \in Lines :
             lines[l].shipped > 0 /\ lines[l].reservation # "released" =>
               lines'[l].reservation # "released"
<1>1. ASSUME Inv, [Next]_vars PROVE Kept
  <2>1. CASE ~handleOrderSync
    BY <1>1, <2>1, OnlyTheTransaction
  <2>2. CASE handleOrderSync
    <3>1. CASE UNCHANGED stored
      BY <3>1 DEF stored
    <3>2. CASE ~UNCHANGED stored
      <4>1. PICK refused : lines' = applyLifecycle(sync.payload,
                                                   ingestOrder(sync.payload), refused)
        BY <1>1, <2>2, <3>2, TransactionShape
      <4>2. sync.payload \in Payloads
        BY <1>1, <2>2, TransactionShape
      <4> QED BY <1>1, <4>1, <4>2, TransactionStep
    <3> QED BY <3>1, <3>2
  <2> QED BY <2>1, <2>2
<1> QED BY <1>1, Invariance, PTL DEF Spec, ShippedIsNeverRestored

\* An order recorded as the copy of another commits no stock (mirrorSourceOf).
THEOREM CopiesCommitNothing == Spec => KnownCopyCommitsNothing
<1> DEFINE Kept == copy = "recorded" =>
             \A l \in Lines : lines[l].reservation = "none" =>
                                lines'[l].reservation = "none"
<1>1. ASSUME Inv, [Next]_vars PROVE Kept
  <2>1. CASE ~handleOrderSync
    BY <1>1, <2>1, OnlyTheTransaction
  <2>2. CASE handleOrderSync
    <3>1. CASE UNCHANGED stored
      BY <3>1 DEF stored
    <3>2. CASE ~UNCHANGED stored
      <4>1. PICK refused : lines' = applyLifecycle(sync.payload,
                                                   ingestOrder(sync.payload), refused)
        BY <1>1, <2>2, <3>2, TransactionShape
      <4>2. sync.payload \in Payloads
        BY <1>1, <2>2, TransactionShape
      <4>3. SUFFICES ASSUME copy = "recorded", NEW l \in Lines,
                            lines[l].reservation = "none"
                     PROVE  lines'[l].reservation = "none"
        OBVIOUS
      <4>4. ~shouldCommit(sync.payload)
        BY <4>3 DEF shouldCommit, mirrorSourceOf
      <4>5. ingestOrder(sync.payload)[l].reservation = "none"
        <5>1. upsertLines(sync.payload)[l].reservation = "none"
          BY <1>1, <4>2, <4>3, UpsertLinesStep DEF Inv
        <5> QED BY <4>3, <4>4, <5>1 DEF ingestOrder, treatLines
      <4>6. /\ ingestOrder(sync.payload)[l] \in LineRows
            /\ Truthful(ingestOrder(sync.payload)[l])
        BY <1>1, <4>2, IngestStep
      <4>7. Follows(ingestOrder(sync.payload)[l], lines'[l])
        BY <4>1, <4>2, <4>6, LifecycleFollows
      <4> QED BY <4>5, <4>7 DEF Follows
    <3> QED BY <3>1, <3>2
  <2> QED BY <2>1, <2>2
<1> QED BY <1>1, Invariance, PTL DEF Spec, KnownCopyCommitsNothing

-----------------------------------------------------------------------------
(* A recorded state has been acted on.                                       *)

\* DemandIsSettled for one line.
Settled(demand, line, candidate) ==
    /\ demand = "cancelled" /\ line.reservation = "open" => line.shipped > 0
    /\ demand = "refunded" => candidate["refund"].status # "none"
    /\ demand = "fulfilled" => line.shipped > 0

\* The lifecycle of the state itself settles a line.
LEMMA LifecycleSettles ==
    ASSUME Inv, NEW p \in Payloads, NEW current, NEW refused, NEW l \in Lines,
           current[l] \in LineRows
    PROVE  Settled(p.state, applyLifecycle(p, current, refused)[l],
                   Candidates(p, current)[l])
<1>1. Quantity \in Nat \ {0}
  BY OrderAssumption
<1>2. CASE p.state = "cancelled"
  <2>1. applyLifecycle(p, current, refused)[l] = Cancelled(current[l])
    BY <1>2 DEF applyLifecycle
  <2>2. Cancelled(current[l]).reservation = "open" => Cancelled(current[l]).shipped > 0
    BY DEF Cancelled, LineRows
  <2> QED BY <1>2, <2>1, <2>2 DEF Settled
<1>3. CASE p.state = "fulfilled"
  <2> DEFINE reported == IF p.shipped[l] > 0 THEN p.shipped[l] ELSE Quantity
  <2>1. reported \in 0..Quantity /\ reported > 0 /\ current[l].shipped \in 0..Quantity
    BY <1>1 DEF Payloads, LineRows
  <2>2. /\ Larger(current[l].shipped, reported) \in 0..Quantity
        /\ Larger(current[l].shipped, reported) >= reported
    BY <1>1, <2>1, LargerInRange
  <2>3. applyLifecycle(p, current, refused)[l] =
          Fulfilled(current[l], p.shipped[l], l \in refused)
    BY <1>3 DEF applyLifecycle
  <2>4. Fulfilled(current[l], p.shipped[l], l \in refused).shipped =
          Larger(current[l].shipped, reported)
    BY DEF Fulfilled, LineRows
  <2>5. applyLifecycle(p, current, refused)[l].shipped > 0
    <3> HIDE DEF reported
    <3> QED BY <1>1, <2>1, <2>2, <2>3, <2>4
  <2> QED BY <1>3, <2>5 DEF Settled
<1>4. CASE p.state = "refunded"
  <2>1. "refund" \in Origins /\ "refund" \in Raises(p, current[l])
    BY <1>4 DEF Origins, Raises
  <2>2. Candidates(p, current)[l]["refund"] =
          raiseRestockCandidate(l, "refund", current[l])
    BY <2>1 DEF Candidates
  <2>3. raiseRestockCandidate(l, "refund", current[l]).status # "none"
    BY DEF raiseRestockCandidate
  <2> QED BY <1>4, <2>2, <2>3 DEF Settled
<1>5. CASE p.state \notin {"cancelled", "fulfilled", "refunded"}
  BY <1>5 DEF Settled
<1> QED BY <1>2, <1>3, <1>4, <1>5

\* A person decides about a candidate; nothing else outside the transaction
\* touches one, and none disappears.
LEMMA CandidatesStay ==
    ASSUME Inv, [Next]_vars, ~handleOrderSync
    PROVE  \A l \in Lines : candidates[l]["refund"].status # "none" =>
                              candidates'[l]["refund"].status # "none"
<1>1. candidates \in [Lines -> [Origins -> CandidateRows]] /\ "refund" \in Origins
  BY DEF Inv, TypeOK, Origins
<1>2. ASSUME NEW l \in Lines, NEW o \in Origins, NEW status \in {"confirmed", "declined"},
             Decide(l, o, status)
      PROVE  \A k \in Lines : candidates[k]["refund"].status # "none" =>
                                candidates'[k]["refund"].status # "none"
  BY <1>1, <1>2 DEF Decide, CandidateRows
<1>3. CASE \E l \in Lines, o \in Origins : confirmRestock(l, o) \/ declineRestock(l, o)
  BY <1>2, <1>3 DEF confirmRestock, declineRestock
<1>4. CASE UNCHANGED candidates
  BY <1>4
<1>5. UNCHANGED candidates
      \/ \E l \in Lines, o \in Origins : confirmRestock(l, o) \/ declineRestock(l, o)
  BY DEF Next, vars, stored, Place, Revise, Remove, requestOrderSync, Sync, Fetch,
         fetchOrder, FetchStale, Fetched, FetchNotFound, Retry, Settle,
         SwitchMapping, ReserveMirror, createMirroredOrder, RecordMirror, AbandonCopy
<1> QED BY <1>3, <1>4, <1>5

\* A settled line stays settled when an older revision is applied to it.
LEMMA OlderKeepsSettled ==
    ASSUME Inv, NEW p \in Payloads, NEW refused, NEW l \in Lines,
           Superseded(p), Settled(order.demand, lines[l], candidates[l])
    PROVE  Settled(order.demand, applyLifecycle(p, ingestOrder(p), refused)[l],
                   Candidates(p, ingestOrder(p))[l])
<1>1. ingestOrder(p) = lines
  BY DEF ingestOrder
<1>2. lines[l] \in LineRows /\ Truthful(lines[l])
  BY DEF Inv, TypeOK, TreatmentIsTrue
<1>3. Follows(lines[l], applyLifecycle(p, lines, refused)[l])
  BY <1>2, LifecycleFollows
<1>4. /\ lines[l].shipped \in Int
      /\ applyLifecycle(p, lines, refused)[l].shipped \in Int
  BY <1>2, <1>3, OrderAssumption DEF Follows, LineRows
<1>5. candidates[l]["refund"].status # "none" =>
        Candidates(p, lines)[l]["refund"] = candidates[l]["refund"]
  <2>1. "refund" \in Origins
    BY DEF Origins
  <2> QED BY <2>1 DEF Candidates, raiseRestockCandidate
<1> QED BY <1>1, <1>3, <1>4, <1>5 DEF Settled, Follows

\* An order recorded as cancelled holds nothing for an unshipped line, a
\* refunded one has raised its candidates, a fulfilled one has shipped, for
\* every order of revisions and deliveries (applyLifecycle).
THEOREM DemandStaysSettled == Spec => []DemandIsSettled
<1> DEFINE AllSettled ==
             \A l \in Lines : Settled(order.demand, lines[l], candidates[l])
<1>1. Init => AllSettled
  BY DEF Init, Settled
<1>2. ASSUME Inv, AllSettled, [Next]_vars PROVE AllSettled'
  <2>1. CASE handleOrderSync
    <3>1. CASE UNCHANGED stored
      BY <1>2, <3>1 DEF stored, Settled
    <3>2. CASE ~UNCHANGED stored
      <4> DEFINE p == sync.payload
      <4>1. PICK refused :
              /\ order' = upsertOrder(p)
              /\ lines' = applyLifecycle(p, ingestOrder(p), refused)
              /\ candidates' = Candidates(p, ingestOrder(p))
        BY <1>2, <2>1, <3>2, TransactionShape
      <4>2. p \in Payloads
        BY <1>2, <2>1, TransactionShape
      <4> HIDE DEF p
      <4>3. SUFFICES ASSUME NEW l \in Lines
                     PROVE  Settled(upsertOrder(p).demand,
                                    applyLifecycle(p, ingestOrder(p), refused)[l],
                                    Candidates(p, ingestOrder(p))[l])
        BY <4>1 DEF Settled
      <4>4. CASE Superseded(p)
        <5>1. upsertOrder(p).demand = order.demand
          BY <4>4 DEF upsertOrder
        <5> QED BY <1>2, <4>2, <4>4, <5>1, OlderKeepsSettled
      <4>5. CASE ~Superseded(p)
        <5>1. upsertOrder(p).demand = p.state
          BY <4>5 DEF upsertOrder
        <5>2. ingestOrder(p)[l] \in LineRows
          BY <1>2, <4>2, IngestStep
        <5> QED BY <1>2, <4>2, <5>1, <5>2, LifecycleSettles
      <4> QED BY <4>4, <4>5
    <3> QED BY <3>1, <3>2
  <2>2. CASE ~handleOrderSync
    <3>1. UNCHANGED <<order, lines>>
      BY <1>2, <2>2, OnlyTheTransaction
    <3>2. \A l \in Lines : candidates[l]["refund"].status # "none" =>
                             candidates'[l]["refund"].status # "none"
      BY <1>2, <2>2, CandidatesStay
    <3> QED BY <1>2, <3>1, <3>2 DEF Settled
  <2> QED BY <2>1, <2>2
<1>3. AllSettled => DemandIsSettled
  BY DEF Settled, DemandIsSettled
<1> QED BY <1>1, <1>2, <1>3, Invariance, PTL DEF Spec

-----------------------------------------------------------------------------
(* The provider's revisions beat arrival order.                              *)

\* Two snapshots of the order with the same revision show the same state.
SameRevision(seq1, state1, seq2, state2) == seq1 = seq2 => state1 = state2

\* Nothing is ahead of the provider, and whatever the pipeline has read or
\* recorded agrees with the provider's revisions and with each other.  The
\* provider keeps no history here, so the revision before the current one has
\* to agree as well: it may still be read.
Agreement ==
    /\ past.seq <= provider.seq
    /\ SameRevision(past.seq, past.state, provider.seq, provider.state)
    /\ provider.seq = 0 => provider.state = "absent"
    /\ copy = "reserved" => provider.seq = 0
    /\ order.known =>
         /\ order.seq <= provider.seq
         /\ SameRevision(order.seq, order.demand, provider.seq, provider.state)
         /\ SameRevision(order.seq, order.demand, past.seq, past.state)
    /\ ~order.known => order.seq = 0
    /\ sync.pc = "apply" =>
         /\ sync.payload.seq <= provider.seq
         /\ SameRevision(sync.payload.seq, sync.payload.state, provider.seq, provider.state)
         /\ SameRevision(sync.payload.seq, sync.payload.state, past.seq, past.state)
         /\ order.known =>
              SameRevision(sync.payload.seq, sync.payload.state, order.seq, order.demand)

\* The types the argument is about.
LEMMA SequenceTypes ==
    ASSUME TypeOK
    PROVE  /\ provider.seq \in Int /\ provider.seq >= 0 /\ past.seq \in Int
           /\ order.seq \in Int /\ order.seq >= 0 /\ order.known \in BOOLEAN
           /\ sync.payload.seq \in Int /\ sync.payload.seq >= 0
BY OrderAssumption DEF TypeOK, Revisions, OrderRows, Payloads

\* A new revision is newer than everything read or recorded.
LEMMA ChangeAgrees ==
    ASSUME TypeOK, Agreement, NEW s, NEW shipped,
           Change(s, shipped, provider.seq + 1), copy' # "reserved",
           UNCHANGED <<sync, order>>
    PROVE  Agreement'
<1>1. /\ provider'.seq = provider.seq + 1
      /\ past'.seq = provider.seq
      /\ past'.state = provider.state
  BY DEF Change
<1>2. /\ past'.seq <= provider'.seq
      /\ past'.seq # provider'.seq
      /\ provider'.seq # 0
  BY <1>1, SequenceTypes
<1>3. order'.known =>
        /\ order'.seq <= provider'.seq
        /\ order'.seq # provider'.seq
        /\ SameRevision(order'.seq, order'.demand, past'.seq, past'.state)
  BY <1>1, SequenceTypes DEF Agreement
<1>4. ~order'.known => order'.seq = 0
  BY DEF Agreement
<1>5. sync'.pc = "apply" =>
        /\ sync'.payload.seq <= provider'.seq
        /\ sync'.payload.seq # provider'.seq
        /\ SameRevision(sync'.payload.seq, sync'.payload.state, past'.seq, past'.state)
        /\ order'.known => SameRevision(sync'.payload.seq, sync'.payload.state,
                                        order'.seq, order'.demand)
  BY <1>1, SequenceTypes DEF Agreement
<1> QED BY <1>2, <1>3, <1>4, <1>5 DEF Agreement, SameRevision

\* Reading a revision the provider has, or has just had.
LEMMA FetchAgrees ==
    ASSUME Numbered, TypeOK, Agreement, NEW revision \in {provider, past},
           Fetched(revision)
    PROVE  Agreement'
<1>1. /\ sync'.payload.seq = revision.seq
      /\ sync'.payload.state = revision.state
  BY DEF Fetched, Payload
<1>2. UNCHANGED <<provider, past, order, copy>>
  BY DEF Fetched, external, stored
<1> QED BY <1>1, <1>2, SequenceTypes DEF Agreement, SameRevision

\* Recording a revision: the row takes over what the payload says.
LEMMA HandleAgrees ==
    ASSUME Numbered, Inv, Agreement, handleOrderSync
    PROVE  /\ Agreement'
           /\ order.known /\ order'.demand # order.demand => order'.seq > order.seq
<1> DEFINE p == sync.payload
<1>1. /\ sync.pc = "apply" /\ sync'.pc = "settle"
      /\ UNCHANGED <<provider, past, copy>>
  <2>1. sync \in [pc : {"idle", "apply", "settle"}, payload : Payloads]
    BY DEF Inv, TypeOK
  <2> QED BY <2>1 DEF handleOrderSync, external
<1>2. CASE order' = order
  BY <1>1, <1>2 DEF Agreement
<1>3. CASE order' # order
  <2>1. order' = upsertOrder(p)
    BY <1>3, TransactionShape DEF stored
  <2>2. ~Superseded(p)
    BY <1>3, <2>1 DEF upsertOrder
  <2>3. p.seq >= order.seq
    BY <2>2, SequenceTypes DEF Superseded, Inv
  <2>4. /\ order'.known
        /\ order'.demand = p.state
        /\ order'.seq = p.seq
    BY <2>1, <2>2, <2>3, SequenceTypes DEF upsertOrder, Larger, Inv
  <2>5. /\ p.seq <= provider.seq
        /\ SameRevision(p.seq, p.state, provider.seq, provider.state)
        /\ SameRevision(p.seq, p.state, past.seq, past.state)
        /\ order.known => SameRevision(p.seq, p.state, order.seq, order.demand)
    BY <1>1 DEF Agreement
  <2>6. Agreement'
    BY <1>1, <2>4, <2>5 DEF Agreement, SameRevision
  <2>7. order.known /\ order'.demand # order.demand => order'.seq > order.seq
    BY <2>3, <2>4, <2>5, SequenceTypes DEF SameRevision, Inv
  <2> QED BY <2>6, <2>7
<1> QED BY <1>2, <1>3

\* Every step keeps the agreement.
LEMMA NextAgrees ==
    ASSUME Numbered, Inv, Agreement, [Next]_vars
    PROVE  Agreement'
<1> USE DEF Inv
<1>1. ASSUME NEW s \in DemandStates, Place(s) PROVE Agreement'
  <2>1. provider.seq + 1 = 1 /\ Change(s, Nothing, provider.seq + 1)
    BY <1>1 DEF Place
  <2> QED BY <1>1, <2>1, ChangeAgrees DEF Place, stored
<1>2. ASSUME NEW s, NEW shipped, Revise(s, shipped) PROVE Agreement'
  <2>1. copy # "reserved"
    BY <1>2 DEF Revise, Agreement
  <2> QED BY <1>2, <2>1, ChangeAgrees DEF Revise, stored
<1>3. CASE Remove
  <2>1. copy # "reserved"
    BY <1>3 DEF Remove, Agreement
  <2> QED BY <1>3, <2>1, ChangeAgrees DEF Remove, stored
<1>4. CASE handleOrderSync
  BY <1>4, HandleAgrees
<1>5. CASE fetchOrder
  BY <1>5, FetchAgrees DEF fetchOrder
<1>6. CASE FetchStale
  BY <1>6, FetchAgrees DEF FetchStale
<1>7. ASSUME NEW s, createMirroredOrder(s) PROVE Agreement'
  <2>1. provider.seq + 1 = 1 /\ Change(s, Nothing, provider.seq + 1)
    BY <1>7, SequenceTypes DEF createMirroredOrder, Agreement
  <2> QED BY <1>7, <2>1, ChangeAgrees DEF createMirroredOrder, stored
<1>8. CASE Retry \/ Settle
  BY <1>8 DEF Retry, Settle, NoSync, external, stored, Agreement
<1>9. CASE ReserveMirror
  BY <1>9 DEF ReserveMirror, external, stored, Agreement
<1>10. CASE RecordMirror \/ AbandonCopy
  BY <1>10 DEF RecordMirror, AbandonCopy, external, stored, Agreement
<1>11. CASE requestOrderSync \/ FetchNotFound
  BY <1>11 DEF requestOrderSync, FetchNotFound, external, stored, Agreement
<1>12. ASSUME NEW l, NEW o, confirmRestock(l, o) \/ declineRestock(l, o)
       PROVE  Agreement'
  BY <1>12 DEF confirmRestock, declineRestock, Decide, external, Agreement
<1>13. ASSUME NEW l, NEW m, SwitchMapping(l, m) PROVE Agreement'
  BY <1>13 DEF SwitchMapping, external, stored, Agreement
<1>14. CASE UNCHANGED vars
  BY <1>14 DEF vars, external, stored, Agreement
<1> QED BY <1>1, <1>2, <1>3, <1>4, <1>5, <1>6, <1>7, <1>8, <1>9, <1>10, <1>11,
           <1>12, <1>13, <1>14 DEF Next, Sync, Fetch

\* When the provider numbers its revisions, the recorded state changes only
\* together with a larger revision (upsertOrder), however deliveries overtake
\* each other and whatever replica answers.
THEOREM StatusFollowsRevisions ==
    ASSUME Numbered
    PROVE  Spec => StatusNeverGoesBack
<1>1. Init => Agreement
  BY OrderAssumption DEF Init, Agreement, NoSync, SameRevision
<1>2. ASSUME Inv, Agreement, [Next]_vars
      PROVE  order.known /\ order'.demand # order.demand => order'.seq > order.seq
  <2>1. CASE handleOrderSync
    BY <1>2, <2>1, HandleAgrees
  <2>2. CASE ~handleOrderSync
    BY <1>2, <2>2, OnlyTheTransaction
  <2> QED BY <2>1, <2>2
<1>3. Inv /\ Agreement /\ [Next]_vars => Agreement'
  BY NextAgrees
<1> QED BY <1>1, <1>2, <1>3, Invariance, PTL DEF Spec, StatusNeverGoesBack

-----------------------------------------------------------------------------
(* The catalog: kits.  A row has the columns of its table.                   *)
BalanceColumns == {"row", "onHand", "reserved", "safety"}
MappingColumns == {"status", "entity", "item", "from", "buffer", "cap", "version", "approved",
                   "activated", "archived", "why"}
RecipeColumns == {"status", "kit", "version", "parts"}

RowsHaveColumns ==
    /\ items \in [CanonicalItems -> ItemRows]
    /\ DOMAIN balances = Shelves
    /\ \A k \in Shelves : DOMAIN balances[k] = BalanceColumns
    /\ DOMAIN recipes = RecipeIds
    /\ \A r \in RecipeIds : DOMAIN recipes[r] = RecipeColumns

\* Between two statements of declareKit or of approveRecipe nothing is lost: the item holds
\* no stock and is no component when it becomes a kit, and a recipe in force is alone.
KitsHoldNothing ==
    \A i \in CanonicalItems : items[i].isKit =>
        /\ \A p \in Places : ~balances[<<i, p>>].row
        /\ ~isComponent(i)

OneInForce ==
    \A r, s \in RecipeIds :
        /\ recipes[r].status = "active" /\ recipes[s].status = "active"
        /\ recipes[r].kit = recipes[s].kit
        => r = s

KitInv == RowsHaveColumns /\ KitsHoldNothing /\ OneInForce

-----------------------------------------------------------------------------

LEMMA KitInvInit == CatalogInit => KitInv
<1> SUFFICES ASSUME CatalogInit PROVE KitInv
    OBVIOUS
<1>1. RowsHaveColumns
  BY OpeningsAssumption DEF CatalogInit, RowsHaveColumns, Shelves, BalanceRows, BalanceColumns,
       RecipeColumns, NoRecipe
<1>2. KitsHoldNothing
  BY OpeningsAssumption DEF CatalogInit, KitsHoldNothing
<1>3. OneInForce
  BY DEF CatalogInit, OneInForce, NoRecipe, None
<1> QED BY <1>1, <1>2, <1>3 DEF KitInv

\* Nothing but the balances changes, and a row is written for an item that is no kit, or keeps
\* what it says of itself.
BalancesMove ==
    /\ UNCHANGED <<items, recipes>>
    /\ DOMAIN balances' = DOMAIN balances
    /\ \A k \in Shelves :
         /\ DOMAIN balances'[k] = DOMAIN balances[k]
         /\ balances'[k].row = balances[k].row \/ ~items[k[1]].isKit

LEMMA BalancesMoveKeepsKits == KitInv /\ BalancesMove => KitInv'
<1> SUFFICES ASSUME KitInv, BalancesMove PROVE KitInv'
    OBVIOUS
<1> USE DEF KitInv, BalancesMove
<1>1. RowsHaveColumns'
  BY DEF RowsHaveColumns
<1>2. KitsHoldNothing'
  <2>1. ASSUME NEW i \in CanonicalItems, items[i].isKit, NEW p \in Places
        PROVE  ~balances'[<<i, p>>].row
    <3>1. <<i, p>> \in Shelves /\ <<i, p>>[1] = i
      BY DEF Shelves
    <3>2. balances'[<<i, p>>].row = balances[<<i, p>>].row
      BY <2>1, <3>1
    <3>3. ~balances[<<i, p>>].row
      BY <2>1 DEF KitsHoldNothing
    <3> QED BY <3>2, <3>3
  <2>2. ASSUME NEW i \in CanonicalItems, items[i].isKit
        PROVE  ~isComponent(i)'
    BY <2>2 DEF KitsHoldNothing, isComponent
  <2> QED BY <2>1, <2>2 DEF KitsHoldNothing
<1>3. OneInForce'
  BY DEF OneInForce
<1> QED BY <1>1, <1>2, <1>3 DEF KitInv

LEMMA PostIsAMove ==
    ASSUME KitInv, UNCHANGED <<items, recipes>>,
           NEW i, NEW p, NEW delta, mayPost(i, p, delta), balances' = postMovements(i, p, delta)
    PROVE  BalancesMove
<1>1. ~items[i].isKit
  BY DEF mayPost, stockMayName
<1>2. DOMAIN balances' = DOMAIN balances /\ DOMAIN balances = Shelves
  BY DEF postMovements, KitInv, RowsHaveColumns
<1>3. ASSUME NEW k \in Shelves, k = <<i, p>>
      PROVE  DOMAIN balances'[k] = DOMAIN balances[k] /\ ~items[k[1]].isKit
  <2>1. k[1] = i
    BY <1>3
  <2> QED BY <1>1, <1>2, <1>3, <2>1 DEF postMovements, KitInv, RowsHaveColumns
<1>4. ASSUME NEW k \in Shelves, k # <<i, p>>
      PROVE  balances'[k] = balances[k]
  BY <1>2, <1>4 DEF postMovements
<1> QED BY <1>2, <1>3, <1>4 DEF BalancesMove

LEMMA SafetyIsAMove ==
    ASSUME KitInv, UNCHANGED <<items, recipes>>, NEW i, NEW p, NEW safety, stockMayName(i),
           balances' = [balances EXCEPT ![<<i, p>>].row = TRUE, ![<<i, p>>].safety = safety]
    PROVE  BalancesMove
<1>1. ~items[i].isKit
  BY DEF stockMayName
<1>2. DOMAIN balances' = DOMAIN balances /\ DOMAIN balances = Shelves
  BY DEF KitInv, RowsHaveColumns
<1>3. ASSUME NEW k \in Shelves, k = <<i, p>>
      PROVE  DOMAIN balances'[k] = DOMAIN balances[k] /\ ~items[k[1]].isKit
  <2>1. k[1] = i
    BY <1>3
  <2> QED BY <1>1, <1>2, <1>3, <2>1 DEF KitInv, RowsHaveColumns
<1>4. ASSUME NEW k \in Shelves, k # <<i, p>>
      PROVE  balances'[k] = balances[k]
  BY <1>2, <1>4
<1> QED BY <1>2, <1>3, <1>4 DEF BalancesMove

LEMMA HoldIsAMove ==
    ASSUME KitInv, UNCHANGED <<items, recipes>>, NEW k, NEW n,
           balances' = [balances EXCEPT ![k].reserved = n]
    PROVE  BalancesMove
BY DEF KitInv, RowsHaveColumns, BalanceColumns, BalancesMove

LEMMA RestIsAMove ==
    ASSUME UNCHANGED <<items, recipes, balances>>
    PROVE  BalancesMove
BY DEF BalancesMove

\* Items change: no item becomes a kit that holds stock or that a recipe uses.
ItemsMove ==
    /\ UNCHANGED <<balances, recipes>>
    /\ items' \in [CanonicalItems -> ItemRows]
    /\ \A i \in CanonicalItems : items'[i].isKit => items[i].isKit \/ kitMayBeDeclared(i)

LEMMA ItemsMoveKeepsKits == KitInv /\ ItemsMove => KitInv'
<1> SUFFICES ASSUME KitInv, ItemsMove PROVE KitInv'
    OBVIOUS
<1> USE DEF KitInv, ItemsMove
<1>1. RowsHaveColumns'
  BY DEF RowsHaveColumns
<1>2. KitsHoldNothing'
  BY DEF KitsHoldNothing, kitMayBeDeclared, isComponent
<1>3. OneInForce'
  BY DEF OneInForce
<1> QED BY <1>1, <1>2, <1>3 DEF KitInv

LEMMA CreateIsAMove ==
    ASSUME KitInv, NEW i \in CanonicalItems, NEW sku \in Skus, CreateItemAction(i, sku)
    PROVE  ItemsMove
BY DEF KitInv, RowsHaveColumns, ItemsMove, CreateItemAction, createCanonicalItem, ItemRows, Unset

LEMMA UpdateIsAMove ==
    ASSUME KitInv, NEW i \in CanonicalItems, NEW sku \in Skus, NEW o \in {Unset, 1},
           updateCanonicalItem(i, sku, o)
    PROVE  ItemsMove
<1> DEFINE row == [sku |-> sku, isKit |-> items[i].isKit, override |-> o]
<1>1. UNCHANGED <<balances, recipes>> /\ items \in [CanonicalItems -> ItemRows]
  BY DEF updateCanonicalItem, KitInv, RowsHaveColumns
<1>2. items' = [items EXCEPT ![i].sku = sku, ![i].override = o]
  BY DEF updateCanonicalItem
<1>3. \A j \in CanonicalItems : j # i => items'[j] = items[j]
  BY <1>1, <1>2
<1>4. items'[i] = row
  BY <1>1, <1>2 DEF ItemRows
<1>5. row \in ItemRows
  BY <1>1 DEF ItemRows, Unset
<1> HIDE DEF row
<1>6. items' = [items EXCEPT ![i] = row]
  BY <1>1, <1>2, <1>3, <1>4
<1>7. items' \in [CanonicalItems -> ItemRows]
  BY <1>1, <1>5, <1>6
<1> QED BY <1>1, <1>3, <1>4, <1>7 DEF ItemsMove, row

LEMMA DeclareIsAMove ==
    ASSUME KitInv, NEW c \in Clerks, declareKitWrites(c)
    PROVE  ItemsMove
<1> DEFINE i == calls[c].item
<1>1. UNCHANGED <<balances, recipes>>
  BY DEF declareKitWrites
<1>2. CASE items' = items
  BY <1>1, <1>2 DEF KitInv, RowsHaveColumns, ItemsMove
<1>3. CASE kitMayBeDeclared(i) /\ items' = [items EXCEPT ![i].isKit = TRUE]
  <2> HIDE DEF i
  <2>1. items' \in [CanonicalItems -> ItemRows]
    BY <1>3 DEF KitInv, RowsHaveColumns, ItemRows
  <2>2. \A j \in CanonicalItems : j # i => items'[j] = items[j]
    BY <1>3 DEF KitInv, RowsHaveColumns
  <2> QED BY <1>1, <1>3, <2>1, <2>2 DEF ItemsMove
<1> QED BY <1>2, <1>3 DEF declareKitWrites

LEMMA DraftKeepsKits ==
    ASSUME KitInv, NEW c \in Clerks, NEW r \in RecipeIds, draftRecipeWrites(c, r)
    PROVE  KitInv'
<1> DEFINE d == calls[c]
<1> USE DEF KitInv
<1>1. UNCHANGED <<items, balances>>
  BY DEF draftRecipeWrites
<1>2. CASE recipes' = recipes
  BY <1>1, <1>2, BalancesMoveKeepsKits, RestIsAMove
<1>3. CASE /\ ~\E i \in DOMAIN d.parts : items[i].isKit
           /\ recipes' = [recipes EXCEPT ![r] = [status |-> "draft", kit |-> d.kit,
                                                 version |-> d.version, parts |-> d.parts]]
  <2> HIDE DEF d
  <2>1. RowsHaveColumns'
    BY <1>1, <1>3 DEF RowsHaveColumns, RecipeColumns
  <2>2. recipes'[r].parts = d.parts /\ recipes'[r].status = "draft"
    BY <1>3 DEF RowsHaveColumns
  <2>3. \A q \in RecipeIds \ {r} : recipes'[q] = recipes[q]
    BY <1>3 DEF RowsHaveColumns
  <2>4. KitsHoldNothing'
    BY <1>1, <1>3, <2>2, <2>3 DEF KitsHoldNothing, isComponent
  <2>5. OneInForce'
    BY <2>2, <2>3 DEF OneInForce
  <2> QED BY <2>1, <2>4, <2>5
<1> QED BY <1>2, <1>3 DEF draftRecipeWrites

LEMMA ApproveKeepsKits ==
    ASSUME KitInv, NEW c \in Clerks, approveRecipeWrites(c)
    PROVE  KitInv'
<1> DEFINE a == calls[c]
           k == recipes[a.recipe].kit
           next == [r \in RecipeIds |->
                      IF r = a.recipe THEN [recipes[r] EXCEPT !.status = "active"]
                      ELSE IF r \in a.retired /\ recipes[r].status = "active"
                             THEN [recipes[r] EXCEPT !.status = "superseded"] ELSE recipes[r]]
<1> USE DEF KitInv
<1>1. UNCHANGED <<items, balances>>
  BY DEF approveRecipeWrites
<1>2. CASE recipes' = recipes
  BY <1>1, <1>2, BalancesMoveKeepsKits, RestIsAMove
<1>3. CASE recipes' = next /\ oneActive(k, next)
  <2>1. \A r \in RecipeIds : next[r].kit = recipes[r].kit /\ next[r].parts = recipes[r].parts
                             /\ DOMAIN next[r] = RecipeColumns
    BY DEF RowsHaveColumns, RecipeColumns
  <2>2. \A r \in RecipeIds : next[r].status = "active" => recipes[r].status = "active" \/ r = a.recipe
    BY DEF RowsHaveColumns, RecipeColumns
  <2>3. DOMAIN next = RecipeIds
    OBVIOUS
  <2> DEFINE held == {r \in RecipeIds : next[r].kit = k /\ next[r].status = "active"}
  <2> HIDE DEF next, k, a
  <2>4. ASSUME NEW r \in held, NEW s \in held PROVE r = s
    <3>1. Cardinality(held) <= 1
      BY <1>3 DEF oneActive
    <3>2. IsFiniteSet(held)
      BY CatalogAssumption, FS_Subset
    <3>3. CASE r # s
      <4>1. {r, s} \subseteq held
        OBVIOUS
      <4>2. Cardinality({r, s}) <= Cardinality(held)
        BY <3>2, <4>1, FS_Subset
      <4>3. Cardinality({r, s}) = 2
        <5>1. IsFiniteSet({r}) /\ Cardinality({r}) = 1
          BY FS_Singleton
        <5>2. s \notin {r} /\ {r, s} = {r} \cup {s}
          BY <3>3
        <5>3. Cardinality({r} \cup {s}) = Cardinality({r}) + 1
          BY <5>1, <5>2, FS_AddElement
        <5> QED BY <5>1, <5>2, <5>3
      <4>4. Cardinality(held) \in Nat
        BY <3>2, FS_CardinalityType
      <4> QED BY <3>1, <4>2, <4>3, <4>4
    <3> QED BY <3>3
  <2>5. RowsHaveColumns'
    BY <1>1, <1>3, <2>1, <2>3 DEF RowsHaveColumns
  <2>6. KitsHoldNothing'
    BY <1>1, <1>3, <2>1 DEF KitsHoldNothing, isComponent
  <2>7. OneInForce'
    <3> SUFFICES ASSUME NEW r \in RecipeIds, NEW s \in RecipeIds,
                        next[r].status = "active", next[s].status = "active",
                        next[r].kit = next[s].kit
                 PROVE  r = s
      BY <1>3 DEF OneInForce
    <3>1. CASE next[r].kit = k
      BY <2>4, <3>1
    <3>2. CASE next[r].kit # k
      <4>1. r # a.recipe
        BY <2>1, <3>2 DEF k
      <4>2. s # a.recipe
        BY <2>1, <3>2 DEF k
      <4> QED BY <2>1, <2>2, <4>1, <4>2 DEF OneInForce
    <3> QED BY <3>1, <3>2
  <2> QED BY <2>5, <2>6, <2>7
<1> QED BY <1>2, <1>3 DEF approveRecipeWrites

LEMMA KitInvNext == KitInv /\ [CatalogNext]_catalogVars => KitInv'
<1> SUFFICES ASSUME KitInv, [CatalogNext]_catalogVars PROVE KitInv'
    OBVIOUS
<1>1. CASE UNCHANGED catalogVars
  BY <1>1, RestIsAMove, BalancesMoveKeepsKits DEF catalogVars
<1>2. CASE ItemNext
  <2>1. ASSUME NEW i \in CanonicalItems, NEW sku \in Skus, CreateItemAction(i, sku)
        PROVE  KitInv'
    BY <2>1, CreateIsAMove, ItemsMoveKeepsKits
  <2>2. ASSUME NEW i \in CanonicalItems, NEW sku \in Skus, NEW o \in {Unset, 1},
               updateCanonicalItem(i, sku, o)
        PROVE  KitInv'
    BY <2>2, UpdateIsAMove, ItemsMoveKeepsKits
  <2>3. ASSUME NEW safety, NEW split, UpdateInventorySettingsAction(safety, split)
        PROVE  KitInv'
    BY <2>3, RestIsAMove, BalancesMoveKeepsKits DEF UpdateInventorySettingsAction
  <2>4. ASSUME NEW i, NEW p, NEW safety, setItemLocationSettings(i, p, safety)
        PROVE  KitInv'
    BY <2>4, SafetyIsAMove, BalancesMoveKeepsKits DEF setItemLocationSettings
  <2>5. ASSUME NEW i, NEW p, SaleHolds(i, p) \/ SaleLetsGo(i, p)
        PROVE  KitInv'
    <3>1. UNCHANGED <<items, recipes>>
      BY <2>5 DEF SaleHolds, SaleLetsGo
    <3>2. PICK n : balances' = [balances EXCEPT ![<<i, p>>].reserved = n]
      BY <2>5 DEF SaleHolds, SaleLetsGo
    <3> QED BY <3>1, <3>2, HoldIsAMove, BalancesMoveKeepsKits
  <2>6. ASSUME NEW c, NEW i, NEW p, NEW q, PreviewAdjustmentAction(c, i, p, q)
        PROVE  KitInv'
    BY <2>6, RestIsAMove, BalancesMoveKeepsKits DEF PreviewAdjustmentAction
  <2>7. ASSUME NEW c, ApplyAdjustmentAction(c)
        PROVE  KitInv'
    BY <2>7, PostIsAMove, RestIsAMove, BalancesMoveKeepsKits DEF ApplyAdjustmentAction
  <2> QED BY <1>2, <2>1, <2>2, <2>3, <2>4, <2>5, <2>6, <2>7 DEF ItemNext
<1>3. CASE PlaceNext
  <2>1. UNCHANGED <<items, balances, recipes>>
    BY <1>3 DEF PlaceNext, CreateLocationAction, UpdateLocationAction, setLocationAddress,
         unlinkLocationFromChannel, linkLocationToChannel, ArchiveLocationAction, archiveLocation
  <2> QED BY <2>1, RestIsAMove, BalancesMoveKeepsKits
<1>4. CASE KitNext
  <2>1. PICK c \in Clerks :
          \/ \E i \in CanonicalItems : declareKit(c, i) \/ \E parts \in KitParts : draftRecipe(c, i, parts)
          \/ \E r \in RecipeIds : draftRecipeWrites(c, r) \/ approveRecipe(c, r)
          \/ declareKitWrites(c) \/ approveRecipeRetires(c) \/ approveRecipeWrites(c)
    BY <1>4 DEF KitNext
  <2>2. CASE \E i \in CanonicalItems : declareKit(c, i) \/ \E parts \in KitParts : draftRecipe(c, i, parts)
    BY <2>2, RestIsAMove, BalancesMoveKeepsKits DEF declareKit, draftRecipe
  <2>3. CASE \E r \in RecipeIds : draftRecipeWrites(c, r)
    BY <2>3, DraftKeepsKits
  <2>4. CASE (\E r \in RecipeIds : approveRecipe(c, r)) \/ approveRecipeRetires(c)
    BY <2>4, RestIsAMove, BalancesMoveKeepsKits DEF approveRecipe, approveRecipeRetires
  <2>5. CASE declareKitWrites(c)
    BY <2>5, DeclareIsAMove, ItemsMoveKeepsKits
  <2>6. CASE approveRecipeWrites(c)
    BY <2>6, ApproveKeepsKits
  <2> QED BY <2>1, <2>2, <2>3, <2>4, <2>5, <2>6
<1>5. CASE MappingNext
  <2>1. CASE \E c \in Clerks : activationWrites(c)
    <3>1. PICK c \in Clerks : activationWrites(c)
      BY <2>1
    <3> DEFINE a == calls[c]
    <3>2. UNCHANGED <<items, recipes>>
      BY <3>1 DEF activationWrites
    <3>3. \/ balances' = balances
          \/ a.delta # 0 /\ mayPost(a.item, a.place, a.delta) /\ balances' = postMovements(a.item, a.place, a.delta)
      BY <3>1 DEF activationWrites, adopt
    <3> HIDE DEF a
    <3> QED BY <3>2, <3>3, PostIsAMove, RestIsAMove, BalancesMoveKeepsKits
  <2>2. CASE ~\E c \in Clerks : activationWrites(c)
    <3>1. UNCHANGED <<items, balances, recipes>>
      BY <1>5, <2>2, ZenonT(60) DEF MappingNext, ProposeMappingAction, ApproveMappingAction, ArchiveMappingAction,
           reviseMapping, ActivateMappingAction, PauseMappingAction, pauseIncompleteVariationListings,
           bumpVersion, ImportMisses, ImportRecords
    <3> QED BY <3>1, RestIsAMove, BalancesMoveKeepsKits
  <2> QED BY <2>1, <2>2
<1> QED BY <1>1, <1>2, <1>3, <1>4, <1>5 DEF CatalogNext

LEMMA KitInvMeaning == KitInv => KitIsARecipe
<1> SUFFICES ASSUME KitInv, NEW i \in CanonicalItems, items[i].isKit
             PROVE  Cardinality(InForce(i)) <= 1
    BY DEF KitIsARecipe, KitInv, KitsHoldNothing
<1>1. CASE InForce(i) = {}
  BY <1>1, FS_EmptySet
<1>2. CASE InForce(i) # {}
  <2>1. PICK r : r \in InForce(i)
    BY <1>2
  <2>2. InForce(i) = {r}
    BY <2>1 DEF InForce, RecipesOf, KitInv, OneInForce
  <2>3. Cardinality({r}) = 1
    BY FS_Singleton
  <2> QED BY <2>2, <2>3
<1> QED BY <1>1, <1>2

(* A kit is a recipe and not a container, for every number of items, places, recipes and   *)
(* calls: it has no balance, is no component, and one recipe at most is in force, although *)
(* declareKit and approveRecipe check in one statement and write in another.               *)
THEOREM KitsAreRecipes == CatalogSpec => []KitIsARecipe
<1>1. CatalogSpec => []KitInv
  BY KitInvInit, KitInvNext, PTL DEF CatalogSpec
<1> QED BY <1>1, KitInvMeaning, PTL

-----------------------------------------------------------------------------
(* Mappings.                                                                 *)

VersionsOf(m) == {r \in versions : r.mapping = m}

MappingsHaveColumns ==
    /\ DOMAIN mappings = MappingIds
    /\ \A m \in MappingIds : DOMAIN mappings[m] = MappingColumns /\ mappings[m].version \in Nat

\* A row of each version up to the one in force, and no two of one version.
HistoryIsWhole ==
    /\ IsFiniteSet(versions)
    /\ \A r \in versions : r.mapping \in MappingIds /\ r.version \in 1..mappings[r.mapping].version
    /\ \A r, s \in versions : r.mapping = s.mapping /\ r.version = s.version => r = s
    /\ \A m \in MappingIds :
         /\ mappings[m].status # None => recordVersion(m, mappings[m]) \in versions
         /\ mappings[m].status = None => mappings[m].version = 0
         /\ \A v \in 1..mappings[m].version : \E r \in versions : r.mapping = m /\ r.version = v
         /\ Cardinality(VersionsOf(m)) = mappings[m].version
         /\ (mappings[m].status = "archived") = mappings[m].archived

\* What a caller saw of a mapping is a version of it, and a mapping stays proposed.
CallOK(k) ==
    /\ k.op \in {"bump", "settle"} => /\ k.mapping \in MappingIds
                                      /\ k.status \in {"active", "paused"}
                                      /\ mappings[k.mapping].status # None
    /\ k.op = "bump" => DOMAIN k = {"op", "mapping", "status", "item", "place", "delta"}
    /\ k.op = "settle" => /\ DOMAIN k.seen = MappingColumns
                          /\ k.seen.version \in Nat
                          /\ recordVersion(k.mapping, k.seen) \in versions

CallsOK == DOMAIN calls = Clerks /\ \A c \in Clerks : CallOK(calls[c])

MappingInv == MappingsHaveColumns /\ HistoryIsWhole /\ CallsOK

LEMMA MappingInvInit == CatalogInit => MappingInv
<1> SUFFICES ASSUME CatalogInit PROVE MappingInv
    OBVIOUS
<1>1. MappingsHaveColumns
  BY DEF CatalogInit, MappingsHaveColumns, NoMapping, MappingColumns
<1>2. HistoryIsWhole
  <2>1. \A m : VersionsOf(m) = {}
    BY DEF CatalogInit, VersionsOf
  <2>2. 1..0 = {}
    OBVIOUS
  <2>3. ASSUME NEW m \in MappingIds
        PROVE  mappings[m].status = None /\ mappings[m].version = 0 /\ mappings[m].archived = FALSE
    BY DEF CatalogInit, NoMapping
  <2>4. IsFiniteSet(versions) /\ versions = {}
    BY FS_EmptySet DEF CatalogInit
  <2>5. \A m : Cardinality(VersionsOf(m)) = 0
    BY <2>1, FS_EmptySet
  <2>6. \A m \in MappingIds : mappings[m].version = Cardinality(VersionsOf(m))
                              /\ \A v : v \notin 1..mappings[m].version
    BY <2>2, <2>3, <2>5
  <2>7. \A m \in MappingIds : mappings[m].status = None /\ (mappings[m].status = "archived") = mappings[m].archived
    BY <2>3 DEF None
  <2> QED BY <2>3, <2>4, <2>6, <2>7 DEF HistoryIsWhole
<1>3. CallsOK
  BY DEF CatalogInit, CallsOK, CallOK, Idle
<1> QED BY <1>1, <1>2, <1>3 DEF MappingInv

\* A mapping is written together with its next version, by somebody who says what the row
\* and the version have in common.
Written(m, row) ==
    /\ mappings' = [mappings EXCEPT ![m] = row]
    /\ versions' = versions \cup {recordVersion(m, row)}
    /\ DOMAIN row = MappingColumns
    /\ row.version = mappings[m].version + 1
    /\ row.status # None
    /\ rowIsAllowed(row)
    /\ mappings[m].status # "archived"

LEMMA WrittenKeepsHistory ==
    ASSUME MappingsHaveColumns, HistoryIsWhole, NEW m \in MappingIds, NEW row, Written(m, row)
    PROVE  MappingsHaveColumns' /\ HistoryIsWhole'
<1> DEFINE v == recordVersion(m, row)
<1> USE DEF Written
<1>1. mappings[m].version \in Nat /\ row.version \in Nat /\ row.version = mappings[m].version + 1
  BY DEF MappingsHaveColumns
<1>2. mappings'[m] = row /\ \A n \in MappingIds \ {m} : mappings'[n] = mappings[n]
  BY DEF MappingsHaveColumns
<1>3. MappingsHaveColumns'
  BY <1>1, <1>2 DEF MappingsHaveColumns
<1>4. v.mapping = m /\ v.version = row.version
  BY DEF recordVersion
<1>5. \A r \in versions : r.mapping = m => r.version < row.version
  BY <1>1 DEF HistoryIsWhole
<1>6. v \notin versions
  BY <1>1, <1>4, <1>5
<1> HIDE DEF v
<1>7. versions' = versions \cup {v}
  BY DEF v
<1>8. IsFiniteSet(versions')
  BY <1>7, FS_AddElement DEF HistoryIsWhole
<1>9. \A r \in versions' : r.mapping \in MappingIds /\ r.version \in 1..mappings'[r.mapping].version
  <2> SUFFICES ASSUME NEW r \in versions \cup {v}
               PROVE  r.mapping \in MappingIds /\ r.version \in 1..mappings'[r.mapping].version
      BY <1>7
  <2>1. CASE r = v
    BY <1>1, <1>2, <1>4, <2>1
  <2>2. CASE r \in versions /\ r.mapping = m
    BY <1>1, <1>2, <2>2 DEF HistoryIsWhole
  <2>3. CASE r \in versions /\ r.mapping # m
    BY <1>2, <2>3 DEF HistoryIsWhole
  <2> QED BY <2>1, <2>2, <2>3
<1>10. \A r, s \in versions' : r.mapping = s.mapping /\ r.version = s.version => r = s
  <2> SUFFICES ASSUME NEW r \in versions \cup {v}, NEW s \in versions \cup {v},
                      r.mapping = s.mapping, r.version = s.version
               PROVE  r = s
      BY <1>7
  <2>1. CASE r \in versions /\ s \in versions
    BY <2>1 DEF HistoryIsWhole
  <2>2. CASE r = v /\ s \in versions
    BY <1>1, <1>4, <1>5, <2>2 DEF HistoryIsWhole
  <2>3. CASE s = v /\ r \in versions
    BY <1>1, <1>4, <1>5, <2>3 DEF HistoryIsWhole
  <2> QED BY <2>1, <2>2, <2>3
<1>11. ASSUME NEW n \in MappingIds
       PROVE  /\ mappings'[n].status # None => recordVersion(n, mappings'[n]) \in versions'
              /\ mappings'[n].status = None => mappings'[n].version = 0
              /\ \A w \in 1..mappings'[n].version : \E r \in versions' : r.mapping = n /\ r.version = w
              /\ Cardinality(VersionsOf(n)') = mappings'[n].version
              /\ (mappings'[n].status = "archived") = mappings'[n].archived
  <2>1. CASE n = m
    <3>1. VersionsOf(n)' = VersionsOf(n) \cup {v}
      BY <1>4, <1>7, <2>1 DEF VersionsOf
    <3>2. IsFiniteSet(VersionsOf(n)) /\ v \notin VersionsOf(n)
      BY <1>6, FS_Subset DEF VersionsOf, HistoryIsWhole
    <3>3. Cardinality(VersionsOf(n) \cup {v}) = Cardinality(VersionsOf(n)) + 1
      BY <3>2, FS_AddElement
    <3>4. recordVersion(n, mappings'[n]) \in versions'
      BY <1>2, <1>7, <2>1 DEF v
    <3>5. (row.status = "archived") = row.archived
      BY DEF rowIsAllowed
    <3>6. ASSUME NEW w \in 1..row.version
          PROVE  \E r \in versions' : r.mapping = m /\ r.version = w
      <4>1. CASE w = row.version
        BY <1>4, <1>7, <4>1
      <4>2. CASE w # row.version
        <5>1. w \in 1..mappings[m].version
          BY <1>1, <4>2
        <5>2. PICK r \in versions : r.mapping = m /\ r.version = w
          BY <5>1 DEF HistoryIsWhole
        <5> QED BY <1>7, <5>2
      <4> QED BY <4>1, <4>2
    <3> QED BY <1>1, <1>2, <2>1, <3>1, <3>3, <3>4, <3>5, <3>6 DEF HistoryIsWhole
  <2>2. CASE n # m
    <3>1. VersionsOf(n)' = VersionsOf(n)
      BY <1>4, <1>7, <2>2 DEF VersionsOf
    <3>2. mappings'[n] = mappings[n]
      BY <1>2, <2>2
    <3> QED BY <1>7, <3>1, <3>2 DEF HistoryIsWhole
  <2> QED BY <2>1, <2>2
<1>12. HistoryIsWhole'
  BY <1>8, <1>9, <1>10, <1>11 DEF HistoryIsWhole
<1> QED BY <1>3, <1>12

LEMMA WrittenGrows ==
    ASSUME MappingsHaveColumns, NEW m \in MappingIds, NEW row, Written(m, row)
    PROVE  /\ versions \subseteq versions'
           /\ \A n \in MappingIds : mappings[n].status # None => mappings'[n].status # None
BY DEF Written, MappingsHaveColumns

LEMMA CallStaysOK ==
    ASSUME NEW CONSTANT k, CallOK(k), versions \subseteq versions',
           \A n \in MappingIds : mappings[n].status # None => mappings'[n].status # None
    PROVE  CallOK(k)'
BY DEF CallOK, recordVersion

LEMMA CallsStayOK ==
    ASSUME CallsOK, versions \subseteq versions',
           \A n \in MappingIds : mappings[n].status # None => mappings'[n].status # None,
           NEW CONSTANT d \in Clerks, NEW CONSTANT x, CallOK(x)',
           calls' = calls \/ calls' = [calls EXCEPT ![d] = x]
    PROVE  CallsOK'
<1>1. DOMAIN calls' = Clerks
  BY DEF CallsOK
<1>2. ASSUME NEW CONSTANT c \in Clerks PROVE CallOK(calls[c])'
  <2>1. PICK k : k = calls'[c]
    OBVIOUS
  <2>2. k = calls[c] \/ k = x
    BY <2>1 DEF CallsOK
  <2>3. CASE k = calls[c]
    <3>1. CallOK(k)
      BY <2>3 DEF CallsOK
    <3>2. CallOK(k)'
      BY <3>1, CallStaysOK
    <3> QED BY <2>1, <3>2 DEF CallOK
  <2>4. CASE k = x
    BY <2>1, <2>4 DEF CallOK
  <2> QED BY <2>2, <2>3, <2>4
<1> QED BY <1>1, <1>2 DEF CallsOK

\* Steps that leave mappings and versions alone.
MappingsRest == UNCHANGED <<mappings, versions>>

LEMMA MappingsRestKeep ==
    ASSUME MappingInv, MappingsRest, CallsOK'
    PROVE  MappingInv'
<1>1. MappingsHaveColumns'
  BY DEF MappingInv, MappingsRest, MappingsHaveColumns
<1>2. \A m \in MappingIds : VersionsOf(m)' = VersionsOf(m)
  BY DEF MappingsRest, VersionsOf
<1>3. HistoryIsWhole'
  BY <1>2 DEF MappingInv, MappingsRest, HistoryIsWhole
<1> QED BY <1>1, <1>3 DEF MappingInv

LEMMA RestGrows ==
    ASSUME MappingsRest
    PROVE  /\ versions \subseteq versions'
           /\ \A n \in MappingIds : mappings[n].status # None => mappings'[n].status # None
BY DEF MappingsRest

\* A step of another part: no call of a mapping begins.
LEMMA ElsewhereKeeps ==
    ASSUME MappingInv, MappingsRest,
           calls' = calls \/ \E c \in Clerks : \E x : x.op \notin {"bump", "settle"}
                                                 /\ calls' = [calls EXCEPT ![c] = x]
    PROVE  MappingInv'
<1>1. CASE calls' = calls
  <2>1. \A c \in Clerks : CallOK(calls[c])'
    BY <1>1 DEF MappingInv, MappingsRest, CallsOK, CallOK
  <2>2. CallsOK'
    BY <1>1, <2>1 DEF MappingInv, CallsOK
  <2> QED BY <2>2, MappingsRestKeep
<1>2. CASE \E c \in Clerks : \E x : x.op \notin {"bump", "settle"} /\ calls' = [calls EXCEPT ![c] = x]
  <2> PICK c \in Clerks : \E x : x.op \notin {"bump", "settle"} /\ calls' = [calls EXCEPT ![c] = x]
    BY <1>2
  <2>1. PICK x : x.op \notin {"bump", "settle"} /\ calls' = [calls EXCEPT ![c] = x]
    OBVIOUS
  <2>2. CallOK(x)'
    BY <2>1 DEF CallOK
  <2>3. CallsOK'
    BY <2>1, <2>2, RestGrows, CallsStayOK DEF MappingInv
  <2> QED BY <2>3, MappingsRestKeep
<1> QED BY <1>1, <1>2

\* An operation that holds the row of the mapping it writes.
LEMMA WriteKeeps ==
    ASSUME MappingInv, UNCHANGED calls, NEW m \in MappingIds, NEW row, Written(m, row)
    PROVE  MappingInv'
<1>1. MappingsHaveColumns' /\ HistoryIsWhole'
  BY WrittenKeepsHistory DEF MappingInv
<1>2. /\ versions \subseteq versions'
      /\ \A n \in MappingIds : mappings[n].status # None => mappings'[n].status # None
  BY WrittenGrows DEF MappingInv
<1>3. ASSUME NEW CONSTANT c \in Clerks PROVE CallOK(calls[c])'
  <2>1. PICK k : k = calls[c]
    OBVIOUS
  <2>2. CallOK(k)
    BY <2>1 DEF MappingInv, CallsOK
  <2>3. CallOK(k)'
    BY <1>2, <2>2, CallStaysOK
  <2> QED BY <2>1, <2>3 DEF CallOK
<1>4. CallsOK'
  BY <1>3 DEF MappingInv, CallsOK
<1> QED BY <1>1, <1>4 DEF MappingInv

LEMMA ProposeWrites ==
    ASSUME MappingInv, NEW m \in MappingIds, NEW e, NEW i, NEW from, ProposeMappingAction(m, e, i, from)
    PROVE  \E row : Written(m, row)
<1> DEFINE row == [NoMapping EXCEPT !.status = "draft", !.entity = e, !.item = i, !.from = from,
                                    !.buffer = 0, !.cap = Unset, !.version = 1]
<1>1. mappings[m].status = None /\ Write(m, row)
  BY DEF ProposeMappingAction, proposeMapping
<1>2. DOMAIN row = MappingColumns /\ row.version = 1 /\ row.status = "draft"
  BY DEF NoMapping, MappingColumns
<1>3. mappings[m].version = 0
  BY <1>1 DEF MappingInv, HistoryIsWhole
<1> HIDE DEF row
<1>4. row.version = mappings[m].version + 1
  BY <1>2, <1>3
<1> QED BY <1>1, <1>2, <1>4 DEF Write, Written, None

LEMMA ApproveWrites ==
    ASSUME MappingInv, NEW m \in MappingIds, ApproveMappingAction(m)
    PROVE  \E row : Written(m, row)
<1> DEFINE row == [mappings[m] EXCEPT !.status = "approved", !.approved = TRUE, !.version = @ + 1]
<1>1. mappings[m].status = "draft" /\ Write(m, row)
  BY DEF ApproveMappingAction, approveMapping
<1>2. DOMAIN row = MappingColumns /\ row.version = mappings[m].version + 1 /\ row.status = "approved"
  BY DEF MappingInv, MappingsHaveColumns, MappingColumns
<1> HIDE DEF row
<1> QED BY <1>1, <1>2 DEF Write, Written, None

LEMMA ArchiveWrites ==
    ASSUME MappingInv, NEW m \in MappingIds, ArchiveMappingAction(m)
    PROVE  \E row : Written(m, row)
<1> DEFINE row == [mappings[m] EXCEPT !.status = "archived", !.archived = TRUE, !.why = FALSE,
                                      !.version = @ + 1]
<1>1. mappings[m].status \in Live /\ Write(m, row)
  BY DEF ArchiveMappingAction, archiveMapping
<1>2. DOMAIN row = MappingColumns /\ row.version = mappings[m].version + 1 /\ row.status = "archived"
  BY DEF MappingInv, MappingsHaveColumns, MappingColumns
<1> HIDE DEF row
<1> QED BY <1>1, <1>2 DEF Write, Written, None, Live

LEMMA ReviseWrites ==
    ASSUME MappingInv, NEW m \in MappingIds, NEW i, NEW from, reviseMapping(m, i, from, 0, 1)
    PROVE  \E row : Written(m, row)
<1> DEFINE pause == i # mappings[m].item /\ mappings[m].status \in {"active", "paused"}
           row == [mappings[m] EXCEPT !.item = i, !.from = from, !.buffer = 0, !.cap = 1,
                                      !.status = IF pause THEN "paused" ELSE @,
                                      !.why = IF pause THEN TRUE ELSE @, !.version = @ + 1]
<1>1. mappings[m].status \in Live /\ Write(m, row)
  BY DEF reviseMapping
<1>2. DOMAIN row = MappingColumns /\ row.version = mappings[m].version + 1
      /\ row.status \in {"paused", mappings[m].status}
  <2> HIDE DEF pause
  <2> QED BY DEF MappingInv, MappingsHaveColumns, MappingColumns
<1> HIDE DEF row
<1> QED BY <1>1, <1>2 DEF Write, Written, None, Live

\* An activation or a pause that begins.
LEMMA BeginKeeps ==
    ASSUME MappingInv, MappingsRest, NEW c \in Clerks, NEW m \in MappingIds,
           NEW s \in {"active", "paused"}, NEW i, NEW p, NEW n, mappings[m].status # None,
           Begin(c, [op |-> "bump", mapping |-> m, status |-> s, item |-> i, place |-> p, delta |-> n])
    PROVE  MappingInv'
<1> DEFINE x == [op |-> "bump", mapping |-> m, status |-> s, item |-> i, place |-> p, delta |-> n]
<1>1. PICK k : k = x
  OBVIOUS
<1>2. CallOK(k)
  BY <1>1 DEF CallOK
<1>3. CallOK(k)'
  BY <1>2, CallStaysOK, RestGrows
<1>4. calls' = [calls EXCEPT ![c] = k]
  BY <1>1 DEF Begin
<1>5. CallsOK'
  BY <1>3, <1>4, RestGrows, CallsStayOK DEF MappingInv
<1> QED BY <1>5, MappingsRestKeep

LEMMA BumpKeeps ==
    ASSUME MappingInv, NEW c \in Clerks, bumpVersion(c)
    PROVE  MappingInv'
<1>1. PICK k : k = calls'[c]
  OBVIOUS
<1>2. MappingsRest
  BY DEF bumpVersion, MappingsRest
<1>3. CallOK(calls[c]) /\ calls[c].op = "bump" /\ DOMAIN calls = Clerks
  BY DEF MappingInv, CallsOK, bumpVersion, At
<1> DEFINE m == calls[c].mapping
           x == [op |-> "settle", mapping |-> m, status |-> calls[c].status, item |-> calls[c].item,
                 place |-> calls[c].place, delta |-> calls[c].delta, seen |-> mappings[m]]
<1>4. k = x /\ calls' = [calls EXCEPT ![c] = k]
  BY <1>1, <1>3 DEF bumpVersion
<1>5. m \in MappingIds /\ calls[c].status \in {"active", "paused"} /\ mappings[m].status # None
  BY <1>3 DEF CallOK
<1>6. /\ DOMAIN mappings[m] = MappingColumns /\ mappings[m].version \in Nat
      /\ recordVersion(m, mappings[m]) \in versions
  BY <1>5 DEF MappingInv, MappingsHaveColumns, HistoryIsWhole
<1>7. /\ k.op = "settle" /\ k.mapping = m /\ k.status = calls[c].status /\ k.seen = mappings[m]
  BY <1>4
<1> HIDE DEF m
<1>8. CallOK(k)
  BY <1>5, <1>6, <1>7 DEF CallOK
<1>9. CallOK(k)'
  BY <1>2, <1>8, CallStaysOK, RestGrows
<1>10. CallsOK'
  BY <1>2, <1>4, <1>9, RestGrows, CallsStayOK DEF MappingInv
<1> QED BY <1>2, <1>10, MappingsRestKeep

\* The version that is free is the next one, so that what the caller saw is what is in force.
LEMMA SettleWrites ==
    ASSUME MappingInv, NEW c \in Clerks, activationWrites(c)
    PROVE  \/ MappingsRest
           \/ calls[c].mapping \in MappingIds /\ \E row : Written(calls[c].mapping, row)
<1> DEFINE a == calls[c]
           m == a.mapping
           version == a.seen.version + 1
           row == [mappings[m] EXCEPT !.status = a.status, !.version = version,
                                      !.why = (a.status = "paused"),
                                      !.activated = (@ \/ a.status = "active")]
           was == [a.seen EXCEPT !.status = a.status, !.version = version, !.from = row.from]
<1>1. CallOK(a) /\ a.op = "settle"
  BY DEF MappingInv, CallsOK, activationWrites, At
<1>2. \/ MappingsRest
      \/ /\ versionIsFree(m, version) /\ rowIsAllowed(row)
         /\ mappings' = [mappings EXCEPT ![m] = row]
         /\ versions' = versions \cup {recordVersion(m, was)}
  BY DEF activationWrites, MappingsRest
<1>3. /\ m \in MappingIds /\ a.status \in {"active", "paused"}
      /\ DOMAIN a.seen = MappingColumns /\ a.seen.version \in Nat
      /\ recordVersion(m, a.seen) \in versions /\ mappings[m].status # None
  BY <1>1 DEF CallOK
<1>4. /\ DOMAIN mappings[m] = MappingColumns /\ mappings[m].version \in Nat
      /\ recordVersion(m, mappings[m]) \in versions
      /\ (mappings[m].status = "archived") = mappings[m].archived
  BY <1>3 DEF MappingInv, MappingsHaveColumns, HistoryIsWhole
<1>5. /\ DOMAIN row = MappingColumns /\ row.status = a.status /\ row.version = version
      /\ row.item = mappings[m].item /\ row.buffer = mappings[m].buffer /\ row.cap = mappings[m].cap
      /\ row.from = mappings[m].from /\ row.archived = mappings[m].archived
  BY <1>4 DEF MappingColumns
<1>6. /\ was.status = a.status /\ was.version = version /\ was.from = row.from
      /\ was.item = a.seen.item /\ was.buffer = a.seen.buffer /\ was.cap = a.seen.cap
  BY <1>3 DEF MappingColumns
<1> HIDE DEF a, m, row, was, version
<1>7. ASSUME versionIsFree(m, version), rowIsAllowed(row),
             mappings' = [mappings EXCEPT ![m] = row],
             versions' = versions \cup {recordVersion(m, was)}
      PROVE  Written(m, row)
  <2>1. a.seen.version <= mappings[m].version
    <3>1. PICK r \in versions : r = recordVersion(m, a.seen)
      BY <1>3
    <3>2. r.mapping = m /\ r.version = a.seen.version
      BY <3>1 DEF recordVersion
    <3> QED BY <3>2, <1>3, <1>4 DEF MappingInv, HistoryIsWhole
  <2>2. a.seen.version = mappings[m].version
    <3> SUFFICES ASSUME a.seen.version < mappings[m].version
                 PROVE  \E r \in versions : r.mapping = m /\ r.version = version
        BY <1>3, <1>4, <1>7, <2>1 DEF versionIsFree
    <3>1. version \in 1..mappings[m].version
      BY <1>3, <1>4 DEF version
    <3> QED BY <1>3, <3>1 DEF MappingInv, HistoryIsWhole
  <2>3. recordVersion(m, a.seen) = recordVersion(m, mappings[m])
    <3>1. PICK r \in versions : r = recordVersion(m, a.seen)
      BY <1>3
    <3>2. PICK s \in versions : s = recordVersion(m, mappings[m])
      BY <1>4
    <3>3. r.mapping = s.mapping /\ r.version = s.version
      BY <2>2, <3>1, <3>2 DEF recordVersion
    <3> QED BY <3>1, <3>2, <3>3 DEF MappingInv, HistoryIsWhole
  <2>4. /\ a.seen.item = mappings[m].item /\ a.seen.buffer = mappings[m].buffer
        /\ a.seen.cap = mappings[m].cap
    BY <2>3 DEF recordVersion
  <2>5. recordVersion(m, was) = recordVersion(m, row)
    BY <1>5, <1>6, <2>4 DEF recordVersion
  <2>6. row.version = mappings[m].version + 1
    BY <1>5, <2>2 DEF version
  <2>7. mappings[m].status # "archived"
    BY <1>3, <1>4, <1>5, <1>7 DEF rowIsAllowed
  <2>8. row.status # None
    BY <1>3, <1>5 DEF None
  <2> QED BY <1>5, <1>7, <2>5, <2>6, <2>7, <2>8 DEF Written
<1> QED BY <1>2, <1>3, <1>7 DEF a, m

LEMMA ActivationKeeps ==
    ASSUME MappingInv, NEW c \in Clerks, activationWrites(c)
    PROVE  MappingInv'
<1>1. calls' = [calls EXCEPT ![c] = Idle]
  BY DEF activationWrites, Finish
<1>2. \A x : x = Idle => CallOK(x)'
  BY DEF CallOK, Idle
<1>3. CASE MappingsRest
  BY <1>1, <1>3, ElsewhereKeeps DEF Idle
<1>4. CASE calls[c].mapping \in MappingIds /\ \E row : Written(calls[c].mapping, row)
  <2> PICK m \in MappingIds : \E row : Written(m, row)
    BY <1>4
  <2>1. PICK row : Written(m, row)
    OBVIOUS
  <2>2. MappingsHaveColumns' /\ HistoryIsWhole'
    BY <2>1, WrittenKeepsHistory DEF MappingInv
  <2>3. CallsOK'
    <3>1. /\ versions \subseteq versions'
          /\ \A n \in MappingIds : mappings[n].status # None => mappings'[n].status # None
      BY <2>1, WrittenGrows DEF MappingInv
    <3>2. PICK x : x = Idle
      OBVIOUS
    <3> QED BY <1>1, <1>2, <3>1, <3>2, CallsStayOK DEF MappingInv
  <2> QED BY <2>2, <2>3 DEF MappingInv
<1> QED BY <1>3, <1>4, SettleWrites

LEMMA MappingInvNext == MappingInv /\ [CatalogNext]_catalogVars => MappingInv'
<1> SUFFICES ASSUME MappingInv, [CatalogNext]_catalogVars PROVE MappingInv'
    OBVIOUS
<1>1. CASE UNCHANGED catalogVars
  BY <1>1, ElsewhereKeeps DEF catalogVars, MappingsRest
<1>2. CASE ItemNext
  <2>1. MappingsRest
    BY <1>2 DEF ItemNext, CreateItemAction, updateCanonicalItem, UpdateInventorySettingsAction,
         setItemLocationSettings, SaleHolds, SaleLetsGo, PreviewAdjustmentAction, ApplyAdjustmentAction,
         MappingsRest
  <2>2. calls' = calls \/ \E c \in Clerks : \E x : x.op \notin {"bump", "settle"}
                                               /\ calls' = [calls EXCEPT ![c] = x]
    <3>1. ASSUME NEW c \in Clerks, NEW i, NEW p, NEW q, PreviewAdjustmentAction(c, i, p, q)
          PROVE  \E x : x.op \notin {"bump", "settle"} /\ calls' = [calls EXCEPT ![c] = x]
      <4>1. calls' = [calls EXCEPT ![c] = [op |-> "adjust", item |-> i, place |-> p,
                                           delta |-> deltaForAbsolute(i, p, q)]]
        BY <3>1 DEF PreviewAdjustmentAction, Begin
      <4> QED BY <4>1
    <3>2. ASSUME NEW c \in Clerks, ApplyAdjustmentAction(c)
          PROVE  \E x : x.op \notin {"bump", "settle"} /\ calls' = [calls EXCEPT ![c] = x]
      BY <3>2 DEF ApplyAdjustmentAction, Finish, Idle
    <3> QED BY <1>2, <3>1, <3>2 DEF ItemNext, CreateItemAction, updateCanonicalItem,
              UpdateInventorySettingsAction, setItemLocationSettings, SaleHolds, SaleLetsGo
  <2> QED BY <2>1, <2>2, ElsewhereKeeps
<1>3. CASE PlaceNext
  <2>1. MappingsRest
    BY <1>3 DEF PlaceNext, CreateLocationAction, UpdateLocationAction, setLocationAddress,
         unlinkLocationFromChannel, linkLocationToChannel, ArchiveLocationAction, archiveLocation,
         MappingsRest
  <2>2. calls' = calls \/ \E c \in Clerks : \E x : x.op \notin {"bump", "settle"}
                                               /\ calls' = [calls EXCEPT ![c] = x]
    BY <1>3 DEF PlaceNext, CreateLocationAction, UpdateLocationAction, setLocationAddress,
         unlinkLocationFromChannel, linkLocationToChannel, ArchiveLocationAction, archiveLocation,
         Begin, Finish, Idle
  <2> QED BY <2>1, <2>2, ElsewhereKeeps
<1>4. CASE KitNext
  <2>1. PICK c \in Clerks :
          \/ \E i \in CanonicalItems : declareKit(c, i) \/ \E parts \in KitParts : draftRecipe(c, i, parts)
          \/ \E r \in RecipeIds : draftRecipeWrites(c, r) \/ approveRecipe(c, r)
          \/ declareKitWrites(c) \/ approveRecipeRetires(c) \/ approveRecipeWrites(c)
    BY <1>4 DEF KitNext
  <2>2. MappingsRest
    BY <2>1 DEF declareKit, draftRecipe, draftRecipeWrites, approveRecipe, declareKitWrites,
         approveRecipeRetires, approveRecipeWrites, MappingsRest
  <2>3. \E x : x.op \notin {"bump", "settle"} /\ calls' = [calls EXCEPT ![c] = x]
    <3>1. CASE \E i \in CanonicalItems, parts \in KitParts : draftRecipe(c, i, parts)
      <4>1. PICK i \in CanonicalItems, parts \in KitParts : draftRecipe(c, i, parts)
        BY <3>1
      <4>2. PICK n : n = 1 + Max({0} \cup {recipes[r].version : r \in RecipesOf(i)})
        OBVIOUS
      <4>3. calls' = [calls EXCEPT ![c] = [op |-> "draftRecipe", kit |-> i, parts |-> parts, version |-> n]]
        BY <4>1, <4>2 DEF draftRecipe, Begin
      <4> QED BY <4>3
    <3>2. CASE approveRecipeRetires(c)
      <4>1. PICK q, old : calls' = [calls EXCEPT ![c] = [op |-> "inForce", recipe |-> q, retired |-> old]]
        BY <3>2 DEF approveRecipeRetires
      <4> QED BY <4>1
    <3>3. CASE \E i \in CanonicalItems : declareKit(c, i)
      BY <3>3 DEF declareKit, Begin
    <3>4. CASE \E r \in RecipeIds : approveRecipe(c, r)
      BY <3>4 DEF approveRecipe, Begin
    <3>5. CASE (\E r \in RecipeIds : draftRecipeWrites(c, r)) \/ declareKitWrites(c) \/ approveRecipeWrites(c)
      BY <3>5 DEF draftRecipeWrites, declareKitWrites, approveRecipeWrites, Finish, Idle
    <3> QED BY <2>1, <3>1, <3>2, <3>3, <3>4, <3>5
  <2> QED BY <2>2, <2>3, ElsewhereKeeps
<1>5. CASE MappingNext
  <2>1. ASSUME NEW m \in MappingIds, NEW e, NEW i, NEW from, ProposeMappingAction(m, e, i, from)
        PROVE  MappingInv'
    BY <2>1, ProposeWrites, WriteKeeps DEF ProposeMappingAction
  <2>2. ASSUME NEW m \in MappingIds, ApproveMappingAction(m) PROVE MappingInv'
    BY <2>2, ApproveWrites, WriteKeeps DEF ApproveMappingAction
  <2>3. ASSUME NEW m \in MappingIds, ArchiveMappingAction(m) PROVE MappingInv'
    BY <2>3, ArchiveWrites, WriteKeeps DEF ArchiveMappingAction
  <2>4. ASSUME NEW m \in MappingIds, NEW i, NEW from, reviseMapping(m, i, from, 0, 1) PROVE MappingInv'
    BY <2>4, ReviseWrites, WriteKeeps DEF reviseMapping
  <2>5. ASSUME NEW m \in MappingIds, NEW c \in Clerks, NEW source, NEW p,
               ActivateMappingAction(c, m, source, p, 1)
        PROVE  MappingInv'
    <3>1. MappingsRest /\ mappings[m].status \in {"approved", "paused"}
      BY <2>5 DEF ActivateMappingAction, MappingsRest
    <3>2. PICK i, n : Begin(c, [op |-> "bump", mapping |-> m, status |-> "active", item |-> i,
                                place |-> p, delta |-> n])
      BY <2>5 DEF ActivateMappingAction
    <3> QED BY <3>1, <3>2, BeginKeeps DEF None
  <2>6. ASSUME NEW m \in MappingIds, NEW c \in Clerks,
               PauseMappingAction(c, m) \/ pauseIncompleteVariationListings(c, m)
        PROVE  MappingInv'
    <3>1. MappingsRest /\ pauseMapping(c, m)
      BY <2>6 DEF PauseMappingAction, pauseIncompleteVariationListings, MappingsRest
    <3> QED BY <3>1, BeginKeeps DEF pauseMapping, None
  <2>7. ASSUME NEW e \in Entities, ImportMisses(e) \/ \E ok \in BOOLEAN : ImportRecords(e, 1, ok)
        PROVE  MappingInv'
    BY <2>7, ElsewhereKeeps DEF ImportMisses, ImportRecords, MappingsRest
  <2> QED BY <1>5, <2>1, <2>2, <2>3, <2>4, <2>5, <2>6, <2>7, BumpKeeps, ActivationKeeps DEF MappingNext
<1> QED BY <1>1, <1>2, <1>3, <1>4, <1>5 DEF CatalogNext

(* The version history explains every mapping as it stands, with one row for each version  *)
(* from the first, for any number of mappings, callers and versions, although activating   *)
(* and pausing read the version they follow without a lock: channel_mapping_versions_unique *)
(* lets pass only who saw the version in force, and rolls the others back.                 *)
THEOREM HistoryIsExplained == CatalogSpec => []HistoryExplainsMapping
<1>1. CatalogSpec => []MappingInv
  BY MappingInvInit, MappingInvNext, PTL DEF CatalogSpec
<1>2. MappingInv => HistoryExplainsMapping
  BY DEF MappingInv, HistoryIsWhole, HistoryExplainsMapping, VersionsOf
<1> QED BY <1>1, <1>2, PTL

\* What a step may do to mappings: nothing, or write one that is not archived.
LEMMA StepsWrite ==
    ASSUME MappingInv, [CatalogNext]_catalogVars
    PROVE  MappingsRest \/ \E m \in MappingIds : \E row : Written(m, row)
<1>1. CASE UNCHANGED catalogVars \/ ItemNext \/ PlaceNext \/ KitNext
  <2>1. CASE UNCHANGED catalogVars
    BY <2>1, Zenon DEF catalogVars, MappingsRest
  <2>2. CASE ItemNext
    BY <2>2, ZenonT(60) DEF ItemNext, CreateItemAction, updateCanonicalItem, UpdateInventorySettingsAction,
         setItemLocationSettings, SaleHolds, SaleLetsGo, PreviewAdjustmentAction, ApplyAdjustmentAction, MappingsRest
  <2>3. CASE PlaceNext
    BY <2>3, ZenonT(60) DEF PlaceNext, CreateLocationAction, UpdateLocationAction, setLocationAddress,
         unlinkLocationFromChannel, linkLocationToChannel, ArchiveLocationAction, archiveLocation, MappingsRest
  <2>4. CASE KitNext
    BY <2>4, ZenonT(60) DEF KitNext, declareKit, draftRecipe, draftRecipeWrites, approveRecipe, declareKitWrites,
         approveRecipeRetires, approveRecipeWrites, MappingsRest
  <2> QED BY <1>1, <2>1, <2>2, <2>3, <2>4
<1>2. CASE MappingNext
  <2>1. CASE \E m \in MappingIds :
               \/ \E e \in Entities, i \in CanonicalItems, from \in SUBSET Places : ProposeMappingAction(m, e, i, from)
               \/ ApproveMappingAction(m) \/ ArchiveMappingAction(m)
               \/ \E i \in CanonicalItems, from \in SUBSET Places : reviseMapping(m, i, from, 0, 1)
    BY <2>1, ProposeWrites, ApproveWrites, ArchiveWrites, ReviseWrites
  <2>2. CASE \E c \in Clerks : activationWrites(c)
    BY <2>2, SettleWrites
  <2>3. CASE \/ \E m \in MappingIds, c \in Clerks :
                  \/ \E source \in {"unsaid", "canonical", "channel", "explicit"}, p \in Places :
                        ActivateMappingAction(c, m, source, p, 1)
                  \/ PauseMappingAction(c, m) \/ pauseIncompleteVariationListings(c, m)
             \/ \E c \in Clerks : bumpVersion(c)
             \/ \E e \in Entities : ImportMisses(e) \/ \E ok \in BOOLEAN : ImportRecords(e, 1, ok)
    BY <2>3 DEF ActivateMappingAction, PauseMappingAction, pauseIncompleteVariationListings, bumpVersion,
         ImportMisses, ImportRecords, MappingsRest
  <2> QED BY <1>2, <2>1, <2>2, <2>3 DEF MappingNext
<1> QED BY <1>1, <1>2 DEF CatalogNext

(* Once archived, a mapping is never written again, by however many callers that were      *)
(* activating or pausing it: what they write would be refused by the check on the row      *)
(* (channel_mappings_archival_recorded), whatever they had read.                             *)
THEOREM ArchivingIsFinal == CatalogSpec => ArchivedMappingIsFinal
<1> DEFINE Good == \A m \in MappingIds : mappings[m].status = "archived" => mappings'[m] = mappings[m]
<1>1. CatalogSpec => []MappingInv
  BY MappingInvInit, MappingInvNext, PTL DEF CatalogSpec
<1>2. MappingInv /\ [CatalogNext]_catalogVars => [Good]_catalogVars
  <2> SUFFICES ASSUME MappingInv, [CatalogNext]_catalogVars, NEW m \in MappingIds,
                      mappings[m].status = "archived"
               PROVE  mappings'[m] = mappings[m]
      OBVIOUS
  <2>1. CASE MappingsRest
    BY <2>1 DEF MappingsRest
  <2>2. CASE \E n \in MappingIds : \E row : Written(n, row)
    <3> PICK n \in MappingIds : \E row : Written(n, row)
      BY <2>2
    <3>1. PICK row : Written(n, row)
      OBVIOUS
    <3>2. n # m
      BY <3>1 DEF Written
    <3> QED BY <3>1, <3>2 DEF Written, MappingInv, MappingsHaveColumns
  <2> QED BY <2>1, <2>2, StepsWrite
<1> HIDE DEF Good
<1>3. CatalogSpec => [][Good]_catalogVars
  BY <1>1, <1>2, PTL DEF CatalogSpec
<1> QED BY <1>3 DEF ArchivedMappingIsFinal, Good

===============================================================================
