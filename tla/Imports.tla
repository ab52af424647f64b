-------------------------------- MODULE Imports --------------------------------
(***************************************************************************)
(* Importing a provider's catalogue, orders and refunds page by page       *)
(* (packages/integrations/src/imports and the eBay and WooCommerce         *)
(* streams).  A behaviour looks at one stream.  A run is claimed by its    *)
(* row, fetches and writes pages, marks what a complete sweep did not see  *)
(* and saves its cursor; it may die anywhere, and one taken for dead is    *)
(* given up while it still runs.                                           *)
(***************************************************************************)
EXTENDS Connections, Sequences, FiniteSetsExt

CONSTANTS
    RunIds,      \* identifiers of import_runs, used in order
    Catalogues,  \* what each stream's provider lists, in its order
    PageSize,    \* entries of a page
    maxPages     \* pages of a run

VARIABLES
    stream,    \* the stream this behaviour looks at
    listing,   \* what the provider lists now
    rows,      \* provider_items, provider_locations, provider_policies, provider_orders or provider_refunds
    runs       \* import_runs

importVars == <<stream, listing, rows, runs>>

importRuns == [status : {"running", "completed", "failed"}, started : 1..MaxClock, swept : BOOLEAN]
Static == listing = Catalogues[stream]

\* An entry is there from when it was placed, and what is placed later is listed later:
\* WooCommerce is asked for orderby=modified, order=asc.
PlacedBy(e, now) == "placed" \in DOMAIN e => e.placed <= now
Listed == Cardinality({i \in DOMAIN listing : PlacedBy(listing[i], clock)})

ImportStreams == {"ebay_inventory", "ebay_locations", "ebay_policies", "ebay_orders",
                  "woocommerce_products", "woocommerce_orders", "woocommerce_refunds"}
ASSUME ImportsAssumption ==
    /\ PageSize \in Nat \ {0}
    /\ DOMAIN Catalogues = ImportStreams
    /\ \A s \in ImportStreams : Catalogues[s] \in Seq(Range(Catalogues[s]))
    /\ \A s \in ImportStreams, now \in 1..MaxClock : \A j \in DOMAIN Catalogues[s] : \A i \in 1..j :
          PlacedBy(Catalogues[s][j], now) => PlacedBy(Catalogues[s][i], now)

-------------------------------------------------------------------------------
\* Entries of a provider, as the records they are mapped to: none if one cannot be named.
Named(e, record) == IF e.id = "none" THEN {} ELSE {record}
Item(id, eligible) == [id |-> id, eligible |-> eligible]

mapInventoryItem(e) == Named(e, Item(e.id, TRUE))
mapOffer(offer) == Named(offer, Item(offer.id, offer.published))
mapLocation(e) == Named(e, [id |-> e.id, enabled |-> e.status # "DISABLED"])
mapPolicy(e, family) == Named(e, [id |-> <<family, e.id>>])

\* Stock is managed by the product, or by the variations of one that does not manage it.
productIneligibility(type, managesStock) ==
    CASE type \notin {"simple", "variable"} -> TRUE
      [] type = "variable" -> managesStock
      [] type = "simple"   -> ~managesStock

mapProduct(e) == Named(e, Item(e.id, ~productIneligibility(e.type, e.manages)))
mapVariation(v, parent) ==
    Named(v, Item(v.id, ~productIneligibility(parent.type, parent.manages) /\ v.manages))

\* A line of no quantity is dropped; what was shipped is clamped to what was bought.
mapOrderLine(line) ==
    IF line.id = "none" \/ line.quantity <= 0 THEN {}
    ELSE {[id |-> line.id, quantity |-> line.quantity,
           fulfilled |-> Min({Max({line.shipped, 0}), line.quantity})]}

mapOrder(e) == Named(e, [id |-> e.id, placed |-> e.placed, buyer |-> e.buyer,
                         lines |-> UNION {mapOrderLine(l) : l \in e.lines}])
mapRefund(r, orderId) == Named(r, [id |-> r.id, order |-> orderId])

-------------------------------------------------------------------------------
\* Pages.  A cursor is the offset or the page to come; 0 is none.  A call for the offers of
\* an item, the variations of a product or the refunds of an order that fails is skipped.
readOffset(cursor) == cursor
readPage(cursor) == IF cursor = 0 THEN 1 ELSE cursor
Numbered == {"woocommerce_products", "woocommerce_orders", "woocommerce_refunds"}
Before(cursor) == IF stream \in Numbered THEN (readPage(cursor) - 1) * PageSize ELSE readOffset(cursor)
Page(from) == SubSeq(listing, from + 1, Min({from + PageSize, Listed}))
Entries(page) == {page[i] : i \in DOMAIN page}

OffsetPage(cursor, records(_)) ==
    LET page == Page(readOffset(cursor))
        next == readOffset(cursor) + Len(page)
    IN  [records |-> UNION {records(e) : e \in Entries(page)},
         next |-> IF page = <<>> \/ next >= Listed THEN 0 ELSE next]

NumberedPage(cursor, records(_)) ==
    LET page == Page((readPage(cursor) - 1) * PageSize)
    IN  [records |-> UNION {records(e) : e \in Entries(page)},
         next |-> IF readPage(cursor) * PageSize < Listed THEN readPage(cursor) + 1 ELSE 0]

inventoryStream(cursor, details) ==
    OffsetPage(cursor, LAMBDA e : mapInventoryItem(e) \cup
        (IF details /\ mapInventoryItem(e) # {} THEN UNION {mapOffer(o) : o \in e.offers} ELSE {}))

locationStream(cursor) == OffsetPage(cursor, mapLocation)

\* One page for each family of policies.
policyStream(cursor) ==
    LET family == readOffset(cursor) + 1
    IN  [records |-> IF family > Listed THEN {}
                     ELSE UNION {mapPolicy(e, family) : e \in listing[family].policies},
         next |-> IF family >= Listed THEN 0 ELSE family]

ebayOrderStream(cursor) == OffsetPage(cursor, mapOrder)

productStream(cursor, details) ==
    NumberedPage(cursor, LAMBDA e : mapProduct(e) \cup
        (IF details /\ mapProduct(e) # {} /\ e.type = "variable"
           THEN UNION {mapVariation(v, e) : v \in e.variations} ELSE {}))

wooOrderStream(cursor) == NumberedPage(cursor, mapOrder)

refundStream(cursor, details) ==
    NumberedPage(cursor, LAMBDA e :
        IF details /\ e.id # "none" THEN UNION {mapRefund(r, e.id) : r \in e.refunds} ELSE {})

fetchPage(cursor, details) ==
    CASE stream = "ebay_inventory"       -> inventoryStream(cursor, details)
      [] stream = "ebay_locations"       -> locationStream(cursor)
      [] stream = "ebay_policies"        -> policyStream(cursor)
      [] stream = "ebay_orders"          -> ebayOrderStream(cursor)
      [] stream = "woocommerce_products" -> productStream(cursor, details)
      [] stream = "woocommerce_orders"   -> wooOrderStream(cursor)
      [] stream = "woocommerce_refunds"  -> refundStream(cursor, details)

-------------------------------------------------------------------------------
\* Writing a page.  A row seen again is no longer missing.
Merged(records, Row(_)) ==
    [id \in DOMAIN rows \cup {r.id : r \in records} |->
       IF \E r \in records : r.id = id THEN Row(CHOOSE r \in records : r.id = id) ELSE rows[id]]

writeItems(records, now) ==
    Merged(records, LAMBDA r : [record |-> r, seen |-> now, missing |-> 0])

\* An order is from before the activation unless it is known not to be; what it is decided
\* to be when it is first written stays.
preActivation(placed) ==
    conns[1].activatedAt = 0 \/ placed = 0 \/ placed < conns[1].activatedAt

writeOrders(records, now) ==
    Merged(records, LAMBDA r :
       [record |-> r, seen |-> now,
        pre |-> IF r.id \in DOMAIN rows THEN rows[r.id].pre ELSE preActivation(r.placed)])

\* A refund is tied to its order only if the order was imported before it.
writeRefunds(records, now) ==
    Merged(records, LAMBDA r : [record |-> r, seen |-> now])

sweepItems(since) ==
    [id \in DOMAIN rows |-> IF rows[id].seen < since /\ rows[id].missing = 0
                              THEN [rows[id] EXCEPT !.missing = since] ELSE rows[id]]
Swept == stream \in {"ebay_inventory", "ebay_locations", "ebay_policies", "woocommerce_products"}

-------------------------------------------------------------------------------
\* A run.  One running row for each connection and stream is a unique index.
claim(k, fromStart) ==
    /\ Stage(k, "idle")
    /\ \A r \in RunIds : runs[r] # NoRow => runs[r].status # "running"
    /\ \E r \in RunIds :
          /\ runs[r] = NoRow /\ \A q \in RunIds : q < r => runs[q] # NoRow
          /\ runs' = [runs EXCEPT ![r] = [status |-> "running", started |-> clock, swept |-> FALSE]]
          /\ Becomes(k, [stage |-> "fetch", run |-> r, pages |-> 0, now |-> clock,
                         cursor |-> IF fromStart THEN 0 ELSE cursors["catalog"]])
    /\ UNCHANGED <<stream, listing, rows, conns, secrets, auths, spent, OtherConnVars>>

Ending(k, status, cursor, swept) ==
    [stage |-> "finish", run |-> acting[k].run, status |-> status, cursor |-> cursor, swept |-> swept]

fetch_SkipsFailed(k, details) ==
    /\ Stage(k, "fetch")
    /\ LET page == fetchPage(acting[k].cursor, details)
       IN  \/ /\ acting[k].pages = maxPages
              /\ Becomes(k, Ending(k, "completed", acting[k].cursor, FALSE))
           \/ /\ acting[k].pages < maxPages
              /\ Becomes(k, Ending(k, "failed", page.next, FALSE))
           \/ /\ acting[k].pages < maxPages
              /\ Becomes(k, [stage |-> "write", run |-> acting[k].run, pages |-> acting[k].pages + 1,
                             now |-> acting[k].now, records |-> page.records, cursor |-> page.next])
    /\ UNCHANGED <<importVars, conns, secrets, auths, spent, OtherConnVars>>

\* A page that cannot be had ends the run where the last good page left it.
fetch(k, details) ==
    /\ Stage(k, "fetch")
    /\ LET page == fetchPage(acting[k].cursor, details)
       IN  \/ /\ acting[k].pages = maxPages
              /\ Becomes(k, Ending(k, "completed", acting[k].cursor, FALSE))
           \/ /\ acting[k].pages < maxPages
              /\ Becomes(k, Ending(k, "failed", acting[k].cursor, FALSE))
           \/ /\ acting[k].pages < maxPages
              /\ Becomes(k, [stage |-> "write", run |-> acting[k].run, pages |-> acting[k].pages + 1,
                             now |-> acting[k].now, records |-> page.records, cursor |-> page.next])
    /\ UNCHANGED <<importVars, conns, secrets, auths, spent, OtherConnVars>>

write(k) ==
    /\ Stage(k, "write")
    /\ rows' = CASE stream \in {"ebay_orders", "woocommerce_orders"} -> writeOrders(acting[k].records, acting[k].now)
                 [] stream = "woocommerce_refunds" -> writeRefunds(acting[k].records, acting[k].now)
                 [] OTHER -> writeItems(acting[k].records, acting[k].now)
    /\ Becomes(k, [stage |-> IF acting[k].cursor = 0 THEN "sweep" ELSE "fetch", run |-> acting[k].run,
                   pages |-> acting[k].pages, now |-> acting[k].now, cursor |-> acting[k].cursor])
    /\ UNCHANGED <<stream, listing, runs, conns, secrets, auths, spent, OtherConnVars>>

\* What was last seen before this run began is missing, also where an earlier run, whose
\* cursor this one took up, saw it.
sweep(k) ==
    /\ Stage(k, "sweep")
    /\ rows' = IF Swept THEN sweepItems(acting[k].now) ELSE rows
    /\ Becomes(k, Ending(k, "completed", 0, TRUE))
    /\ UNCHANGED <<stream, listing, runs, conns, secrets, auths, spent, OtherConnVars>>

finish(k) ==
    /\ Stage(k, "finish")
    /\ runs' = [runs EXCEPT ![acting[k].run].status = acting[k].status, ![acting[k].run].swept = acting[k].swept]
    /\ Becomes(k, [acting[k] EXCEPT !.stage = "save"])
    /\ UNCHANGED <<stream, listing, rows, conns, secrets, auths, spent, OtherConnVars>>

saveCursor(k) ==
    /\ Stage(k, "save")
    /\ cursors' = [cursors EXCEPT !["catalog"] = acting[k].cursor]
    /\ Becomes(k, Idle)
    /\ UNCHANGED <<importVars, conns, secrets, auths, spent, scene, hooks, remote, clock, crashes, begun>>

\* A run that began long ago is given up, dead or not.
reclaimAbandonedRuns(r) ==
    /\ runs[r] # NoRow /\ runs[r].status = "running" /\ runs[r].started < clock
    /\ runs' = [runs EXCEPT ![r].status = "failed"]
    /\ UNCHANGED <<stream, listing, rows, connVars>>

\* The provider removes an entry while runs go on.
EntryRemoved ==
    /\ Static
    /\ \E i \in DOMAIN listing : listing' = SubSeq(listing, 1, i - 1) \o SubSeq(listing, i + 1, Len(listing))
    /\ UNCHANGED <<stream, rows, runs, connVars>>

Tick ==
    /\ clock < MaxClock
    /\ clock' = clock + 1
    /\ UNCHANGED <<importVars, scene, conns, secrets, auths, acting, hooks, remote, cursors, crashes, begun, spent>>

-------------------------------------------------------------------------------
ImportInit ==
    /\ stream \in IF scene = "import" THEN DOMAIN Catalogues \ {"woocommerce_orders"}
                  ELSE {"woocommerce_orders"}
    /\ listing = Catalogues[stream]
    /\ rows = [id \in {} |-> NoRow]
    /\ runs = [r \in RunIds |-> NoRow]

\* Orders are imported while their store is being connected.
ImportNext ==
    \/ /\ scene \in {"import", "import_orders"}
       /\ \/ \E k \in Callers, fromStart \in BOOLEAN : claim(k, fromStart)
          \/ \E k \in Callers, details \in BOOLEAN : fetch(k, details)
          \/ \E k \in Callers : write(k) \/ sweep(k) \/ finish(k) \/ saveCursor(k)
          \/ \E r \in RunIds : reclaimAbandonedRuns(r)
          \/ EntryRemoved \/ Tick
          \/ \E k \in Callers : Crash(k) /\ UNCHANGED importVars
    \/ /\ scene = "import_orders"
       /\ \E k \in Callers : \/ \E who \in Managers, a \in Accounts : connectStoreManuallyAction(k, who, a)
                             \/ adopt(k)
       /\ UNCHANGED importVars

-------------------------------------------------------------------------------
\* Everything before a saved cursor has been written, so a run that resumes there skips
\* nothing: whatever failed, died or was given up, as long as the provider's listing
\* stands still (run saves the cursor of the last page it wrote).
CursorCoversWrittenGround ==
    scene \in {"import", "import_orders"} /\ Static /\ stream \notin {"ebay_policies", "woocommerce_refunds"} =>
       \A i \in 1..Before(cursors["catalog"]) : listing[i].id # "none" => listing[i].id \in DOMAIN rows

================================================================================
