------------------------------- MODULE Listings -------------------------------
(***************************************************************************)
(* The reviewed operations on listings (packages/listings): create a draft *)
(* on the other channel, publish it, copy a price, return a hidden listing *)
(* to sale, copy an order; with the channel they are carried out on, as    *)
(* the adapter of packages/providers/src/fakes answers.  The channel may   *)
(* fail before or after it has acted, and other people change it.          *)
(***************************************************************************)
EXTENDS ReviewGate

CONSTANTS
    DraftSources,   \* what a draft may be made from, see assessDraftEligibility
    DraftSubjects,  \* sets of fields the source carries
    Prices,         \* prices met: [amount |-> [value, scale], currency |-> ...]
    Supplied,       \* amounts somebody types at the price copy, NoAmount when none
    MaxOutOfBand    \* bound on changes other people make on the channel

VARIABLES
    channel,    \* the channel's drafts, prices, listing and copied orders
    mirrored,   \* mirrored_orders
    outOfBand

listingVars == <<gateVars, channel, mirrored, outOfBand>>

-------------------------------------------------------------------------------
\* Amounts are decimals: a whole number and how many of its digits follow the point.
Power10 == [n \in 0..4 |-> CASE n = 0 -> 1 [] n = 1 -> 10 [] n = 2 -> 100 [] n = 3 -> 1000 [] OTHER -> 10000]
Lift(amount, scale) == amount.value * Power10[scale - amount.scale]
CommonScale(a, b) == IF a.scale > b.scale THEN a.scale ELSE b.scale

compareAmounts(a, b) == Lift(a, CommonScale(a, b)) - Lift(b, CommonScale(a, b))
isSameAmount(a, b) == compareAmounts(a, b) = 0

NoAmount == [value |-> -1, scale |-> 0]

\* A source in the same currency is copied as it is; in another one somebody types the
\* amount.  NoAmount where that refuses.
resolveNewAmount(source, destination, supplied) ==
    IF source.currency = destination.currency
      THEN IF supplied = NoAmount \/ isSameAmount(supplied, source.amount)
             THEN source.amount ELSE NoAmount
      ELSE supplied

-------------------------------------------------------------------------------
\* What may become a draft at all.
assessWooCommerce(source) ==
    CASE source.productType = "simple" -> "eligible"
      [] source.productType = "variable" ->
            IF source.stockManagedAtParent THEN "ineligible" ELSE "excluded"
      [] source.productType = "variation" -> "excluded"
      [] source.productType \in {"grouped", "external", "bundle", "preorder"} -> "ineligible"

assessEbay(source) ==
    IF source.state = "ended" THEN "ineligible"
    ELSE IF source.format = "auction" \/ source.variationCount > 1 THEN "excluded"
    ELSE "eligible"

assessDraftEligibility(source) ==
    CASE source.platform = "woocommerce" -> assessWooCommerce(source)
      [] source.platform = "ebay"        -> assessEbay(source)
      [] source.platform = "kit"         -> "eligible"

Measures == {"quantity", "weightGrams", "lengthMm", "widthMm", "heightMm"}

\* A projection: the fields that carry over, what the destination still needs from the
\* source or from a person, and what it has no place for.
projectToEbay(has) ==
    [fields |-> {"title"} \cup (has \cap ({"description", "sku", "price", "images", "condition"}
                                          \cup Measures)),
     missing |-> {"description", "sku", "price", "images", "condition"} \ has,
     requiresSelection |-> {"category", "itemAspects", "marketplace", "listingDuration",
                            "inventoryLocation", "paymentPolicy", "returnPolicy",
                            "fulfillmentPolicy"},
     unsupported |-> has \cap {"unmodelled"}]

projectToWoo(has) ==
    [fields |-> {"name", "type", "draftStatus", "manageStock"}
                \cup (has \cap ({"description", "sku", "price", "images"} \cup Measures)),
     missing |-> {"sku", "price"} \ has,
     requiresSelection |-> {"categories", "taxStatus", "catalogVisibility"},
     unsupported |-> has \cap {"unmodelled", "condition"}]

applySelections(projection, selected) ==
    [projection EXCEPT !.fields = @ \cup (projection.requiresSelection \cap selected),
                       !.requiresSelection = @ \ selected]

draftIsComplete(projection) == projection.missing = {} /\ projection.requiresSelection = {}

\* Whether a hidden listing may be returned to sale.
assessRestockEligibility(listing, available, mappingStatus) ==
    IF listing.state = "ended" THEN "listing_ended"
    ELSE IF listing.state = "active" THEN "already_live"
    ELSE IF ~listing.outOfStockControl THEN "out_of_stock_control_disabled"
    ELSE IF mappingStatus # "active" THEN "mapping_not_active"
    ELSE IF available <= 0 THEN "no_stock"
    ELSE "eligible"

\* Versions are sequences of three numbers; only a verified technique that covers the
\* store's version supports copying an order to it.  None shipped is verified yet: the
\* caller passes the techniques.
compareVersions(a, b) ==
    LET differ == {i \in 1..3 : a[i] # b[i]}
    IN  IF differ = {} THEN 0
        ELSE LET i == CHOOSE i \in differ : \A j \in differ : i <= j
             IN  IF a[i] < b[i] THEN -1 ELSE 1

covers(technique, version) ==
    /\ compareVersions(version, technique.minimum) >= 0
    /\ technique.maximum # <<>> => compareVersions(version, technique.maximum) <= 0

assessOrderCopySupport(version, techniques) ==
    /\ version # <<>>
    /\ \E t \in techniques : covers(t, version) /\ t.verified

-------------------------------------------------------------------------------
\* Subjects and keys.  A key with a time in it is as good as one per proposal; the keys of
\* a publication and of an order copy have none.
keyFor(kind, subject, o) ==
    IF kind \in {"draft_publish", "order_copy"} THEN <<kind, subject>> ELSE <<kind, subject, o>>

Entities == {"listing", "variation"}
Destination == "destination"

proposeDraft(o, source, has, platform, selected) ==
    /\ assessDraftEligibility(source) = "eligible"
    /\ LET projected == IF platform = "ebay" THEN projectToEbay(has) ELSE projectToWoo(has)
           projection == applySelections(projected, selected)
       IN  proposeOperation(o, "draft_create", "item", keyFor("draft_create", "item", o),
              "create_drafts", Destination,
              [destination |-> platform, fields |-> projection.fields,
               missing |-> projection.missing, unsupported |-> projection.unsupported], 0)
    /\ UNCHANGED <<run, effects, crashes, features, channel, mirrored, outOfBand>>

\* The draft is the one an executed creation recorded; its fees are read for the proposal.
proposePublication(o, d, fee) ==
    /\ ops[d] # NoOp /\ ops[d].kind = "draft_create" /\ ops[d].state = "executed"
    /\ ops[d].key \in channel.drafts
    /\ LET draft == ops[d].key
           woo == ops[d].value.destination = "woocommerce"
       IN  proposeOperation(o, "draft_publish", draft, keyFor("draft_publish", draft, o),
              IF woo THEN "publish_products" ELSE "publish_listings", ops[d].target,
              [draft |-> draft, fee |-> fee], 0)
    /\ UNCHANGED <<run, effects, crashes, features, channel, mirrored, outOfBand>>

\* The destination's price is read for the proposal, the source's was read before.
proposePriceCopy(o, e, source, supplied) ==
    LET destination == channel.prices[e]
        amount == resolveNewAmount(source, destination, supplied)
    IN  /\ destination.amount # NoAmount
        /\ amount # NoAmount
        /\ ~(/\ source.currency = destination.currency
             /\ isSameAmount(amount, destination.amount))
        /\ proposeOperation(o, "price_copy", e, keyFor("price_copy", e, o), "change_prices",
              Destination, [entity |-> e, from |-> destination.amount, to |-> amount,
                            currency |-> destination.currency], 0)
        /\ UNCHANGED <<run, effects, crashes, features, channel, mirrored, outOfBand>>

proposeRestockToLive(o, available, mappingStatus) ==
    /\ assessRestockEligibility(channel.listing, available, mappingStatus) = "eligible"
    /\ proposeOperation(o, "restock_to_live", "mapping", keyFor("restock_to_live", "mapping", o),
          "publish_listings", Destination,
          [quantity |-> available, version |-> channel.listing.version,
           state |-> channel.listing.state], 0)
    /\ UNCHANGED <<run, effects, crashes, features, channel, mirrored, outOfBand>>

proposeOrderCopy(o, version, techniques, fulfilled, sourceAge) ==
    /\ assessOrderCopySupport(version, techniques)
    /\ mirrored = {}
    /\ proposeOperation(o, "order_copy", "order", keyFor("order_copy", "order", o),
          "copy_ebay_order_to_woocommerce", Destination,
          [status |-> IF fulfilled THEN "completed" ELSE "processing"], sourceAge)
    /\ UNCHANGED <<run, effects, crashes, features, channel, mirrored, outOfBand>>

-------------------------------------------------------------------------------
\* What the channel does with each call: its state afterwards, whether it acted, and
\* whether it answers with success.
Answer(after, acted, ok) == [channel |-> after, acted |-> acted, ok |-> ok]

createDraft(op) ==
    Answer([channel EXCEPT !.drafts = @ \cup {op.key}], op.key \notin channel.drafts, TRUE)

publishDraft(op) ==
    IF op.value.draft \notin channel.drafts THEN Answer(channel, FALSE, FALSE)
    ELSE Answer([channel EXCEPT !.published = @ \cup {op.value.draft}],
                op.value.draft \notin channel.published, TRUE)

writePrice_EveryTime(op) ==
    LET price == [amount |-> op.value.to, currency |-> op.value.currency]
    IN  IF channel.prices["listing"].amount = NoAmount THEN Answer(channel, FALSE, FALSE)
        ELSE Answer([channel EXCEPT !.prices["listing"] = price], TRUE, TRUE)

\* executePriceCopy names the listing only, whichever variation was confirmed.
writePrice(op) ==
    LET replay == op.key \in channel.priceWrites
        price == [amount |-> op.value.to, currency |-> op.value.currency]
    IN  IF channel.prices["listing"].amount = NoAmount THEN Answer(channel, FALSE, FALSE)
        ELSE IF replay THEN Answer(channel, FALSE, TRUE)
        ELSE Answer([channel EXCEPT !.prices["listing"] = price, !.priceWrites = @ \cup {op.key}],
                    TRUE, TRUE)

restockToLive(op) ==
    IF channel.listing.state = "ended" \/ op.value.version # channel.listing.version
      THEN Answer(channel, FALSE, FALSE)
      ELSE Answer([channel EXCEPT !.listing.state = "active", !.listing.version = @ + 1],
                  TRUE, TRUE)

createMirroredOrder(op) ==
    Answer([channel EXCEPT !.copies = @ \cup {op.key}], op.key \notin channel.copies, TRUE)

ListingKinds == Kinds \ {"label_purchase"}

Carry(op) ==
    CASE op.kind = "draft_create"    -> createDraft(op)
      [] op.kind = "draft_publish"   -> publishDraft(op)
      [] op.kind = "price_copy"      -> writePrice(op)
      [] op.kind = "restock_to_live" -> restockToLive(op)
      [] op.kind = "order_copy"      -> createMirroredOrder(op)

\* The five executors begin alike; an order copy records the mirror before it calls.
BeginListing(w, o) ==
    /\ ops[o] # NoOp /\ ops[o].kind \in ListingKinds
    /\ beginExecution(w, o, IF ops[o].kind = "order_copy" THEN "reserve" ELSE "call")
    /\ UNCHANGED <<effects, crashes, features, channel, mirrored, outOfBand>>

\* One row per source order and store: a second insert raises, and leaves the operation
\* executing.
ReserveMirror(w) ==
    /\ Running(w, "reserve")
    /\ IF mirrored = {}
         THEN /\ mirrored' = {[op |-> run[w].op, copy |-> "unknown"]}
              /\ run' = [run EXCEPT ![w].stage = "call"]
         ELSE run' = [run EXCEPT ![w] = Idle] /\ UNCHANGED mirrored
    /\ UNCHANGED <<ops, effects, crashes, features, channel, outOfBand>>

\* The channel answers, or fails before it has acted, or acts and its answer is lost.
Call(w, lost) ==
    /\ Running(w, "call") /\ ops[run[w].op].kind \in ListingKinds
    /\ LET o == run[w].op
           done == Carry(ops[o])
       IN  /\ channel' = done.channel
           /\ effects' = [effects EXCEPT ![o] = @ + (IF done.acted THEN 1 ELSE 0)]
           /\ run' = [run EXCEPT ![w].stage = IF ops[o].kind = "order_copy" THEN "record" ELSE "settle",
                                 ![w].answer = IF done.ok /\ ~lost THEN "success" ELSE "failure"]
    /\ UNCHANGED <<ops, crashes, features, mirrored, outOfBand>>

CallFails(w) ==
    /\ Running(w, "call") /\ ops[run[w].op].kind \in ListingKinds
    /\ run' = [run EXCEPT ![w].stage = "settle", ![w].answer = "failure"]
    /\ UNCHANGED <<ops, effects, crashes, features, channel, mirrored, outOfBand>>

\* The store says whether it suppressed its own stock reduction; a copy made without is
\* a failure that has happened.
RecordMirror(w, suppressed) ==
    /\ Running(w, "record")
    /\ IF run[w].answer = "success" /\ suppressed
         THEN /\ mirrored' = {[m EXCEPT !.copy = "known"] : m \in mirrored}
              /\ run' = [run EXCEPT ![w].stage = "settle"]
         ELSE /\ run' = [run EXCEPT ![w].stage = "settle", ![w].answer = "failure"]
              /\ UNCHANGED mirrored
    /\ UNCHANGED <<ops, effects, crashes, features, channel, outOfBand>>

SettleListing_Trusting(w) ==
    /\ Running(w, "settle") /\ ops[run[w].op].kind \in ListingKinds
    /\ completeExecution(run[w].op)
    /\ run' = [run EXCEPT ![w] = Idle]
    /\ UNCHANGED <<effects, crashes, features, channel, mirrored, outOfBand>>

\* executeDraftCreation, executePublication, executePriceCopy, executeRestockToLive and
\* executeOrderCopy settle alike.
SettleListing(w) ==
    /\ Running(w, "settle") /\ ops[run[w].op].kind \in ListingKinds
    /\ IF run[w].answer = "success" THEN completeExecution(run[w].op) ELSE failExecution(run[w].op)
    /\ run' = [run EXCEPT ![w] = Idle]
    /\ UNCHANGED <<effects, crashes, features, channel, mirrored, outOfBand>>

-------------------------------------------------------------------------------
\* Somebody edits a price or the listing on the channel itself.
setPriceOutOfBand(e, price) ==
    /\ channel.prices[e] # price
    /\ channel' = [channel EXCEPT !.prices[e] = price]

changeListingOutOfBand(state) ==
    /\ channel.listing.state # "ended" /\ channel.listing.state # state
    /\ channel' = [channel EXCEPT !.listing.state = state, !.listing.version = @ + 1]

OutOfBand ==
    /\ outOfBand < MaxOutOfBand
    /\ outOfBand' = outOfBand + 1
    /\ \/ "price_copy" \in features /\ \E e \in Entities, p \in Prices : setPriceOutOfBand(e, p)
       \/ "restock_to_live" \in features
            /\ \E s \in {"active", "out_of_stock", "ended"} : changeListingOutOfBand(s)
    /\ UNCHANGED <<gateVars, mirrored>>

\* The price of the listing itself is there or not when its variations have their own.
FirstPrice == CHOOSE p \in Prices : TRUE
NoPrice == [amount |-> NoAmount, currency |-> FirstPrice.currency]

ListingsInit ==
    /\ GateInit
    /\ channel \in [drafts : {{}}, published : {{}}, priceWrites : {{}}, copies : {{}},
                    prices : {[e \in Entities |-> IF e = "listing" /\ ~own THEN NoPrice ELSE FirstPrice] :
                              own \in IF "price_copy" \in features THEN BOOLEAN ELSE {TRUE}},
                    listing : [state : {"out_of_stock"}, outOfStockControl : IF "restock_to_live" \in features THEN BOOLEAN ELSE {TRUE}, version : {1}]]
    /\ mirrored = {}
    /\ outOfBand = 0

ProposeListing(o) ==
    \/ \E s \in DraftSources, has \in DraftSubjects, p \in {"ebay", "woocommerce"} :
          proposeDraft(o, s, has, p, {"category", "categories"})
    \/ \E d \in OpIds : proposePublication(o, d, 1)
    \/ \E e \in Entities, p \in Prices, q \in Supplied :
          proposePriceCopy(o, e, p, q)
    \/ \E n \in 0..1, s \in {"active", "paused"} : proposeRestockToLive(o, n, s)
    \/ \E v \in {<<>>, <<9, 1, 0>>, <<7, 9, 0>>}, ok \in BOOLEAN, f \in BOOLEAN, t \in {0, 4} :
          proposeOrderCopy(o, v, {[minimum |-> <<8, 0, 0>>, maximum |-> <<>>, verified |-> ok]}, f, t)

ListingsNext ==
    \/ GateNext /\ UNCHANGED <<channel, mirrored, outOfBand>>
    \/ \E o \in OpIds : ProposeListing(o)
    \/ \E w \in Executors, o \in OpIds : BeginListing(w, o)
    \/ \E w \in Executors : ReserveMirror(w) \/ CallFails(w) \/ SettleListing(w)
    \/ \E w \in Executors, lost \in BOOLEAN : Call(w, lost)
    \/ \E w \in Executors, suppressed \in BOOLEAN : RecordMirror(w, suppressed)
    \/ OutOfBand

===============================================================================
