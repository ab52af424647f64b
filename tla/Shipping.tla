------------------------------- MODULE Shipping -------------------------------
(***************************************************************************)
(* Packing an order, buying, voiding and tracking labels, and telling the  *)
(* channel (packages/shipping), with the carrier of                        *)
(* packages/providers/src/fakes.  Buying is a reviewed operation and goes  *)
(* through ReviewGate; voiding a label and telling the channel are done by *)
(* clerks, each between statements of its own.  One order line is packed.  *)
(***************************************************************************)
EXTENDS ReviewGate, FiniteSetsExt

CONSTANTS
    Parcels,       \* identifiers of packages, used in order
    Clerks,        \* members at the shipping page
    Ordered,       \* units of the order line
    ProviderLives, \* how long a carrier honours a quote, in units of five minutes
    MaxRefunds,    \* bound on units cancelled or refunded after the sale
    PushKinds      \* of ebay_fulfillment, woocommerce_order_note, woocommerce_status

ASSUME ShippingAssumption == IsFiniteSet(Parcels) /\ Ordered \in Nat

VARIABLES
    parcels,    \* shipment_packages with their lines
    refunded,   \* units of the line cancelled or refunded
    labels,     \* shipment_labels, by the operation that bought them
    carrier,    \* labels the carrier sold, and those it took back
    clerk,      \* what each clerk is doing
    pushes,     \* shipment_channel_pushes
    order,      \* what the channel has been told, and the kind of push this behaviour looks at
    account     \* shipping_accounts and whether its key is stored

shippingVars == <<gateVars, parcels, refunded, labels, carrier, clerk, pushes, order, account>>
parcelVars == <<parcels, refunded, labels, carrier, clerk, pushes, order, account>>

ParcelRows == [status : {"none", "draft", "labelled", "shipped", "cancelled"}, quantity : 0..Ordered]
LabelRows == [state : {"none", "purchased", "void_requested", "voided", "void_refused"},
              parcel : Parcels, amount : Nat, events : SUBSET {"pre_transit"}]
LiveLabel == {"purchased", "void_requested", "void_refused"}
NoLabel == [state |-> "none"]

\* A behaviour looks at several packages or at several purchases.
InScope(p, o) ==
    /\ "several_packages" \in features \/ p = Min(Parcels)
    /\ "several_purchases" \in features \/ o = Min(OpIds)

-------------------------------------------------------------------------------
\* Packages.
packedQuantities(P) == MapThenSumSet(LAMBDA p : P[p].quantity,
    {p \in Parcels : P[p].status \notin {"none", "cancelled"}})

availabilityFor == Max({0, (Ordered - refunded) - packedQuantities(parcels)})

\* In one transaction that holds the order's line; the location is active.
createPackage(p, quantity) ==
    /\ "label_purchase" \in features /\ InScope(p, Min(OpIds))
    /\ parcels[p].status = "none" /\ \A q \in Parcels : q < p => parcels[q].status # "none"
    /\ quantity <= availabilityFor
    /\ parcels' = [parcels EXCEPT ![p] = [status |-> "draft", quantity |-> quantity]]
    /\ UNCHANGED <<gateVars, refunded, labels, carrier, clerk, pushes, order, account>>

cancelPackage(p) ==
    /\ parcels[p].status = "draft"
    /\ parcels' = [parcels EXCEPT ![p].status = "cancelled"]
    /\ UNCHANGED <<gateVars, refunded, labels, carrier, clerk, pushes, order, account>>

\* Any member; markShipped asks for the permission.
cancelPackageAction == \E p \in Parcels : cancelPackage(p)

\* The sync package cancels or refunds units of the line meanwhile.
Refund ==
    /\ "refunds" \in features
    /\ refunded < MaxRefunds
    /\ refunded' = refunded + 1
    /\ UNCHANGED <<gateVars, parcels, labels, carrier, clerk, pushes, order, account>>

-------------------------------------------------------------------------------
\* Quotes.  A quote is as old as its age and offers rates at the amounts given; it is
\* honoured until the carrier or the review window of a purchase withdraws it.
usableUntil(life) == Min({life, reviewWindowFor("label_purchase").sourceMaxAge})
earliestProviderExpiry(lives) == Min(lives)

\* shipFromAddress and the carrier's answer may refuse a quote; then none is recorded.
quoteRatesFor(p) == parcels[p].status = "draft"

loadOpenPackage(p) == parcels[p].status = "draft"

proposeLabelPurchase(o, p, age, life, amount) ==
    /\ InScope(p, o)
    /\ quoteRatesFor(p)
    /\ loadOpenPackage(p)
    /\ age < usableUntil(life)
    /\ proposeOperation(o, "label_purchase", p, <<"label_purchase", p, o>>, "purchase_labels",
          "none", [parcel |-> p, amount |-> amount], age)
    /\ UNCHANGED <<run, effects, crashes, features, parcelVars>>

-------------------------------------------------------------------------------
\* Buying.  The carrier sells one label per key and may charge what it was not asked.
BeginPurchase(w, o) ==
    /\ ops[o] # NoOp /\ ops[o].kind = "label_purchase"
    /\ beginExecution(w, o, "call")
    /\ UNCHANGED <<effects, crashes, features, parcelVars>>

buyLabel_AnyPrice(w, charged, lost) ==
    /\ Running(w, "call") /\ ops[run[w].op].kind = "label_purchase"
    /\ LET o == run[w].op
           bought == o \in DOMAIN carrier.sold
           price == IF bought THEN carrier.sold[o] ELSE charged
       IN  /\ bought => charged = ops[o].value.amount
           /\ carrier' = [carrier EXCEPT !.sold = [k \in DOMAIN carrier.sold \cup {o} |->
                                                     IF k = o THEN price ELSE carrier.sold[k]]]
           /\ effects' = [effects EXCEPT ![o] = @ + (IF bought THEN 0 ELSE 1)]
           /\ run' = [run EXCEPT ![w].stage = "store",
                                 ![w].answer = IF ~lost THEN "success" ELSE "failure"]
    /\ UNCHANGED <<ops, crashes, features, parcels, refunded, labels, clerk, pushes, order, account>>

buyLabel(w, charged, lost) ==
    /\ Running(w, "call") /\ ops[run[w].op].kind = "label_purchase"
    /\ LET o == run[w].op
           bought == o \in DOMAIN carrier.sold
           price == IF bought THEN carrier.sold[o] ELSE charged
       IN  /\ bought => charged = ops[o].value.amount
           /\ carrier' = [carrier EXCEPT !.sold = [k \in DOMAIN carrier.sold \cup {o} |->
                                                     IF k = o THEN price ELSE carrier.sold[k]]]
           /\ effects' = [effects EXCEPT ![o] = @ + (IF bought THEN 0 ELSE 1)]
           /\ run' = [run EXCEPT ![w].stage = "store",
                                 ![w].answer = IF ~lost /\ price = ops[o].value.amount
                                                 THEN "success" ELSE "failure"]
    /\ UNCHANGED <<ops, crashes, features, parcels, refunded, labels, clerk, pushes, order, account>>

BuyFails(w) ==
    /\ Running(w, "call") /\ ops[run[w].op].kind = "label_purchase"
    /\ run' = [run EXCEPT ![w].stage = "store", ![w].answer = "failure"]
    /\ UNCHANGED <<ops, effects, crashes, features, parcelVars>>

\* One live label per package is a unique index: a statement that would leave two raises.
onlyLiveLabel(o, p) ==
    \A k \in OpIds : k # o /\ labels[k] # NoLabel /\ labels[k].state \in LiveLabel
                      => labels[k].parcel # p

\* One row per label the carrier sold is another; where the insert meets either, the
\* operation stays executing.  The package becomes labelled whatever it was.
StoreLabel(w) ==
    /\ Running(w, "store")
    /\ LET o == run[w].op
           p == ops[o].value.parcel
           fits == labels[o] = NoLabel /\ onlyLiveLabel(o, p)
       IN  CASE run[w].answer # "success" ->
                  /\ failExecution(o)
                  /\ run' = [run EXCEPT ![w] = Idle]
                  /\ UNCHANGED <<labels, parcels>>
             [] run[w].answer = "success" /\ fits ->
                  /\ labels' = [labels EXCEPT ![o] = [state |-> "purchased", parcel |-> p,
                                                      amount |-> carrier.sold[o], events |-> {}]]
                  /\ parcels' = [parcels EXCEPT ![p].status = "labelled"]
                  /\ run' = [run EXCEPT ![w].stage = "complete"]
                  /\ UNCHANGED ops
             [] OTHER ->
                  /\ run' = [run EXCEPT ![w] = Idle]
                  /\ UNCHANGED <<ops, labels, parcels>>
    /\ UNCHANGED <<effects, crashes, features, refunded, carrier, clerk, pushes, order, account>>

CompletePurchase(w) ==
    /\ Running(w, "complete")
    /\ completeExecution(run[w].op)
    /\ run' = [run EXCEPT ![w] = Idle]
    /\ UNCHANGED <<effects, crashes, features, parcelVars>>

-------------------------------------------------------------------------------
\* Labels.  The label is read, marked as asked back, asked back and settled.
voidLabel(c, o) ==
    /\ clerk[c] = Idle
    /\ labels[o].state = "purchased"
    /\ clerk' = [clerk EXCEPT ![c] = [stage |-> "void", label |-> o]]
    /\ UNCHANGED <<gateVars, parcels, refunded, labels, carrier, pushes, order, account>>

\* Written whatever the label has become since; a statement that raises ends the call.
RequestVoid(c) ==
    /\ clerk[c] # Idle /\ clerk[c].stage = "void"
    /\ LET o == clerk[c].label
       IN  IF onlyLiveLabel(o, labels[o].parcel)
             THEN /\ labels' = [labels EXCEPT ![o].state = "void_requested"]
                  /\ clerk' = [clerk EXCEPT ![c].stage = "voiding"]
             ELSE labels' = labels /\ clerk' = [clerk EXCEPT ![c] = Idle]
    /\ UNCHANGED <<gateVars, parcels, refunded, carrier, pushes, order, account>>

StateAfter == [refunded |-> "voided", refused |-> "void_refused",
               pending |-> "void_requested", failure |-> "purchased"]

\* The carrier refunds, refuses, thinks about it, or cannot be asked.  A refunded label
\* frees its package if it has not shipped.
SettleVoid(c, outcome) ==
    /\ clerk[c] # Idle /\ clerk[c].stage = "voiding"
    /\ LET o == clerk[c].label
           p == labels[o].parcel
           raises == outcome # "refunded" /\ ~onlyLiveLabel(o, p)
       IN  /\ labels' = IF raises THEN labels ELSE [labels EXCEPT ![o].state = StateAfter[outcome]]
           /\ parcels' = [parcels EXCEPT ![p].status =
                            IF outcome = "refunded" /\ @ = "labelled" THEN "draft" ELSE @]
           /\ carrier' = [carrier EXCEPT !.voided = IF outcome = "refunded" THEN @ \cup {o} ELSE @]
    /\ clerk' = [clerk EXCEPT ![c] = Idle]
    /\ UNCHANGED <<gateVars, refunded, pushes, order, account>>

\* The carrier's report is recorded once per event.
recordTracking(o) ==
    /\ "tracking" \in features
    /\ labels[o] # NoLabel /\ labels[o].events = {}
    /\ labels' = [labels EXCEPT ![o].events = {"pre_transit"}]
    /\ UNCHANGED <<gateVars, parcels, refunded, carrier, clerk, pushes, order, account>>

markShipped(p, who) ==
    /\ authorize(who.subject, "mark_shipped", AnyTarget)
    /\ parcels[p].status = "labelled"
    /\ parcels' = [parcels EXCEPT ![p].status = "shipped"]
    /\ UNCHANGED <<gateVars, refunded, labels, carrier, clerk, pushes, order, account>>

markShippedAction == \E p \in Parcels, who \in Confirmers : markShipped(p, who)

-------------------------------------------------------------------------------
\* Telling the channel.
unitsIn(P) == SumFunction([p \in Parcels |-> IF p \in P THEN parcels[p].quantity ELSE 0])

everythingShipped ==
    Ordered - refunded <= unitsIn({p \in Parcels : parcels[p].status = "shipped"})

loadPushContext(p) ==
    \E o \in OpIds : labels[o] # NoLabel /\ labels[o].parcel = p /\ labels[o].state \in LiveLabel

pushTrackingToChannel_Partly(c, p, kind, who) ==
    /\ clerk[c] = Idle
    /\ loadPushContext(p)
    /\ parcels[p].status = "shipped"
    /\ pushes[<<p, kind>>] # "succeeded"
    /\ pushes' = [pushes EXCEPT ![<<p, kind>>] = IF @ = "none" THEN "pending" ELSE @]
    /\ clerk' = [clerk EXCEPT ![c] = [stage |-> "tell", parcel |-> p, kind |-> kind]]
    /\ UNCHANGED <<gateVars, parcels, refunded, labels, carrier, order, account>>

\* The push is claimed before the channel is told; one that succeeded is left alone.
pushTrackingToChannel(c, p, kind, who) ==
    /\ clerk[c] = Idle /\ "several_packages" \in features
    /\ authorize(who.subject, IF kind = "woocommerce_status" THEN "mark_shipped"
                              ELSE "manage_tracking", AnyTarget)
    /\ loadPushContext(p)
    /\ kind = order.push
    /\ parcels[p].status = "shipped"
    /\ kind = "woocommerce_status" => everythingShipped
    /\ pushes[<<p, kind>>] # "succeeded"
    /\ pushes' = [pushes EXCEPT ![<<p, kind>>] = IF @ = "none" THEN "pending" ELSE @]
    /\ clerk' = [clerk EXCEPT ![c] = [stage |-> "tell", parcel |-> p, kind |-> kind]]
    /\ UNCHANGED <<gateVars, parcels, refunded, labels, carrier, order, account>>

\* A fulfilment is looked for before it is made and made once per key; a note is added
\* every time; a status is set.  The answer may be lost after the channel has acted, and
\* some channels cannot be told.
carryOut(c, acts, answer) ==
    /\ clerk[c] # Idle /\ clerk[c].stage = "tell"
    /\ answer = "success" => acts
    /\ answer = "unsupported" => ~acts
    /\ LET told(kind) == acts /\ clerk[c].kind = kind
           p == clerk[c].parcel
       IN  order' = [order EXCEPT
             !.fulfilled = IF told("ebay_fulfillment") THEN @ \cup {p} ELSE @,
             !.noted     = IF told("woocommerce_order_note") THEN @ \cup {p} ELSE @,
             !.completed = @ \/ told("woocommerce_status")]
    /\ clerk' = [clerk EXCEPT ![c] = [stage |-> "told", parcel |-> @.parcel, kind |-> @.kind,
                                      answer |-> answer]]
    /\ UNCHANGED <<gateVars, parcels, refunded, labels, carrier, pushes, account>>

RecordPush(c) ==
    /\ clerk[c] # Idle /\ clerk[c].stage = "told"
    /\ pushes' = [pushes EXCEPT ![<<clerk[c].parcel, clerk[c].kind>>] =
                    CASE clerk[c].answer = "success" -> "succeeded"
                      [] clerk[c].answer = "failure" -> "failed"
                      [] clerk[c].answer = "unsupported" -> "unsupported"]
    /\ clerk' = [clerk EXCEPT ![c] = Idle]
    /\ UNCHANGED <<gateVars, parcels, refunded, labels, carrier, order, account>>

-------------------------------------------------------------------------------
\* The account with the carrier: one row per provider, whatever has become of it.
connectAccount(accepted) ==
    /\ account.status = "none"
    /\ account' = [status |-> IF accepted THEN "active" ELSE "pending", key |-> TRUE, healthy |-> accepted]

testAccount(accepted) ==
    /\ account.status # "none"
    /\ account' = [account EXCEPT !.healthy = accepted /\ account.key]

\* The key is retired first.
RetireKey ==
    /\ account.status # "none" /\ account.key
    /\ account' = [account EXCEPT !.key = FALSE]

disconnectAccount ==
    /\ account.status # "none" /\ ~account.key
    /\ account' = [account EXCEPT !.status = "disconnected"]

Account ==
    /\ "accounts" \in features
    /\ \E accepted \in BOOLEAN : connectAccount(accepted) \/ testAccount(accepted)
       \/ RetireKey \/ disconnectAccount
    /\ UNCHANGED <<gateVars, parcels, refunded, labels, carrier, clerk, pushes, order>>

-------------------------------------------------------------------------------
ShippingInit ==
    /\ parcels = [p \in Parcels |-> [status |-> "none", quantity |-> 0]]
    /\ refunded = 0
    /\ labels = [o \in OpIds |-> NoLabel]
    /\ carrier = [sold |-> [o \in {} |-> 0], voided |-> {}]
    /\ clerk = [c \in Clerks |-> Idle]
    /\ pushes = [k \in Parcels \X PushKinds |-> "none"]
    /\ order \in [push : IF "refunds" \in features THEN PushKinds \cap {"woocommerce_status"}
                          ELSE IF "several_packages" \in features THEN PushKinds \ {"woocommerce_status"}
                          ELSE {"ebay_fulfillment"},
                  fulfilled : {{}}, noted : {{}}, completed : {FALSE}]
    /\ account = [status |-> "none", key |-> FALSE, healthy |-> FALSE]

Buying ==
    \/ \E w \in Executors, o \in OpIds : BeginPurchase(w, o)
    \/ \E w \in Executors, charged \in {1, 2}, lost \in BOOLEAN : buyLabel(w, charged, lost)
    \/ \E w \in Executors : BuyFails(w) \/ StoreLabel(w) \/ CompletePurchase(w)

Serving ==
    \/ \E c \in Clerks, o \in OpIds : voidLabel(c, o)
    \/ \E c \in Clerks : RequestVoid(c) \/ RecordPush(c)
    \/ \E c \in Clerks, r \in {"refunded", "refused", "pending", "failure"} : SettleVoid(c, r)
    \/ \E o \in OpIds : recordTracking(o)
    \/ \E c \in Clerks, p \in Parcels, kind \in PushKinds, who \in Confirmers :
          pushTrackingToChannel(c, p, kind, who)
    \/ \E c \in Clerks, acts \in BOOLEAN, r \in {"success", "failure", "unsupported"} :
          carryOut(c, acts, r)

ParcelNext ==
    \/ \E p \in Parcels, n \in 1..Ordered : createPackage(p, n)
    \/ cancelPackageAction
    \/ Refund
    \/ \E o \in OpIds, p \in Parcels, age \in 0..1, life \in ProviderLives :
          proposeLabelPurchase(o, p, age, life, 1)
    \/ Buying
    \/ markShippedAction
    \/ Serving
    \/ Account

-------------------------------------------------------------------------------
\* A stored label is one that was bought, at the amount somebody confirmed, under an
\* operation of its own (executeLabelPurchase between buyLabel and the insert).
StoredLabelIsPaidFor ==
    \A o \in OpIds : labels[o] # NoLabel =>
        /\ o \in DOMAIN carrier.sold
        /\ labels[o].amount = ops[o].value.amount
        /\ effects[o] = 1

\* A package whose label the carrier took back and that has another.
relabelled(p) ==
    \E o, k \in OpIds :
        /\ o # k /\ labels[o] # NoLabel /\ labels[k] # NoLabel
        /\ labels[o].parcel = p /\ labels[k].parcel = p /\ o \in carrier.voided

\* The channel's order is completed only when every unit still owed has shipped, however
\* many packages and clerks it took (everythingShipped, pushTrackingToChannel).  A shipped
\* package whose label is voided while another purchase for it is under way goes back to
\* labelled (executeLabelPurchase, voidLabel): nothing else takes a unit back.
CompletedWhenShipped ==
    order.completed =>
        Ordered - refunded <= unitsIn({p \in Parcels : parcels[p].status = "shipped" \/ relabelled(p)})

\* The packages of one line never claim more than the line has (the rule the header of
\* packages.ts states; createPackage checks it under a lock on the line).
NothingPackedTwice == packedQuantities(parcels) <= Ordered

===============================================================================
