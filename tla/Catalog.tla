-------------------------------- MODULE Catalog --------------------------------
(***************************************************************************)
(* What the business sells, where it keeps it and which channel entity     *)
(* advertises it (packages/inventory: items, locations, kits, mappings,    *)
(* activation and projection), with the web actions that call it.  The     *)
(* functions that lock the row they change are one step; the others read,  *)
(* and write after other callers may have written.  Sales hold units at a  *)
(* location (Reservations) and imports rewrite what the channel shows      *)
(* (Imports); here both are single steps.                                  *)
(***************************************************************************)
EXTENDS Allocation, Authz

CONSTANTS
    CanonicalItems, Places,
    Skus, Codes,        \* what an item and a location are called
    ExternalPlaces,     \* the names one channel gives to its own locations
    Entities,           \* provider_items of one connection
    ParentOf,           \* the listing an entity is a variation of, None when it is none
    MappingIds, RecipeIds, KitParts,    \* KitParts: recipes somebody may draft
    Staff,              \* members, as Authz has them
    Clerks,             \* calls that run at the same time
    Openings,           \* the state each scene begins with
    Doings,             \* the operations each scene is about
    CatalogScenes,
    MaxUnits,           \* bound on a balance and on what a channel shows
    MaxVersions         \* bound on the versions recorded

None == "none"
ASSUME CatalogAssumption == MaxUnits \in Nat /\ MaxVersions \in Nat /\ IsFiniteSet(RecipeIds)

ItemRows    == [sku : Skus \cup {None}, isKit : BOOLEAN, override : Int]
BalanceRows == [row : BOOLEAN, onHand : Int, reserved : Int, safety : Int]

\* A scene begins before there is a kit.
ASSUME OpeningsAssumption ==
    \A s \in CatalogScenes :
        /\ Openings[s].items \in [CanonicalItems -> {row \in ItemRows : ~row.isKit}]
        /\ Openings[s].balances \in [CanonicalItems \X Places -> BalanceRows]

VARIABLES
    scene,          \* what this behaviour is about
    items,          \* canonical_items
    places,         \* locations, their address and their link to the channel
    balances,       \* location_balances
    entities,       \* what the last import recorded of an entity
    mappings,       \* channel_mappings with channel_mapping_locations
    versions,       \* channel_mapping_versions
    recipes,        \* kit_recipes with kit_recipe_components
    settings,       \* business_inventory_settings
    calls           \* calls that have read and not yet written

catalogVars ==
    <<scene, items, places, balances, entities, mappings, versions, recipes, settings, calls>>

Shelves == CanonicalItems \X Places
Idle == [op |-> "idle"]
Doing(op) == op \in Doings[scene]

\* A call begins with what it read, and ends, having written or having failed.
Begin(c, call) == calls[c] = Idle /\ calls' = [calls EXCEPT ![c] = call]
Finish(c) == calls' = [calls EXCEPT ![c] = Idle]
At(c, op) == calls[c].op = op

requirePermission(permission) == \E s \in Staff : authorize(s, permission, AnyTarget)

-------------------------------------------------------------------------------
\* Items, locations, settings.

createCanonicalItem(i, sku) ==
    /\ items[i].sku = None
    /\ \A j \in CanonicalItems : items[j].sku # sku
    /\ items' = [items EXCEPT ![i] = [sku |-> sku, isKit |-> FALSE, override |-> Unset]]

CreateItemAction(i, sku) ==
    /\ Doing("items")
    /\ requirePermission("manage_inventory_rules")
    /\ createCanonicalItem(i, sku)
    /\ UNCHANGED <<scene, places, balances, entities, mappings, versions, recipes, settings, calls>>

updateCanonicalItem(i, sku, override) ==
    /\ Doing("items")
    /\ items[i].sku # None
    /\ \A j \in CanonicalItems \ {i} : items[j].sku # sku
    /\ items' = [items EXCEPT ![i].sku = sku, ![i].override = override]
    /\ UNCHANGED <<scene, places, balances, entities, mappings, versions, recipes, settings, calls>>

\* The code of an archived location is free again.
createLocation(p, code) ==
    /\ places[p].code = None
    /\ \A q \in Places : places[q].code = code => places[q].deleted
    /\ places' = [places EXCEPT ![p] = [code |-> code, active |-> TRUE, deleted |-> FALSE,
                                        address |-> FALSE, link |-> None]]

CreateLocationAction(p, code) ==
    /\ Doing("places")
    /\ requirePermission("manage_locations")
    /\ createLocation(p, code)
    /\ UNCHANGED <<scene, items, balances, entities, mappings, versions, recipes, settings, calls>>

Standing(p) == places[p].code # None /\ ~places[p].deleted

updateLocation(p, active) ==
    /\ Standing(p)
    /\ places' = [places EXCEPT ![p].active = active]

UpdateLocationAction(p, active) ==
    /\ Doing("places")
    /\ requirePermission("manage_locations")
    /\ updateLocation(p, active)
    /\ UNCHANGED <<scene, items, balances, entities, mappings, versions, recipes, settings, calls>>

\* archiveLocation looks for units held there and then archives, in two statements.
holdsStock(p) ==
    \E i \in CanonicalItems : balances[<<i, p>>].onHand > 0 \/ balances[<<i, p>>].reserved > 0

ArchiveLocationAction(c, p) ==
    /\ Doing("places")
    /\ requirePermission("manage_locations")
    /\ places[p].code # None
    /\ ~holdsStock(p)
    /\ Begin(c, [op |-> "archiveLocation", place |-> p])
    /\ UNCHANGED <<scene, items, places, balances, entities, mappings, versions, recipes, settings>>

archiveLocation(c) ==
    /\ At(c, "archiveLocation")
    /\ LET p == calls[c].place
       IN  places' = IF places[p].deleted THEN places
                     ELSE [places EXCEPT ![p].deleted = TRUE, ![p].active = FALSE]
    /\ Finish(c)
    /\ UNCHANGED <<scene, items, balances, entities, mappings, versions, recipes, settings>>

setLocationAddress(p) ==
    /\ Doing("places")
    /\ Standing(p)
    /\ places' = [places EXCEPT ![p].address = TRUE]
    /\ UNCHANGED <<scene, items, balances, entities, mappings, versions, recipes, settings, calls>>

\* Linking does not ask whether the location is archived; the name must be free.
linkLocationToChannel(p, name) ==
    /\ Doing("places")
    /\ places[p].code # None
    /\ \A q \in Places \ {p} : places[q].link # name
    /\ places' = [places EXCEPT ![p].link = name]
    /\ UNCHANGED <<scene, items, balances, entities, mappings, versions, recipes, settings, calls>>

unlinkLocationFromChannel(p) ==
    /\ Doing("places")
    /\ places[p].link # None
    /\ places' = [places EXCEPT ![p].link = None]
    /\ UNCHANGED <<scene, items, balances, entities, mappings, versions, recipes, settings, calls>>

updateSettings(safety, split) ==
    settings' = [defaultSafetyStock |-> safety, splitFulfillment |-> split]

UpdateInventorySettingsAction(safety, split) ==
    /\ Doing("items")
    /\ requirePermission("manage_inventory_rules")
    /\ updateSettings(safety, split)
    /\ UNCHANGED <<scene, items, places, balances, entities, mappings, versions, recipes, calls>>

-------------------------------------------------------------------------------
\* Units.  A balance row names an item that is no kit: location_balances_never_a_kit.

stockMayName(i) == items[i].sku # None /\ ~items[i].isKit

\* The row is created where there is none; on hand never falls below what is reserved.
mayPost(i, p, delta) ==
    stockMayName(i) /\ balances[<<i, p>>].onHand + delta >= balances[<<i, p>>].reserved

postMovements(i, p, delta) ==
    [balances EXCEPT ![<<i, p>>].row = TRUE, ![<<i, p>>].onHand = @ + delta]

setItemLocationSettings(i, p, safety) ==
    /\ Doing("items")
    /\ stockMayName(i) /\ places[p].code # None
    /\ balances' = [balances EXCEPT ![<<i, p>>].row = TRUE, ![<<i, p>>].safety = safety]
    /\ UNCHANGED <<scene, items, places, entities, mappings, versions, recipes, settings, calls>>

\* The form turns the figure somebody counted into a change against the balance of the
\* moment; what it posts, on the same screen later, is that change.
deltaForAbsolute(i, p, quantity) ==
    quantity - IF balances[<<i, p>>].row /\ ~places[p].deleted THEN balances[<<i, p>>].onHand ELSE 0

PreviewAdjustmentAction(c, i, p, quantity) ==
    /\ Doing("adjust")
    /\ requirePermission("adjust_inventory")
    /\ items[i].sku # None /\ places[p].code # None
    /\ Begin(c, [op |-> "adjust", item |-> i, place |-> p, delta |-> deltaForAbsolute(i, p, quantity)])
    /\ UNCHANGED <<scene, items, places, balances, entities, mappings, versions, recipes, settings>>

ApplyAdjustmentAction(c) ==
    /\ At(c, "adjust")
    /\ requirePermission("adjust_inventory")
    /\ LET a == calls[c]
       IN  /\ balances[<<a.item, a.place>>].onHand + a.delta <= MaxUnits
           /\ balances' = IF a.delta # 0 /\ mayPost(a.item, a.place, a.delta)
                            THEN postMovements(a.item, a.place, a.delta) ELSE balances
    /\ Finish(c)
    /\ UNCHANGED <<scene, items, places, entities, mappings, versions, recipes, settings>>

\* A sale holds a unit, and a sale that is cancelled lets go of it (Reservations).
SaleHolds(i, p) ==
    /\ Doing("sell")
    /\ balances[<<i, p>>].reserved < balances[<<i, p>>].onHand
    /\ balances' = [balances EXCEPT ![<<i, p>>].reserved = @ + 1]
    /\ UNCHANGED <<scene, items, places, entities, mappings, versions, recipes, settings, calls>>

SaleLetsGo(i, p) ==
    /\ Doing("sell")
    /\ balances[<<i, p>>].reserved > 0
    /\ balances' = [balances EXCEPT ![<<i, p>>].reserved = @ - 1]
    /\ UNCHANGED <<scene, items, places, entities, mappings, versions, recipes, settings, calls>>

\* An import meets an entity, or a complete one does not meet it (Imports).
ImportRecords(e, quantity, eligible) ==
    /\ Doing("import")
    /\ entities' = [entities EXCEPT ![e] = [known |-> TRUE, quantity |-> quantity,
                                            eligible |-> eligible, missing |-> FALSE]]
    /\ UNCHANGED <<scene, items, places, balances, mappings, versions, recipes, settings, calls>>

ImportMisses(e) ==
    /\ Doing("import")
    /\ entities[e].known
    /\ entities' = [entities EXCEPT ![e].missing = TRUE]
    /\ UNCHANGED <<scene, items, places, balances, mappings, versions, recipes, settings, calls>>

-------------------------------------------------------------------------------
\* Kits.

sellable ==
    [k \in Shelves |->
        IF ~balances[k].row THEN 0
        ELSE availableToSellAtLocation(balances[k].onHand, balances[k].reserved,
                effectiveSafetyStock(settings.defaultSafetyStock, items[k[1]].override,
                                     balances[k].safety))]

NoRecipe == [status |-> None, kit |-> None, version |-> 0, parts |-> <<>>]
RecipesOf(k) == {r \in RecipeIds : recipes[r].kit = k}
InForce(k) == {r \in RecipesOf(k) : recipes[r].status = "active"}
isComponent(i) == \E r \in RecipeIds : i \in DOMAIN recipes[r].parts

\* The item must not hold stock: looked at first, and again by the foreign keys of the
\* balances and of the recipes that use it.
declareKit(c, i) ==
    /\ Doing("kits")
    /\ items[i].sku # None /\ ~items[i].isKit
    /\ \A p \in Places : ~balances[<<i, p>>].row
    /\ Begin(c, [op |-> "declareKit", item |-> i])
    /\ UNCHANGED <<scene, items, places, balances, entities, mappings, versions, recipes, settings>>

\* MUTANT of kitMayBeDeclared: only the check made before the write.
kitMayBeDeclared_Unchecked(i) == TRUE

kitMayBeDeclared(i) == (\A p \in Places : ~balances[<<i, p>>].row) /\ ~isComponent(i)

declareKitWrites(c) ==
    /\ At(c, "declareKit")
    /\ LET i == calls[c].item
       IN  items' = IF kitMayBeDeclared(i) THEN [items EXCEPT ![i].isKit = TRUE] ELSE items
    /\ Finish(c)
    /\ UNCHANGED <<scene, places, balances, entities, mappings, versions, recipes, settings>>

\* A draft takes the next version it saw; a version taken meanwhile, or a component that
\* became a kit meanwhile, makes the insert fail.
draftRecipe(c, k, parts) ==
    /\ Doing("kits")
    /\ items[k].isKit
    /\ k \notin DOMAIN parts
    /\ \A i \in DOMAIN parts : stockMayName(i) /\ parts[i] >= 1
    /\ Begin(c, [op |-> "draftRecipe", kit |-> k, parts |-> parts,
                 version |-> 1 + Max({0} \cup {recipes[r].version : r \in RecipesOf(k)})])
    /\ UNCHANGED <<scene, items, places, balances, entities, mappings, versions, recipes, settings>>

draftRecipeWrites(c, r) ==
    /\ At(c, "draftRecipe")
    /\ recipes[r].status = None
    /\ LET d == calls[c]
           taken == \E q \in RecipesOf(d.kit) : recipes[q].version = d.version
       IN  recipes' = IF taken \/ \E i \in DOMAIN d.parts : items[i].isKit THEN recipes
                      ELSE [recipes EXCEPT ![r] = [status |-> "draft", kit |-> d.kit,
                                                   version |-> d.version, parts |-> d.parts]]
    /\ Finish(c)
    /\ UNCHANGED <<scene, items, places, balances, entities, mappings, versions, settings>>

\* Approval reads that the recipe is a draft, retires the one in force that it sees, and
\* puts its own in force without looking again.
approveRecipe(c, r) ==
    /\ Doing("kits")
    /\ recipes[r].status = "draft"
    /\ Begin(c, [op |-> "approveRecipe", recipe |-> r])
    /\ UNCHANGED <<scene, items, places, balances, entities, mappings, versions, recipes, settings>>

approveRecipeRetires(c) ==
    /\ At(c, "approveRecipe")
    /\ calls' = [calls EXCEPT ![c] = [op |-> "inForce", recipe |-> @.recipe,
                                      retired |-> InForce(recipes[@.recipe].kit)]]
    /\ UNCHANGED <<scene, items, places, balances, entities, mappings, versions, recipes, settings>>

\* The index kit_recipes_one_active.
oneActive(k, table) ==
    Cardinality({r \in RecipeIds : table[r].kit = k /\ table[r].status = "active"}) <= 1

approveRecipeWrites(c) ==
    /\ At(c, "inForce")
    /\ LET a == calls[c]
           next == [r \in RecipeIds |->
                      IF r = a.recipe THEN [recipes[r] EXCEPT !.status = "active"]
                      ELSE IF r \in a.retired /\ recipes[r].status = "active"
                             THEN [recipes[r] EXCEPT !.status = "superseded"] ELSE recipes[r]]
       IN  recipes' = IF oneActive(recipes[a.recipe].kit, next) THEN next ELSE recipes
    /\ Finish(c)
    /\ UNCHANGED <<scene, items, places, balances, entities, mappings, versions, settings>>

\* How many of a kit its components make at the locations given, Unset with no recipe.
kitCapacity(k, where) ==
    IF InForce(k) = {} THEN Unset
    ELSE LET r == CHOOSE r \in InForce(k) : TRUE
             open == {p \in where : places[p].active /\ ~places[p].deleted}
         IN  IF open = {} THEN 0
             ELSE kitAvailability(recipes[r].parts, sellable, open, settings.splitFulfillment)

-------------------------------------------------------------------------------
\* Mappings.

NoMapping == [status |-> None, entity |-> None, item |-> None, from |-> {}, buffer |-> 0,
              cap |-> Unset, version |-> 0, approved |-> FALSE, activated |-> FALSE,
              archived |-> FALSE, why |-> FALSE]
Live == {"draft", "approved", "active", "paused"}

validateRules(buffer, cap) == buffer >= 0 /\ (cap = Unset \/ cap >= 0)
activeLocations(from) == from # {} /\ \A p \in from : places[p].active

\* MUTANT of rowIsAllowed: without channel_mappings_archival_recorded.
rowIsAllowed_NoArchival(row) ==
    /\ row.status \in {"approved", "active", "paused"} => row.approved
    /\ row.status = "active" => row.activated
    /\ (row.status = "paused") = row.why

\* The checks on a row of channel_mappings: what each status must have recorded.
rowIsAllowed(row) ==
    /\ row.status \in {"approved", "active", "paused"} => row.approved
    /\ row.status = "active" => row.activated
    /\ (row.status = "archived") = row.archived
    /\ (row.status = "paused") = row.why

recordVersion(m, row) ==
    [mapping |-> m, version |-> row.version, item |-> row.item, from |-> row.from,
     buffer |-> row.buffer, cap |-> row.cap, status |-> row.status]

\* One transaction that holds the row: the row and its version are written together.
Write(m, row) ==
    /\ Cardinality(versions) < MaxVersions
    /\ rowIsAllowed(row)
    /\ mappings' = [mappings EXCEPT ![m] = row]
    /\ versions' = versions \cup {recordVersion(m, row)}

\* An entity has one mapping that is not archived: channel_mappings_one_live_per_entity.
proposeMapping(m, e, i, from, buffer, cap) ==
    /\ mappings[m].status = None
    /\ entities[e].known /\ items[i].sku # None
    /\ validateRules(buffer, cap) /\ activeLocations(from)
    /\ \A n \in MappingIds : mappings[n].entity = e => mappings[n].status = "archived"
    /\ Write(m, [NoMapping EXCEPT !.status = "draft", !.entity = e, !.item = i, !.from = from,
                                  !.buffer = buffer, !.cap = cap, !.version = 1])

ProposeMappingAction(m, e, i, from) ==
    /\ Doing("propose")
    /\ requirePermission("propose_mappings")
    /\ proposeMapping(m, e, i, from, 0, Unset)
    /\ UNCHANGED <<scene, items, places, balances, entities, recipes, settings, calls>>

approveMapping(m) ==
    /\ mappings[m].status = "draft"
    /\ Write(m, [mappings[m] EXCEPT !.status = "approved", !.approved = TRUE, !.version = @ + 1])

ApproveMappingAction(m) ==
    /\ Doing("mappings")
    /\ requirePermission("approve_mappings")
    /\ approveMapping(m)
    /\ UNCHANGED <<scene, items, places, balances, entities, recipes, settings, calls>>

\* Pointing a mapping that writes, or may be made to, at another item pauses it.
reviseMapping(m, i, from, buffer, cap) ==
    /\ Doing("revise")
    /\ mappings[m].status \in Live
    /\ items[i].sku # None
    /\ validateRules(buffer, cap)
    /\ from # mappings[m].from => activeLocations(from)
    /\ LET pause == i # mappings[m].item /\ mappings[m].status \in {"active", "paused"}
       IN  Write(m, [mappings[m] EXCEPT !.item = i, !.from = from, !.buffer = buffer, !.cap = cap,
                                        !.status = IF pause THEN "paused" ELSE @,
                                        !.why = IF pause THEN TRUE ELSE @, !.version = @ + 1])
    /\ UNCHANGED <<scene, items, places, balances, entities, recipes, settings, calls>>

archiveMapping(m) ==
    /\ mappings[m].status \in Live
    /\ Write(m, [mappings[m] EXCEPT !.status = "archived", !.archived = TRUE, !.why = FALSE,
                                    !.version = @ + 1])

ArchiveMappingAction(m) ==
    /\ Doing("mappings")
    /\ requirePermission("approve_mappings")
    /\ archiveMapping(m)
    /\ UNCHANGED <<scene, items, places, balances, entities, recipes, settings, calls>>

-------------------------------------------------------------------------------
\* Activation.

\* Sellable siblings in a listing that no live mapping covers.
assessVariationCompleteness(parent) ==
    {e \in Entities : /\ ParentOf[e] = parent
                      /\ entities[e].known /\ entities[e].eligible /\ ~entities[e].missing
                      /\ \A m \in MappingIds : mappings[m].entity = e => mappings[m].status = "archived"}

\* The quantity the preview says would be written.
outboundTarget(m) ==
    channelTarget(availableToSellAcrossLocations(sellable, mappings[m].item, mappings[m].from),
                  mappings[m].buffer, mappings[m].cap)

\* Whether anything stands in the way, given where the starting quantity comes from.
previewActivation(m, source) ==
    LET e == mappings[m].entity
    IN  /\ entities[e].eligible /\ ~entities[e].missing
        /\ ParentOf[e] # None => assessVariationCompleteness(ParentOf[e]) = {}
        /\ source = "unsaid" => entities[e].quantity \in {Unset, outboundTarget(m)}
        /\ mappings[m].from # {}

\* The location the starting quantity goes to: the one named, or the only one there is.
adoptAt(m, p) == p \in mappings[m].from

\* A starting quantity is posted as the change from what the preview saw.
adopt(a) == IF a.delta = 0 THEN balances ELSE postMovements(a.item, a.place, a.delta)

ActivateMappingAction(c, m, source, p, quantity) ==
    /\ Doing("mappings")
    /\ requirePermission("approve_mappings")
    /\ mappings[m].status \in {"approved", "paused"}
    /\ previewActivation(m, source)
    /\ source \in {"channel", "explicit"} => adoptAt(m, p)
    /\ LET i == mappings[m].item
           wanted == CASE source = "explicit" -> quantity
                       [] source = "channel" -> NonNegative(entities[mappings[m].entity].quantity)
                       [] OTHER -> balances[<<i, p>>].onHand
       IN  Begin(c, [op |-> "bump", mapping |-> m, status |-> "active", item |-> i, place |-> p,
                     delta |-> wanted - balances[<<i, p>>].onHand])
    /\ UNCHANGED <<scene, items, places, balances, entities, mappings, versions, recipes, settings>>

pauseMapping(c, m) ==
    /\ mappings[m].status = "active"
    /\ Begin(c, [op |-> "bump", mapping |-> m, status |-> "paused", item |-> mappings[m].item,
                 place |-> None, delta |-> 0])

PauseMappingAction(c, m) ==
    /\ Doing("mappings")
    /\ requirePermission("approve_mappings")
    /\ pauseMapping(c, m)
    /\ UNCHANGED <<scene, items, places, balances, entities, mappings, versions, recipes, settings>>

pauseIncompleteVariationListings(c, m) ==
    /\ Doing("mappings")
    /\ mappings[m].status = "active"
    /\ ParentOf[mappings[m].entity] # None
    /\ assessVariationCompleteness(ParentOf[mappings[m].entity]) # {}
    /\ pauseMapping(c, m)
    /\ UNCHANGED <<scene, items, places, balances, entities, mappings, versions, recipes, settings>>

\* The version is read again, unlocked, and the next one is inserted later.
bumpVersion(c) ==
    /\ At(c, "bump")
    /\ LET m == calls[c].mapping
       IN  calls' = [calls EXCEPT ![c] =
                        [op |-> "settle", mapping |-> m, status |-> @.status, item |-> @.item,
                         place |-> @.place, delta |-> @.delta, seen |-> mappings[m]]]
    /\ UNCHANGED <<scene, items, places, balances, entities, mappings, versions, recipes, settings>>

\* MUTANT of versionIsFree: without channel_mapping_versions_unique.
versionIsFree_NoIndex(m, v) == TRUE

\* channel_mapping_versions_unique.
versionIsFree(m, v) == ~\E r \in versions : r.mapping = m /\ r.version = v

\* The transaction ends: its movement, its version and the row, or none of them.
activationWrites(c) ==
    /\ At(c, "settle")
    /\ LET a == calls[c]
           version == a.seen.version + 1
           row == [mappings[a.mapping] EXCEPT !.status = a.status, !.version = version,
                                              !.why = (a.status = "paused"),
                                              !.activated = (@ \/ a.status = "active")]
           was == [a.seen EXCEPT !.status = a.status, !.version = version, !.from = row.from]
           sound == /\ versionIsFree(a.mapping, version)
                    /\ rowIsAllowed(row)
                    /\ a.delta # 0 => mayPost(a.item, a.place, a.delta)
       IN  /\ Cardinality(versions) < MaxVersions
           /\ a.delta # 0 => balances[<<a.item, a.place>>].onHand + a.delta <= MaxUnits
           /\ IF sound
                THEN /\ mappings' = [mappings EXCEPT ![a.mapping] = row]
                     /\ versions' = versions \cup {recordVersion(a.mapping, was)}
                     /\ balances' = adopt(a)
                ELSE UNCHANGED <<mappings, versions, balances>>
    /\ Finish(c)
    /\ UNCHANGED <<scene, items, places, entities, recipes, settings>>

-------------------------------------------------------------------------------
\* Projection.

\* A kit has what its components make; anything else what the chosen locations that stand
\* may sell.
capacityWithin(k, where) == NonNegative(kitCapacity(k, where))

projectItem(m) ==
    LET row == mappings[m]
        chosen == {p \in row.from : ~places[p].deleted}
    IN  channelTarget(IF items[row.item].isKit THEN capacityWithin(row.item, row.from)
                      ELSE availableToSellAcrossLocations(sellable, row.item, chosen),
                      row.buffer, row.cap)

-------------------------------------------------------------------------------
CatalogInit ==
    /\ scene \in CatalogScenes
    /\ items = Openings[scene].items
    /\ places = Openings[scene].places
    /\ balances = Openings[scene].balances
    /\ entities = Openings[scene].entities
    /\ recipes = [r \in RecipeIds |-> NoRecipe]
    /\ settings = [defaultSafetyStock |-> 0, splitFulfillment |-> FALSE]
    /\ mappings = [m \in MappingIds |-> NoMapping]
    /\ versions = {}
    /\ calls = [c \in Clerks |-> Idle]

ItemNext ==
    \/ \E i \in CanonicalItems, sku \in Skus :
          CreateItemAction(i, sku) \/ \E o \in {Unset, 1} : updateCanonicalItem(i, sku, o)
    \/ \E safety \in {0, 1}, split \in BOOLEAN : UpdateInventorySettingsAction(safety, split)
    \/ \E i \in CanonicalItems, p \in Places :
          \/ \E safety \in {Unset, 1} : setItemLocationSettings(i, p, safety)
          \/ SaleHolds(i, p) \/ SaleLetsGo(i, p)
          \/ \E c \in Clerks, q \in 0..MaxUnits : PreviewAdjustmentAction(c, i, p, q)
    \/ \E c \in Clerks : ApplyAdjustmentAction(c)

PlaceNext ==
    \/ \E p \in Places :
          \/ \E code \in Codes : CreateLocationAction(p, code)
          \/ \E active \in BOOLEAN : UpdateLocationAction(p, active)
          \/ setLocationAddress(p) \/ unlinkLocationFromChannel(p)
          \/ \E name \in ExternalPlaces : linkLocationToChannel(p, name)
          \/ \E c \in Clerks : ArchiveLocationAction(c, p)
    \/ \E c \in Clerks : archiveLocation(c)

KitNext ==
    \E c \in Clerks :
       \/ \E i \in CanonicalItems : declareKit(c, i) \/ \E parts \in KitParts : draftRecipe(c, i, parts)
       \/ \E r \in RecipeIds : draftRecipeWrites(c, r) \/ approveRecipe(c, r)
       \/ declareKitWrites(c) \/ approveRecipeRetires(c) \/ approveRecipeWrites(c)

MappingNext ==
    \/ \E m \in MappingIds :
          \/ \E e \in Entities, i \in CanonicalItems, from \in SUBSET Places : ProposeMappingAction(m, e, i, from)
          \/ ApproveMappingAction(m) \/ ArchiveMappingAction(m)
          \/ \E i \in CanonicalItems, from \in SUBSET Places : reviseMapping(m, i, from, 0, 1)
          \/ \E c \in Clerks :
                \/ \E source \in {"unsaid", "canonical", "channel", "explicit"}, p \in Places :
                      ActivateMappingAction(c, m, source, p, 1)
                \/ PauseMappingAction(c, m) \/ pauseIncompleteVariationListings(c, m)
    \/ \E c \in Clerks : bumpVersion(c) \/ activationWrites(c)
    \/ \E e \in Entities :
          ImportMisses(e) \/ \E ok \in BOOLEAN : ImportRecords(e, 1, ok)

CatalogNext == ItemNext \/ PlaceNext \/ KitNext \/ MappingNext

CatalogSpec == CatalogInit /\ [][CatalogNext]_catalogVars

-------------------------------------------------------------------------------
(* An archived mapping is never written again, whoever was activating or pausing it when *)
(* it was archived: activateMapping and pauseMapping decide on a row they did not lock.  *)
ArchivedMappingIsFinal ==
    [][\A m \in MappingIds : mappings[m].status = "archived" => mappings'[m] = mappings[m]]_catalogVars

(* The version history explains the mapping as it stands, with one row for every version *)
(* from the first: an order of March is explained by the version that was live in March, *)
(* although activation reads the version it follows without a lock (bumpVersion).        *)
HistoryExplainsMapping ==
    \A m \in MappingIds : mappings[m].status # None =>
        /\ recordVersion(m, mappings[m]) \in versions
        /\ Cardinality({r \in versions : r.mapping = m}) = mappings[m].version

(* A kit is a recipe and not a container: it has no balance anywhere, is no component of *)
(* a kit, and one recipe at most says what it takes, whatever was received, drafted and  *)
(* approved while declareKit and approveRecipe were between their statements.            *)
KitIsARecipe ==
    \A i \in CanonicalItems : items[i].isKit =>
        /\ \A p \in Places : ~balances[<<i, p>>].row
        /\ ~isComponent(i)
        /\ Cardinality(InForce(i)) <= 1

(* The quantity an activation preview shows is the one the projection will write, as the *)
(* comment on previewActivation has it.                                                  *)
PreviewIsWhatIsWritten ==
    \A m \in MappingIds : mappings[m].status \in Live => outboundTarget(m) = projectItem(m)

================================================================================
