---- MODULE MCConnections ----
EXTENDS Integrations
Member(user, owner, grants) == [userId |-> user, isOwner |-> owner, grants |-> grants]
\* An owner who signed in lately, one who did not, and a member without the permission.
MCManagers ==
    {[subject |-> Member("olga", TRUE, {}), recent |-> TRUE],
     [subject |-> Member("olga", TRUE, {}), recent |-> FALSE],
     [subject |-> Member("carl", FALSE, {}), recent |-> TRUE]}
MCAccounts ==
    {[provider |-> "ebay", name |-> "s1"], [provider |-> "ebay", name |-> "s2"],
     [provider |-> "woocommerce", name |-> "store"]}
MCGrants == {{"sell.inventory.readonly", "sell.marketing"}, {}}
MCConnected ==
    [tokens |-> [provider |-> "ebay", account |-> "s1", status |-> "active", connected |-> TRUE,
                 activatedAt |-> 0, scopes |-> {"sell.inventory.readonly"}],
     import_orders |-> [provider |-> "woocommerce", account |-> "store", status |-> "pending",
                        connected |-> FALSE, activatedAt |-> 0, scopes |-> {}],
     webhooks |-> [provider |-> "woocommerce", account |-> "store", status |-> "active",
                   connected |-> TRUE, activatedAt |-> 1, scopes |-> {"read_write"}],
     ready_ebay |-> [provider |-> "ebay", account |-> "s1", status |-> "active", connected |-> TRUE,
                     activatedAt |-> 0, scopes |-> {"sell.inventory.readonly", "sell.inventory"}],
     ready_store |-> [provider |-> "woocommerce", account |-> "store", status |-> "active",
                      connected |-> TRUE, activatedAt |-> 1, scopes |-> {"read_write"}],
     health |-> [provider |-> "ebay", account |-> "s1", status |-> "active", connected |-> TRUE,
                 activatedAt |-> 0, scopes |-> {}],
     topics |-> [provider |-> "ebay", account |-> "s1", status |-> "active", connected |-> TRUE,
                 activatedAt |-> 0, scopes |-> {"sell.inventory.readonly"}],
     intake |-> [provider |-> "ebay", account |-> "s1", status |-> "disconnected", connected |-> TRUE,
                 activatedAt |-> 0, scopes |-> {}],
     import |-> [provider |-> "ebay", account |-> "s1", status |-> "active", connected |-> TRUE,
                 activatedAt |-> 0, scopes |-> {"sell.inventory.readonly"}]]
\* Two entries to a stream, of which one cannot be named or used.
Order(id, placed) == [id |-> id, placed |-> placed, buyer |-> "b",
                      lines |-> {[id |-> "l", quantity |-> 2, shipped |-> 3]},
                      refunds |-> {[id |-> "r"], [id |-> "none"]}]
MCCatalogues ==
    [ebay_inventory |-> <<[id |-> "a", offers |-> {[id |-> "o", published |-> FALSE]}],
                          [id |-> "none", offers |-> {}], [id |-> "b", offers |-> {}]>>,
     ebay_locations |-> <<[id |-> "a", status |-> "DISABLED"], [id |-> "b", status |-> "ENABLED"]>>,
     ebay_policies |-> <<[policies |-> {[id |-> "a"]}], [policies |-> {}], [policies |-> {[id |-> "a"]}]>>,
     ebay_orders |-> <<Order("a", 1), Order("b", 0)>>,
     woocommerce_products |-> <<[id |-> "a", type |-> "variable", manages |-> FALSE,
                                 variations |-> {[id |-> "v", manages |-> TRUE]}],
                                [id |-> "b", type |-> "bundle", manages |-> TRUE, variations |-> {}]>>,
     woocommerce_orders |-> <<Order("a", 1), Order("b", 2)>>,
     woocommerce_refunds |-> <<Order("a", 1), Order("b", 1)>>]
MCMaxBegun == [s \in Scenes |-> IF s \in {"tokens", "import_orders"} THEN 1
                                 ELSE IF s \in {"ready_ebay", "ready_store"} THEN 2 ELSE 3]
MCMaxReceived == [s \in Scenes |-> IF s = "erasure" THEN 4 ELSE 3]
MCTopics == {[id |-> "ORDER_CONFIRMATION", enabled |-> TRUE, scope |-> "", json |-> TRUE],
             [id |-> "ITEM_AVAILABILITY", enabled |-> TRUE, scope |-> "sell.inventory", json |-> TRUE],
             [id |-> "ACCOUNT_DELETION", enabled |-> TRUE, scope |-> "", json |-> TRUE]}
\* Fails: a reconciliation takes the row that another request is still registering for one the
\* store lost, and gives it up once the store has it.
OverlappingRequestsNeverSilence ==
    [][Heard => Heard' \/ tampered' > 0 \/ excused']_<<connVars, hookVars>>
Sym == Permutations(Callers)
====
