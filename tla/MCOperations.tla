---- MODULE MCOperations ----
EXTENDS Operations, TLC
Member(user, owner, grants) == [userId |-> user, isOwner |-> owner, grants |-> grants]
Grant(p, scope) == [permission |-> p, scope |-> scope]
\* An owner who signed in lately and one who did not, a clerk who may create drafts at the
\* destination only, and a member with a grant for prices that a scope makes worthless.
MCConfirmers ==
    {[subject |-> Member("olga", TRUE, {}), recent |-> TRUE],
     [subject |-> Member("olga", TRUE, {}), recent |-> FALSE],
     [subject |-> Member("carl", FALSE,
        {Grant("create_drafts", [kind |-> "connections", ids |-> {"destination"}]),
         Grant("change_prices", [kind |-> "own", ids |-> {}])}), recent |-> TRUE]}
MCDraftSources ==
    {[platform |-> "kit"],
     [platform |-> "ebay", state |-> "ended", format |-> "fixed_price", variationCount |-> 1],
     [platform |-> "woocommerce", productType |-> "variable", stockManagedAtParent |-> FALSE]}
MCDraftSubjects == {{"sku", "price", "condition"}}
MCPrices ==
    {[amount |-> [value |-> 5, scale |-> 0], currency |-> "GBP"],
     [amount |-> [value |-> 50, scale |-> 1], currency |-> "GBP"],
     [amount |-> [value |-> 7, scale |-> 0], currency |-> "USD"]}
MCSupplied == {NoAmount, [value |-> 50, scale |-> 1]}
\* What a behaviour looks at together.
MCFeatureSets ==
    {{"draft_create", "draft_publish"}, {"price_copy"}, {"restock_to_live"}, {"order_copy"},
     {"label_purchase", "several_packages"}, {"label_purchase", "several_packages", "refunds"},
     {"label_purchase", "several_purchases"},
     {"label_purchase", "tracking"}, {"accounts"}}
    \cup {{"suggestions", k} : k \in {"draft_fields", "kit_recipe"}}
\* An answer with a title, a component nobody can use and one that is a protected fact.
MCAnswers ==
    {[shape |-> "text", text |-> FALSE, entries |-> {}],
     [shape |-> "object", text |-> FALSE,
      entries |-> {[named |-> TRUE, protected |-> TRUE, quantity |-> 0]}]}
Sym == Permutations(Executors) \cup Permutations(Clerks) \cup Permutations(Askers)
====
