--------------------------------- MODULE Authz ---------------------------------
(***************************************************************************)
(* Who may do what (packages/authz).  A subject is a member of one         *)
(* business: an owner, or the holder of grants, each of one permission     *)
(* over the business, some connections, some locations or its own records. *)
(* Only the permissions that the other modules ask about are named.        *)
(***************************************************************************)
LOCAL INSTANCE Naturals

Permissions ==
    {"create_drafts", "publish_listings", "publish_products", "change_prices",
     "copy_ebay_order_to_woocommerce", "purchase_labels", "void_labels",
     "manage_tracking", "mark_shipped", "manage_integrations", "manage_members",
     "manage_locations", "manage_inventory_rules", "adjust_inventory",
     "transfer_inventory", "view_mappings", "propose_mappings", "approve_mappings",
     "propose_kit_recipes", "approve_kit_recipes",
     "manage_notifications", "manage_ai", "manage_business_settings",
     "manage_retention_settings", "delete_business"}

\* Granted over the whole business or not at all.
Unscopable ==
    {"purchase_labels", "void_labels", "publish_listings", "publish_products",
     "change_prices", "copy_ebay_order_to_woocommerce", "manage_integrations",
     "manage_members", "manage_business_settings", "manage_retention_settings",
     "delete_business"}

\* Asked for only with a recent sign-in.
StepUp ==
    {"manage_integrations", "publish_listings", "publish_products", "change_prices",
     "purchase_labels", "void_labels", "manage_members", "manage_retention_settings",
     "delete_business"}

\* A target names a connection, locations or the owner of a record; "none" and {} are
\* the ones it does not name.
AnyTarget == [connection |-> "none", locations |-> {}, owner |-> "none"]
Connection(c) == [AnyTarget EXCEPT !.connection = c]

\* A scope whose dimension the target does not name covers nothing.
scopeCovers(scope, subject, target) ==
    \/ scope.kind = "business"
    \/ scope.kind = "connections" /\ target.connection \in scope.ids
    \/ scope.kind = "locations" /\ target.locations # {} /\ target.locations \subseteq scope.ids
    \/ scope.kind = "own" /\ target.owner = subject.userId

authorize(subject, permission, target) ==
    \/ subject.isOwner
    \/ \E grant \in subject.grants :
          /\ grant.permission = permission
          /\ IF permission \in Unscopable
               THEN grant.scope.kind = "business"
               ELSE scopeCovers(grant.scope, subject, target)

================================================================================
