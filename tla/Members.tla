---------------------------- MODULE Members ----------------------------
(* Who belongs to a business (packages/identity memberships.ts, deletion.ts and
   the web actions in front of them): the founder, invitations, roles and their
   grants, suspension, removal, the final-owner trigger of the database, and the
   two-step deletion of the business.

   An action of a member runs in steps: the right to manage members is read,
   then a transaction changes the row, the deferred trigger counts the owners it
   can see, and only then does the change become visible to others.  Grants are
   abstracted to the set of permissions they give business-wide. *)
EXTENDS Authz, Naturals, FiniteSets
CONSTANTS
    Users, Founder,
    Hands,          \* requests that may be under way together
    InvitationIds,  \* invitations, in the order they are made
    RequestIds,     \* requests to delete the business, in the order they are made
    Domains,        \* the address domain of every user
    AllowedDomains, \* the domains the business restricts invitations to; none if empty
    GivenRoles,     \* the roles members are given
    MaxTime         \* bound on time
Roles == {"owner", "manager", "operator", "viewer"}
ASSUME MembersAssumption == GivenRoles \subseteq Roles /\ Founder \in Users /\ InvitationIds \cup RequestIds \subseteq Nat \ {0} /\ MaxTime \in Nat
VARIABLES
    member,      \* memberships, by user: role, status, grants and the invitation that made it
    invitations, \* invitations
    hand,        \* what each request is in the middle of
    recent,      \* the users whose session authenticated lately
    active,      \* the users whose session has this business as its active one
    business,    \* its status, its stored secrets, whether its synchronisation is paused, and the
                 \* request whose link deleted it
    deletions,   \* business_deletion_requests
    time
memberVars == <<member, invitations, hand, recent, active, business, deletions, time>>

AtRest == [stage |-> "idle"]
Nobody == [role |-> "none"]
Belongs(u) == member[u] # Nobody
NoInvitation == [made |-> FALSE]
NoRequest == [made |-> FALSE]
\* Grants over the whole business: of the permissions modelled, what each role starts with.
OPERATOR == {"propose_mappings", "propose_kit_recipes", "create_drafts"}
ROLE_TEMPLATES ==
    [viewer |-> {}, operator |-> OPERATOR,
     manager |-> OPERATOR \cup {"approve_mappings", "approve_kit_recipes", "manage_locations", "manage_inventory_rules",
                                "purchase_labels", "void_labels", "manage_tracking", "mark_shipped", "manage_notifications"}]
resolveGrants(role) ==
    IF role = "owner" THEN {}
    ELSE {[permission |-> p, scope |-> [kind |-> "business", ids |-> {}]] : p \in ROLE_TEMPLATES[role]}
\* What a member may do is read afresh for every request; a suspended member may do nothing.
loadSubject(u) ==
    IF ~Belongs(u) \/ member[u].status # "active" THEN {}
    ELSE {[userId |-> u, isOwner |-> member[u].role = "owner",
           grants |-> IF member[u].role = "owner" THEN {} ELSE member[u].grants]}
requireMemberManagement(u) ==
    /\ \E subject \in loadSubject(u) : authorize(subject, "manage_members", AnyTarget)
    /\ u \in recent
isOwner(u) == Belongs(u) /\ member[u].role = "owner" /\ member[u].status = "active"
Owners(m) == {u \in Users : m[u] # Nobody /\ m[u].role = "owner"}
Joined(role, via) == [role |-> role, status |-> "active", grants |-> resolveGrants(role), via |-> via]
First(S) == CHOOSE n \in S : \A k \in S : n <= k

-----------------------------------------------------------------------
(* Invitations. *)
domainAllowed(u) == AllowedDomains = {} \/ Domains[u] \in AllowedDomains
Outstanding(i) == invitations[i].made /\ ~invitations[i].accepted /\ ~invitations[i].cancelled
inviteMemberAction(u, invitee, role) ==
    /\ requireMemberManagement(u)
    /\ business.status = "active" /\ domainAllowed(invitee) /\ ~Belongs(invitee)
    /\ ~\E i \in InvitationIds : Outstanding(i) /\ invitations[i].to = invitee
    /\ \E i \in InvitationIds : ~invitations[i].made
    /\ invitations' = [invitations EXCEPT ![First({i \in InvitationIds : ~invitations[i].made})] =
                         [made |-> TRUE, to |-> invitee, role |-> role, accepted |-> FALSE, cancelled |-> FALSE,
                          expiresAt |-> time + 1]]
    /\ UNCHANGED <<member, hand, recent, active, business, deletions, time>>
cancelInvitationAction(u, i) ==
    /\ requireMemberManagement(u) /\ Outstanding(i)
    /\ invitations' = [invitations EXCEPT ![i].cancelled = TRUE]
    /\ UNCHANGED <<member, hand, recent, active, business, deletions, time>>
\* The link is read; an invitation that is settled or too old is refused.
acceptInvitation(h, i) ==
    /\ hand[h] = AtRest /\ Outstanding(i) /\ invitations[i].expiresAt > time
    /\ hand' = [hand EXCEPT ![h] = [stage |-> "accepting", id |-> i]]
    /\ UNCHANGED <<member, invitations, recent, active, business, deletions, time>>
\* The transaction asks only that nobody accepted it; the table refuses a row both accepted and
\* cancelled, and a second membership of the same user.
JoinBusiness_Unchecked(h) ==
    /\ hand[h].stage = "accepting"
    /\ hand' = [hand EXCEPT ![h] = AtRest]
    /\ LET i == hand[h].id
       IN  IF ~invitations[i].accepted /\ ~Belongs(invitations[i].to)
             THEN /\ invitations' = [invitations EXCEPT ![i].accepted = TRUE]
                  /\ member' = [member EXCEPT ![invitations[i].to] = Joined(invitations[i].role, i)]
             ELSE UNCHANGED <<member, invitations>>
    /\ UNCHANGED <<recent, active, business, deletions, time>>
JoinBusiness(h) ==
    /\ hand[h].stage = "accepting"
    /\ hand' = [hand EXCEPT ![h] = AtRest]
    /\ LET i == hand[h].id
       IN  IF ~invitations[i].accepted /\ ~invitations[i].cancelled /\ ~Belongs(invitations[i].to)
             THEN /\ invitations' = [invitations EXCEPT ![i].accepted = TRUE]
                  /\ member' = [member EXCEPT ![invitations[i].to] = Joined(invitations[i].role, i)]
             ELSE UNCHANGED <<member, invitations>>
    /\ UNCHANGED <<recent, active, business, deletions, time>>

-----------------------------------------------------------------------
(* Roles, suspension and removal. *)
Begins(h, u, target, change) ==
    /\ hand[h] = AtRest /\ requireMemberManagement(u) /\ Belongs(target)
    /\ hand' = [hand EXCEPT ![h] = [stage |-> "changing", target |-> target, change |-> change]]
    /\ UNCHANGED <<member, invitations, recent, active, business, deletions, time>>
changeRoleAction(h, u, target, role) == Begins(h, u, target, role)
setMembershipStatusAction(h, u, target, suspend) == Begins(h, u, target, IF suspend THEN "suspend" ELSE "reinstate")
removeMemberAction(h, u, target) == Begins(h, u, target, "remove")
\* The membership as the transaction leaves it.
Changed(row, change) ==
    CASE change = "suspend" -> [row EXCEPT !.status = "suspended"]
      [] change = "reinstate" -> [row EXCEPT !.status = "active"]
      [] change = "remove" -> Nobody
      [] OTHER -> [row EXCEPT !.role = change, !.grants = resolveGrants(change)]
Locked(target) == \E h \in Hands : hand[h].stage \in {"written", "counted"} /\ hand[h].target = target
WriteMembership(h) ==
    /\ hand[h].stage = "changing" /\ ~Locked(hand[h].target)
    /\ hand' = [hand EXCEPT ![h] = IF Belongs(hand[h].target) THEN [hand[h] EXCEPT !.stage = "written"] ELSE AtRest]
    /\ UNCHANGED <<member, invitations, recent, active, business, deletions, time>>
\* The deferred trigger counts the owners the transaction can see: its own change, and of the
\* others only what they have committed.
retainsAnOwner(h) ==
    /\ hand[h].stage = "written"
    /\ LET seen == [member EXCEPT ![hand[h].target] = Changed(@, hand[h].change)]
       IN  hand' = [hand EXCEPT ![h] = IF business.status = "deleted" \/ Owners(seen) # {}
                                         THEN [hand[h] EXCEPT !.stage = "counted"] ELSE AtRest]
    /\ UNCHANGED <<member, invitations, recent, active, business, deletions, time>>
CommitMembership(h) ==
    /\ hand[h].stage = "counted"
    /\ member' = [member EXCEPT ![hand[h].target] = Changed(@, hand[h].change)]
    /\ hand' = [hand EXCEPT ![h] = IF hand[h].change = "remove" THEN [hand[h] EXCEPT !.stage = "clearing"] ELSE AtRest]
    /\ UNCHANGED <<invitations, recent, active, business, deletions, time>>
clearActiveBusiness(h) ==
    /\ hand[h].stage = "clearing"
    /\ active' = active \ {hand[h].target}
    /\ hand' = [hand EXCEPT ![h] = AtRest]
    /\ UNCHANGED <<member, invitations, recent, business, deletions, time>>
\* Switching reads the membership and then writes the session.
switchBusinessAction(h, u) ==
    /\ hand[h] = AtRest /\ Belongs(u) /\ member[u].status = "active" /\ u \notin active
    /\ hand' = [hand EXCEPT ![h] = [stage |-> "switching", user |-> u]]
    /\ UNCHANGED <<member, invitations, recent, active, business, deletions, time>>
switchBusiness(h) ==
    /\ hand[h].stage = "switching"
    /\ active' = active \cup {hand[h].user}
    /\ hand' = [hand EXCEPT ![h] = AtRest]
    /\ UNCHANGED <<member, invitations, recent, business, deletions, time>>

-----------------------------------------------------------------------
(* Deleting the business: an owner asks and types its name, an owner follows the emailed link. *)
OpenRequest(r) == deletions[r].made /\ ~deletions[r].confirmed /\ ~deletions[r].cancelled
\* One request may be open, and one that has expired is still open.
requestDeletionAction(u, typedRight) ==
    /\ loadSubject(u) # {} /\ u \in recent
    /\ business.status = "active" /\ isOwner(u) /\ typedRight
    /\ ~\E r \in RequestIds : OpenRequest(r)
    /\ \E r \in RequestIds : ~deletions[r].made
    /\ deletions' = [deletions EXCEPT ![First({r \in RequestIds : ~deletions[r].made})] =
                       [made |-> TRUE, confirmed |-> FALSE, cancelled |-> FALSE, expiresAt |-> time + 1]]
    /\ UNCHANGED <<member, invitations, hand, recent, active, business, time>>
cancelDeletionAction(u, r) ==
    /\ loadSubject(u) # {} /\ OpenRequest(r)
    /\ deletions' = [deletions EXCEPT ![r].cancelled = TRUE]
    /\ UNCHANGED <<member, invitations, hand, recent, active, business, time>>
\* The link leads to its own request; one that is settled or too old is refused.
confirmDeletionAction(h, u, r) ==
    /\ hand[h] = AtRest /\ OpenRequest(r) /\ deletions[r].expiresAt > time /\ isOwner(u)
    /\ hand' = [hand EXCEPT ![h] = [stage |-> "confirming", user |-> u, id |-> r]]
    /\ UNCHANGED <<member, invitations, recent, active, business, deletions, time>>
eraseAndSoftDelete(r) == business' = [status |-> "deleted", secrets |-> 0, paused |-> TRUE, via |-> r]
confirm_AnyRequest(h) ==
    /\ hand[h].stage = "confirming"
    /\ IF \E r \in RequestIds : OpenRequest(r)
         THEN /\ deletions' = [r \in RequestIds |-> IF OpenRequest(r) THEN [deletions[r] EXCEPT !.confirmed = TRUE]
                                                    ELSE deletions[r]]
              /\ eraseAndSoftDelete(hand[h].id)
              /\ active' = active \ {hand[h].user}
         ELSE UNCHANGED <<deletions, business, active>>
    /\ hand' = [hand EXCEPT ![h] = AtRest]
    /\ UNCHANGED <<member, invitations, recent, time>>
\* The transaction settles the request that was read, and only if it is still open.
confirm(h) ==
    /\ hand[h].stage = "confirming"
    /\ IF OpenRequest(hand[h].id)
         THEN /\ deletions' = [deletions EXCEPT ![hand[h].id].confirmed = TRUE]
              /\ eraseAndSoftDelete(hand[h].id)
              /\ active' = active \ {hand[h].user}
         ELSE UNCHANGED <<deletions, business, active>>
    /\ hand' = [hand EXCEPT ![h] = AtRest]
    /\ UNCHANGED <<member, invitations, recent, time>>

-----------------------------------------------------------------------
Reauthenticates(u) ==
    /\ Belongs(u) /\ u \notin recent /\ recent' = recent \cup {u}
    /\ UNCHANGED <<member, invitations, hand, active, business, deletions, time>>
TimePasses ==
    /\ time < MaxTime /\ time' = time + 1 /\ recent' = {}
    /\ UNCHANGED <<member, invitations, hand, active, business, deletions>>
\* createBusiness makes the founder its owner in the same transaction.
createBusiness ==
    /\ member = [u \in Users |-> IF u = Founder THEN Joined("owner", 0) ELSE Nobody]
    /\ business = [status |-> "active", secrets |-> 1, paused |-> FALSE, via |-> 0]
    /\ active = {Founder}
MembersInit ==
    /\ createBusiness
    /\ invitations = [i \in InvitationIds |-> NoInvitation]
    /\ hand = [h \in Hands |-> AtRest]
    /\ recent = {Founder}
    /\ deletions = [r \in RequestIds |-> NoRequest]
    /\ time = 0
MemberStep(h) ==
    \/ \E u, target \in Users :
          \/ \E role \in GivenRoles : changeRoleAction(h, u, target, role)
          \/ \E suspend \in BOOLEAN : setMembershipStatusAction(h, u, target, suspend)
          \/ removeMemberAction(h, u, target)
    \/ WriteMembership(h) \/ retainsAnOwner(h) \/ CommitMembership(h) \/ clearActiveBusiness(h) \/ switchBusiness(h)
    \/ \E u \in Users : switchBusinessAction(h, u)
    \/ \E u \in Users, r \in RequestIds : confirmDeletionAction(h, u, r)
    \/ \E i \in InvitationIds : acceptInvitation(h, i)
    \/ JoinBusiness(h) \/ confirm(h)
MembersNext ==
    \/ \E h \in Hands : MemberStep(h)
    \/ \E u \in Users :
          \/ \E invitee \in Users, role \in GivenRoles : inviteMemberAction(u, invitee, role)
          \/ \E i \in InvitationIds : cancelInvitationAction(u, i)
          \/ \E right \in BOOLEAN : requestDeletionAction(u, right)
          \/ \E r \in RequestIds : cancelDeletionAction(u, r)
          \/ Reauthenticates(u)
    \/ TimePasses
MembersSpec == MembersInit /\ [][MembersNext]_memberVars

-----------------------------------------------------------------------
\* Withdrawing is final, whatever was being followed when it happened: nobody is a member through an
\* invitation that was cancelled, and the business is never deleted through the link of a request
\* that was, another request being open or not (acceptInvitation and confirm read the row before the
\* transaction that settles it).
CancelledIsFinal ==
    /\ \A u \in Users : Belongs(u) /\ member[u].via # 0 => ~invitations[member[u].via].cancelled
    /\ business.status = "deleted" => ~deletions[business.via].cancelled
\* A business that is not deleted has an owner who can act for it (0001_foundation.sql says that
\* losing the last owner locks a business out of its own settings).
AnOwnerCanAct == business.status = "active" => \E u \in Users : isOwner(u)
====
