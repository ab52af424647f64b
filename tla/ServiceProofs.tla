----------------------------- MODULE ServiceProofs -----------------------------
(***************************************************************************)
(* What the services around the stock promise: who may come in (Members    *)
(* and SignIn), who is told of what, when work starts and how often        *)
(* (Alerts and Scheduling), and what a pilot that passes answers for       *)
(* (Pilot), for every number of users, requests, invitations, challenges,  *)
(* workers, members, alerts, days and incidents, every schedule of         *)
(* reminders and every lease.                                              *)
(*                                                                         *)
(* Sends are bounded because an attempt is counted before it is made: what *)
(* is on the wire and what sweeps have claimed and not sent yet stay       *)
(* within the attempts of the delivery (AttemptsCover).  An alert is heard *)
(* because its severity only rises above the one last told (RankTrails).   *)
(* Ticks overlap only by overrunning because a worker that thinks it leads *)
(* holds the lease, or has been without renewing it for longer than the    *)
(* lease lasts (LeaseOutlived).                                            *)
(***************************************************************************)
EXTENDS SignIn, Members, Scheduling, Pilot, FiniteSetTheorems, WellFoundedInduction, TLAPS

\* A set of numbers that is not empty has a least member, the one First and Fewer choose.
LEMMA Least ==
  ASSUME NEW S \in SUBSET Nat, S # {}
  PROVE  \E x \in S : \A y \in S : x <= y
<1> DEFINE T == {0..x : x \in S}
<1>1. IsWellFoundedOn(StrictSubsetOrdering(Nat), FiniteSubsetsOf(Nat))
  BY FS_StrictSubsetOrderingWellFounded
<1>2. \A x \in S : 0..x \in FiniteSubsetsOf(Nat)
  <2>1. \A x \in S : IsFiniteSet(0..x)
    BY FS_Interval
  <2>2. QED
    BY <2>1 DEF FiniteSubsetsOf
<1>3. T \subseteq FiniteSubsetsOf(Nat) /\ T # {}
  BY <1>2
<1>4. PICK m \in T : \A t \in T : ~(<<t, m>> \in StrictSubsetOrdering(Nat))
  <2> HIDE DEF T
  <2>1. QED
    BY <1>1, <1>3, WFMin
<1>5. PICK x \in S : m = 0..x
  OBVIOUS
<1>6. ASSUME NEW y \in S PROVE x <= y
  <2>1. ~(<<0..y, 0..x>> \in StrictSubsetOrdering(Nat))
    BY <1>4, <1>5
  <2>2. 0..y \in SUBSET Nat /\ 0..x \in SUBSET Nat /\ x \in Nat /\ y \in Nat
    OBVIOUS
  <2>3. ~(0..y \subseteq 0..x /\ 0..y # 0..x)
    BY <2>1, <2>2 DEF StrictSubsetOrdering
  <2>4. ASSUME y < x PROVE FALSE
    <3>1. x \in 0..x /\ x \notin 0..y
      BY <2>2, <2>4
    <3>2. 0..y \subseteq 0..x
      BY <2>2, <2>4
    <3>3. QED
      BY <2>3, <3>1, <3>2
  <2>5. QED
    BY <2>2, <2>4
<1>7. QED
  BY <1>6

LEMMA FirstIsThere == ASSUME NEW S \in SUBSET Nat, S # {} PROVE First(S) \in S /\ Fewer(S) \in S
<1>1. \E x \in S : \A y \in S : x <= y
  BY Least
<1>2. QED
  BY <1>1 DEF First, Fewer

-------------------------------------------------------------------------------
(* Members.                                                                   *)

Changes == Roles \cup {"suspend", "reinstate", "remove"}
GrantSets == {resolveGrants(role) : role \in Roles}
MemberRows ==
  [role : Roles, status : {"active", "suspended"}, grants : GrantSets, via : InvitationIds \cup {0}]
InvitationRows ==
  [made : {TRUE}, to : Users, role : GivenRoles, accepted : BOOLEAN, cancelled : BOOLEAN,
   expiresAt : Int]
DeletionRows == [made : {TRUE}, confirmed : BOOLEAN, cancelled : BOOLEAN, expiresAt : Int]
ChangingHands ==
  [stage : {"changing", "written", "counted", "clearing"}, target : Users, change : Changes]
OtherHands ==
  {AtRest} \cup [stage : {"accepting"}, id : InvitationIds]
           \cup [stage : {"switching"}, user : Users]
           \cup [stage : {"confirming"}, user : Users, id : RequestIds]

MembersTypeOK ==
  /\ member \in [Users -> MemberRows \cup {Nobody}]
  /\ invitations \in [InvitationIds -> InvitationRows \cup {NoInvitation}]
  /\ hand \in [Hands -> ChangingHands \cup OtherHands]
  /\ deletions \in [RequestIds -> DeletionRows \cup {NoRequest}]
  /\ time \in Nat

\* A member came by an invitation that was accepted, which excludes that it was cancelled;
\* a request that follows an invitation follows one that was made.
InvitationsHold ==
  /\ \A u \in Users : member[u] # Nobody /\ member[u].via # 0 =>
       invitations[member[u].via] \in InvitationRows /\ invitations[member[u].via].accepted
  /\ \A i \in InvitationIds : invitations[i] \in InvitationRows =>
       ~(invitations[i].accepted /\ invitations[i].cancelled)
  /\ \A h \in Hands : hand[h].stage = "accepting" => invitations[hand[h].id] \in InvitationRows

\* The row a transaction has written is locked: it is there until the transaction ends.
LocksHold ==
  /\ \A h \in Hands : hand[h].stage \in {"written", "counted"} => member[hand[h].target] # Nobody
  /\ \A g, h \in Hands :
       /\ g # h
       /\ hand[g].stage \in {"written", "counted"} /\ hand[h].stage \in {"written", "counted"}
       => hand[g].target # hand[h].target

\* A business that is deleted was so by a request that was confirmed, which excludes that it
\* was cancelled.
DeletionHolds ==
  /\ business.status = "deleted" =>
       /\ business.via \in RequestIds
       /\ deletions[business.via] \in DeletionRows /\ deletions[business.via].confirmed
  /\ \A r \in RequestIds : deletions[r] \in DeletionRows => ~(deletions[r].confirmed /\ deletions[r].cancelled)

MembersInv == MembersTypeOK /\ InvitationsHold /\ LocksHold /\ DeletionHolds

LEMMA MemberKinds ==
  /\ \A r \in MemberRows : r # Nobody
  /\ \A r \in InvitationRows \cup {NoInvitation} : (r \in InvitationRows) <=> r.made
  /\ \A r \in DeletionRows \cup {NoRequest} : (r \in DeletionRows) <=> r.made
  /\ \A x \in OtherHands : x.stage \notin {"changing", "written", "counted", "clearing"}
  /\ \A x \in OtherHands : x.stage = "accepting" => x.id \in InvitationIds
  /\ \A x \in OtherHands : x.stage = "confirming" => x.id \in RequestIds
<1>1. \A r \in MemberRows : r # Nobody
  <2>1. \A r \in MemberRows : r.role \in Roles
    BY DEF MemberRows
  <2>2. Nobody.role \notin Roles
    BY DEF Nobody, Roles
  <2>3. QED
    BY <2>1, <2>2
<1>2. \A r \in InvitationRows \cup {NoInvitation} : (r \in InvitationRows) <=> r.made
  <2>1. \A r \in InvitationRows : r.made
    BY DEF InvitationRows
  <2>2. ~NoInvitation.made
    BY DEF NoInvitation
  <2>3. QED
    BY <2>1, <2>2
<1>3. \A r \in DeletionRows \cup {NoRequest} : (r \in DeletionRows) <=> r.made
  <2>1. \A r \in DeletionRows : r.made
    BY DEF DeletionRows
  <2>2. ~NoRequest.made
    BY DEF NoRequest
  <2>3. QED
    BY <2>1, <2>2
<1>4. /\ \A x \in OtherHands : x.stage \notin {"changing", "written", "counted", "clearing"}
      /\ \A x \in OtherHands : x.stage = "accepting" => x.id \in InvitationIds
      /\ \A x \in OtherHands : x.stage = "confirming" => x.id \in RequestIds
  BY DEF OtherHands, AtRest
<1>5. QED
  BY <1>1, <1>2, <1>3, <1>4

AllHands == ChangingHands \cup OtherHands

\* What a hand may be in the middle of, by what is there.
MayFollow(x) == x.stage = "accepting" => invitations[x.id] \in InvitationRows
MayLock(h, x) ==
  x.stage \in {"written", "counted"} =>
    /\ member[x.target] # Nobody
    /\ \A g \in Hands : g # h /\ hand[g].stage \in {"written", "counted"} => hand[g].target # x.target

LEMMA RestingHand ==
  /\ AtRest \in AllHands /\ AtRest.stage = "idle"
  BY DEF AtRest, AllHands, OtherHands

\* A request takes a step that changes no row.
LEMMA HandMoves ==
  ASSUME MembersInv, NEW h \in Hands, NEW x \in AllHands, hand' = [hand EXCEPT ![h] = x],
         UNCHANGED <<member, invitations, business, deletions, time>>, MayFollow(x), MayLock(h, x)
  PROVE  MembersInv'
<1>1. hand \in [Hands -> AllHands]
  BY DEF MembersInv, MembersTypeOK, AllHands
<1>2. \A g \in Hands : hand'[g] = IF g = h THEN x ELSE hand[g]
  BY <1>1
<1>3. MembersTypeOK'
  BY <1>1 DEF MembersInv, MembersTypeOK, AllHands
<1>4. InvitationsHold'
  BY <1>2 DEF MembersInv, InvitationsHold, MayFollow
<1>5. LocksHold'
  BY <1>2 DEF MembersInv, LocksHold, MayLock
<1>6. DeletionHolds'
  BY DEF MembersInv, DeletionHolds
<1>7. QED
  BY <1>3, <1>4, <1>5, <1>6 DEF MembersInv

\* A hand that is about nothing locked or followed moves freely.
LEMMA FreeHandMoves ==
  ASSUME MembersInv, NEW h \in Hands, NEW x \in AllHands, hand' = [hand EXCEPT ![h] = x],
         UNCHANGED <<member, invitations, business, deletions, time>>,
         x.stage \notin {"accepting", "written", "counted"}
  PROVE  MembersInv'
<1>1. MayFollow(x) /\ MayLock(h, x)
  BY DEF MayFollow, MayLock
<1>2. QED
  BY <1>1, HandMoves

LEMMA AcceptInv ==
  ASSUME MembersInv, NEW h \in Hands, NEW i \in InvitationIds, acceptInvitation(h, i) PROVE MembersInv'
<1> DEFINE x == [stage |-> "accepting", id |-> i]
<1>1. hand' = [hand EXCEPT ![h] = x] /\ UNCHANGED <<member, invitations, business, deletions, time>>
  BY DEF acceptInvitation
<1>2. x \in AllHands /\ x.stage = "accepting" /\ x.id = i
  BY DEF AllHands, OtherHands
<1>3. invitations[i] \in InvitationRows
  BY MemberKinds DEF acceptInvitation, Outstanding, MembersInv, MembersTypeOK
<1> HIDE DEF x
<1>4. MayFollow(x) /\ MayLock(h, x)
  BY <1>2, <1>3 DEF MayFollow, MayLock
<1>5. QED
  BY <1>1, <1>2, <1>4, HandMoves

LEMMA BeginsInv ==
  ASSUME MembersInv, NEW h \in Hands, NEW u \in Users, NEW t \in Users, NEW change \in Changes,
         Begins(h, u, t, change)
  PROVE  MembersInv'
<1> DEFINE x == [stage |-> "changing", target |-> t, change |-> change]
<1>1. hand' = [hand EXCEPT ![h] = x] /\ UNCHANGED <<member, invitations, business, deletions, time>>
  BY DEF Begins
<1>2. x \in AllHands /\ x.stage = "changing"
  BY DEF AllHands, ChangingHands
<1> HIDE DEF x
<1>3. QED
  BY <1>1, <1>2, FreeHandMoves

LEMMA StandingHand ==
  ASSUME MembersInv, NEW h \in Hands
  PROVE  /\ hand[h] \in AllHands
         /\ hand[h].stage \in {"changing", "written", "counted", "clearing"} => hand[h] \in ChangingHands
         /\ hand[h].stage = "accepting" => hand[h].id \in InvitationIds /\ invitations[hand[h].id] \in InvitationRows
<1>1. hand[h] \in ChangingHands \cup OtherHands
  BY DEF MembersInv, MembersTypeOK
<1>2. hand[h] \in ChangingHands => hand[h].stage # "accepting"
  BY DEF ChangingHands
<1>3. QED
  BY <1>1, <1>2, MemberKinds DEF AllHands, MembersInv, InvitationsHold

LEMMA WriteInv ==
  ASSUME MembersInv, NEW h \in Hands, WriteMembership(h) PROVE MembersInv'
<1> DEFINE x == [hand[h] EXCEPT !.stage = "written"]
<1>1. UNCHANGED <<member, invitations, business, deletions, time>> /\ hand[h].stage = "changing"
  BY DEF WriteMembership
<1>2. hand[h] \in ChangingHands
  BY <1>1, StandingHand
<1>3. x \in AllHands /\ x.stage = "written" /\ x.target = hand[h].target
  BY <1>2 DEF ChangingHands, AllHands
<1> HIDE DEF x
<1>4. CASE hand' = [hand EXCEPT ![h] = x] /\ Belongs(hand[h].target)
  <2>1. MayFollow(x)
    BY <1>3 DEF MayFollow
  <2>2. MayLock(h, x)
    BY <1>3, <1>4 DEF MayLock, Belongs, WriteMembership, Locked
  <2>3. QED
    BY <1>1, <1>3, <1>4, <2>1, <2>2, HandMoves
<1>5. CASE hand' = [hand EXCEPT ![h] = AtRest]
  BY <1>1, <1>5, RestingHand, FreeHandMoves
<1>6. QED
  BY <1>4, <1>5 DEF WriteMembership, x

LEMMA RetainsInv ==
  ASSUME MembersInv, NEW h \in Hands, retainsAnOwner(h) PROVE MembersInv'
<1> DEFINE x == [hand[h] EXCEPT !.stage = "counted"]
<1>1. UNCHANGED <<member, invitations, business, deletions, time>> /\ hand[h].stage = "written"
  BY DEF retainsAnOwner
<1>2. hand[h] \in ChangingHands
  BY <1>1, StandingHand
<1>3. x \in AllHands /\ x.stage = "counted" /\ x.target = hand[h].target
  BY <1>2 DEF ChangingHands, AllHands
<1> HIDE DEF x
<1>4. CASE hand' = [hand EXCEPT ![h] = x]
  <2>1. MayFollow(x)
    BY <1>3 DEF MayFollow
  <2>2. MayLock(h, x)
    BY <1>1, <1>3 DEF MayLock, MembersInv, LocksHold
  <2>3. QED
    BY <1>1, <1>3, <1>4, <2>1, <2>2, HandMoves
<1>5. CASE hand' = [hand EXCEPT ![h] = AtRest]
  BY <1>1, <1>5, RestingHand, FreeHandMoves
<1>6. hand' = [hand EXCEPT ![h] = x] \/ hand' = [hand EXCEPT ![h] = AtRest]
  BY DEF retainsAnOwner, x
<1>7. QED
  BY <1>4, <1>5, <1>6

LEMMA OtherHandsInv ==
  ASSUME MembersInv, NEW h \in Hands,
         \/ clearActiveBusiness(h) \/ switchBusiness(h)
         \/ \E u \in Users : switchBusinessAction(h, u)
         \/ \E u \in Users, r \in RequestIds : confirmDeletionAction(h, u, r)
  PROVE  MembersInv'
<1>1. CASE clearActiveBusiness(h) \/ switchBusiness(h)
  BY <1>1, RestingHand, FreeHandMoves DEF clearActiveBusiness, switchBusiness
<1>2. ASSUME NEW x \in AllHands, x.stage \in {"switching", "confirming"}, hand' = [hand EXCEPT ![h] = x],
             UNCHANGED <<member, invitations, business, deletions, time>>
      PROVE  MembersInv'
  BY <1>2, FreeHandMoves
<1>3. ASSUME NEW u \in Users, switchBusinessAction(h, u) PROVE MembersInv'
  <2> DEFINE x == [stage |-> "switching", user |-> u]
  <2>1. x \in AllHands /\ x.stage = "switching"
    BY DEF AllHands, OtherHands
  <2>2. hand' = [hand EXCEPT ![h] = x] /\ UNCHANGED <<member, invitations, business, deletions, time>>
    BY <1>3 DEF switchBusinessAction
  <2> HIDE DEF x
  <2>3. QED
    BY <1>2, <2>1, <2>2
<1>4. ASSUME NEW u \in Users, NEW r \in RequestIds, confirmDeletionAction(h, u, r) PROVE MembersInv'
  <2> DEFINE x == [stage |-> "confirming", user |-> u, id |-> r]
  <2>1. x \in AllHands /\ x.stage = "confirming"
    BY DEF AllHands, OtherHands
  <2>2. hand' = [hand EXCEPT ![h] = x] /\ UNCHANGED <<member, invitations, business, deletions, time>>
    BY <1>4 DEF confirmDeletionAction
  <2> HIDE DEF x
  <2>3. QED
    BY <1>2, <2>1, <2>2
<1>5. QED
  BY <1>1, <1>3, <1>4

\* The invitations change one row, made before or now; who is a member through another is not.
LEMMA JoinInv ==
  ASSUME MembersInv, NEW h \in Hands, JoinBusiness(h) PROVE MembersInv'
<1> DEFINE i == hand[h].id
           row == [invitations[i] EXCEPT !.accepted = TRUE]
           to == invitations[i].to
           new == Joined(invitations[i].role, i)
<1>1. /\ hand[h].stage = "accepting" /\ hand' = [hand EXCEPT ![h] = AtRest]
      /\ UNCHANGED <<business, deletions, time>>
  BY DEF JoinBusiness
<1>2. i \in InvitationIds /\ invitations[i] \in InvitationRows
  BY <1>1, StandingHand
<1>3. CASE UNCHANGED <<member, invitations>>
  BY <1>1, <1>3, RestingHand, FreeHandMoves
<1>4. CASE /\ ~invitations[i].accepted /\ ~invitations[i].cancelled /\ ~Belongs(to)
           /\ invitations' = [invitations EXCEPT ![i].accepted = TRUE]
           /\ member' = [member EXCEPT ![to] = new]
  <2>1. /\ row \in InvitationRows /\ row.accepted /\ row.cancelled = invitations[i].cancelled
        /\ to \in Users
    BY <1>2 DEF InvitationRows
  <2>2. new \in MemberRows /\ new.via = i
    <3>1. invitations[i].role \in Roles
      BY <1>2, MembersAssumption DEF InvitationRows
    <3>2. QED
      BY <1>2, <3>1 DEF Joined, MemberRows, GrantSets
  <2>3. /\ member \in [Users -> MemberRows \cup {Nobody}]
        /\ invitations \in [InvitationIds -> InvitationRows \cup {NoInvitation}]
        /\ hand \in [Hands -> AllHands]
    BY DEF MembersInv, MembersTypeOK, AllHands
  <2>4. invitations' = [invitations EXCEPT ![i] = row]
    BY <1>2, <1>4, <2>3
  <2> HIDE DEF row, to, new
  <2>5. \A j \in InvitationIds : invitations'[j] = IF j = i THEN row ELSE invitations[j]
    BY <2>3, <2>4
  <2>6. \A u \in Users : member'[u] = IF u = to THEN new ELSE member[u]
    BY <1>4, <2>3
  <2>7. \A g \in Hands : hand'[g] = IF g = h THEN AtRest ELSE hand[g]
    BY <1>1, <2>3
  <2> HIDE DEF i
  <2>8. MembersTypeOK'
    <3>1. member' \in [Users -> MemberRows \cup {Nobody}]
      BY <1>4, <2>1, <2>2, <2>3
    <3>2. invitations' \in [InvitationIds -> InvitationRows \cup {NoInvitation}]
      BY <2>1, <2>3, <2>4
    <3>3. hand' \in [Hands -> AllHands]
      BY <1>1, <2>3, RestingHand
    <3>4. QED
      BY <1>1, <3>1, <3>2, <3>3 DEF MembersInv, MembersTypeOK, AllHands
  <2>9. InvitationsHold'
    <3>1. ASSUME NEW u \in Users, member'[u] # Nobody, member'[u].via # 0
          PROVE  invitations'[member'[u].via] \in InvitationRows /\ invitations'[member'[u].via].accepted
      <4>1. CASE u = to
        BY <1>2, <2>1, <2>2, <2>5, <2>6, <4>1
      <4>2. CASE u # to
        <5>1. member'[u] = member[u] /\ member[u] \in MemberRows
          BY <2>3, <2>6, <3>1, <4>2
        <5>2. member[u].via \in InvitationIds
          BY <3>1, <5>1 DEF MemberRows
        <5>3. invitations[member[u].via] \in InvitationRows /\ invitations[member[u].via].accepted
          BY <3>1, <5>1 DEF MembersInv, InvitationsHold
        <5>4. QED
          BY <2>1, <2>5, <5>1, <5>2, <5>3
      <4>3. QED
        BY <4>1, <4>2
    <3>2. ASSUME NEW j \in InvitationIds, invitations'[j] \in InvitationRows
          PROVE  ~(invitations'[j].accepted /\ invitations'[j].cancelled)
      BY <1>4, <2>1, <2>5, <3>2 DEF MembersInv, InvitationsHold
    <3>3. ASSUME NEW g \in Hands, hand'[g].stage = "accepting"
          PROVE  invitations'[hand'[g].id] \in InvitationRows
      <4>1. hand'[g] = hand[g]
        BY <2>7, <3>3, RestingHand
      <4>2. hand[g].id \in InvitationIds /\ invitations[hand[g].id] \in InvitationRows
        BY <3>3, <4>1, StandingHand
      <4>3. QED
        BY <2>1, <2>5, <4>1, <4>2
    <3>4. QED
      BY <3>1, <3>2, <3>3 DEF InvitationsHold
  <2>10. LocksHold'
    <3>1. \A u \in Users : member[u] # Nobody => member'[u] # Nobody
      BY <2>2, <2>6, MemberKinds
    <3>2. \A g \in Hands : hand'[g].stage \in {"written", "counted"} => hand'[g] = hand[g] /\ hand[g].target \in Users
      <4>1. ASSUME NEW g \in Hands, hand'[g].stage \in {"written", "counted"}
            PROVE  hand'[g] = hand[g] /\ hand[g].target \in Users
        <5>1. hand'[g] = hand[g]
          BY <2>7, <4>1, RestingHand
        <5>2. hand[g] \in ChangingHands
          BY <4>1, <5>1, StandingHand
        <5>3. QED
          BY <5>1, <5>2 DEF ChangingHands
      <4>2. QED
        BY <4>1
    <3>3. QED
      BY <3>1, <3>2 DEF MembersInv, LocksHold
  <2>11. DeletionHolds'
    BY <1>1 DEF MembersInv, DeletionHolds
  <2>12. QED
    BY <2>8, <2>9, <2>10, <2>11 DEF MembersInv
<1>5. QED
  <2>1. \/ UNCHANGED <<member, invitations>>
        \/ /\ ~invitations[i].accepted /\ ~invitations[i].cancelled /\ ~Belongs(to)
           /\ invitations' = [invitations EXCEPT ![i].accepted = TRUE]
           /\ member' = [member EXCEPT ![to] = new]
    BY DEF JoinBusiness
  <2>2. QED
    BY <1>3, <1>4, <2>1

\* A membership is changed or goes away; who remains came as before.
LEMMA ChangedKinds ==
  ASSUME NEW row \in MemberRows, NEW change \in Changes
  PROVE  /\ Changed(row, change) \in MemberRows \cup {Nobody}
         /\ Changed(row, change) # Nobody => Changed(row, change).via = row.via
<1>1. CASE change = "suspend"
  BY <1>1 DEF Changed, MemberRows
<1>2. CASE change = "reinstate"
  BY <1>2 DEF Changed, MemberRows
<1>3. CASE change = "remove"
  BY <1>3 DEF Changed
<1>4. CASE change \notin {"suspend", "reinstate", "remove"}
  <2> DEFINE g == resolveGrants(change)
  <2>1. change \in Roles /\ g \in GrantSets
    BY <1>4 DEF Changes, GrantSets
  <2>2. Changed(row, change) = [row EXCEPT !.role = change, !.grants = g]
    BY <1>4 DEF Changed
  <2> HIDE DEF g
  <2>3. QED
    BY <2>1, <2>2 DEF MemberRows
<1>5. QED
  BY <1>1, <1>2, <1>3, <1>4

LEMMA CommitInv ==
  ASSUME MembersInv, NEW h \in Hands, CommitMembership(h) PROVE MembersInv'
<1> DEFINE t == hand[h].target
           change == hand[h].change
           new == Changed(member[t], change)
           x == IF change = "remove" THEN [hand[h] EXCEPT !.stage = "clearing"] ELSE AtRest
<1>1. /\ hand[h].stage = "counted" /\ UNCHANGED <<invitations, business, deletions, time>>
      /\ member' = [member EXCEPT ![t] = new] /\ hand' = [hand EXCEPT ![h] = x]
  BY DEF CommitMembership
<1>2. hand[h] \in ChangingHands
  BY <1>1, StandingHand
<1>3. t \in Users /\ change \in Changes
  BY <1>2 DEF ChangingHands
<1>4. /\ member \in [Users -> MemberRows \cup {Nobody}] /\ hand \in [Hands -> AllHands]
      /\ member[t] \in MemberRows
  BY <1>1, <1>3 DEF MembersInv, MembersTypeOK, LocksHold, AllHands
<1>5. new \in MemberRows \cup {Nobody} /\ (new # Nobody => new.via = member[t].via)
  BY <1>3, <1>4, ChangedKinds
<1>6. x \in AllHands /\ x.stage \in {"clearing", "idle"}
  BY <1>2, RestingHand DEF ChangingHands, AllHands
<1> HIDE DEF new, x
<1>7. \A u \in Users : member'[u] = IF u = t THEN new ELSE member[u]
  BY <1>1, <1>4
<1>8. \A g \in Hands : hand'[g] = IF g = h THEN x ELSE hand[g]
  BY <1>1, <1>4
<1>9. MembersTypeOK'
  <2>1. member' \in [Users -> MemberRows \cup {Nobody}]
    BY <1>1, <1>4, <1>5
  <2>2. hand' \in [Hands -> AllHands]
    BY <1>1, <1>4, <1>6
  <2>3. QED
    BY <1>1, <2>1, <2>2 DEF MembersInv, MembersTypeOK, AllHands
<1>10. InvitationsHold'
  <2>1. ASSUME NEW u \in Users, member'[u] # Nobody, member'[u].via # 0
        PROVE  invitations[member'[u].via] \in InvitationRows /\ invitations[member'[u].via].accepted
    <3>1. member[u] # Nobody /\ member[u].via = member'[u].via
      BY <1>4, <1>5, <1>7, <2>1, MemberKinds
    <3>2. QED
      BY <2>1, <3>1 DEF MembersInv, InvitationsHold
  <2>2. QED
    BY <1>1, <1>6, <1>8, <2>1 DEF MembersInv, InvitationsHold
<1>11. LocksHold'
  <2>1. ASSUME NEW g \in Hands, hand'[g].stage \in {"written", "counted"}
        PROVE  /\ g # h /\ hand'[g] = hand[g] /\ member'[hand[g].target] # Nobody
    <3>1. g # h /\ hand'[g] = hand[g]
      BY <1>6, <1>8, <2>1
    <3>2. hand[g] \in ChangingHands
      BY <2>1, <3>1, StandingHand
    <3>3. hand[g].target \in Users /\ hand[g].target # t /\ member[hand[g].target] # Nobody
      BY <1>1, <2>1, <3>1, <3>2 DEF ChangingHands, MembersInv, LocksHold
    <3>4. QED
      BY <1>7, <3>1, <3>3
  <2>2. QED
    BY <2>1 DEF MembersInv, LocksHold
<1>12. DeletionHolds'
  BY <1>1 DEF MembersInv, DeletionHolds
<1>13. QED
  BY <1>9, <1>10, <1>11, <1>12 DEF MembersInv

\* An invitation is made where there was none, or withdrawn before anyone came by it.
LEMMA InvitationsInv ==
  ASSUME MembersInv, NEW i \in InvitationIds, NEW row \in InvitationRows,
         invitations' = [invitations EXCEPT ![i] = row],
         UNCHANGED <<member, hand, business, deletions, time>>,
         invitations[i] \in InvitationRows => ~invitations[i].accepted,
         ~row.accepted
  PROVE  MembersInv'
<1>1. invitations \in [InvitationIds -> InvitationRows \cup {NoInvitation}]
  BY DEF MembersInv, MembersTypeOK
<1>2. \A j \in InvitationIds : invitations'[j] = IF j = i THEN row ELSE invitations[j]
  BY <1>1
<1>3. MembersTypeOK'
  BY <1>1 DEF MembersInv, MembersTypeOK
<1>4. InvitationsHold'
  <2>1. ASSUME NEW u \in Users, member[u] # Nobody, member[u].via # 0
        PROVE  invitations'[member[u].via] \in InvitationRows /\ invitations'[member[u].via].accepted
    <3>1. member[u] \in MemberRows
      BY <2>1 DEF MembersInv, MembersTypeOK
    <3>2. member[u].via \in InvitationIds
      BY <2>1, <3>1 DEF MemberRows
    <3>3. invitations[member[u].via] \in InvitationRows /\ invitations[member[u].via].accepted
      BY <2>1 DEF MembersInv, InvitationsHold
    <3>4. QED
      BY <1>2, <3>2, <3>3
  <2>2. ASSUME NEW j \in InvitationIds, invitations'[j] \in InvitationRows
        PROVE  ~(invitations'[j].accepted /\ invitations'[j].cancelled)
    BY <1>2, <2>2 DEF MembersInv, InvitationsHold
  <2>3. ASSUME NEW g \in Hands, hand[g].stage = "accepting"
        PROVE  invitations'[hand[g].id] \in InvitationRows
    BY <1>2, <2>3, StandingHand
  <2>4. QED
    BY <2>1, <2>2, <2>3 DEF InvitationsHold
<1>5. LocksHold' /\ DeletionHolds'
  BY DEF MembersInv, LocksHold, DeletionHolds
<1>6. QED
  BY <1>3, <1>4, <1>5 DEF MembersInv

LEMMA InviteInv ==
  ASSUME MembersInv, NEW u \in Users, NEW invitee \in Users, NEW role \in GivenRoles,
         inviteMemberAction(u, invitee, role)
  PROVE  MembersInv'
<1> DEFINE free == {i \in InvitationIds : ~invitations[i].made}
           i == First(free)
           row == [made |-> TRUE, to |-> invitee, role |-> role, accepted |-> FALSE,
                   cancelled |-> FALSE, expiresAt |-> time + 1]
<1>1. /\ free # {} /\ invitations' = [invitations EXCEPT ![i] = row]
      /\ UNCHANGED <<member, hand, business, deletions, time>>
  BY DEF inviteMemberAction
<1>2. free \in SUBSET Nat
  BY MembersAssumption
<1>3. i \in free
  BY <1>1, <1>2, FirstIsThere
<1>4. i \in InvitationIds /\ invitations[i] \notin InvitationRows
  BY <1>3, MemberKinds DEF MembersInv, MembersTypeOK
<1>5. time + 1 \in Int
  BY DEF MembersInv, MembersTypeOK
<1>6. row \in InvitationRows /\ ~row.accepted
  BY <1>5 DEF InvitationRows
<1> HIDE DEF row, i, free
<1>7. QED
  BY <1>1, <1>4, <1>6, InvitationsInv

LEMMA CancelInv ==
  ASSUME MembersInv, NEW u \in Users, NEW i \in InvitationIds, cancelInvitationAction(u, i)
  PROVE  MembersInv'
<1> DEFINE row == [invitations[i] EXCEPT !.cancelled = TRUE]
<1>1. /\ Outstanding(i) /\ invitations' = [invitations EXCEPT ![i].cancelled = TRUE]
      /\ UNCHANGED <<member, hand, business, deletions, time>>
  BY DEF cancelInvitationAction
<1>2. invitations \in [InvitationIds -> InvitationRows \cup {NoInvitation}]
  BY DEF MembersInv, MembersTypeOK
<1>3. invitations[i] \in InvitationRows /\ ~invitations[i].accepted
  BY <1>1, <1>2, MemberKinds DEF Outstanding
<1>4. row \in InvitationRows /\ row.accepted = invitations[i].accepted
  BY <1>3 DEF InvitationRows
<1>5. invitations' = [invitations EXCEPT ![i] = row]
  BY <1>1, <1>2
<1> HIDE DEF row
<1>6. QED
  BY <1>1, <1>3, <1>4, <1>5, InvitationsInv

\* One request for deletion is made, cancelled or confirmed.
LEMMA DeletionInv ==
  ASSUME MembersInv, NEW r \in RequestIds, NEW row \in DeletionRows, deletions' = [deletions EXCEPT ![r] = row],
         ~(row.confirmed /\ row.cancelled),
         IF business' = business THEN deletions[r] \in DeletionRows => (deletions[r].confirmed => row.confirmed)
                                 ELSE business'.via = r /\ row.confirmed,
         UNCHANGED <<member, invitations, time>>,
         hand' = hand \/ \E h \in Hands : hand' = [hand EXCEPT ![h] = AtRest]
  PROVE  MembersInv'
<1>1. hand \in [Hands -> AllHands] /\ deletions \in [RequestIds -> DeletionRows \cup {NoRequest}]
  BY DEF MembersInv, MembersTypeOK, AllHands
<1>2. hand' \in [Hands -> AllHands] /\ deletions' \in [RequestIds -> DeletionRows \cup {NoRequest}]
  BY <1>1, RestingHand
<1>3. \A g \in Hands : hand'[g] = hand[g] \/ hand'[g] = AtRest
  BY <1>1
<1>4. MembersTypeOK'
  BY <1>2 DEF MembersInv, MembersTypeOK, AllHands
<1>5. InvitationsHold'
  BY <1>3, RestingHand DEF MembersInv, InvitationsHold
<1>6. LocksHold'
  BY <1>3, RestingHand DEF MembersInv, LocksHold
<1>7. DeletionHolds'
  <2>1. \A q \in RequestIds : deletions'[q] = IF q = r THEN row ELSE deletions[q]
    BY <1>1
  <2>2. \A q \in RequestIds : deletions'[q] \in DeletionRows => ~(deletions'[q].confirmed /\ deletions'[q].cancelled)
    BY <2>1 DEF MembersInv, DeletionHolds
  <2>3. business'.status = "deleted" =>
          /\ business'.via \in RequestIds
          /\ deletions'[business'.via] \in DeletionRows /\ deletions'[business'.via].confirmed
    <3>1. CASE business' = business
      BY <2>1, <3>1 DEF MembersInv, DeletionHolds
    <3>2. CASE business' # business
      BY <2>1, <3>2
    <3>3. QED
      BY <3>1, <3>2
  <2>4. QED
    BY <2>2, <2>3 DEF DeletionHolds
<1>8. QED
  BY <1>4, <1>5, <1>6, <1>7 DEF MembersInv

LEMMA OpenRequestKind ==
  ASSUME MembersInv, NEW r \in RequestIds, OpenRequest(r)
  PROVE  deletions[r] \in DeletionRows /\ ~deletions[r].confirmed /\ ~deletions[r].cancelled
  BY MemberKinds DEF MembersInv, MembersTypeOK, OpenRequest

LEMMA ConfirmInv ==
  ASSUME MembersInv, NEW h \in Hands, confirm(h) PROVE MembersInv'
<1>1. hand' = [hand EXCEPT ![h] = AtRest] /\ UNCHANGED <<member, invitations, time>> /\ hand[h].stage = "confirming"
  BY DEF confirm
<1>2. PICK r \in RequestIds : r = hand[h].id
  <2>1. hand[h] \in OtherHands
    BY <1>1 DEF MembersInv, MembersTypeOK, ChangingHands
  <2>2. QED
    BY <1>1, <2>1, MemberKinds
<1> DEFINE row == [deletions[r] EXCEPT !.confirmed = TRUE]
<1>3. CASE OpenRequest(r)
  <2>1. deletions' = [deletions EXCEPT ![r] = row] /\ business'.via = r
    BY <1>2, <1>3 DEF confirm, eraseAndSoftDelete
  <2>2. row \in DeletionRows /\ row.confirmed /\ ~row.cancelled
    BY <1>3, OpenRequestKind DEF DeletionRows
  <2> HIDE DEF row
  <2>3. QED
    BY <1>1, <2>1, <2>2, DeletionInv
<1>4. CASE ~OpenRequest(r)
  <2>1. UNCHANGED <<deletions, business>>
    BY <1>2, <1>4 DEF confirm
  <2>2. QED
    BY <1>1, <2>1, RestingHand, FreeHandMoves
<1>5. QED
  BY <1>3, <1>4

LEMMA RequestDeletionInv ==
  ASSUME MembersInv, NEW u \in Users, NEW right \in BOOLEAN, requestDeletionAction(u, right)
  PROVE  MembersInv'
<1> DEFINE Free == {r \in RequestIds : ~deletions[r].made}
           row == [made |-> TRUE, confirmed |-> FALSE, cancelled |-> FALSE, expiresAt |-> time + 1]
<1>1. /\ Free # {} /\ deletions' = [deletions EXCEPT ![First(Free)] = row]
      /\ UNCHANGED <<member, invitations, hand, business, time>>
  BY DEF requestDeletionAction
<1>2. Free \in SUBSET Nat
  BY MembersAssumption
<1>3. PICK r \in RequestIds : r = First(Free) /\ ~deletions[r].made
  <2>1. First(Free) \in Free
    <3> HIDE DEF Free
    <3>1. QED
      BY <1>1, <1>2, FirstIsThere
  <2>2. QED
    BY <2>1
<1>4. time + 1 \in Int
  BY DEF MembersInv, MembersTypeOK
<1>5. row \in DeletionRows /\ ~row.confirmed
  BY <1>4 DEF DeletionRows
<1>6. deletions' = [deletions EXCEPT ![r] = row] /\ deletions[r] \notin DeletionRows
  BY <1>1, <1>3, MemberKinds
<1> HIDE DEF row
<1>7. QED
  BY <1>1, <1>5, <1>6, DeletionInv

LEMMA CancelDeletionInv ==
  ASSUME MembersInv, NEW u \in Users, NEW r \in RequestIds, cancelDeletionAction(u, r)
  PROVE  MembersInv'
<1> DEFINE row == [deletions[r] EXCEPT !.cancelled = TRUE]
<1>1. /\ deletions' = [deletions EXCEPT ![r] = row] /\ OpenRequest(r)
      /\ UNCHANGED <<member, invitations, hand, business, time>>
  BY DEF cancelDeletionAction
<1>2. row \in DeletionRows /\ ~row.confirmed /\ ~deletions[r].confirmed
  BY <1>1, OpenRequestKind DEF DeletionRows
<1> HIDE DEF row
<1>3. QED
  BY <1>1, <1>2, DeletionInv

LEMMA MembersRestInv ==
  ASSUME MembersInv, UNCHANGED <<member, invitations, hand, business, deletions>>, time' \in Nat
  PROVE  MembersInv'
<1>1. MembersTypeOK'
  BY DEF MembersInv, MembersTypeOK
<1>2. InvitationsHold' /\ LocksHold' /\ DeletionHolds'
  BY DEF MembersInv, InvitationsHold, LocksHold, DeletionHolds
<1>3. QED
  BY <1>1, <1>2 DEF MembersInv

LEMMA MembersInitInv == ASSUME MembersInit PROVE MembersInv
<1>1. Joined("owner", 0) \in MemberRows /\ Joined("owner", 0).via = 0
  <2>1. "owner" \in Roles
    BY DEF Roles
  <2>2. QED
    BY <2>1 DEF Joined, MemberRows, GrantSets
<1>2. \A u \in Users : member[u] = Nobody \/ (member[u] \in MemberRows /\ member[u].via = 0)
  BY <1>1 DEF MembersInit, createBusiness
<1>3. MembersTypeOK
  <2>1. member \in [Users -> MemberRows \cup {Nobody}]
    BY <1>1 DEF MembersInit, createBusiness
  <2>2. QED
    BY <2>1, RestingHand DEF MembersInit, MembersTypeOK, AllHands
<1>4. InvitationsHold
  BY <1>2, RestingHand, MemberKinds DEF MembersInit, InvitationsHold, NoInvitation
<1>5. LocksHold
  BY RestingHand DEF MembersInit, LocksHold
<1>6. DeletionHolds
  <2>1. NoRequest \notin DeletionRows
    BY MemberKinds DEF NoRequest
  <2>2. QED
    BY <2>1 DEF MembersInit, createBusiness, DeletionHolds
<1>7. QED
  BY <1>3, <1>4, <1>5, <1>6 DEF MembersInv

LEMMA MembersNextInv == ASSUME MembersInv, [MembersNext]_memberVars PROVE MembersInv'
<1>1. ASSUME NEW h \in Hands, MemberStep(h) PROVE MembersInv'
  <2>1. ASSUME NEW u \in Users, NEW target \in Users, NEW role \in GivenRoles,
               changeRoleAction(h, u, target, role)
        PROVE  MembersInv'
    <3>1. role \in Changes
      BY MembersAssumption DEF Changes
    <3>2. QED
      BY <2>1, <3>1, BeginsInv DEF changeRoleAction
  <2>2. ASSUME NEW u \in Users, NEW target \in Users, NEW suspend \in BOOLEAN,
               setMembershipStatusAction(h, u, target, suspend)
        PROVE  MembersInv'
    <3> DEFINE change == IF suspend THEN "suspend" ELSE "reinstate"
    <3>1. change \in Changes
      BY DEF Changes
    <3>2. Begins(h, u, target, change)
      BY <2>2 DEF setMembershipStatusAction
    <3> HIDE DEF change
    <3>3. QED
      BY <3>1, <3>2, BeginsInv
  <2>3. ASSUME NEW u \in Users, NEW target \in Users, removeMemberAction(h, u, target) PROVE MembersInv'
    <3>1. "remove" \in Changes
      BY DEF Changes
    <3>2. QED
      BY <2>3, <3>1, BeginsInv DEF removeMemberAction
  <2>4. ASSUME NEW i \in InvitationIds, acceptInvitation(h, i) PROVE MembersInv'
    BY <2>4, AcceptInv
  <2>5. QED
    BY <1>1, <2>1, <2>2, <2>3, <2>4, WriteInv, RetainsInv, CommitInv, OtherHandsInv, JoinInv, ConfirmInv
       DEF MemberStep
<1>2. ASSUME NEW u \in Users, NEW invitee \in Users, NEW role \in GivenRoles,
             inviteMemberAction(u, invitee, role)
      PROVE  MembersInv'
  BY <1>2, InviteInv
<1>3. ASSUME NEW u \in Users, NEW i \in InvitationIds, cancelInvitationAction(u, i) PROVE MembersInv'
  BY <1>3, CancelInv
<1>4. ASSUME NEW u \in Users, NEW right \in BOOLEAN, requestDeletionAction(u, right) PROVE MembersInv'
  BY <1>4, RequestDeletionInv
<1>9. ASSUME NEW u \in Users, NEW r \in RequestIds, cancelDeletionAction(u, r) PROVE MembersInv'
  BY <1>9, CancelDeletionInv
<1>5. ASSUME NEW u \in Users, Reauthenticates(u) PROVE MembersInv'
  BY <1>5, MembersRestInv DEF Reauthenticates, MembersInv, MembersTypeOK
<1>6. CASE TimePasses
  BY <1>6, MembersRestInv DEF TimePasses, MembersInv, MembersTypeOK
<1>7. CASE UNCHANGED memberVars
  BY <1>7, MembersRestInv DEF memberVars, MembersInv, MembersTypeOK
<1>10. QED
  BY <1>1, <1>2, <1>3, <1>4, <1>5, <1>6, <1>7, <1>9 DEF MembersNext

\* Whatever requests were following an invitation or the link of a deletion when it was
\* withdrawn, nobody joins and nothing is deleted through it, another request for deletion being
\* open or not (memberships.ts, deletion.ts).
THEOREM WithdrawalIsFinal == MembersSpec => []CancelledIsFinal
<1>1. MembersInit => MembersInv
  BY MembersInitInv
<1>2. MembersInv /\ [MembersNext]_memberVars => MembersInv'
  BY MembersNextInv
<1>3. MembersInv => CancelledIsFinal
  <2> SUFFICES ASSUME MembersInv PROVE CancelledIsFinal
    OBVIOUS
  <2>1. ASSUME NEW u \in Users, Belongs(u), member[u].via # 0
        PROVE  ~invitations[member[u].via].cancelled
    <3>1. member[u] \in MemberRows
      BY <2>1 DEF MembersInv, MembersTypeOK, Belongs
    <3>2. member[u].via \in InvitationIds
      BY <2>1, <3>1 DEF MemberRows
    <3>3. invitations[member[u].via] \in InvitationRows /\ invitations[member[u].via].accepted
      BY <2>1 DEF MembersInv, InvitationsHold, Belongs
    <3>4. QED
      BY <3>2, <3>3 DEF MembersInv, InvitationsHold
  <2>2. business.status = "deleted" => ~deletions[business.via].cancelled
    BY DEF MembersInv, DeletionHolds
  <2>3. QED
    BY <2>1, <2>2 DEF CancelledIsFinal
<1>4. QED
  BY <1>1, <1>2, <1>3, PTL DEF MembersSpec

-------------------------------------------------------------------------------
(* Signing in.                                                                *)

Methods == {"magic_link", "email_code"}
ChallengeRows ==
  [live : {TRUE}, method : Methods, known : BOOLEAN, consumed : BOOLEAN, superseded : BOOLEAN,
   attempts : 0..maxAttempts, sentAt : Int, expiresAt : Int, resendCount : Int]
CeremonyRows ==
  [live : {TRUE}, kind : {"registration", "authentication"}, consumed : BOOLEAN, expiresAt : Int]
TotpRows == [status : {"none", "pending", "active"}, seed : 0..MaxSeeds, last : Int]
CodeStates == {"unissued", "live", "consumed", "invalidated"}
BootstrapRows == [open : BOOLEAN, link : BOOLEAN, expiresAt : Int, failed : BOOLEAN]

PlainRequests == [stage : {"idle", "admitted", "establishing", "issuing", "disabling", "closing"}]
MailRequests == [stage : {"superseding", "inserting"}, method : Methods, resent : Int]
GuessRequests ==
  [stage : {"failing", "counting", "consuming", "clearing", "establishing"}, id : ChallengeIds]
DelayRequests == [stage : {"delaying"}, count : Int]
StepRequests ==
  [stage : {"stepping", "admitted", "activating", "disabling"}, step : 0..MaxClock + 1,
   seed : 0..MaxSeeds, last : Int, then : {"admitted", "activating", "disabling"},
   session : SessionIds \cup {0}]
CounterRequests == [stage : {"counted"}, counter : Int]
Requests ==
  PlainRequests \cup MailRequests \cup GuessRequests \cup DelayRequests \cup StepRequests
  \cup CounterRequests

CodesTypeOK ==
  /\ clock \in Nat /\ hasAccount \in BOOLEAN
  /\ challenges \in [ChallengeIds -> ChallengeRows \cup {NoChallenge}]
  /\ guessed \in [ChallengeIds -> Nat]
  /\ pressure \in [failures : Nat, next : Int]
RequestsTypeOK == request \in [Callers -> Requests]
FactorTypeOK == totp \in TotpRows /\ recovery \in [RecoveryCodes -> CodeStates]
PasskeyTypeOK ==
  /\ ceremonies \in [ChallengeIds -> CeremonyRows \cup {NoChallenge}]
  /\ credential \in [registered : BOOLEAN, signCount : Int, device : Int]
SetupTypeOK == bootstrap \in BootstrapRows
AcceptedTypeOK == accepted \in [Proofs -> Nat]

\* What was accepted once is spent, by the row that says so.
ChallengeOnce ==
  \A i \in ChallengeIds : accepted[<<"challenge", i>>] > 0 =>
    /\ accepted[<<"challenge", i>>] = 1
    /\ challenges[i] \in ChallengeRows /\ challenges[i].consumed
PasskeyOnce ==
  \A i \in ChallengeIds : accepted[<<"passkey", i>>] > 0 =>
    /\ accepted[<<"passkey", i>>] = 1
    /\ ceremonies[i] \in CeremonyRows /\ ceremonies[i].consumed
RecoveryOnce ==
  \A r \in RecoveryCodes : accepted[<<"recovery", r>>] > 0 =>
    accepted[<<"recovery", r>>] = 1 /\ recovery[r] = "consumed"
SetupOnce == accepted[<<"setup", 0>>] > 0 => accepted[<<"setup", 0>>] = 1 /\ ~bootstrap.open

\* No step of a seed to come was accepted; of the seed enrolled now, once and not above the
\* last step used, which a credential that was taken away no longer knows.
StepTimes(s, k) == accepted[<<"step", <<s, k>>>>]
StepsOnce ==
  /\ \A s \in 0..MaxSeeds, k \in 0..MaxClock + 1 : s > totp.seed => StepTimes(s, k) = 0
  /\ \A k \in 0..MaxClock + 1 : StepTimes(totp.seed, k) > 0 =>
       StepTimes(totp.seed, k) = 1 /\ (totp.status # "none" => k <= totp.last)
\* A step that was read is above the last one of the reading.
StepRead(x) == x.stage = "stepping" => x.seed <= totp.seed /\ x.step > x.last
StepsRead == \A c \in Callers : StepRead(request[c])

\* While attempts are left, every wrong guess is counted or about to be.
Counting(i) == {c \in Callers : request[c].stage = "counting" /\ request[c].id = i}
Guesses ==
  /\ \A i \in ChallengeIds :
       IF challenges[i] \in ChallengeRows
         THEN /\ guessed[i] <= maxAttempts + Cardinality(Callers) - 1
              /\ challenges[i].attempts < maxAttempts =>
                   guessed[i] <= challenges[i].attempts + Cardinality(Counting(i))
         ELSE guessed[i] = 0
  /\ \A c \in Callers : request[c].stage = "counting" => challenges[request[c].id] \in ChallengeRows

SignInTypes ==
  /\ CodesTypeOK /\ RequestsTypeOK /\ FactorTypeOK /\ PasskeyTypeOK /\ SetupTypeOK /\ AcceptedTypeOK
SpentInv == ChallengeOnce /\ PasskeyOnce /\ RecoveryOnce /\ SetupOnce /\ StepsOnce /\ StepsRead
SignInInv == SignInTypes /\ SpentInv /\ Guesses

LEMMA ProofsThere ==
  /\ \A i \in ChallengeIds : <<"challenge", i>> \in Proofs /\ <<"passkey", i>> \in Proofs
  /\ \A r \in RecoveryCodes : <<"recovery", r>> \in Proofs
  /\ \A s \in 0..MaxSeeds, k \in 0..MaxClock + 1 : <<"step", <<s, k>>>> \in Proofs
  /\ <<"setup", 0>> \in Proofs
<1>1. \A i \in ChallengeIds : <<"challenge", i>> \in Proofs /\ <<"passkey", i>> \in Proofs
  BY DEF Proofs
<1>2. \A r \in RecoveryCodes : <<"recovery", r>> \in Proofs
  BY DEF Proofs
<1>3. \A s \in 0..MaxSeeds, k \in 0..MaxClock + 1 : <<"step", <<s, k>>>> \in Proofs
  BY DEF Proofs
<1>4. <<"setup", 0>> \in Proofs
  BY DEF Proofs
<1>5. QED
  BY <1>1, <1>2, <1>3, <1>4

LEMMA RequestKinds ==
  \A x \in Requests :
    /\ x.stage \in {"superseding", "inserting"} => x \in MailRequests
    /\ x.stage \in {"failing", "counting", "consuming", "clearing"} => x \in GuessRequests
    /\ x.stage = "delaying" => x \in DelayRequests
    /\ x.stage \in {"stepping", "activating"} => x \in StepRequests
<1> SUFFICES ASSUME NEW x \in Requests
             PROVE  /\ x.stage \in {"superseding", "inserting"} => x \in MailRequests
                    /\ x.stage \in {"failing", "counting", "consuming", "clearing"} => x \in GuessRequests
                    /\ x.stage = "delaying" => x \in DelayRequests
                    /\ x.stage \in {"stepping", "activating"} => x \in StepRequests
  OBVIOUS
<1>1. x \in PlainRequests => x.stage \in {"idle", "admitted", "establishing", "issuing", "disabling", "closing"}
  BY DEF PlainRequests
<1>2. x \in MailRequests => x.stage \in {"superseding", "inserting"}
  BY DEF MailRequests
<1>3. x \in GuessRequests => x.stage \in {"failing", "counting", "consuming", "clearing", "establishing"}
  BY DEF GuessRequests
<1>4. x \in DelayRequests => x.stage = "delaying"
  BY DEF DelayRequests
<1>5. x \in StepRequests => x.stage \in {"stepping", "admitted", "activating", "disabling"}
  BY DEF StepRequests
<1>6. x \in CounterRequests => x.stage = "counted"
  BY DEF CounterRequests
<1>7. QED
  BY <1>1, <1>2, <1>3, <1>4, <1>5, <1>6 DEF Requests

LEMMA PlainKinds ==
  /\ \A s \in {"idle", "admitted", "establishing", "issuing", "disabling", "closing"} :
       [stage |-> s] \in Requests /\ [stage |-> s].stage = s
  /\ Quiet \in Requests /\ Quiet.stage = "idle"
<1>1. \A s \in {"idle", "admitted", "establishing", "issuing", "disabling", "closing"} :
        [stage |-> s] \in PlainRequests /\ [stage |-> s].stage = s
  BY DEF PlainRequests
<1>2. QED
  BY <1>1 DEF Requests, Quiet

LEMMA SignInConstants ==
  /\ maxAttempts \in Nat \ {0} /\ MaxSeeds \in Nat \ {0} /\ MaxClock \in Nat
  /\ ChallengeIds \subseteq Nat /\ IsFiniteSet(Callers) /\ Cardinality(Callers) \in Nat
  /\ {CodeTtl, ResendCooldown, StepUpTtl, IdleTtl, AbsoluteTtl, PendingTtl} \subseteq Nat
  BY SignInAssumption, FS_CardinalityType

\* The proofs of one kind are accepted no more often than before.
Kept(kind) == \A p \in Proofs : p[1] = kind => accepted'[p] = accepted[p]

LEMMA AcceptKeeps ==
  ASSUME SignInInv, NEW kind, NEW what, <<kind, what>> \in Proofs, Accept(<<kind, what>>)
  PROVE  /\ AcceptedTypeOK'
         /\ accepted'[<<kind, what>>] = accepted[<<kind, what>>] + 1
         /\ \A p \in Proofs : p # <<kind, what>> => accepted'[p] = accepted[p]
         /\ \A other : other # kind => Kept(other)
<1> DEFINE q == <<kind, what>>
<1>1. accepted \in [Proofs -> Nat] /\ q \in Proofs /\ q[1] = kind
  BY DEF SignInInv, SignInTypes, AcceptedTypeOK
<1>2. accepted' = [accepted EXCEPT ![q] = @ + 1]
  BY DEF Accept
<1> HIDE DEF q
<1>3. accepted' \in [Proofs -> Nat] /\ accepted'[q] = accepted[q] + 1
  BY <1>1, <1>2
<1>4. \A p \in Proofs : p # q => accepted'[p] = accepted[p]
  BY <1>1, <1>2
<1>5. \A other : other # kind => Kept(other)
  BY <1>1, <1>4 DEF Kept
<1>6. QED
  BY <1>3, <1>4, <1>5 DEF q, AcceptedTypeOK

LEMMA KeptAll == ASSUME UNCHANGED accepted PROVE \A kind : Kept(kind)
  BY DEF Kept

\* A request that is not counting moves on without counting.
Aside == \A c \in Callers : \/ request'[c] = request[c]
                            \/ request[c].stage # "counting" /\ request'[c].stage # "counting"

LEMMA OnceFrames ==
  ASSUME SignInInv
  PROVE  /\ UNCHANGED challenges /\ Kept("challenge") => ChallengeOnce'
         /\ UNCHANGED ceremonies /\ Kept("passkey") => PasskeyOnce'
         /\ UNCHANGED recovery /\ Kept("recovery") => RecoveryOnce'
         /\ UNCHANGED bootstrap /\ Kept("setup") => SetupOnce'
         /\ UNCHANGED totp /\ Kept("step") => StepsOnce'
<1>1. ASSUME UNCHANGED challenges, Kept("challenge") PROVE ChallengeOnce'
  <2>1. \A i \in ChallengeIds : accepted'[<<"challenge", i>>] = accepted[<<"challenge", i>>]
    BY <1>1, ProofsThere DEF Kept
  <2>2. QED
    BY <1>1, <2>1 DEF SignInInv, SpentInv, ChallengeOnce
<1>2. ASSUME UNCHANGED ceremonies, Kept("passkey") PROVE PasskeyOnce'
  <2>1. \A i \in ChallengeIds : accepted'[<<"passkey", i>>] = accepted[<<"passkey", i>>]
    BY <1>2, ProofsThere DEF Kept
  <2>2. QED
    BY <1>2, <2>1 DEF SignInInv, SpentInv, PasskeyOnce
<1>3. ASSUME UNCHANGED recovery, Kept("recovery") PROVE RecoveryOnce'
  <2>1. \A r \in RecoveryCodes : accepted'[<<"recovery", r>>] = accepted[<<"recovery", r>>]
    BY <1>3, ProofsThere DEF Kept
  <2>2. QED
    BY <1>3, <2>1 DEF SignInInv, SpentInv, RecoveryOnce
<1>4. ASSUME UNCHANGED bootstrap, Kept("setup") PROVE SetupOnce'
  <2>1. accepted'[<<"setup", 0>>] = accepted[<<"setup", 0>>]
    BY <1>4, ProofsThere DEF Kept
  <2>2. QED
    BY <1>4, <2>1 DEF SignInInv, SpentInv, SetupOnce
<1>5. ASSUME UNCHANGED totp, Kept("step") PROVE StepsOnce'
  <2>1. \A s \in 0..MaxSeeds, k \in 0..MaxClock + 1 :
          accepted'[<<"step", <<s, k>>>>] = accepted[<<"step", <<s, k>>>>]
    BY <1>5, ProofsThere DEF Kept
  <2>2. totp.seed \in 0..MaxSeeds
    BY DEF SignInInv, SignInTypes, FactorTypeOK, TotpRows
  <2>3. QED
    BY <1>5, <2>1, <2>2 DEF SignInInv, SpentInv, StepsOnce, StepTimes
<1>6. QED
  BY <1>1, <1>2, <1>3, <1>4, <1>5

LEMMA GuessFrame ==
  ASSUME SignInInv, UNCHANGED <<challenges, guessed>>, Aside PROVE Guesses'
<1>1. \A i \in ChallengeIds : Counting(i)' = Counting(i)
  BY DEF Counting, Aside
<1>2. \A c \in Callers : request'[c].stage = "counting" => request'[c] = request[c]
  BY DEF Aside
<1>3. QED
  BY <1>1, <1>2 DEF SignInInv, Guesses

\* What a caller moves to, and where it comes from.
LEMMA CallerMoves ==
  ASSUME SignInInv, NEW c \in Callers, NEW x \in Requests, request' = [request EXCEPT ![c] = x]
  PROVE  /\ RequestsTypeOK'
         /\ \A d \in Callers : request'[d] = IF d = c THEN x ELSE request[d]
         /\ request[c].stage # "counting" /\ x.stage # "counting" => Aside
         /\ totp'.seed = totp.seed /\ StepRead(x) => StepsRead'
<1>1. request \in [Callers -> Requests]
  BY DEF SignInInv, SignInTypes, RequestsTypeOK
<1>2. RequestsTypeOK'
  BY <1>1 DEF RequestsTypeOK
<1>3. \A d \in Callers : request'[d] = IF d = c THEN x ELSE request[d]
  BY <1>1
<1>4. request[c].stage # "counting" /\ x.stage # "counting" => Aside
  BY <1>3 DEF Aside
<1>5. ASSUME totp'.seed = totp.seed, StepRead(x) PROVE StepsRead'
  <2>1. \A d \in Callers : StepRead(request'[d])
    BY <1>3, <1>5 DEF SignInInv, SpentInv, StepsRead
  <2>2. QED
    BY <1>5, <2>1 DEF StepsRead, StepRead
<1>6. QED
  BY <1>2, <1>3, <1>4, <1>5

LEMMA CallersStay ==
  ASSUME SignInInv, UNCHANGED request
  PROVE  RequestsTypeOK' /\ Aside /\ (totp'.seed = totp.seed => StepsRead')
<1>1. totp'.seed = totp.seed => StepsRead'
  BY DEF SignInInv, SpentInv, StepsRead, StepRead
<1>2. QED
  BY <1>1 DEF SignInInv, SignInTypes, RequestsTypeOK, Aside

LEMMA CallerNow ==
  ASSUME SignInInv, NEW c \in Callers
  PROVE  /\ request[c] \in Requests
         /\ request[c].stage \in {"superseding", "inserting"} => request[c] \in MailRequests
         /\ request[c].stage \in {"failing", "counting", "consuming", "clearing"} => request[c] \in GuessRequests
         /\ request[c].stage \in {"stepping", "activating"} => request[c] \in StepRequests
<1>1. request[c] \in Requests
  BY DEF SignInInv, SignInTypes, RequestsTypeOK
<1>2. QED
  BY <1>1, RequestKinds

\* A step of the emailed challenge touches the challenges and what proves them.
LEMMA CodesStepInv ==
  ASSUME SignInInv, UNCHANGED <<totp, recovery, ceremonies, credential, bootstrap>>,
         CodesTypeOK', RequestsTypeOK', AcceptedTypeOK', StepsRead', ChallengeOnce', Guesses',
         \A kind : kind # "challenge" => Kept(kind)
  PROVE  SignInInv'
<1>1. SignInTypes'
  BY DEF SignInInv, SignInTypes, FactorTypeOK, PasskeyTypeOK, SetupTypeOK
<1>2. Kept("passkey") /\ Kept("recovery") /\ Kept("setup") /\ Kept("step")
  OBVIOUS
<1>3. PasskeyOnce' /\ RecoveryOnce' /\ SetupOnce' /\ StepsOnce'
  BY <1>2, OnceFrames
<1>4. QED
  BY <1>1, <1>3 DEF SignInInv, SpentInv

\* A step of a request that neither touches a challenge nor proves anything.
LEMMA PlainStepInv ==
  ASSUME SignInInv, UNCHANGED <<clock, hasAccount, challenges, guessed, totp, recovery, ceremonies,
                                credential, bootstrap, accepted>>,
         pressure' \in [failures : Nat, next : Int], RequestsTypeOK', StepsRead', Aside
  PROVE  SignInInv'
<1>1. CodesTypeOK' /\ AcceptedTypeOK'
  BY DEF SignInInv, SignInTypes, CodesTypeOK, AcceptedTypeOK
<1>2. \A kind : Kept(kind)
  BY KeptAll
<1>3. Guesses' /\ ChallengeOnce'
  BY <1>2, GuessFrame, OnceFrames
<1>4. QED
  BY <1>1, <1>2, <1>3, CodesStepInv

LEMMA RequestSignInInv ==
  ASSUME SignInInv, NEW c \in Callers, NEW method \in Methods, requestSignInAction(c, method)
  PROVE  SignInInv'
<1> DEFINE live == {i \in ChallengeIds : Active(challenges[i])}
           resent == IF live = {} THEN 0 ELSE challenges[Fewer(live)].resendCount + 1
           x == [stage |-> "superseding", method |-> method, resent |-> resent]
<1>1. /\ request[c] = Quiet
      /\ UNCHANGED <<clock, hasAccount, challenges, guessed, pressure, totp, recovery, ceremonies,
                     credential, bootstrap, accepted>>
  BY DEF requestSignInAction, CodeFrame, factorVars, passkeyVars
<1>2. request' = request \/ request' = [request EXCEPT ![c] = x]
  BY DEF requestSignInAction
<1>3. resent \in Int
  <2>1. CASE live # {}
    <3>1. Fewer(live) \in live
      BY <2>1, FirstIsThere, SignInConstants
    <3>2. Fewer(live) \in ChallengeIds /\ challenges[Fewer(live)].live
      BY <3>1 DEF Active
    <3>3. challenges[Fewer(live)] \in ChallengeRows
      BY <3>2 DEF SignInInv, SignInTypes, CodesTypeOK, NoChallenge
    <3>4. challenges[Fewer(live)].resendCount \in Int
      BY <3>3 DEF ChallengeRows
    <3>5. QED
      BY <2>1, <3>4
  <2>2. QED
    BY <2>1
<1> HIDE DEF resent
<1>4. x \in MailRequests /\ x.stage = "superseding"
  BY <1>3 DEF MailRequests
<1> HIDE DEF x
<1>5. x \in Requests /\ StepRead(x)
  BY <1>4 DEF Requests, StepRead
<1>6. pressure' \in [failures : Nat, next : Int] /\ totp'.seed = totp.seed
  BY <1>1 DEF SignInInv, SignInTypes, CodesTypeOK
<1>7. RequestsTypeOK' /\ StepsRead' /\ Aside
  BY <1>1, <1>2, <1>4, <1>5, <1>6, PlainKinds, CallerMoves, CallersStay
<1>8. QED
  BY <1>1, <1>6, <1>7, PlainStepInv

LEMMA ChallengeNow ==
  ASSUME SignInInv, NEW i \in ChallengeIds
  PROVE  /\ challenges[i] \in ChallengeRows \cup {NoChallenge}
         /\ challenges[i].live <=> challenges[i] \in ChallengeRows
<1>1. challenges[i] \in ChallengeRows \cup {NoChallenge}
  BY DEF SignInInv, SignInTypes, CodesTypeOK
<1>2. ~NoChallenge.live /\ \A r \in ChallengeRows : r.live
  BY DEF NoChallenge, ChallengeRows
<1>3. QED
  BY <1>1, <1>2

\* Rows that change without losing what was spent, counted or made.
LEMMA SupersedeInv ==
  ASSUME SignInInv, NEW c \in Callers, supersedeLive(c) PROVE SignInInv'
<1> DEFINE row(i) == [challenges[i] EXCEPT !.superseded = TRUE]
           x == [request[c] EXCEPT !.stage = "inserting"]
<1>1. /\ request[c].stage = "superseding"
      /\ UNCHANGED <<clock, hasAccount, guessed, pressure, totp, recovery, ceremonies, credential,
                     bootstrap, accepted>>
      /\ challenges' = [i \in ChallengeIds |-> IF Active(challenges[i]) THEN row(i) ELSE challenges[i]]
  BY DEF supersedeLive, CodeFrame, factorVars, passkeyVars
<1>2. request[c] \in MailRequests /\ request \in [Callers -> Requests]
  BY <1>1, CallerNow DEF SignInInv, SignInTypes, RequestsTypeOK
<1>3. x \in MailRequests /\ x.stage = "inserting"
  BY <1>2 DEF MailRequests
<1>4. request' = [request EXCEPT ![c] = x]
  BY <1>2 DEF supersedeLive
<1> HIDE DEF x
<1>5. x \in Requests /\ StepRead(x)
  BY <1>3 DEF Requests, StepRead
<1>6. RequestsTypeOK' /\ StepsRead' /\ Aside
  BY <1>1, <1>3, <1>4, <1>5, CallerMoves
<1>7. \A i \in ChallengeIds :
        \/ challenges'[i] = challenges[i]
        \/ /\ challenges[i] \in ChallengeRows /\ challenges'[i] \in ChallengeRows
           /\ challenges'[i].attempts = challenges[i].attempts
           /\ challenges'[i].consumed = challenges[i].consumed
  <2>1. ASSUME NEW i \in ChallengeIds, Active(challenges[i])
        PROVE  /\ challenges[i] \in ChallengeRows /\ row(i) \in ChallengeRows
               /\ row(i).attempts = challenges[i].attempts
               /\ row(i).consumed = challenges[i].consumed
    <3>1. challenges[i] \in ChallengeRows
      BY <2>1, ChallengeNow DEF Active
    <3>2. QED
      BY <3>1 DEF ChallengeRows
  <2> HIDE DEF row
  <2>2. QED
    BY <1>1, <2>1
<1> HIDE DEF row
<1>8. CodesTypeOK'
  <2>1. \A i \in ChallengeIds : challenges'[i] \in ChallengeRows \cup {NoChallenge}
    BY <1>7, ChallengeNow
  <2>2. challenges' \in [ChallengeIds -> ChallengeRows \cup {NoChallenge}]
    BY <1>1, <2>1
  <2>3. QED
    BY <1>1, <2>2 DEF SignInInv, SignInTypes, CodesTypeOK
<1>9. ChallengeOnce'
  BY <1>1, <1>7 DEF SignInInv, SpentInv, ChallengeOnce
<1>10. Guesses'
  <2>1. \A i \in ChallengeIds : Counting(i)' = Counting(i)
    BY <1>6 DEF Counting, Aside
  <2>2. \A d \in Callers : request'[d].stage = "counting" => request'[d] = request[d] /\ request[d].id \in ChallengeIds
    <3>1. ASSUME NEW d \in Callers, request'[d].stage = "counting"
          PROVE  request'[d] = request[d] /\ request[d].id \in ChallengeIds
      <4>1. request'[d] = request[d]
        BY <1>6, <3>1 DEF Aside
      <4>2. request[d] \in GuessRequests
        BY <3>1, <4>1, CallerNow
      <4>3. QED
        BY <4>1, <4>2 DEF GuessRequests
    <3>2. QED
      BY <3>1
  <2>3. ASSUME NEW i \in ChallengeIds
        PROVE  IF challenges'[i] \in ChallengeRows
                 THEN /\ guessed[i] <= maxAttempts + Cardinality(Callers) - 1
                      /\ challenges'[i].attempts < maxAttempts =>
                           guessed[i] <= challenges'[i].attempts + Cardinality(Counting(i))
                 ELSE guessed[i] = 0
    BY <1>7 DEF SignInInv, Guesses
  <2>4. \A d \in Callers : request'[d].stage = "counting" => challenges'[request'[d].id] \in ChallengeRows
    BY <1>7, <2>2 DEF SignInInv, Guesses
  <2>5. QED
    BY <1>1, <2>1, <2>3, <2>4 DEF Guesses
<1>11. AcceptedTypeOK' /\ \A kind : Kept(kind)
  BY <1>1, KeptAll DEF SignInInv, SignInTypes, AcceptedTypeOK
<1>12. QED
  BY <1>1, <1>6, <1>8, <1>9, <1>10, <1>11, CodesStepInv

\* A request that counts is about a challenge that was made.
LEMMA CountingNow ==
  ASSUME SignInInv, NEW d \in Callers, request[d].stage = "counting"
  PROVE  request[d].id \in ChallengeIds /\ challenges[request[d].id] \in ChallengeRows
<1>1. request[d] \in GuessRequests
  BY CallerNow
<1>2. QED
  BY <1>1 DEF GuessRequests, SignInInv, Guesses

LEMMA CountingSize ==
  ASSUME NEW i
  PROVE  /\ IsFiniteSet(Counting(i)) /\ Cardinality(Counting(i)) \in Nat
         /\ Cardinality(Counting(i)) <= Cardinality(Callers)
<1>1. Counting(i) \subseteq Callers
  BY DEF Counting
<1>2. QED
  BY <1>1, SignInConstants, FS_Subset, FS_CardinalityType

LEMMA GuessTypes ==
  ASSUME SignInInv, NEW i \in ChallengeIds
  PROVE  /\ guessed[i] \in Nat
         /\ challenges[i] \in ChallengeRows => challenges[i].attempts \in 0..maxAttempts
  BY DEF SignInInv, SignInTypes, CodesTypeOK, ChallengeRows

\* One row of the challenges is written, by a request that does not count meanwhile.
LEMMA RowStepInv ==
  ASSUME SignInInv, NEW i \in ChallengeIds, NEW row \in ChallengeRows,
         challenges' = [challenges EXCEPT ![i] = row],
         UNCHANGED <<clock, hasAccount, guessed, pressure, totp, recovery, ceremonies, credential, bootstrap>>,
         challenges[i] \in ChallengeRows => row.attempts = challenges[i].attempts,
         RequestsTypeOK', StepsRead', Aside, AcceptedTypeOK', ChallengeOnce',
         \A kind : kind # "challenge" => Kept(kind)
  PROVE  SignInInv'
<1>1. challenges \in [ChallengeIds -> ChallengeRows \cup {NoChallenge}]
  BY DEF SignInInv, SignInTypes, CodesTypeOK
<1>2. CodesTypeOK'
  BY <1>1 DEF SignInInv, SignInTypes, CodesTypeOK
<1>3. \A j \in ChallengeIds : challenges'[j] = IF j = i THEN row ELSE challenges[j]
  BY <1>1
<1>4. Guesses'
  <2>1. \A j \in ChallengeIds : Counting(j)' = Counting(j)
    BY DEF Counting, Aside
  <2>2. ASSUME NEW j \in ChallengeIds
        PROVE  IF challenges'[j] \in ChallengeRows
                 THEN /\ guessed[j] <= maxAttempts + Cardinality(Callers) - 1
                      /\ challenges'[j].attempts < maxAttempts =>
                           guessed[j] <= challenges'[j].attempts + Cardinality(Counting(j))
                 ELSE guessed[j] = 0
    <3>1. CASE j = i /\ challenges[i] \notin ChallengeRows
      <4>1. guessed[i] = 0 /\ challenges'[i] = row /\ row.attempts \in Nat
        <5>1. guessed[i] = 0 /\ challenges'[i] = row
          BY <1>3, <3>1 DEF SignInInv, Guesses
        <5>2. row.attempts \in 0..maxAttempts
          BY DEF ChallengeRows
        <5>3. QED
          BY <5>1, <5>2, SignInConstants
      <4>2. QED
        <5>1. /\ Cardinality(Counting(i)) \in Nat /\ Cardinality(Callers) \in Nat
              /\ maxAttempts \in Nat /\ maxAttempts >= 1
          BY SignInConstants, CountingSize
        <5>2. 0 <= maxAttempts + Cardinality(Callers) - 1
          BY <5>1
        <5>3. 0 <= row.attempts + Cardinality(Counting(i))
          BY <4>1, <5>1
        <5>4. QED
          BY <3>1, <4>1, <5>2, <5>3
    <3>2. CASE j # i \/ challenges[i] \in ChallengeRows
      BY <1>3, <3>2 DEF SignInInv, Guesses
    <3>3. QED
      BY <3>1, <3>2
  <2>3. ASSUME NEW d \in Callers, request'[d].stage = "counting"
        PROVE  challenges'[request'[d].id] \in ChallengeRows
    <3>1. request'[d] = request[d]
      BY <2>3 DEF Aside
    <3>2. request[d].id \in ChallengeIds /\ challenges[request[d].id] \in ChallengeRows
      BY <2>3, <3>1, CountingNow
    <3>3. QED
      BY <1>3, <3>1, <3>2
  <2>4. QED
    BY <2>1, <2>2, <2>3 DEF Guesses
<1>5. QED
  BY <1>2, <1>4, CodesStepInv

LEMMA IssueInv ==
  ASSUME SignInInv, NEW c \in Callers, issue(c) PROVE SignInInv'
<1> DEFINE free == ChallengeIds \ Issued(challenges)
           i == Fewer(free)
           row == LoginChallenge(request[c].method, request[c].resent)
<1>1. /\ request[c].stage = "inserting" /\ request' = [request EXCEPT ![c] = Quiet]
      /\ UNCHANGED <<clock, hasAccount, guessed, pressure, totp, recovery, ceremonies, credential,
                     bootstrap, accepted>>
      /\ \/ challenges' = challenges
         \/ free # {} /\ challenges' = [challenges EXCEPT ![i] = row]
  BY DEF issue, CodeFrame, factorVars, passkeyVars
<1>2. StepRead(Quiet)
  BY PlainKinds DEF StepRead
<1>3. RequestsTypeOK' /\ StepsRead' /\ Aside
  BY <1>1, <1>2, PlainKinds, CallerMoves
<1>4. pressure' \in [failures : Nat, next : Int]
  BY <1>1 DEF SignInInv, SignInTypes, CodesTypeOK
<1>5. CASE challenges' = challenges
  BY <1>1, <1>3, <1>4, <1>5, PlainStepInv
<1>6. CASE free # {} /\ challenges' = [challenges EXCEPT ![i] = row]
  <2>1. i \in ChallengeIds /\ i \notin Issued(challenges)
    <3>1. free \in SUBSET Nat
      BY SignInConstants
    <3>2. i \in free
      BY <1>6, <3>1, FirstIsThere
    <3>3. QED
      BY <3>2
  <2>2. challenges[i] \notin ChallengeRows
    BY <2>1, ChallengeNow DEF Issued
  <2>3. row \in ChallengeRows
    <3>1. request[c] \in MailRequests
      BY <1>1, CallerNow
    <3>2. request[c].method \in Methods /\ request[c].resent \in Int
      BY <3>1 DEF MailRequests
    <3>3. clock \in Nat /\ hasAccount \in BOOLEAN /\ CodeTtl \in Nat /\ maxAttempts \in Nat
      BY SignInConstants DEF SignInInv, SignInTypes, CodesTypeOK
    <3>4. clock \in Int /\ clock + CodeTtl \in Int /\ 0 \in 0..maxAttempts
      BY <3>3
    <3>5. QED
      BY <3>2, <3>3, <3>4 DEF LoginChallenge, ChallengeRows
  <2> HIDE DEF row, i, free
  <2>4. ChallengeOnce'
    <3>1. \A j \in ChallengeIds : j # i => challenges'[j] = challenges[j]
      BY <1>6
    <3>2. accepted[<<"challenge", i>>] \in Nat
      BY <2>1, ProofsThere DEF SignInInv, SignInTypes, AcceptedTypeOK
    <3>3. ~(accepted[<<"challenge", i>>] > 0)
      BY <2>1, <2>2, <3>2 DEF SignInInv, SpentInv, ChallengeOnce
    <3>4. QED
      BY <1>1, <3>1, <3>3 DEF SignInInv, SpentInv, ChallengeOnce
  <2>5. AcceptedTypeOK' /\ \A kind : Kept(kind)
    BY <1>1, KeptAll DEF SignInInv, SignInTypes, AcceptedTypeOK
  <2>6. QED
    BY <1>1, <1>3, <1>6, <2>1, <2>2, <2>3, <2>4, <2>5, RowStepInv
<1>7. QED
  BY <1>1, <1>5, <1>6

\* Spending a challenge.
LEMMA VerifyInv ==
  ASSUME SignInInv, NEW c \in Callers, verify(c) PROVE SignInInv'
<1> DEFINE i == request[c].id
           row == [challenges[i] EXCEPT !.consumed = TRUE]
           x(to) == [request[c] EXCEPT !.stage = to]
<1>1. /\ request[c].stage = "consuming"
      /\ UNCHANGED <<clock, hasAccount, guessed, pressure, totp, recovery, ceremonies, credential,
                     bootstrap>>
  BY DEF verify, CodeFrame, factorVars, passkeyVars
<1>2. request[c] \in GuessRequests /\ request \in [Callers -> Requests]
  BY <1>1, CallerNow DEF SignInInv, SignInTypes, RequestsTypeOK
<1>3. i \in ChallengeIds
  BY <1>2 DEF GuessRequests
<1>4. \A to \in {"clearing", "failing"} : x(to) \in GuessRequests /\ x(to).stage = to
  BY <1>2 DEF GuessRequests
<1>5. \/ /\ challenges[i].live /\ ~challenges[i].consumed
         /\ challenges' = [challenges EXCEPT ![i].consumed = TRUE]
         /\ request' = [request EXCEPT ![c] = x("clearing")] /\ Accept(<<"challenge", i>>)
      \/ request' = [request EXCEPT ![c] = x("failing")] /\ UNCHANGED <<challenges, accepted>>
  <2>1. \A to : [request EXCEPT ![c].stage = to] = [request EXCEPT ![c] = x(to)]
    BY <1>2
  <2> HIDE DEF x
  <2>2. \/ /\ challenges[i].live /\ ~challenges[i].consumed
           /\ challenges' = [challenges EXCEPT ![i].consumed = TRUE]
           /\ request' = [request EXCEPT ![c].stage = "clearing"] /\ Accept(<<"challenge", i>>)
        \/ request' = [request EXCEPT ![c].stage = "failing"] /\ UNCHANGED <<challenges, accepted>>
    BY DEF verify
  <2>3. QED
    BY <2>1, <2>2
<1> HIDE DEF x
<1>6. \A to \in {"clearing", "failing"} : x(to) \in Requests /\ StepRead(x(to)) /\ x(to).stage = to
  BY <1>4 DEF Requests, StepRead
<1>7. RequestsTypeOK' /\ StepsRead' /\ Aside
  BY <1>1, <1>5, <1>6, CallerMoves
<1>8. CASE /\ challenges[i].live /\ ~challenges[i].consumed
           /\ challenges' = [challenges EXCEPT ![i].consumed = TRUE] /\ Accept(<<"challenge", i>>)
  <2>1. challenges[i] \in ChallengeRows
    BY <1>3, <1>8, ChallengeNow
  <2>2. row \in ChallengeRows /\ row.consumed /\ row.attempts = challenges[i].attempts
    BY <2>1 DEF ChallengeRows
  <2>3. challenges \in [ChallengeIds -> ChallengeRows \cup {NoChallenge}]
    BY DEF SignInInv, SignInTypes, CodesTypeOK
  <2>4. challenges' = [challenges EXCEPT ![i] = row]
    BY <1>3, <1>8, <2>3
  <2> HIDE DEF row
  <2>5. <<"challenge", i>> \in Proofs
    BY <1>3, ProofsThere
  <2>6. /\ AcceptedTypeOK' /\ accepted'[<<"challenge", i>>] = accepted[<<"challenge", i>>] + 1
        /\ \A p \in Proofs : p # <<"challenge", i>> => accepted'[p] = accepted[p]
        /\ \A kind : kind # "challenge" => Kept(kind)
    BY <1>8, <2>5, AcceptKeeps
  <2>7. accepted[<<"challenge", i>>] = 0
    <3>1. accepted[<<"challenge", i>>] \in Nat
      BY <2>5 DEF SignInInv, SignInTypes, AcceptedTypeOK
    <3>2. QED
      BY <1>3, <1>8, <3>1 DEF SignInInv, SpentInv, ChallengeOnce
  <2>8. ChallengeOnce'
    <3>1. ASSUME NEW j \in ChallengeIds, accepted'[<<"challenge", j>>] > 0
          PROVE  /\ accepted'[<<"challenge", j>>] = 1
                 /\ challenges'[j] \in ChallengeRows /\ challenges'[j].consumed
      <4>1. CASE j = i
        <5>1. challenges'[j] = row
          BY <1>3, <2>3, <2>4, <4>1
        <5>2. accepted'[<<"challenge", j>>] = 1
          BY <2>6, <2>7, <4>1
        <5>3. QED
          BY <2>2, <5>1, <5>2
      <4>2. CASE j # i
        <5>1. challenges'[j] = challenges[j]
          BY <2>4, <4>2
        <5>2. accepted'[<<"challenge", j>>] = accepted[<<"challenge", j>>]
          BY <2>6, <4>2, ProofsThere
        <5>3. QED
          BY <3>1, <5>1, <5>2 DEF SignInInv, SpentInv, ChallengeOnce
      <4>3. QED
        BY <4>1, <4>2
    <3>2. QED
      BY <3>1 DEF ChallengeOnce
  <2>9. QED
    BY <1>1, <1>3, <1>7, <2>2, <2>4, <2>6, <2>8, RowStepInv
<1>9. CASE UNCHANGED <<challenges, accepted>>
  <2>1. pressure' \in [failures : Nat, next : Int]
    BY <1>1 DEF SignInInv, SignInTypes, CodesTypeOK
  <2>2. QED
    BY <1>1, <1>7, <1>9, <2>1, PlainStepInv
<1>10. QED
  BY <1>5, <1>8, <1>9

\* A verdict is to count the guess only while the challenge has attempts left.
LEMMA JudgedKinds ==
  ASSUME NEW row, NEW bound \in BOOLEAN, NEW right \in BOOLEAN
  PROVE  /\ Judged(row, bound, right) \in {"failing", "counting", "consuming"}
         /\ Judged(row, bound, right) = "counting" => row.live /\ ~(row.attempts >= maxAttempts)
  BY DEF Judged

\* A caller begins to count a wrong guess.
LEMMA GuessedInv ==
  ASSUME SignInInv, NEW c \in Callers, NEW i \in ChallengeIds, NEW x \in Requests,
         request' = [request EXCEPT ![c] = x], guessed' = [guessed EXCEPT ![i] = @ + 1],
         UNCHANGED <<clock, hasAccount, challenges, pressure, totp, recovery, ceremonies, credential,
                     bootstrap, accepted>>,
         request[c].stage # "counting", x.stage = "counting", x.id = i,
         challenges[i] \in ChallengeRows, challenges[i].attempts < maxAttempts
  PROVE  SignInInv'
<1>1. guessed \in [ChallengeIds -> Nat]
  BY DEF SignInInv, SignInTypes, CodesTypeOK
<1>2. CodesTypeOK'
  BY <1>1 DEF SignInInv, SignInTypes, CodesTypeOK
<1>3. StepRead(x)
  BY DEF StepRead
<1>4. /\ RequestsTypeOK' /\ StepsRead'
      /\ \A d \in Callers : request'[d] = IF d = c THEN x ELSE request[d]
  BY <1>3, CallerMoves
<1>5. Counting(i)' = Counting(i) \cup {c} /\ c \notin Counting(i)
  BY <1>4 DEF Counting
<1>6. \A j \in ChallengeIds : j # i => Counting(j)' = Counting(j)
  BY <1>4 DEF Counting
<1>7. \A j \in ChallengeIds : guessed'[j] = IF j = i THEN guessed[j] + 1 ELSE guessed[j]
  BY <1>1
<1> DEFINE C == Counting(i)
<1>8. /\ Cardinality(C) \in Nat /\ Cardinality(C \cup {c}) = Cardinality(C) + 1
      /\ Cardinality(C \cup {c}) <= Cardinality(Callers)
  <2>1. IsFiniteSet(C) /\ Cardinality(C) \in Nat /\ c \notin C /\ C \cup {c} \subseteq Callers
    BY <1>5, CountingSize DEF Counting
  <2> HIDE DEF C
  <2>2. Cardinality(C \cup {c}) = Cardinality(C) + 1
    BY <2>1, FS_AddElement
  <2>3. Cardinality(C \cup {c}) <= Cardinality(Callers)
    BY <2>1, SignInConstants, FS_Subset
  <2>4. QED
    BY <2>1, <2>2, <2>3
<1> HIDE DEF C
<1>9. Guesses'
  <2>1. ASSUME NEW j \in ChallengeIds
        PROVE  IF challenges[j] \in ChallengeRows
                 THEN /\ guessed'[j] <= maxAttempts + Cardinality(Callers) - 1
                      /\ challenges[j].attempts < maxAttempts =>
                           guessed'[j] <= challenges[j].attempts + Cardinality(Counting(j)')
                 ELSE guessed'[j] = 0
    <3>1. CASE j = i
      <4>1. guessed[i] <= challenges[i].attempts + Cardinality(C)
        BY DEF SignInInv, Guesses, C
      <4>2. guessed[i] \in Nat /\ challenges[i].attempts \in 0..maxAttempts
        BY GuessTypes
      <4>3. guessed'[i] = guessed[i] + 1 /\ Cardinality(Counting(i)') = Cardinality(C) + 1
        BY <1>5, <1>7, <1>8 DEF C
      <4>4. guessed'[i] <= challenges[i].attempts + Cardinality(Counting(i)')
        BY <1>8, <4>1, <4>2, <4>3
      <4>5. Cardinality(Counting(i)') <= Cardinality(Callers)
        BY <1>5, <1>8 DEF C
      <4>6. guessed'[i] <= maxAttempts + Cardinality(Callers) - 1
        BY <1>8, <4>2, <4>3, <4>4, <4>5, SignInConstants
      <4>7. QED
        BY <3>1, <4>4, <4>6
    <3>2. CASE j # i
      <4>1. guessed'[j] = guessed[j] /\ Counting(j)' = Counting(j)
        BY <1>6, <1>7, <3>2
      <4>2. QED
        BY <4>1 DEF SignInInv, Guesses
    <3>3. QED
      BY <3>1, <3>2
  <2>2. \A d \in Callers : request'[d].stage = "counting" => challenges[request'[d].id] \in ChallengeRows
    BY <1>4 DEF SignInInv, Guesses
  <2>3. QED
    BY <2>1, <2>2 DEF Guesses
<1>10. AcceptedTypeOK' /\ \A kind : Kept(kind)
  BY KeptAll DEF SignInInv, SignInTypes, AcceptedTypeOK
<1>11. ChallengeOnce'
  BY <1>10, OnceFrames
<1>12. QED
  BY <1>2, <1>4, <1>9, <1>10, <1>11, CodesStepInv

LEMMA VerifySignInInv ==
  ASSUME SignInInv, NEW c \in Callers, NEW i \in ChallengeIds, NEW bound \in BOOLEAN, NEW right \in BOOLEAN,
         verifySignIn(c, i, bound, right)
  PROVE  SignInInv'
<1> DEFINE to == Judged(challenges[i], bound, right)
           x == [stage |-> to, id |-> i]
           ok == consume.allowed
<1>1. /\ request[c] = Quiet
      /\ UNCHANGED <<clock, hasAccount, challenges, pressure, totp, recovery, ceremonies, credential,
                     bootstrap, accepted>>
      /\ request' = IF ok THEN [request EXCEPT ![c] = x] ELSE request
      /\ guessed' = IF ok /\ to = "counting" THEN [guessed EXCEPT ![i] = @ + 1] ELSE guessed
  BY DEF verifySignIn, CodeFrame, factorVars, passkeyVars
<1>2. /\ to \in {"failing", "counting", "consuming"}
      /\ to = "counting" => challenges[i].live /\ ~(challenges[i].attempts >= maxAttempts)
  BY JudgedKinds
<1> HIDE DEF to, ok
<1>3. x \in GuessRequests /\ x.stage = to /\ x.id = i
  BY <1>2 DEF GuessRequests
<1>4. x \in Requests
  BY <1>3 DEF Requests
<1> HIDE DEF x
<1>5. StepRead(x)
  BY <1>2, <1>3 DEF StepRead
<1>6. request[c].stage = "idle"
  BY <1>1, PlainKinds
<1>7. pressure' \in [failures : Nat, next : Int] /\ totp'.seed = totp.seed
  BY <1>1 DEF SignInInv, SignInTypes, CodesTypeOK
<1>8. CASE ~ok
  <2>1. UNCHANGED <<request, guessed>>
    BY <1>1, <1>8
  <2>2. QED
    BY <1>1, <1>7, <2>1, CallersStay, PlainStepInv
<1>9. CASE ok /\ to # "counting"
  <2>1. request' = [request EXCEPT ![c] = x] /\ UNCHANGED guessed
    BY <1>1, <1>9
  <2>2. RequestsTypeOK' /\ StepsRead' /\ Aside
    BY <1>3, <1>4, <1>5, <1>6, <1>7, <1>9, <2>1, CallerMoves
  <2>3. QED
    BY <1>1, <1>7, <2>1, <2>2, PlainStepInv
<1>10. CASE ok /\ to = "counting"
  <2>1. request' = [request EXCEPT ![c] = x] /\ guessed' = [guessed EXCEPT ![i] = @ + 1]
    BY <1>1, <1>10
  <2>2. challenges[i] \in ChallengeRows
    BY <1>2, <1>10, ChallengeNow
  <2>3. challenges[i].attempts < maxAttempts
    BY <1>2, <1>10, <2>2, GuessTypes, SignInConstants
  <2>4. QED
    BY <1>1, <1>3, <1>4, <1>6, <1>10, <2>1, <2>2, <2>3, GuessedInv
<1>11. QED
  BY <1>8, <1>9, <1>10

\* The guess is counted, up to the limit.
LEMMA CountAttemptInv ==
  ASSUME SignInInv, NEW c \in Callers, countAttempt(c) PROVE SignInInv'
<1>1. /\ request[c].stage = "counting"
      /\ UNCHANGED <<clock, hasAccount, guessed, pressure, totp, recovery, ceremonies, credential,
                     bootstrap, accepted>>
  BY DEF countAttempt, CodeFrame, factorVars, passkeyVars
<1>2. PICK i \in ChallengeIds : i = request[c].id /\ challenges[i] \in ChallengeRows
  BY <1>1, CountingNow
<1> DEFINE n == IF challenges[i].attempts < maxAttempts THEN challenges[i].attempts + 1 ELSE challenges[i].attempts
           row == [challenges[i] EXCEPT !.attempts = n]
           x == [request[c] EXCEPT !.stage = "failing"]
<1>3. /\ request[c] \in GuessRequests /\ request \in [Callers -> Requests]
      /\ challenges \in [ChallengeIds -> ChallengeRows \cup {NoChallenge}]
  BY <1>1, CallerNow DEF SignInInv, SignInTypes, RequestsTypeOK, CodesTypeOK
<1>4. challenges[i].attempts \in 0..maxAttempts /\ guessed[i] \in Nat
  BY <1>2, GuessTypes
<1>5. n \in 0..maxAttempts
  BY <1>4, SignInConstants
<1>6. challenges' = [challenges EXCEPT ![i] = row]
  BY <1>2, <1>3 DEF countAttempt
<1>7. request' = [request EXCEPT ![c] = x]
  BY <1>3 DEF countAttempt
<1>8. x \in GuessRequests /\ x.stage = "failing"
  BY <1>3 DEF GuessRequests
<1> HIDE DEF n
<1>9. row \in ChallengeRows /\ row.attempts = n /\ row.consumed = challenges[i].consumed
  BY <1>2, <1>5 DEF ChallengeRows
<1> HIDE DEF row, x
<1>10. \A j \in ChallengeIds : challenges'[j] = IF j = i THEN row ELSE challenges[j]
  BY <1>3, <1>6
<1>11. x \in Requests /\ StepRead(x)
  BY <1>8 DEF Requests, StepRead
<1>12. /\ RequestsTypeOK' /\ StepsRead'
       /\ \A d \in Callers : request'[d] = IF d = c THEN x ELSE request[d]
  BY <1>1, <1>7, <1>11, CallerMoves
<1>13. CodesTypeOK'
  <2>1. challenges' \in [ChallengeIds -> ChallengeRows \cup {NoChallenge}]
    BY <1>2, <1>3, <1>6, <1>9
  <2>2. QED
    BY <1>1, <2>1 DEF SignInInv, SignInTypes, CodesTypeOK
<1>14. Counting(i)' = Counting(i) \ {c} /\ c \in Counting(i)
  BY <1>1, <1>2, <1>8, <1>12 DEF Counting
<1>15. \A j \in ChallengeIds : j # i => Counting(j)' = Counting(j)
  BY <1>1, <1>2, <1>8, <1>12 DEF Counting
<1> DEFINE C == Counting(i)
<1>16. Cardinality(C) \in Nat /\ Cardinality(C \ {c}) = Cardinality(C) - 1 /\ Cardinality(C) <= Cardinality(Callers)
  <2>1. IsFiniteSet(C) /\ Cardinality(C) \in Nat /\ c \in C /\ Cardinality(C) <= Cardinality(Callers)
    BY <1>14, CountingSize
  <2> HIDE DEF C
  <2>2. QED
    BY <2>1, FS_RemoveElement
<1> HIDE DEF C
<1>17. Guesses'
  <2>1. ASSUME NEW j \in ChallengeIds
        PROVE  IF challenges'[j] \in ChallengeRows
                 THEN /\ guessed[j] <= maxAttempts + Cardinality(Callers) - 1
                      /\ challenges'[j].attempts < maxAttempts =>
                           guessed[j] <= challenges'[j].attempts + Cardinality(Counting(j)')
                 ELSE guessed[j] = 0
    <3>1. CASE j = i
      <4>1. /\ guessed[i] <= maxAttempts + Cardinality(Callers) - 1
            /\ challenges[i].attempts < maxAttempts => guessed[i] <= challenges[i].attempts + Cardinality(C)
        BY <1>2 DEF SignInInv, Guesses, C
      <4>2. challenges'[i] = row /\ Cardinality(Counting(i)') = Cardinality(C) - 1
        BY <1>2, <1>10, <1>14, <1>16 DEF C
      <4>3. ASSUME n < maxAttempts PROVE guessed[i] <= n + (Cardinality(C) - 1)
        <5>1. challenges[i].attempts < maxAttempts /\ n = challenges[i].attempts + 1
          BY <1>4, <4>3, SignInConstants DEF n
        <5>2. QED
          BY <1>4, <1>16, <4>1, <5>1
      <4>4. QED
        <5>1. row \in ChallengeRows /\ row.attempts = n
          BY <1>9
        <5>2. QED
          BY <3>1, <4>1, <4>2, <4>3, <5>1
    <3>2. CASE j # i
      <4>1. challenges'[j] = challenges[j] /\ Counting(j)' = Counting(j)
        BY <1>10, <1>15, <3>2
      <4>2. QED
        BY <4>1 DEF SignInInv, Guesses
    <3>3. QED
      BY <3>1, <3>2
  <2>2. ASSUME NEW d \in Callers, request'[d].stage = "counting"
        PROVE  challenges'[request'[d].id] \in ChallengeRows
    <3>1. request'[d] = request[d]
      BY <1>8, <1>12, <2>2
    <3>2. request[d].id \in ChallengeIds /\ challenges[request[d].id] \in ChallengeRows
      BY <2>2, <3>1, CountingNow
    <3>3. QED
      BY <1>9, <1>10, <3>1, <3>2
  <2>3. QED
    BY <1>1, <2>1, <2>2 DEF Guesses
<1>18. ChallengeOnce'
  <2>1. ASSUME NEW j \in ChallengeIds, accepted[<<"challenge", j>>] > 0
        PROVE  challenges'[j] \in ChallengeRows /\ challenges'[j].consumed
    BY <1>9, <1>10, <2>1 DEF SignInInv, SpentInv, ChallengeOnce
  <2>2. QED
    BY <1>1, <2>1 DEF SignInInv, SpentInv, ChallengeOnce
<1>19. AcceptedTypeOK' /\ \A kind : Kept(kind)
  BY <1>1, KeptAll DEF SignInInv, SignInTypes, AcceptedTypeOK
<1>20. QED
  BY <1>1, <1>12, <1>13, <1>17, <1>18, <1>19, CodesStepInv

LEMMA RecordFailureInv ==
  ASSUME SignInInv, NEW c \in Callers, recordFailure(c) PROVE SignInInv'
<1> DEFINE x == [stage |-> "delaying", count |-> pressure.failures + 1]
<1>1. /\ request[c].stage \in {"failing", "delaying"}
      /\ UNCHANGED <<clock, hasAccount, challenges, guessed, totp, recovery, ceremonies, credential,
                     bootstrap, accepted>>
  BY DEF recordFailure, CodeFrame, factorVars, passkeyVars
<1>2. pressure \in [failures : Nat, next : Int] /\ clock \in Nat
  BY DEF SignInInv, SignInTypes, CodesTypeOK
<1>3. x \in DelayRequests /\ x.stage = "delaying"
  BY <1>2 DEF DelayRequests
<1>4. x \in Requests /\ StepRead(x)
  BY <1>3 DEF Requests, StepRead
<1>5. Quiet \in Requests /\ StepRead(Quiet) /\ Quiet.stage = "idle"
  BY PlainKinds DEF StepRead
<1>6. request' = [request EXCEPT ![c] = x] \/ request' = [request EXCEPT ![c] = Quiet]
  BY DEF recordFailure
<1>7. pressure' \in [failures : Nat, next : Int]
  <2> DEFINE d == delayForAttempt(request[c].count)
  <2>1. d \in {0, 1}
    BY DEF delayForAttempt
  <2> HIDE DEF d
  <2> DEFINE next == IF d = 0 THEN 0 ELSE clock + d
  <2>2. next \in Int
    BY <1>2, <2>1
  <2>3. \/ pressure' = [pressure EXCEPT !.failures = @ + 1]
        \/ pressure' = pressure
        \/ pressure' = [pressure EXCEPT !.next = next]
    BY DEF recordFailure, d
  <2> HIDE DEF next
  <2>4. QED
    BY <1>2, <2>2, <2>3
<1> HIDE DEF x
<1>8. RequestsTypeOK' /\ StepsRead' /\ Aside
  BY <1>1, <1>3, <1>4, <1>5, <1>6, CallerMoves
<1>9. QED
  BY <1>1, <1>7, <1>8, PlainStepInv

LEMMA EstablishInv ==
  ASSUME SignInInv, NEW c \in Callers, establishSession(c) PROVE SignInInv'
<1>1. /\ request[c].stage = "establishing" /\ request' = [request EXCEPT ![c] = Quiet]
      /\ UNCHANGED <<clock, hasAccount, challenges, guessed, pressure, totp, recovery, ceremonies,
                     credential, bootstrap, accepted>>
  BY DEF establishSession, CodeFrame, codeVars, factorVars, passkeyVars
<1>2. Quiet \in Requests /\ StepRead(Quiet) /\ Quiet.stage = "idle"
  BY PlainKinds DEF StepRead
<1>3. pressure' \in [failures : Nat, next : Int]
  BY <1>1 DEF SignInInv, SignInTypes, CodesTypeOK
<1>4. RequestsTypeOK' /\ StepsRead' /\ Aside
  BY <1>1, <1>2, CallerMoves
<1>5. QED
  BY <1>1, <1>3, <1>4, PlainStepInv

LEMMA VerifiedInv ==
  ASSUME SignInInv, NEW c \in Callers, Verified(c) PROVE SignInInv'
<1> DEFINE x == [request[c] EXCEPT !.stage = "establishing"]
<1>1. /\ request[c].stage = "clearing" /\ pressure' = [failures |-> 0, next |-> 0]
      /\ UNCHANGED <<clock, hasAccount, challenges, guessed, totp, recovery, ceremonies, credential,
                     bootstrap, accepted>>
  BY DEF Verified, passkeyVars
<1>2. request[c] \in GuessRequests /\ request \in [Callers -> Requests]
  BY <1>1, CallerNow DEF SignInInv, SignInTypes, RequestsTypeOK
<1>3. x \in GuessRequests /\ x.stage = "establishing"
  BY <1>2 DEF GuessRequests
<1>4. [request EXCEPT ![c].stage = "establishing"] = [request EXCEPT ![c] = x]
  BY <1>2
<1> HIDE DEF x
<1>5. request' = [request EXCEPT ![c] = x] \/ request' = [request EXCEPT ![c] = Quiet]
  BY <1>4 DEF Verified
<1>6. x \in Requests /\ StepRead(x)
  BY <1>3 DEF Requests, StepRead
<1>7. Quiet \in Requests /\ StepRead(Quiet) /\ Quiet.stage = "idle"
  BY PlainKinds DEF StepRead
<1>8. pressure' \in [failures : Nat, next : Int]
  BY <1>1
<1>9. RequestsTypeOK' /\ StepsRead' /\ Aside
  BY <1>1, <1>3, <1>5, <1>6, <1>7, CallerMoves
<1>10. QED
  BY <1>1, <1>8, <1>9, PlainStepInv

\* Time, sessions and windows are nobody's proof.
LEMMA SignInRestInv ==
  ASSUME SignInInv, clock' \in Nat,
         UNCHANGED <<hasAccount, challenges, guessed, pressure, request, totp, recovery, ceremonies,
                     credential, bootstrap, accepted>>
  PROVE  SignInInv'
<1>1. CodesTypeOK' /\ AcceptedTypeOK'
  BY DEF SignInInv, SignInTypes, CodesTypeOK, AcceptedTypeOK
<1>2. RequestsTypeOK' /\ StepsRead' /\ Aside
  BY CallersStay
<1>3. \A kind : Kept(kind)
  BY KeptAll
<1>4. Guesses' /\ ChallengeOnce'
  BY <1>2, <1>3, GuessFrame, OnceFrames
<1>5. QED
  BY <1>1, <1>2, <1>3, <1>4, CodesStepInv

-------------------------------------------------------------------------------
(* The second factor.                                                         *)

\* A step of the second factor touches the credential, the codes and what proves them.
LEMMA FactorStepInv ==
  ASSUME SignInInv,
         UNCHANGED <<clock, hasAccount, challenges, guessed, pressure, ceremonies, credential, bootstrap>>,
         FactorTypeOK', RequestsTypeOK', AcceptedTypeOK', Aside, RecoveryOnce', StepsOnce', StepsRead',
         \A kind : kind \notin {"recovery", "step"} => Kept(kind)
  PROVE  SignInInv'
<1>1. SignInTypes'
  BY DEF SignInInv, SignInTypes, CodesTypeOK, PasskeyTypeOK, SetupTypeOK
<1>2. Kept("challenge") /\ Kept("passkey") /\ Kept("setup")
  OBVIOUS
<1>3. ChallengeOnce' /\ PasskeyOnce' /\ SetupOnce'
  BY <1>2, OnceFrames
<1>4. Guesses'
  BY GuessFrame
<1>5. QED
  BY <1>1, <1>3, <1>4 DEF SignInInv, SpentInv

\* The reading a request takes of the credential.
LEMMA SteppingKind ==
  ASSUME SignInInv, NEW at \in 0..MaxClock + 1, NEW asked \in BOOLEAN, check(at, asked),
         NEW then \in {"admitted", "activating", "disabling"}, NEW s \in SessionIds \cup {0}
  PROVE  /\ Stepping(at, then, s) \in Requests /\ StepRead(Stepping(at, then, s))
         /\ Stepping(at, then, s).stage = "stepping"
<1> DEFINE x == Stepping(at, then, s)
<1>1. totp.seed \in 0..MaxSeeds /\ totp.last \in Int /\ at > totp.last
  BY DEF SignInInv, SignInTypes, FactorTypeOK, TotpRows, check
<1>2. /\ x \in StepRequests /\ x.stage = "stepping" /\ x.seed = totp.seed
      /\ x.step = at /\ x.last = totp.last
  BY <1>1 DEF Stepping, StepRequests
<1> HIDE DEF x
<1>3. x \in Requests /\ StepRead(x)
  BY <1>1, <1>2, SignInConstants DEF Requests, StepRead
<1>4. QED
  BY <1>2, <1>3 DEF x

\* A recovery code is spent by a request that goes on with what it may do.
LEMMA RecoveryInv ==
  ASSUME SignInInv, NEW c \in Callers, request[c] = Quiet, NEW r \in RecoveryCodes, consumeRecoveryCode(r),
         NEW to \in {"admitted", "disabling"}, request' = [request EXCEPT ![c] = [stage |-> to]],
         UNCHANGED <<clock, hasAccount, challenges, guessed, pressure, ceremonies, credential, bootstrap, totp>>
  PROVE  SignInInv'
<1>1. recovery[r] = "live" /\ recovery' = [recovery EXCEPT ![r] = "consumed"] /\ Accept(<<"recovery", r>>)
  BY DEF consumeRecoveryCode
<1>2. <<"recovery", r>> \in Proofs
  BY ProofsThere
<1>3. /\ AcceptedTypeOK' /\ accepted'[<<"recovery", r>>] = accepted[<<"recovery", r>>] + 1
      /\ \A p \in Proofs : p # <<"recovery", r>> => accepted'[p] = accepted[p]
      /\ \A kind : kind # "recovery" => Kept(kind)
  BY <1>1, <1>2, AcceptKeeps
<1>4. recovery \in [RecoveryCodes -> CodeStates]
  BY DEF SignInInv, SignInTypes, FactorTypeOK
<1>5. FactorTypeOK'
  BY <1>1, <1>4 DEF SignInInv, SignInTypes, FactorTypeOK, CodeStates
<1>6. accepted[<<"recovery", r>>] = 0
  <2>1. accepted[<<"recovery", r>>] \in Nat
    BY <1>2 DEF SignInInv, SignInTypes, AcceptedTypeOK
  <2>2. QED
    BY <1>1, <2>1 DEF SignInInv, SpentInv, RecoveryOnce
<1>7. RecoveryOnce'
  <2>1. ASSUME NEW q \in RecoveryCodes, accepted'[<<"recovery", q>>] > 0
        PROVE  accepted'[<<"recovery", q>>] = 1 /\ recovery'[q] = "consumed"
    <3>1. CASE q = r
      <4>1. recovery'[r] = "consumed"
        BY <1>1, <1>4
      <4>2. QED
        BY <1>3, <1>6, <3>1, <4>1
    <3>2. CASE q # r
      <4>1. recovery'[q] = recovery[q]
        BY <1>1, <1>4, <3>2
      <4>2. accepted'[<<"recovery", q>>] = accepted[<<"recovery", q>>]
        BY <1>3, <3>2, ProofsThere
      <4>3. QED
        BY <2>1, <4>1, <4>2 DEF SignInInv, SpentInv, RecoveryOnce
    <3>3. QED
      BY <3>1, <3>2
  <2>2. QED
    BY <2>1 DEF RecoveryOnce
<1> DEFINE x == [stage |-> to]
<1>8. x \in Requests /\ x.stage = to
  BY PlainKinds
<1>9. request' = [request EXCEPT ![c] = x]
  OBVIOUS
<1> HIDE DEF x
<1>10. StepRead(x) /\ request[c].stage = "idle"
  BY <1>8, PlainKinds DEF StepRead
<1>11. RequestsTypeOK' /\ Aside /\ StepsRead'
  BY <1>8, <1>9, <1>10, CallerMoves
<1>12. StepsOnce'
  BY <1>3, OnceFrames
<1>13. QED
  BY <1>3, <1>5, <1>7, <1>11, <1>12, FactorStepInv

\* Nothing is accepted, the credential and the codes stay: a request moves.
LEMMA FactorMoveInv ==
  ASSUME SignInInv, NEW c \in Callers, NEW x \in Requests, request' = [request EXCEPT ![c] = x],
         request[c].stage # "counting", x.stage # "counting", StepRead(x),
         UNCHANGED <<clock, hasAccount, challenges, guessed, pressure, ceremonies, credential, bootstrap,
                     totp, recovery, accepted>>
  PROVE  SignInInv'
<1>1. RequestsTypeOK' /\ Aside /\ StepsRead'
  BY CallerMoves
<1>2. pressure' \in [failures : Nat, next : Int]
  BY DEF SignInInv, SignInTypes, CodesTypeOK
<1>3. QED
  BY <1>1, <1>2, PlainStepInv

LEMMA SteppingInv ==
  ASSUME SignInInv, NEW c \in Callers, request[c] = Quiet,
         NEW at \in 0..MaxClock + 1, NEW asked \in BOOLEAN, check(at, asked),
         NEW then \in {"admitted", "activating", "disabling"}, NEW s \in SessionIds \cup {0},
         request' = [request EXCEPT ![c] = Stepping(at, then, s)],
         UNCHANGED <<clock, hasAccount, challenges, guessed, pressure, ceremonies, credential, bootstrap,
                     totp, recovery, accepted>>
  PROVE  SignInInv'
<1> DEFINE x == Stepping(at, then, s)
<1>1. x \in Requests /\ StepRead(x) /\ x.stage = "stepping"
  BY SteppingKind
<1>2. request' = [request EXCEPT ![c] = x] /\ request[c].stage = "idle"
  BY PlainKinds
<1> HIDE DEF x
<1>3. QED
  BY <1>1, <1>2, FactorMoveInv

\* Using a step up: a step that was read above the last one used, of this seed or an older one.
LEMMA UseStepInv ==
  ASSUME SignInInv, NEW c \in Callers, useStep(c) PROVE SignInInv'
<1> DEFINE x == [request[c] EXCEPT !.stage = request[c].then]
<1>1. /\ request[c].stage = "stepping" /\ UNCHANGED recovery
      /\ UNCHANGED <<clock, hasAccount, challenges, guessed, pressure, ceremonies, credential, bootstrap>>
  BY DEF useStep, FactorFrame, codeVars, passkeyVars
<1>2. request[c] \in StepRequests /\ request \in [Callers -> Requests]
  BY <1>1, CallerNow DEF SignInInv, SignInTypes, RequestsTypeOK
<1>3. CASE request' = [request EXCEPT ![c] = Quiet] /\ UNCHANGED <<totp, accepted>>
  <2>1. Quiet \in Requests /\ StepRead(Quiet) /\ Quiet.stage = "idle"
    BY PlainKinds DEF StepRead
  <2>2. QED
    BY <1>1, <1>3, <2>1, FactorMoveInv
<1>4. CASE /\ totp.status # "none" /\ totp.last = request[c].last
           /\ totp' = [totp EXCEPT !.last = request[c].step]
           /\ request' = [request EXCEPT ![c].stage = request[c].then]
           /\ Accept(<<"step", <<request[c].seed, request[c].step>>>>)
  <2>1. PICK seed \in 0..MaxSeeds, at \in 0..MaxClock + 1 : seed = request[c].seed /\ at = request[c].step
    BY <1>2 DEF StepRequests
  <2>2. seed <= totp.seed /\ at > totp.last
    BY <1>1, <1>4, <2>1 DEF SignInInv, SpentInv, StepsRead, StepRead
  <2>3. x \in StepRequests /\ x.stage \in {"admitted", "activating", "disabling"}
    BY <1>2 DEF StepRequests
  <2>4. request' = [request EXCEPT ![c] = x]
    BY <1>2, <1>4
  <2> HIDE DEF x
  <2>5. x \in Requests /\ StepRead(x)
    BY <2>3 DEF Requests, StepRead
  <2>6. /\ totp \in TotpRows /\ totp' \in TotpRows /\ totp'.seed = totp.seed /\ totp'.status = totp.status
        /\ totp'.last = at
    <3>1. totp \in TotpRows /\ at \in Int
      BY SignInConstants DEF SignInInv, SignInTypes, FactorTypeOK
    <3>2. QED
      BY <1>4, <2>1, <3>1 DEF TotpRows
  <2>7. RequestsTypeOK' /\ Aside /\ StepsRead'
    BY <1>1, <2>3, <2>4, <2>5, <2>6, CallerMoves
  <2>8. <<"step", <<seed, at>>>> \in Proofs
    BY ProofsThere
  <2>9. /\ AcceptedTypeOK' /\ accepted'[<<"step", <<seed, at>>>>] = accepted[<<"step", <<seed, at>>>>] + 1
        /\ \A p \in Proofs : p # <<"step", <<seed, at>>>> => accepted'[p] = accepted[p]
        /\ \A kind : kind # "step" => Kept(kind)
    BY <1>4, <2>1, <2>8, AcceptKeeps
  <2>10. StepsOnce'
    <3>1. ASSUME NEW s \in 0..MaxSeeds, NEW k \in 0..MaxClock + 1, s > totp.seed
          PROVE  accepted'[<<"step", <<s, k>>>>] = 0
      <4>1. s # seed
        BY <2>2, <2>6, <3>1, SignInConstants DEF TotpRows
      <4>2. <<"step", <<s, k>>>> # <<"step", <<seed, at>>>> /\ <<"step", <<s, k>>>> \in Proofs
        BY <4>1, ProofsThere
      <4>3. QED
        BY <2>9, <3>1, <4>2 DEF SignInInv, SpentInv, StepsOnce, StepTimes
    <3>2. ASSUME NEW k \in 0..MaxClock + 1, accepted'[<<"step", <<totp.seed, k>>>>] > 0
          PROVE  accepted'[<<"step", <<totp.seed, k>>>>] = 1 /\ k <= at
      <4> DEFINE p == <<"step", <<totp.seed, k>>>>
                 q == <<"step", <<seed, at>>>>
      <4>1. totp.seed \in 0..MaxSeeds /\ p \in Proofs /\ accepted[p] \in Nat
        BY <2>6, ProofsThere DEF SignInInv, SignInTypes, AcceptedTypeOK, TotpRows
      <4>2. accepted[p] > 0 => accepted[p] = 1 /\ k <= totp.last
        BY <1>4 DEF SignInInv, SpentInv, StepsOnce, StepTimes
      <4>3. CASE p = q
        <5>1. k = at /\ seed = totp.seed
          BY <4>3
        <5>2. accepted[p] = 0
          BY <2>2, <2>6, <4>1, <4>2, <5>1 DEF TotpRows
        <5>3. QED
          BY <2>9, <4>3, <5>1, <5>2
      <4>4. CASE p # q
        <5>1. accepted'[p] = accepted[p]
          BY <2>9, <4>1, <4>4
        <5>2. accepted[p] = 1 /\ k <= totp.last
          BY <3>2, <4>2, <5>1
        <5>3. QED
          BY <2>2, <2>6, <5>1, <5>2, SignInConstants DEF TotpRows
      <4>5. QED
        BY <4>3, <4>4
    <3>3. QED
      BY <2>6, <3>1, <3>2 DEF StepsOnce, StepTimes
  <2>11. FactorTypeOK'
    BY <1>1, <2>6 DEF SignInInv, SignInTypes, FactorTypeOK
  <2>12. RecoveryOnce'
    BY <1>1, <2>9, OnceFrames
  <2>13. QED
    BY <1>1, <2>7, <2>9, <2>10, <2>11, <2>12, FactorStepInv
<1>5. QED
  BY <1>3, <1>4 DEF useStep

\* The credential or the codes are rewritten and nothing is accepted.
LEMMA FactorRowsInv ==
  ASSUME SignInInv, UNCHANGED <<clock, hasAccount, challenges, guessed, pressure, ceremonies, credential,
                                bootstrap, accepted>>,
         totp' \in TotpRows, recovery' \in [RecoveryCodes -> CodeStates],
         \A r \in RecoveryCodes : recovery[r] = "consumed" => recovery'[r] = "consumed",
         \/ totp'.seed = totp.seed /\ totp'.last = totp.last /\ (totp.status = "none" => totp'.status = "none")
         \/ totp'.seed = totp.seed /\ totp'.status = "none"
         \/ totp'.seed > totp.seed,
         RequestsTypeOK', Aside, StepsRead'
  PROVE  SignInInv'
<1>1. FactorTypeOK' /\ AcceptedTypeOK'
  BY DEF FactorTypeOK, SignInInv, SignInTypes, AcceptedTypeOK
<1>2. \A kind : Kept(kind)
  BY KeptAll
<1>3. RecoveryOnce'
  BY DEF SignInInv, SpentInv, RecoveryOnce
<1>4. totp.seed \in 0..MaxSeeds /\ totp'.seed \in 0..MaxSeeds
  BY DEF SignInInv, SignInTypes, FactorTypeOK, TotpRows
<1>5. StepsOnce'
  <2>1. CASE totp'.seed = totp.seed
    <3>1. totp'.status # "none" => totp'.last = totp.last /\ totp.status # "none"
      BY <1>4, <2>1, SignInConstants
    <3>2. QED
      BY <2>1, <3>1 DEF SignInInv, SpentInv, StepsOnce, StepTimes
  <2>2. CASE totp'.seed > totp.seed
    <3>1. ASSUME NEW s \in 0..MaxSeeds, NEW k \in 0..MaxClock + 1, s >= totp'.seed
          PROVE  accepted[<<"step", <<s, k>>>>] = 0
      <4>1. s > totp.seed
        BY <1>4, <2>2, <3>1, SignInConstants
      <4>2. QED
        BY <4>1 DEF SignInInv, SpentInv, StepsOnce, StepTimes
    <3>2. \A s \in 0..MaxSeeds, k \in 0..MaxClock + 1 : s > totp'.seed => accepted'[<<"step", <<s, k>>>>] = 0
      <4>1. \A s \in 0..MaxSeeds : s > totp'.seed => s >= totp'.seed
        BY <1>4, SignInConstants
      <4>2. QED
        BY <3>1, <4>1
    <3>3. \A k \in 0..MaxClock + 1 : accepted'[<<"step", <<totp'.seed, k>>>>] = 0
      <4>1. totp'.seed >= totp'.seed
        BY <1>4, SignInConstants
      <4>2. QED
        BY <1>4, <3>1, <4>1
    <3>4. QED
      BY <3>2, <3>3 DEF StepsOnce, StepTimes
  <2>3. QED
    BY <2>1, <2>2
<1>6. QED
  BY <1>1, <1>2, <1>3, <1>5, FactorStepInv

LEMMA InvalidatedKind ==
  ASSUME SignInInv
  PROVE  /\ Invalidated \in [RecoveryCodes -> CodeStates]
         /\ \A r \in RecoveryCodes : recovery[r] = "consumed" => Invalidated[r] = "consumed"
         /\ \A r \in RecoveryCodes : Invalidated[r] = "unissued" <=> recovery[r] = "unissued"
<1>1. recovery \in [RecoveryCodes -> CodeStates]
  BY DEF SignInInv, SignInTypes, FactorTypeOK
<1>2. QED
  BY <1>1 DEF Invalidated, CodeStates

LEMMA SecondFactorInv ==
  ASSUME SignInInv, NEW c \in Callers, verifySecondFactorAction(c) PROVE SignInInv'
<1>1. /\ request[c] = Quiet /\ UNCHANGED totp
      /\ UNCHANGED <<clock, hasAccount, challenges, guessed, pressure, ceremonies, credential, bootstrap>>
  BY DEF verifySecondFactorAction, FactorFrame, codeVars, passkeyVars
<1>2. ASSUME NEW at \in 0..MaxClock + 1, check(at, TRUE),
             request' = [request EXCEPT ![c] = Stepping(at, "admitted", 0)], UNCHANGED <<recovery, accepted>>
      PROVE  SignInInv'
  BY <1>1, <1>2, SteppingInv
<1>3. ASSUME NEW r \in RecoveryCodes, consumeRecoveryCode(r),
             request' = [request EXCEPT ![c] = [stage |-> "admitted"]]
      PROVE  SignInInv'
  BY <1>1, <1>3, RecoveryInv
<1>4. QED
  BY <1>2, <1>3 DEF verifySecondFactorAction

LEMMA AdmittedInv ==
  ASSUME SignInInv, NEW c \in Callers,
         Admitted(c) \/ \E s \in SessionIds : regenerateRecoveryCodesAction(c, s)
  PROVE  SignInInv'
<1>1. /\ request[c].stage \in {"admitted", "idle"}
      /\ UNCHANGED <<clock, hasAccount, challenges, guessed, pressure, ceremonies, credential, bootstrap,
                     totp, recovery, accepted>>
  BY PlainKinds DEF Admitted, regenerateRecoveryCodesAction, FactorFrame, codeVars, passkeyVars
<1>2. PICK to \in {"establishing", "issuing"} : request' = [request EXCEPT ![c] = [stage |-> to]]
  BY DEF Admitted, regenerateRecoveryCodesAction
<1> DEFINE x == [stage |-> to]
<1>3. x \in Requests /\ x.stage = to
  BY PlainKinds
<1>4. request' = [request EXCEPT ![c] = x]
  BY <1>2
<1> HIDE DEF x
<1>5. StepRead(x)
  BY <1>3 DEF StepRead
<1>6. QED
  BY <1>1, <1>3, <1>4, <1>5, FactorMoveInv

LEMMA ActivateActionInv ==
  ASSUME SignInInv, NEW c \in Callers, NEW s \in SessionIds, activateTotpAction(c, s) PROVE SignInInv'
<1>1. /\ request[c] = Quiet /\ UNCHANGED <<totp, recovery, accepted>>
      /\ UNCHANGED <<clock, hasAccount, challenges, guessed, pressure, ceremonies, credential, bootstrap>>
  BY DEF activateTotpAction, FactorFrame, codeVars, passkeyVars
<1>2. PICK at \in 0..MaxClock + 1 :
        check(at, FALSE) /\ request' = [request EXCEPT ![c] = Stepping(at, "activating", s)]
  BY Zenon DEF activateTotpAction
<1>3. QED
  BY <1>1, <1>2, SteppingInv

LEMMA DisableActionInv ==
  ASSUME SignInInv, NEW c \in Callers, NEW s \in SessionIds, disableTotpAction(c, s) PROVE SignInInv'
<1>1. /\ request[c] = Quiet /\ UNCHANGED totp
      /\ UNCHANGED <<clock, hasAccount, challenges, guessed, pressure, ceremonies, credential, bootstrap>>
  BY DEF disableTotpAction, FactorFrame, codeVars, passkeyVars
<1>2. ASSUME NEW at \in 0..MaxClock + 1, check(at, TRUE),
             request' = [request EXCEPT ![c] = Stepping(at, "disabling", s)], UNCHANGED <<recovery, accepted>>
      PROVE  SignInInv'
  BY <1>1, <1>2, SteppingInv
<1>3. ASSUME NEW r \in RecoveryCodes, consumeRecoveryCode(r),
             request' = [request EXCEPT ![c] = [stage |-> "disabling"]]
      PROVE  SignInInv'
  BY <1>1, <1>3, RecoveryInv
<1>4. QED
  BY <1>2, <1>3 DEF disableTotpAction

LEMMA BeginEnrollmentInv ==
  ASSUME SignInInv, NEW s \in SessionIds, beginTotpEnrollmentAction(s) PROVE SignInInv'
<1> DEFINE row == [status |-> "pending", seed |-> totp.seed + 1, last |-> -1]
<1>1. /\ UNCHANGED <<request, recovery, accepted>> /\ totp.seed < MaxSeeds /\ totp' = row
      /\ UNCHANGED <<clock, hasAccount, challenges, guessed, pressure, ceremonies, credential, bootstrap>>
  BY DEF beginTotpEnrollmentAction, FactorFrame, codeVars, passkeyVars
<1>2. totp.seed \in 0..MaxSeeds
  BY DEF SignInInv, SignInTypes, FactorTypeOK, TotpRows
<1>3. totp.seed + 1 \in 0..MaxSeeds /\ -1 \in Int
  BY <1>1, <1>2, SignInConstants
<1>4. row \in TotpRows /\ row.seed = totp.seed + 1
  BY <1>3 DEF TotpRows
<1> HIDE DEF row
<1>5. totp' \in TotpRows /\ totp'.seed > totp.seed
  BY <1>1, <1>2, <1>4, SignInConstants
<1>6. RequestsTypeOK' /\ Aside
  BY <1>1, CallersStay
<1>7. StepsRead'
  <2>1. ASSUME NEW c \in Callers, request[c].stage = "stepping"
        PROVE  request[c].seed <= totp'.seed /\ request[c].step > request[c].last
    <3>1. request[c].seed <= totp.seed /\ request[c].step > request[c].last
      BY <2>1 DEF SignInInv, SpentInv, StepsRead, StepRead
    <3>2. request[c] \in StepRequests
      BY <2>1, CallerNow
    <3>3. request[c].seed \in 0..MaxSeeds
      BY <3>2 DEF StepRequests
    <3>4. QED
      BY <1>1, <1>2, <1>4, <3>1, <3>3, SignInConstants
  <2>2. QED
    BY <1>1, <2>1 DEF StepsRead, StepRead
<1>8. recovery' \in [RecoveryCodes -> CodeStates]
  BY <1>1 DEF SignInInv, SignInTypes, FactorTypeOK
<1>9. QED
  BY <1>1, <1>5, <1>6, <1>7, <1>8, FactorRowsInv

LEMMA ActivateInv ==
  ASSUME SignInInv, NEW c \in Callers, activateTotp(c) PROVE SignInInv'
<1> DEFINE x == [stage |-> "issuing"]
<1>1. /\ request[c].stage = "activating" /\ UNCHANGED <<recovery, accepted>>
      /\ UNCHANGED <<clock, hasAccount, challenges, guessed, pressure, ceremonies, credential, bootstrap>>
      /\ request' = [request EXCEPT ![c] = x]
      /\ totp' = IF totp.status = "none" THEN totp ELSE [totp EXCEPT !.status = "active"]
  BY DEF activateTotp, FactorFrame, codeVars, passkeyVars
<1>2. totp \in TotpRows /\ recovery \in [RecoveryCodes -> CodeStates]
  BY DEF SignInInv, SignInTypes, FactorTypeOK
<1>3. /\ totp' \in TotpRows /\ totp'.seed = totp.seed /\ totp'.last = totp.last
      /\ totp.status = "none" => totp'.status = "none"
  BY <1>1, <1>2 DEF TotpRows
<1>4. x \in Requests /\ x.stage = "issuing"
  BY PlainKinds
<1> HIDE DEF x
<1>5. StepRead(x)
  BY <1>4 DEF StepRead
<1>6. RequestsTypeOK' /\ Aside /\ StepsRead'
  BY <1>1, <1>3, <1>4, <1>5, CallerMoves
<1>7. QED
  BY <1>1, <1>2, <1>3, <1>6, FactorRowsInv

LEMMA IssueCodesInv ==
  ASSUME SignInInv, NEW c \in Callers, issueRecoveryCodes(c) PROVE SignInInv'
<1> DEFINE free == {r \in RecoveryCodes : recovery[r] = "unissued"}
           one == CHOOSE r \in free : TRUE
<1>1. /\ request[c].stage = "issuing" /\ UNCHANGED <<totp, accepted>>
      /\ UNCHANGED <<clock, hasAccount, challenges, guessed, pressure, ceremonies, credential, bootstrap>>
      /\ request' = [request EXCEPT ![c] = Quiet]
      /\ recovery' = IF free = {} THEN Invalidated ELSE [Invalidated EXCEPT ![one] = "live"]
  BY DEF issueRecoveryCodes, FactorFrame, codeVars, passkeyVars
<1>2. free # {} => one \in RecoveryCodes /\ recovery[one] = "unissued"
  <2>1. free # {} => one \in free
    OBVIOUS
  <2>2. QED
    BY <2>1
<1> HIDE DEF one
<1>3. /\ recovery' \in [RecoveryCodes -> CodeStates]
      /\ \A r \in RecoveryCodes : recovery[r] = "consumed" => recovery'[r] = "consumed"
  <2>1. CASE free = {}
    BY <1>1, <2>1, InvalidatedKind
  <2>2. CASE free # {}
    <3>1. recovery' = [Invalidated EXCEPT ![one] = "live"] /\ recovery[one] = "unissued"
      BY <1>1, <1>2, <2>2
    <3>2. "live" \in CodeStates
      BY DEF CodeStates
    <3>3. QED
      BY <3>1, <3>2, InvalidatedKind
  <2>3. QED
    BY <2>1, <2>2
<1>4. Quiet \in Requests /\ StepRead(Quiet) /\ Quiet.stage = "idle"
  BY PlainKinds DEF StepRead
<1>5. RequestsTypeOK' /\ Aside /\ StepsRead'
  BY <1>1, <1>4, CallerMoves
<1>6. totp' \in TotpRows
  BY <1>1 DEF SignInInv, SignInTypes, FactorTypeOK
<1>7. QED
  BY <1>1, <1>3, <1>5, <1>6, FactorRowsInv

LEMMA DisableInv ==
  ASSUME SignInInv, NEW c \in Callers, disableTotp(c) PROVE SignInInv'
<1>1. /\ request[c].stage = "disabling" /\ UNCHANGED accepted /\ recovery' = Invalidated
      /\ UNCHANGED <<clock, hasAccount, challenges, guessed, pressure, ceremonies, credential, bootstrap>>
      /\ request' = [request EXCEPT ![c] = Quiet]
      /\ totp' = [totp EXCEPT !.status = "none", !.last = -1]
  BY DEF disableTotp, FactorFrame, codeVars, passkeyVars
<1>2. totp \in TotpRows /\ -1 \in Int
  BY DEF SignInInv, SignInTypes, FactorTypeOK
<1>3. totp' \in TotpRows /\ totp'.seed = totp.seed /\ totp'.status = "none"
  BY <1>1, <1>2 DEF TotpRows
<1>4. Quiet \in Requests /\ StepRead(Quiet) /\ Quiet.stage = "idle"
  BY PlainKinds DEF StepRead
<1>5. RequestsTypeOK' /\ Aside /\ StepsRead'
  BY <1>1, <1>3, <1>4, CallerMoves
<1>6. /\ recovery' \in [RecoveryCodes -> CodeStates]
      /\ \A r \in RecoveryCodes : recovery[r] = "consumed" => recovery'[r] = "consumed"
  BY <1>1, InvalidatedKind
<1>7. QED
  BY <1>1, <1>3, <1>5, <1>6, FactorRowsInv

-------------------------------------------------------------------------------
(* Passkeys and the setup.                                                    *)

LEMMA PasskeyStepInv ==
  ASSUME SignInInv, UNCHANGED <<clock, hasAccount, challenges, guessed, pressure, totp, recovery, bootstrap>>,
         PasskeyTypeOK', RequestsTypeOK', AcceptedTypeOK', Aside, StepsRead', PasskeyOnce',
         \A kind : kind # "passkey" => Kept(kind)
  PROVE  SignInInv'
<1>1. SignInTypes'
  BY DEF SignInInv, SignInTypes, CodesTypeOK, FactorTypeOK, SetupTypeOK
<1>2. Kept("challenge") /\ Kept("recovery") /\ Kept("setup") /\ Kept("step")
  OBVIOUS
<1>3. ChallengeOnce' /\ RecoveryOnce' /\ SetupOnce' /\ StepsOnce'
  BY <1>2, OnceFrames
<1>4. Guesses'
  BY GuessFrame
<1>5. QED
  BY <1>1, <1>3, <1>4 DEF SignInInv, SpentInv

LEMMA CeremonyNow ==
  ASSUME SignInInv, NEW i \in ChallengeIds
  PROVE  /\ ceremonies[i] \in CeremonyRows \cup {NoChallenge}
         /\ ceremonies[i].live <=> ceremonies[i] \in CeremonyRows
<1>1. ceremonies[i] \in CeremonyRows \cup {NoChallenge}
  BY DEF SignInInv, SignInTypes, PasskeyTypeOK
<1>2. ~NoChallenge.live /\ \A r \in CeremonyRows : r.live
  BY DEF NoChallenge, CeremonyRows
<1>3. QED
  BY <1>1, <1>2

LEMMA StoreCeremonyInv ==
  ASSUME SignInInv, NEW kind \in {"registration", "authentication"}, storeChallenge(kind) PROVE SignInInv'
<1> DEFINE free == {j \in ChallengeIds : ~ceremonies[j].live}
           row == [live |-> TRUE, kind |-> kind, consumed |-> FALSE, expiresAt |-> clock + CodeTtl]
<1>1. /\ UNCHANGED <<credential, request, accepted>> /\ free # {}
      /\ UNCHANGED <<clock, hasAccount, challenges, guessed, pressure, totp, recovery, bootstrap>>
      /\ ceremonies' = [ceremonies EXCEPT ![Fewer(free)] = row]
  BY DEF storeChallenge, PasskeyFrame, codeVars, factorVars
<1>2. PICK i \in free : i = Fewer(free)
  BY <1>1, FirstIsThere, SignInConstants
<1>3. i \in ChallengeIds /\ ceremonies[i] \notin CeremonyRows
  BY <1>2, CeremonyNow
<1>4. clock + CodeTtl \in Int
  BY SignInConstants DEF SignInInv, SignInTypes, CodesTypeOK
<1>5. row \in CeremonyRows
  BY <1>4 DEF CeremonyRows
<1> HIDE DEF row, free
<1>6. ceremonies \in [ChallengeIds -> CeremonyRows \cup {NoChallenge}]
  BY DEF SignInInv, SignInTypes, PasskeyTypeOK
<1>7. PasskeyTypeOK'
  BY <1>1, <1>2, <1>3, <1>5, <1>6 DEF SignInInv, SignInTypes, PasskeyTypeOK
<1>8. PasskeyOnce'
  <2>1. ASSUME NEW j \in ChallengeIds, accepted[<<"passkey", j>>] > 0
        PROVE  /\ accepted[<<"passkey", j>>] = 1
               /\ ceremonies'[j] \in CeremonyRows /\ ceremonies'[j].consumed
    <3>1. j # i
      BY <1>3, <2>1 DEF SignInInv, SpentInv, PasskeyOnce
    <3>2. ceremonies'[j] = ceremonies[j]
      BY <1>1, <1>2, <1>6, <3>1
    <3>3. QED
      BY <2>1, <3>2 DEF SignInInv, SpentInv, PasskeyOnce
  <2>2. QED
    BY <1>1, <2>1 DEF PasskeyOnce
<1>9. AcceptedTypeOK' /\ \A k : Kept(k)
  BY <1>1, KeptAll DEF SignInInv, SignInTypes, AcceptedTypeOK
<1>10. RequestsTypeOK' /\ Aside /\ StepsRead'
  BY <1>1, CallersStay
<1>11. QED
  BY <1>1, <1>7, <1>8, <1>9, <1>10, PasskeyStepInv

\* A ceremony is spent, and its answer accepted or not.
LEMMA CeremonyInv ==
  ASSUME SignInInv, NEW i \in ChallengeIds, NEW kind \in {"registration", "authentication"},
         consumeChallenge(i, kind), Accept(<<"passkey", i>>) \/ UNCHANGED accepted,
         UNCHANGED <<clock, hasAccount, challenges, guessed, pressure, totp, recovery, bootstrap>>,
         credential' \in [registered : BOOLEAN, signCount : Int, device : Int],
         RequestsTypeOK', Aside, StepsRead'
  PROVE  SignInInv'
<1> DEFINE row == [ceremonies[i] EXCEPT !.consumed = TRUE]
<1>1. /\ ceremonies[i].live /\ ~ceremonies[i].consumed
      /\ ceremonies' = [ceremonies EXCEPT ![i].consumed = TRUE]
  BY DEF consumeChallenge
<1>2. /\ ceremonies \in [ChallengeIds -> CeremonyRows \cup {NoChallenge}]
      /\ ceremonies[i] \in CeremonyRows
  BY <1>1, CeremonyNow DEF SignInInv, SignInTypes, PasskeyTypeOK
<1>3. row \in CeremonyRows /\ row.consumed
  BY <1>2 DEF CeremonyRows
<1>4. ceremonies' = [ceremonies EXCEPT ![i] = row]
  BY <1>1, <1>2
<1> HIDE DEF row
<1>5. \A j \in ChallengeIds : ceremonies'[j] = IF j = i THEN row ELSE ceremonies[j]
  BY <1>2, <1>4
<1>6. PasskeyTypeOK'
  <2>1. ceremonies' \in [ChallengeIds -> CeremonyRows \cup {NoChallenge}]
    BY <1>2, <1>3, <1>4
  <2>2. QED
    BY <2>1 DEF PasskeyTypeOK
<1>7. <<"passkey", i>> \in Proofs
  BY ProofsThere
<1>8. accepted[<<"passkey", i>>] = 0
  <2>1. accepted[<<"passkey", i>>] \in Nat
    BY <1>7 DEF SignInInv, SignInTypes, AcceptedTypeOK
  <2>2. QED
    BY <1>1, <2>1 DEF SignInInv, SpentInv, PasskeyOnce
<1>9. /\ AcceptedTypeOK' /\ accepted'[<<"passkey", i>>] \in {0, 1}
      /\ \A p \in Proofs : p # <<"passkey", i>> => accepted'[p] = accepted[p]
      /\ \A k : k # "passkey" => Kept(k)
  <2>1. CASE Accept(<<"passkey", i>>)
    <3>1. /\ AcceptedTypeOK' /\ accepted'[<<"passkey", i>>] = accepted[<<"passkey", i>>] + 1
          /\ \A p \in Proofs : p # <<"passkey", i>> => accepted'[p] = accepted[p]
          /\ \A k : k # "passkey" => Kept(k)
      BY <1>7, <2>1, AcceptKeeps
    <3>2. QED
      BY <1>8, <3>1
  <2>2. CASE UNCHANGED accepted
    BY <1>8, <2>2, KeptAll DEF SignInInv, SignInTypes, AcceptedTypeOK
  <2>3. QED
    BY <2>1, <2>2
<1>10. PasskeyOnce'
  <2>1. ASSUME NEW j \in ChallengeIds, accepted'[<<"passkey", j>>] > 0
        PROVE  /\ accepted'[<<"passkey", j>>] = 1
               /\ ceremonies'[j] \in CeremonyRows /\ ceremonies'[j].consumed
    <3>1. CASE j = i
      <4>1. accepted'[<<"passkey", j>>] = 1
        BY <1>9, <2>1, <3>1
      <4>2. ceremonies'[j] = row
        BY <1>5, <3>1
      <4>3. QED
        BY <1>3, <4>1, <4>2
    <3>2. CASE j # i
      <4>1. ceremonies'[j] = ceremonies[j]
        BY <1>5, <3>2
      <4>2. accepted'[<<"passkey", j>>] = accepted[<<"passkey", j>>]
        BY <1>9, <3>2, ProofsThere
      <4>3. QED
        BY <2>1, <4>1, <4>2 DEF SignInInv, SpentInv, PasskeyOnce
    <3>3. QED
      BY <3>1, <3>2
  <2>2. QED
    BY <2>1 DEF PasskeyOnce
<1>11. QED
  BY <1>6, <1>9, <1>10, PasskeyStepInv

LEMMA FinishInv ==
  ASSUME SignInInv, NEW c \in Callers, NEW i \in ChallengeIds, NEW right \in BOOLEAN,
         finishRegistration(c, i, right) \/ finishAuthentication(c, i, right)
  PROVE  SignInInv'
<1> DEFINE x == [stage |-> "counted", counter |-> credential.device + 1]
<1>1. /\ UNCHANGED <<clock, hasAccount, challenges, guessed, pressure, totp, recovery, bootstrap>>
      /\ request[c] = Quiet /\ (Accept(<<"passkey", i>>) \/ UNCHANGED accepted)
  BY DEF finishRegistration, finishAuthentication, PasskeyFrame, codeVars, factorVars
<1>2. PICK kind \in {"registration", "authentication"} : consumeChallenge(i, kind)
  BY DEF finishRegistration, finishAuthentication
<1>3. credential \in [registered : BOOLEAN, signCount : Int, device : Int]
  BY DEF SignInInv, SignInTypes, PasskeyTypeOK
<1>4. \/ credential' = credential
      \/ credential' = [credential EXCEPT !.registered = TRUE]
      \/ credential' = [credential EXCEPT !.device = @ + 1]
  BY DEF finishRegistration, finishAuthentication
<1>5. credential' \in [registered : BOOLEAN, signCount : Int, device : Int]
  <2>1. credential.device + 1 \in Int
    BY <1>3
  <2>2. CASE credential' = [credential EXCEPT !.device = @ + 1]
    BY <1>3, <2>1, <2>2
  <2>3. CASE credential' = [credential EXCEPT !.registered = TRUE]
    BY <1>3, <2>3
  <2>4. QED
    BY <1>3, <1>4, <2>2, <2>3
<1>6. x \in CounterRequests /\ x.stage = "counted"
  BY <1>3 DEF CounterRequests
<1>7. request' = request \/ request' = [request EXCEPT ![c] = x]
  BY DEF finishRegistration, finishAuthentication
<1> HIDE DEF x
<1>8. x \in Requests /\ StepRead(x)
  BY <1>6 DEF Requests, StepRead
<1>9. RequestsTypeOK' /\ Aside /\ StepsRead'
  BY <1>1, <1>6, <1>7, <1>8, PlainKinds, CallerMoves, CallersStay
<1>10. QED
  BY <1>1, <1>2, <1>5, <1>9, CeremonyInv

\* Records whose flags and numbers are written together.
LEMMA CredentialWrites ==
  ASSUME NEW row \in [registered : BOOLEAN, signCount : Int, device : Int], NEW b \in BOOLEAN, NEW n \in Int
  PROVE  [row EXCEPT !.registered = b, !.signCount = n] \in [registered : BOOLEAN, signCount : Int, device : Int]
  OBVIOUS

LEMMA BootstrapWrites ==
  ASSUME NEW row \in BootstrapRows, NEW b \in BOOLEAN, NEW l \in BOOLEAN, NEW n \in Int
  PROVE  /\ [row EXCEPT !.open = b, !.link = l, !.expiresAt = n] \in BootstrapRows
         /\ [row EXCEPT !.open = b, !.link = l, !.expiresAt = n].open = b
  BY DEF BootstrapRows

LEMMA CredentialInv ==
  ASSUME SignInInv, NEW c \in Callers, saveCounter(c) \/ removePasskeyAction PROVE SignInInv'
<1>1. UNCHANGED <<clock, hasAccount, challenges, guessed, pressure, totp, recovery, bootstrap, ceremonies, accepted>>
  BY DEF saveCounter, removePasskeyAction, PasskeyFrame, codeVars, factorVars
<1>2. credential \in [registered : BOOLEAN, signCount : Int, device : Int]
  BY DEF SignInInv, SignInTypes, PasskeyTypeOK
<1>3. /\ credential' \in [registered : BOOLEAN, signCount : Int, device : Int]
      /\ RequestsTypeOK' /\ Aside /\ StepsRead'
  <2>1. CASE saveCounter(c)
    <3>1. request[c].stage = "counted" /\ request' = [request EXCEPT ![c] = Quiet]
      BY <2>1 DEF saveCounter
    <3>2. Quiet \in Requests /\ StepRead(Quiet) /\ Quiet.stage = "idle"
      BY PlainKinds DEF StepRead
    <3>3. RequestsTypeOK' /\ Aside /\ StepsRead'
      BY <1>1, <3>1, <3>2, CallerMoves
    <3>4. request[c].counter \in Int
      <4>1. request[c] \in Requests
        BY CallerNow
      <4>2. request[c] \in CounterRequests
        BY <3>1, <4>1 DEF Requests, PlainRequests, MailRequests, GuessRequests, DelayRequests, StepRequests
      <4>3. QED
        BY <4>2 DEF CounterRequests
    <3>5. \/ credential' = credential
          \/ credential' = [credential EXCEPT !.signCount = request[c].counter]
      BY <2>1 DEF saveCounter
    <3>6. QED
      <4> DEFINE n == request[c].counter
      <4>1. n \in Int /\ (credential' = credential \/ credential' = [credential EXCEPT !.signCount = n])
        BY <3>4, <3>5
      <4> HIDE DEF n
      <4>2. credential' \in [registered : BOOLEAN, signCount : Int, device : Int]
        BY <1>2, <4>1
      <4>3. QED
        BY <3>3, <4>2
  <2>2. CASE removePasskeyAction
    <3>1. UNCHANGED request /\ credential' = [credential EXCEPT !.registered = FALSE, !.signCount = 0]
      BY <2>2 DEF removePasskeyAction
    <3>2. RequestsTypeOK' /\ Aside /\ StepsRead'
      BY <1>1, <3>1, CallersStay
    <3>3. credential' \in [registered : BOOLEAN, signCount : Int, device : Int]
      <4>1. FALSE \in BOOLEAN /\ 0 \in Int
        OBVIOUS
      <4>2. QED
        BY <1>2, <3>1, <4>1, CredentialWrites, Zenon
    <3>4. QED
      BY <3>2, <3>3
  <2>3. QED
    BY <2>1, <2>2
<1>4. PasskeyTypeOK' /\ AcceptedTypeOK' /\ \A k : Kept(k)
  BY <1>1, <1>3, KeptAll DEF SignInInv, SignInTypes, PasskeyTypeOK, AcceptedTypeOK
<1>5. PasskeyOnce'
  BY <1>1, <1>4, OnceFrames
<1>6. QED
  BY <1>1, <1>3, <1>4, <1>5, PasskeyStepInv

LEMMA SetupStepInv ==
  ASSUME SignInInv,
         UNCHANGED <<clock, hasAccount, challenges, guessed, pressure, totp, recovery, ceremonies, credential>>,
         SetupTypeOK', RequestsTypeOK', AcceptedTypeOK', Aside, StepsRead', SetupOnce',
         \A kind : kind # "setup" => Kept(kind)
  PROVE  SignInInv'
<1>1. SignInTypes'
  BY DEF SignInInv, SignInTypes, CodesTypeOK, FactorTypeOK, PasskeyTypeOK
<1>2. Kept("challenge") /\ Kept("recovery") /\ Kept("passkey") /\ Kept("step")
  OBVIOUS
<1>3. ChallengeOnce' /\ RecoveryOnce' /\ PasskeyOnce' /\ StepsOnce'
  BY <1>2, OnceFrames
<1>4. Guesses'
  BY GuessFrame
<1>5. QED
  BY <1>1, <1>3, <1>4 DEF SignInInv, SpentInv

LEMMA OpenSetupInv ==
  ASSUME SignInInv, NEW c \in Callers, NEW right \in BOOLEAN,
         requestSetupLinkAction(right) \/ completeSetupAction(c, right)
  PROVE  SignInInv'
<1> DEFINE x == [stage |-> "closing"]
           e == clock + CodeTtl
<1>1. /\ UNCHANGED <<clock, hasAccount, challenges, guessed, pressure, totp, recovery, ceremonies, credential>>
      /\ UNCHANGED accepted
      /\ UNCHANGED request \/ (request[c] = Quiet /\ request' = [request EXCEPT ![c] = x])
      /\ \/ bootstrap' = [bootstrap EXCEPT !.link = TRUE, !.expiresAt = e]
         \/ bootstrap' = [bootstrap EXCEPT !.failed = TRUE]
         \/ bootstrap' = bootstrap
  BY DEF requestSetupLinkAction, completeSetupAction, SetupFrame, codeVars, factorVars, passkeyVars
<1>2. bootstrap \in BootstrapRows /\ e \in Int
  BY SignInConstants DEF SignInInv, SignInTypes, SetupTypeOK, CodesTypeOK
<1> HIDE DEF e
<1>3. bootstrap' \in BootstrapRows /\ bootstrap'.open = bootstrap.open
  BY <1>1, <1>2 DEF BootstrapRows
<1>4. x \in Requests /\ x.stage = "closing"
  BY PlainKinds
<1> HIDE DEF x
<1>5. StepRead(x)
  BY <1>4 DEF StepRead
<1>6. RequestsTypeOK' /\ Aside /\ StepsRead'
  BY <1>1, <1>4, <1>5, PlainKinds, CallerMoves, CallersStay
<1>7. SetupTypeOK' /\ AcceptedTypeOK' /\ \A k : Kept(k)
  BY <1>1, <1>3, KeptAll DEF SignInInv, SignInTypes, SetupTypeOK, AcceptedTypeOK
<1>8. SetupOnce'
  BY <1>1, <1>3 DEF SignInInv, SpentInv, SetupOnce
<1>9. QED
  BY <1>1, <1>6, <1>7, <1>8, SetupStepInv

LEMMA CompleteInv ==
  ASSUME SignInInv, NEW c \in Callers, complete(c) PROVE SignInInv'
<1>1. /\ request[c].stage = "closing" /\ request' = [request EXCEPT ![c] = Quiet]
      /\ UNCHANGED <<clock, hasAccount, challenges, guessed, pressure, totp, recovery, ceremonies, credential>>
  BY DEF complete, SetupFrame, codeVars, factorVars, passkeyVars
<1>2. Quiet \in Requests /\ StepRead(Quiet) /\ Quiet.stage = "idle"
  BY PlainKinds DEF StepRead
<1>3. RequestsTypeOK' /\ Aside /\ StepsRead'
  BY <1>1, <1>2, CallerMoves
<1>4. bootstrap \in BootstrapRows
  BY DEF SignInInv, SignInTypes, SetupTypeOK
<1>5. CASE bootstrap.open
  <2>1. /\ bootstrap' = [bootstrap EXCEPT !.open = FALSE, !.link = FALSE, !.expiresAt = 0]
        /\ Accept(<<"setup", 0>>)
    BY <1>5 DEF complete
  <2>2. <<"setup", 0>> \in Proofs
    BY ProofsThere
  <2>3. /\ AcceptedTypeOK' /\ accepted'[<<"setup", 0>>] = accepted[<<"setup", 0>>] + 1
        /\ \A kind : kind # "setup" => Kept(kind)
    BY <2>1, <2>2, AcceptKeeps
  <2>4. accepted[<<"setup", 0>>] = 0
    <3>1. accepted[<<"setup", 0>>] \in Nat
      BY <2>2 DEF SignInInv, SignInTypes, AcceptedTypeOK
    <3>2. QED
      BY <1>5, <3>1 DEF SignInInv, SpentInv, SetupOnce
  <2>5. bootstrap' \in BootstrapRows /\ bootstrap'.open = FALSE
    <3>1. FALSE \in BOOLEAN /\ 0 \in Int
      OBVIOUS
    <3>2. QED
      BY <1>4, <2>1, <3>1, BootstrapWrites, Zenon
  <2>6. SetupTypeOK' /\ SetupOnce'
    BY <2>3, <2>4, <2>5 DEF SetupTypeOK, SetupOnce
  <2>7. QED
    BY <1>1, <1>3, <2>3, <2>6, SetupStepInv
<1>6. CASE ~bootstrap.open
  <2>1. UNCHANGED <<bootstrap, accepted>>
    BY <1>6 DEF complete
  <2>2. SetupTypeOK' /\ AcceptedTypeOK' /\ \A kind : Kept(kind)
    BY <1>4, <2>1, KeptAll DEF SetupTypeOK, SignInInv, SignInTypes, AcceptedTypeOK
  <2>3. SetupOnce'
    BY <2>1, <2>2, OnceFrames
  <2>4. QED
    BY <1>1, <1>3, <2>2, <2>3, SetupStepInv
<1>7. QED
  BY <1>5, <1>6

-------------------------------------------------------------------------------
(* Together.                                                                  *)

LEMMA SignInInitInv == ASSUME SignInInit PROVE SignInInv
<1>1. \A c \in Callers : request[c] = Quiet
  BY DEF SignInInit
<1>2. RequestsTypeOK /\ \A c \in Callers : request[c].stage = "idle"
  BY <1>1, PlainKinds DEF SignInInit, RequestsTypeOK
<1>3. CodesTypeOK
  <2>1. hasAccount \in BOOLEAN /\ clock = 0
    BY DEF SignInInit
  <2>2. challenges \in [ChallengeIds -> ChallengeRows \cup {NoChallenge}] /\ guessed \in [ChallengeIds -> Nat]
    BY DEF SignInInit
  <2>3. pressure \in [failures : Nat, next : Int]
    BY DEF SignInInit
  <2>4. QED
    BY <2>1, <2>2, <2>3 DEF CodesTypeOK
<1>4. FactorTypeOK
  <2>1. totp = NoTotp \/ totp = [status |-> "active", seed |-> 1, last |-> 0]
    BY DEF SignInInit
  <2>2. 0 \in 0..MaxSeeds /\ 1 \in 0..MaxSeeds /\ -1 \in Int
    BY SignInConstants
  <2>3. totp \in TotpRows
    BY <2>1, <2>2 DEF NoTotp, TotpRows
  <2>4. recovery \in [RecoveryCodes -> CodeStates]
    BY DEF SignInInit, CodeStates
  <2>5. QED
    BY <2>3, <2>4 DEF FactorTypeOK
<1>5. PasskeyTypeOK
  <2>1. ceremonies \in [ChallengeIds -> CeremonyRows \cup {NoChallenge}]
    BY DEF SignInInit
  <2>2. credential = [registered |-> FALSE, signCount |-> 0, device |-> 0]
    BY DEF SignInInit
  <2>3. QED
    BY <2>1, <2>2 DEF PasskeyTypeOK
<1>6. SetupTypeOK
  <2> DEFINE b == part = "setup"
  <2>1. bootstrap = [open |-> b, link |-> FALSE, expiresAt |-> 0, failed |-> FALSE]
    BY DEF SignInInit
  <2>2. b \in BOOLEAN
    OBVIOUS
  <2> HIDE DEF b
  <2>3. QED
    BY <2>1, <2>2 DEF SetupTypeOK, BootstrapRows
<1>7. accepted = [p \in Proofs |-> 0]
  BY DEF SignInInit
<1>8. AcceptedTypeOK /\ \A p \in Proofs : accepted[p] = 0
  BY <1>7 DEF AcceptedTypeOK
<1>9. ChallengeOnce /\ PasskeyOnce /\ RecoveryOnce /\ SetupOnce
  <2>1. ~(0 > 0)
    OBVIOUS
  <2>2. \A i \in ChallengeIds : accepted[<<"challenge", i>>] = 0 /\ accepted[<<"passkey", i>>] = 0
    BY <1>8, ProofsThere
  <2>3. \A r \in RecoveryCodes : accepted[<<"recovery", r>>] = 0
    BY <1>8, ProofsThere
  <2>4. accepted[<<"setup", 0>>] = 0
    BY <1>8, ProofsThere
  <2>5. ChallengeOnce /\ PasskeyOnce
    BY <2>1, <2>2, Zenon DEF ChallengeOnce, PasskeyOnce
  <2>6. RecoveryOnce /\ SetupOnce
    BY <2>1, <2>3, <2>4, Zenon DEF RecoveryOnce, SetupOnce
  <2>7. QED
    BY <2>5, <2>6
<1>10. StepsOnce
  <2>1. \A s \in 0..MaxSeeds, k \in 0..MaxClock + 1 : StepTimes(s, k) = 0
    BY <1>8, ProofsThere DEF StepTimes
  <2>2. totp.seed \in 0..MaxSeeds
    BY <1>4 DEF FactorTypeOK, TotpRows
  <2>3. QED
    BY <2>1, <2>2 DEF StepsOnce
<1>11. StepsRead
  BY <1>2 DEF StepsRead, StepRead
<1>12. Guesses
  <2>1. \A i \in ChallengeIds : challenges[i] = NoChallenge /\ guessed[i] = 0
    BY DEF SignInInit
  <2>2. NoChallenge \notin ChallengeRows
    <3>1. \A r \in ChallengeRows : r.live
      BY DEF ChallengeRows
    <3>2. ~NoChallenge.live
      BY DEF NoChallenge
    <3>3. QED
      BY <3>1, <3>2
  <2>3. QED
    BY <1>2, <2>1, <2>2 DEF Guesses
<1>13. QED
  BY <1>2, <1>3, <1>4, <1>5, <1>6, <1>8, <1>9, <1>10, <1>11, <1>12 DEF SignInInv, SignInTypes, SpentInv

LEMMA SignInNextInv == ASSUME SignInInv, [SignInNext]_signInVars PROVE SignInInv'
<1>1. clock \in Nat
  BY DEF SignInInv, SignInTypes, CodesTypeOK
<1>2. CASE Tick
  BY <1>1, <1>2, SignInRestInv DEF Tick, codeVars, factorVars, passkeyVars
<1>3. CASE pruneExpiredWindows
  BY <1>1, <1>3, SignInRestInv DEF pruneExpiredWindows, factorVars, passkeyVars
<1>4. ASSUME NEW c \in Callers, CodeStep(c) PROVE SignInInv'
  <2>1. ASSUME NEW method \in Methods, requestSignInAction(c, method) PROVE SignInInv'
    BY <2>1, RequestSignInInv
  <2>2. ASSUME NEW i \in ChallengeIds, NEW bound \in BOOLEAN, NEW right \in BOOLEAN,
               verifySignIn(c, i, bound, right)
        PROVE  SignInInv'
    BY <2>2, VerifySignInInv
  <2>3. QED
    BY <1>4, <2>1, <2>2, SupersedeInv, IssueInv, CountAttemptInv, VerifyInv, RecordFailureInv
       DEF CodeStep, Methods
<1>5. ASSUME NEW c \in Callers, establishSession(c) \/ Verified(c) PROVE SignInInv'
  BY <1>5, EstablishInv, VerifiedInv
<1>6. CASE SessionStep
  <2>1. /\ UNCHANGED <<clock, hasAccount, challenges, guessed, pressure, request, totp, recovery, ceremonies>>
        /\ UNCHANGED <<credential, bootstrap, accepted>>
    BY <1>6 DEF SessionStep, signOutAction, signOutEverywhereAction, revokeSessionAction, SessionFrame,
                codeVars, factorVars, passkeyVars
  <2>2. QED
    BY <1>1, <2>1, SignInRestInv
<1>7. ASSUME NEW c \in Callers, FactorStep(c) PROVE SignInInv'
  <2>1. ASSUME NEW s \in SessionIds, beginTotpEnrollmentAction(s) PROVE SignInInv'
    BY <2>1, BeginEnrollmentInv
  <2>2. ASSUME NEW s \in SessionIds, activateTotpAction(c, s) PROVE SignInInv'
    BY <2>2, ActivateActionInv
  <2>3. ASSUME NEW s \in SessionIds, disableTotpAction(c, s) PROVE SignInInv'
    BY <2>3, DisableActionInv
  <2>4. QED
    BY <1>7, <2>1, <2>2, <2>3, SecondFactorInv, UseStepInv, AdmittedInv, ActivateInv, IssueCodesInv, DisableInv
       DEF FactorStep
<1>8. ASSUME NEW c \in Callers, PasskeyStep(c) PROVE SignInInv'
  <2>1. ASSUME NEW kind \in {"registration", "authentication"}, storeChallenge(kind) PROVE SignInInv'
    BY <2>1, StoreCeremonyInv
  <2>2. ASSUME NEW i \in ChallengeIds, NEW right \in BOOLEAN,
               finishRegistration(c, i, right) \/ finishAuthentication(c, i, right)
        PROVE  SignInInv'
    BY <2>2, FinishInv
  <2>3. QED
    BY <1>8, <2>1, <2>2, CredentialInv DEF PasskeyStep
<1>9. ASSUME NEW c \in Callers, SetupStep(c) PROVE SignInInv'
  BY <1>9, OpenSetupInv, CompleteInv DEF SetupStep
<1>10. CASE UNCHANGED signInVars
  BY <1>1, <1>10, SignInRestInv DEF signInVars, codeVars, factorVars, passkeyVars
<1>11. QED
  BY <1>2, <1>3, <1>4, <1>5, <1>6, <1>7, <1>8, <1>9, <1>10 DEF SignInNext

LEMMA SignInInvariance == SignInSpec => []SignInInv
<1>1. SignInInit => SignInInv
  BY SignInInitInv
<1>2. SignInInv /\ [SignInNext]_signInVars => SignInInv'
  BY SignInNextInv
<1>3. QED
  BY <1>1, <1>2, PTL DEF SignInSpec

\* However many requests guess at a challenge together, the guesses compared with it are bounded
\* by its attempts and the requests that can be between reading and counting (challenges.ts).
THEOREM GuessesStayBounded == SignInSpec => []GuessesAreBounded
<1>1. SignInInv => GuessesAreBounded
  <2> SUFFICES ASSUME SignInInv, NEW i \in ChallengeIds
               PROVE  guessed[i] <= maxAttempts + Cardinality(Callers) - 1
    BY DEF GuessesAreBounded
  <2>1. CASE challenges[i] \in ChallengeRows
    BY <2>1 DEF SignInInv, Guesses
  <2>2. CASE challenges[i] \notin ChallengeRows
    <3>1. guessed[i] = 0
      BY <2>2 DEF SignInInv, Guesses
    <3>2. QED
      BY <3>1, SignInConstants
  <2>3. QED
    BY <2>1, <2>2
<1>2. QED
  BY <1>1, SignInInvariance, PTL

\* No challenge, ceremony, recovery code, setup or step of the enrolled authenticator is accepted
\* twice, whichever requests present it together (challenges.ts, twofactor.ts, passkeys.ts,
\* bootstrap.ts).
THEOREM ProofsAreSpentOnce == SignInSpec => []ProofIsSpentOnce
<1>1. SignInInv => ProofIsSpentOnce
  <2> SUFFICES ASSUME SignInInv, NEW p \in Proofs, accepted[p] > 1
               PROVE  p[1] = "step" /\ p[2][1] # totp.seed
    BY DEF ProofIsSpentOnce
  <2>1. CASE p \in {"challenge", "passkey"} \X ChallengeIds
    <3>1. PICK i \in ChallengeIds : p = <<"challenge", i>> \/ p = <<"passkey", i>>
      BY <2>1
    <3>2. CASE p = <<"challenge", i>>
      <4>1. accepted[p] \in Nat
        BY DEF SignInInv, SignInTypes, AcceptedTypeOK
      <4>2. QED
        BY <3>2, <4>1 DEF SignInInv, SpentInv, ChallengeOnce
    <3>3. CASE p = <<"passkey", i>>
      <4>1. accepted[p] \in Nat
        BY DEF SignInInv, SignInTypes, AcceptedTypeOK
      <4>2. QED
        BY <3>3, <4>1 DEF SignInInv, SpentInv, PasskeyOnce
    <3>4. QED
      BY <3>1, <3>2, <3>3
  <2>2. CASE p \in {"recovery"} \X RecoveryCodes
    <3>1. PICK r \in RecoveryCodes : p = <<"recovery", r>>
      BY <2>2
    <3>2. accepted[p] \in Nat
      BY DEF SignInInv, SignInTypes, AcceptedTypeOK
    <3>3. QED
      BY <3>1, <3>2 DEF SignInInv, SpentInv, RecoveryOnce
  <2>3. CASE p = <<"setup", 0>>
    <3>1. accepted[p] \in Nat
      BY DEF SignInInv, SignInTypes, AcceptedTypeOK
    <3>2. QED
      BY <2>3, <3>1 DEF SignInInv, SpentInv, SetupOnce
  <2>4. CASE p \in {"step"} \X ((0..MaxSeeds) \X (0..MaxClock + 1))
    <3>1. PICK s \in 0..MaxSeeds, k \in 0..MaxClock + 1 : p = <<"step", <<s, k>>>>
      BY <2>4
    <3>2. accepted[p] \in Nat
      BY DEF SignInInv, SignInTypes, AcceptedTypeOK
    <3>3. s # totp.seed
      BY <3>1, <3>2 DEF SignInInv, SpentInv, StepsOnce, StepTimes
    <3>4. QED
      BY <3>1, <3>3
  <2>5. QED
    BY <2>1, <2>2, <2>3, <2>4 DEF Proofs
<1>2. QED
  BY <1>1, SignInInvariance, PTL

-------------------------------------------------------------------------------
(* The invariant of the alerts.                                              *)

Rows(s) ==
  [kind : Setting[s].kinds, subject : Subjects, rank : Nat, acknowledged : BOOLEAN,
   snoozedUntil : Int, resolved : BOOLEAN, notified : BOOLEAN, notifiedRank : Nat,
   remindersSent : Nat, nextReminderAt : Int]
Keys == AlertIds \X {"in_app", "email"} \X Members \X Nat
DeliveryStates == {"sent", "pending", "deferred", "suppressed", "failed"}
DeliveryRows == [status : DeliveryStates, attempts : 0..MAX_DELIVERY_ATTEMPTS, until : Int]
Todos(s) == UNION {[S -> Rows(s)] : S \in SUBSET AlertIds}
Sweeps(s) ==
  [pass : {"idle", "announce", "remind", "send"}, at : Nat \cup {None}, todo : Todos(s),
   wrote : AlertIds \cup {None}, claims : SUBSET Keys,
   answer : {NoAnswer} \cup [key : Keys, delivered : BOOLEAN]]

AlertsTypeOK ==
  /\ scene \in WatchScenes /\ now \in Nat
  /\ alerts \in [AlertIds -> Rows(scene) \cup {NoRow, Deleted}]
  /\ DOMAIN deliveries \subseteq Keys
  /\ \A k \in DOMAIN deliveries : deliveries[k] \in DeliveryRows
  /\ DOMAIN wire \subseteq Keys
  /\ \A k \in DOMAIN wire : wire[k] \in Nat
  /\ quiet.start \in Int /\ quiet.end \in Int
  /\ sweeps \in [Workers -> Sweeps(scene)]

\* Only alerts that were raised are in the hands of a sweep or on the wire.
KnownAlerts ==
  /\ \A k \in DOMAIN wire : alerts[k[1]] # NoRow
  /\ \A k \in DOMAIN deliveries : alerts[k[1]] # NoRow
  /\ \A w \in Workers :
       /\ \A a \in DOMAIN sweeps[w].todo : alerts[a] # NoRow
       /\ \A k \in sweeps[w].claims : alerts[k[1]] # NoRow
       /\ sweeps[w].wrote # None => sweeps[w].wrote \in DOMAIN sweeps[w].todo
       /\ DOMAIN sweeps[w].todo # {} => sweeps[w].pass # "idle" /\ sweeps[w].at \in Nat

Heard(r) ==
  ~r.resolved /\ ~r.acknowledged /\ r.rank >= REMINDABLE_SEVERITY_RANK =>
    ~r.notified \/ r.nextReminderAt # None \/ r.rank > r.notifiedRank

\* Nobody was told of more than the alert has become.
RankTrails == \A a \in AlertIds : Exists(a) /\ alerts[a].notified => alerts[a].notifiedRank <= alerts[a].rank

Wired(k) == IF k \in DOMAIN wire THEN wire[k] ELSE 0
Attempted(k) == IF k \in DOMAIN deliveries THEN deliveries[k].attempts ELSE 0
Unsent(k) == {w \in Workers : k \in sweeps[w].claims /\ sweeps[w].answer.key # k}
CoveredAt(k) == Exists(k[1]) => Wired(k) + Cardinality(Unsent(k)) <= Attempted(k)
AttemptsCover == \A k \in Keys : CoveredAt(k)

\* In the scene "alerts" a sweep works alone on rows that say which notification is next.
Numbered ==
  scene = "alerts" =>
    /\ \A a \in AlertIds : alerts[a] # Deleted
    /\ \A v, w \in Workers : sweeps[v].pass # "idle" /\ sweeps[w].pass # "idle" => v = w
    /\ \A w \in Workers : \A a \in DOMAIN sweeps[w].todo :
         notificationNumber(sweeps[w].todo[a]) = notificationNumber(alerts[a])
    /\ \A w \in Workers : sweeps[w].wrote # None =>
         \A m \in Members :
           <<sweeps[w].wrote, "in_app", m, notificationNumber(alerts[sweeps[w].wrote])>>
             \in DOMAIN deliveries

AlertsInv ==
  /\ AlertsTypeOK
  /\ KnownAlerts
  /\ RankTrails
  /\ OutstandingIsHeard
  /\ AttemptsCover
  /\ SendsAreBounded
  /\ Numbered
  /\ CountedWasWritten

-------------------------------------------------------------------------------
(* Steps that only move rows of the alerts: checks and people.               *)

LEMMA RowKinds ==
  /\ \A s \in WatchScenes : \A r \in Rows(s) : r # NoRow /\ r # Deleted
  /\ NoRow # Deleted
<1>1. \A s \in WatchScenes : "none" \notin Setting[s].kinds /\ "deleted" \notin Setting[s].kinds
  BY AlertsAssumption
<1>2. \A s \in WatchScenes : \A r \in Rows(s) : r.kind # "none" /\ r.kind # "deleted"
  BY <1>1 DEF Rows
<1>3. NoRow.kind = "none" /\ Deleted.kind = "deleted"
  BY DEF NoRow, Deleted
<1>4. QED
  BY <1>2, <1>3

LEMMA RowFacts ==
  ASSUME AlertsTypeOK, NEW a \in AlertIds
  PROVE  /\ Exists(a) <=> alerts[a] \in Rows(scene)
         /\ alerts[a] \in Rows(scene) => alerts[a] # NoRow /\ alerts[a] # Deleted
         /\ alerts[a] \in Rows(scene) \cup {NoRow, Deleted}
  BY RowKinds DEF AlertsTypeOK, Exists

\* A row appears that nobody was told of, or changes without forgetting what was told.
RowMoves(r, q) ==
  \/ q = r
  \/ r = NoRow /\ q \in Rows(scene) /\ ~q.notified
  \/ /\ r \in Rows(scene) /\ q \in Rows(scene)
     /\ q.notified = r.notified /\ q.remindersSent = r.remindersSent
     /\ q.notifiedRank = r.notifiedRank /\ q.rank >= r.rank
     /\ (r.notified => r.notifiedRank <= r.rank) /\ Heard(r) => Heard(q)

\* What the step says about everything but the alerts and people's choices.
OthersRest == UNCHANGED <<scene, now, deliveries, sweeps, wire>>

LEMMA HeardMeans ==
  ASSUME AlertsTypeOK
  PROVE  OutstandingIsHeard <=> \A a \in AlertIds : Exists(a) => Heard(alerts[a])
  BY DEF OutstandingIsHeard, Heard, Unresolved

LEMMA RowsMoveInv ==
  ASSUME AlertsInv, OthersRest, quiet'.start \in Int, quiet'.end \in Int,
         alerts' \in [AlertIds -> Rows(scene) \cup {NoRow, Deleted}],
         \A a \in AlertIds : RowMoves(alerts[a], alerts'[a])
  PROVE  AlertsInv'
<1>1. AlertsTypeOK /\ scene' = scene /\ now' = now /\ deliveries' = deliveries
      /\ sweeps' = sweeps /\ wire' = wire
  BY DEF AlertsInv, OthersRest
<1>2. AlertsTypeOK'
  <2>1. scene' \in WatchScenes /\ now' \in Nat
    BY <1>1 DEF AlertsTypeOK
  <2>2. alerts' \in [AlertIds -> Rows(scene') \cup {NoRow, Deleted}]
    BY <1>1
  <2>3. /\ DOMAIN deliveries' \subseteq Keys
        /\ \A k \in DOMAIN deliveries' : deliveries'[k] \in DeliveryRows
        /\ DOMAIN wire' \subseteq Keys
        /\ \A k \in DOMAIN wire' : wire'[k] \in Nat
        /\ sweeps' \in [Workers -> Sweeps(scene')]
    BY <1>1 DEF AlertsTypeOK
  <2>4. QED
    BY <2>1, <2>2, <2>3 DEF AlertsTypeOK
<1>3. ASSUME NEW a \in AlertIds
      PROVE  /\ Exists(a) <=> alerts[a] \in Rows(scene)
             /\ Exists(a)' <=> alerts'[a] \in Rows(scene)
             /\ Exists(a)' => Exists(a) \/ (alerts[a] = NoRow /\ ~alerts'[a].notified)
             /\ alerts[a] # NoRow => alerts'[a] # NoRow
             /\ (alerts[a] # Deleted => alerts'[a] # Deleted)
  <2>1. /\ Exists(a)' <=> alerts'[a] \in Rows(scene)
        /\ alerts'[a] \in Rows(scene) => alerts'[a] # NoRow /\ alerts'[a] # Deleted
    BY <1>1, <1>2, RowKinds DEF AlertsTypeOK, Exists
  <2>2. /\ Exists(a) <=> alerts[a] \in Rows(scene)
        /\ alerts[a] \in Rows(scene) => alerts[a] # NoRow /\ alerts[a] # Deleted
    BY <1>1, RowFacts
  <2>3. RowMoves(alerts[a], alerts'[a])
    OBVIOUS
  <2>4. NoRow # Deleted
    BY RowKinds
  <2>5. QED
    BY <1>1, <2>1, <2>2, <2>3, <2>4 DEF RowMoves
<1>4. KnownAlerts'
  <2>1. \A k \in DOMAIN wire \cup DOMAIN deliveries : k[1] \in AlertIds /\ alerts[k[1]] # NoRow
    BY <1>1 DEF AlertsInv, KnownAlerts, AlertsTypeOK, Keys
  <2>2. \A w \in Workers : /\ \A a \in DOMAIN sweeps[w].todo : a \in AlertIds /\ alerts[a] # NoRow
                           /\ \A k \in sweeps[w].claims : k[1] \in AlertIds /\ alerts[k[1]] # NoRow
    <3> SUFFICES ASSUME NEW w \in Workers
                 PROVE  /\ \A a \in DOMAIN sweeps[w].todo : a \in AlertIds /\ alerts[a] # NoRow
                        /\ \A k \in sweeps[w].claims : k[1] \in AlertIds /\ alerts[k[1]] # NoRow
      OBVIOUS
    <3>1. sweeps[w].todo \in Todos(scene) /\ sweeps[w].claims \subseteq Keys
      BY <1>1 DEF AlertsTypeOK, Sweeps
    <3>2. DOMAIN sweeps[w].todo \subseteq AlertIds
      BY <3>1 DEF Todos
    <3>3. \A k \in sweeps[w].claims : k[1] \in AlertIds
      BY <3>1 DEF Keys
    <3>4. QED
      BY <3>2, <3>3 DEF AlertsInv, KnownAlerts
  <2>3. QED
    BY <1>1, <1>3, <2>1, <2>2 DEF AlertsInv, KnownAlerts
<1>5. RankTrails' /\ OutstandingIsHeard'
  <2> SUFFICES ASSUME NEW a \in AlertIds, Exists(a)'
               PROVE  /\ alerts'[a].notified => alerts'[a].notifiedRank <= alerts'[a].rank
                      /\ Heard(alerts'[a])
    BY DEF RankTrails, OutstandingIsHeard, Heard, Unresolved
  <2>1. alerts'[a] \in Rows(scene)
    BY <1>3
  <2>2. CASE alerts[a] = NoRow /\ ~alerts'[a].notified
    BY <2>2 DEF Heard
  <2>3. CASE Exists(a)
    <3>1. alerts[a] \in Rows(scene) /\ alerts[a] # NoRow
      BY <1>1, <2>3, RowFacts
    <3>2. Heard(alerts[a]) /\ (alerts[a].notified => alerts[a].notifiedRank <= alerts[a].rank)
      BY <1>1, <2>3, HeardMeans DEF AlertsInv, RankTrails
    <3>3. alerts[a].rank \in Nat /\ alerts[a].notifiedRank \in Nat /\ alerts'[a].rank \in Nat
      BY <2>1, <3>1 DEF Rows
    <3>4. RowMoves(alerts[a], alerts'[a])
      OBVIOUS
    <3>5. QED
      BY <3>1, <3>2, <3>3, <3>4 DEF RowMoves
  <2>4. QED
    BY <1>3, <2>2, <2>3
<1>6. AttemptsCover' /\ SendsAreBounded'
  <2>1. SendsAreBounded'
    BY <1>1 DEF AlertsInv, SendsAreBounded
  <2>2. ASSUME NEW k \in Keys PROVE CoveredAt(k)'
    <3>1. Wired(k)' = Wired(k) /\ Attempted(k)' = Attempted(k) /\ Unsent(k)' = Unsent(k)
      BY <1>1 DEF Wired, Attempted, Unsent
    <3>2. k[1] \in AlertIds
      BY DEF Keys
    <3>3. CASE Exists(k[1])
      BY <3>1, <3>3 DEF AlertsInv, AttemptsCover, CoveredAt
    <3>4. CASE alerts[k[1]] = NoRow
      <4>1. k \notin DOMAIN wire /\ \A w \in Workers : k \notin sweeps[w].claims
        BY <3>4 DEF AlertsInv, KnownAlerts
      <4>2. Wired(k) = 0 /\ Unsent(k) = {}
        BY <4>1 DEF Wired, Unsent
      <4>3. Attempted(k) >= 0
        BY <1>1, AlertsAssumption DEF Attempted, AlertsTypeOK, DeliveryRows
      <4>4. QED
        BY <3>1, <4>2, <4>3, FS_EmptySet DEF CoveredAt
    <3>5. QED
      BY <1>3, <3>2, <3>3, <3>4 DEF CoveredAt
  <2>3. QED
    BY <2>1, <2>2 DEF AttemptsCover
<1>7. Numbered' /\ CountedWasWritten'
  <2> SUFFICES ASSUME scene = "alerts" PROVE Numbered' /\ CountedWasWritten'
    BY <1>1 DEF Numbered, CountedWasWritten
  <2>1. ASSUME NEW a \in AlertIds, alerts[a] # NoRow
        PROVE  notificationNumber(alerts'[a]) = notificationNumber(alerts[a])
               /\ alerts'[a].notified = alerts[a].notified /\ alerts'[a].remindersSent = alerts[a].remindersSent
    BY <2>1 DEF RowMoves, notificationNumber
  <2>2. ASSUME NEW w \in Workers
        PROVE  DOMAIN sweeps[w].todo \subseteq AlertIds
    <3>1. sweeps[w].todo \in Todos(scene)
      BY <1>1 DEF AlertsTypeOK, Sweeps
    <3>2. QED
      BY <3>1 DEF Todos
  <2>3. Numbered'
    <3>1. \A a \in AlertIds : alerts'[a] # Deleted
      BY <1>3 DEF AlertsInv, Numbered
    <3>2. \A v, w \in Workers : sweeps'[v].pass # "idle" /\ sweeps'[w].pass # "idle" => v = w
      BY <1>1 DEF AlertsInv, Numbered
    <3>3. \A w \in Workers : \A a \in DOMAIN sweeps[w].todo :
             notificationNumber(alerts'[a]) = notificationNumber(alerts[a])
      BY <2>1, <2>2 DEF AlertsInv, KnownAlerts
    <3>4. \A w \in Workers : \A a \in DOMAIN sweeps'[w].todo :
             notificationNumber(sweeps'[w].todo[a]) = notificationNumber(alerts'[a])
      BY <1>1, <3>3 DEF AlertsInv, Numbered
    <3>5. ASSUME NEW w \in Workers, sweeps'[w].wrote # None, NEW m \in Members
          PROVE  <<sweeps'[w].wrote, "in_app", m, notificationNumber(alerts'[sweeps'[w].wrote])>>
                   \in DOMAIN deliveries'
      <4>1. sweeps[w].wrote \in DOMAIN sweeps[w].todo
        BY <1>1, <3>5 DEF AlertsInv, KnownAlerts
      <4>2. notificationNumber(alerts'[sweeps[w].wrote]) = notificationNumber(alerts[sweeps[w].wrote])
        BY <3>3, <4>1
      <4>3. sweeps'[w].wrote = sweeps[w].wrote
        BY <1>1
      <4>4. QED
        BY <1>1, <3>5, <4>2, <4>3 DEF AlertsInv, Numbered
    <3>6. QED
      BY <3>1, <3>2, <3>4, <3>5 DEF Numbered
  <2>4. CountedWasWritten'
    <3>1. ASSUME NEW a \in AlertIds, Exists(a)', alerts'[a].notified
          PROVE  Exists(a) /\ alerts[a].notified /\ alerts'[a].remindersSent = alerts[a].remindersSent
      <4>1. Exists(a)
        BY <1>3, <3>1
      <4>2. alerts[a] # NoRow
        BY <4>1 DEF Exists
      <4>3. QED
        BY <2>1, <3>1, <4>1, <4>2
    <3>2. QED
      BY <1>1, <3>1 DEF AlertsInv, CountedWasWritten
  <2>5. QED
    BY <2>3, <2>4
<1>8. QED
  BY <1>2, <1>4, <1>5, <1>6, <1>7 DEF AlertsInv

\* One row changes.
LEMMA OneRowInv ==
  ASSUME AlertsInv, OthersRest, UNCHANGED quiet, NEW a \in AlertIds, NEW q,
         alerts[a] \in Rows(scene), q \in Rows(scene), RowMoves(alerts[a], q),
         alerts' = [alerts EXCEPT ![a] = q]
  PROVE  AlertsInv'
<1>1. alerts \in [AlertIds -> Rows(scene) \cup {NoRow, Deleted}]
      /\ quiet.start \in Int /\ quiet.end \in Int
  BY DEF AlertsInv, AlertsTypeOK
<1>2. alerts' \in [AlertIds -> Rows(scene) \cup {NoRow, Deleted}]
  BY <1>1
<1>3. \A b \in AlertIds : RowMoves(alerts[b], alerts'[b])
  BY <1>1 DEF RowMoves
<1>4. quiet'.start \in Int /\ quiet'.end \in Int
  BY <1>1
<1>5. QED
  BY <1>2, <1>3, <1>4, RowsMoveInv

\* No row changes.
LEMMA NoRowInv ==
  ASSUME AlertsInv, OthersRest, quiet'.start \in Int, quiet'.end \in Int, UNCHANGED alerts
  PROVE  AlertsInv'
<1>1. alerts \in [AlertIds -> Rows(scene) \cup {NoRow, Deleted}]
  BY DEF AlertsInv, AlertsTypeOK
<1>2. \A b \in AlertIds : RowMoves(alerts[b], alerts'[b])
  BY DEF RowMoves
<1>3. QED
  BY <1>1, <1>2, RowsMoveInv

LEMMA UnresolvedRow ==
  ASSUME AlertsInv, NEW a \in AlertIds, Unresolved(a)
  PROVE  alerts[a] \in Rows(scene) /\ ~alerts[a].resolved
  BY RowFacts DEF AlertsInv, Unresolved

LEMMA TimesAreInts == now \in Nat => now \in Int /\ None \in Int /\ now # None
  BY DEF None

LEMMA ScheduleEscalationInv ==
  ASSUME AlertsInv, NEW a \in AlertIds, scheduleEscalation(a), UNCHANGED <<scene, now>>
  PROVE  AlertsInv'
<1>1. OthersRest /\ UNCHANGED quiet
  BY DEF scheduleEscalation, OthersRest
<1>2. now \in Nat /\ quiet.start \in Int /\ quiet.end \in Int
  BY DEF AlertsInv, AlertsTypeOK
<1>3. CASE Unresolved(a)
  <2> DEFINE q == [alerts[a] EXCEPT !.nextReminderAt = now]
  <2>1. alerts' = [alerts EXCEPT ![a] = q]
    BY <1>3 DEF scheduleEscalation
  <2>2. alerts[a] \in Rows(scene)
    BY <1>3, UnresolvedRow
  <2>3. q \in Rows(scene)
    BY <1>2, <2>2 DEF Rows
  <2>4. q.nextReminderAt = now /\ now # None
    BY <1>2, <2>2, TimesAreInts DEF Rows
  <2>5. /\ q.notified = alerts[a].notified /\ q.remindersSent = alerts[a].remindersSent
        /\ q.notifiedRank = alerts[a].notifiedRank /\ q.rank = alerts[a].rank
    BY <2>2 DEF Rows
  <2>6. alerts[a].rank \in Nat
    BY <2>2 DEF Rows
  <2>7. RowMoves(alerts[a], q)
    <3> HIDE DEF q
    <3>1. Heard(q)
      BY <2>4 DEF Heard
    <3>2. QED
      BY <2>2, <2>3, <2>5, <2>6, <3>1 DEF RowMoves
  <2>8. QED
    BY <1>1, <2>1, <2>2, <2>3, <2>7, OneRowInv
<1>4. CASE ~Unresolved(a)
  <2>1. UNCHANGED alerts /\ quiet'.start \in Int /\ quiet'.end \in Int
    BY <1>1, <1>2, <1>4 DEF scheduleEscalation
  <2>2. QED
    BY <1>1, <2>1, NoRowInv
<1>5. QED
  BY <1>3, <1>4

\* A row that is acknowledged or resolved owes nobody anything.
LEMMA QuietRow ==
  ASSUME AlertsInv, OthersRest, UNCHANGED quiet, NEW a \in AlertIds, NEW q,
         alerts[a] \in Rows(scene), q \in Rows(scene), alerts' = [alerts EXCEPT ![a] = q],
         q.acknowledged \/ q.resolved,
         q.notified = alerts[a].notified, q.remindersSent = alerts[a].remindersSent,
         q.notifiedRank = alerts[a].notifiedRank, q.rank = alerts[a].rank
  PROVE  AlertsInv'
<1>1. Heard(q) /\ alerts[a].rank \in Nat
  BY DEF Heard, Rows
<1>2. RowMoves(alerts[a], q)
  BY <1>1 DEF RowMoves
<1>3. QED
  BY <1>2, OneRowInv

LEMMA AcknowledgeInv ==
  ASSUME AlertsInv, NEW a \in AlertIds, acknowledgeAlertAction(a), UNCHANGED <<scene, now>>
  PROVE  AlertsInv'
<1> DEFINE q == [alerts[a] EXCEPT !.acknowledged = TRUE, !.nextReminderAt = None]
<1>1. Unresolved(a) /\ OthersRest /\ UNCHANGED quiet
  BY DEF acknowledgeAlertAction, acknowledgeAlert, quietAlerts, OthersRest
<1>2. alerts' = [alerts EXCEPT ![a] = q]
  BY DEF acknowledgeAlertAction, acknowledgeAlert
<1>3. alerts[a] \in Rows(scene) /\ alerts \in [AlertIds -> Rows(scene) \cup {NoRow, Deleted}]
  BY <1>1, UnresolvedRow DEF AlertsInv, AlertsTypeOK
<1>4. None \in Int
  BY DEF None
<1>5. q \in Rows(scene) /\ q.acknowledged
  BY <1>3, <1>4 DEF Rows
<1>6. /\ q.notified = alerts[a].notified /\ q.remindersSent = alerts[a].remindersSent
      /\ q.notifiedRank = alerts[a].notifiedRank /\ q.rank = alerts[a].rank
  BY <1>3 DEF Rows
<1>7. alerts' = [alerts EXCEPT ![a] = q]
  <2> HIDE DEF q
  <2>1. QED
    BY <1>2, <1>3
<1>8. QED
  <2> HIDE DEF q
  <2>1. QED
    BY <1>1, <1>3, <1>5, <1>6, <1>7, QuietRow

LEMMA ResolveInv ==
  ASSUME AlertsInv, NEW a \in AlertIds, resolveAlert(a), quietAlerts, UNCHANGED <<scene, now>>
  PROVE  AlertsInv'
<1> DEFINE q == [alerts[a] EXCEPT !.resolved = TRUE, !.nextReminderAt = None]
<1>1. Unresolved(a) /\ OthersRest /\ UNCHANGED quiet
  BY DEF resolveAlert, quietAlerts, OthersRest
<1>2. alerts' = [b \in AlertIds |-> IF b = a THEN q ELSE alerts[b]]
  BY DEF resolveAlert, resolvedAbout
<1>3. alerts[a] \in Rows(scene) /\ alerts \in [AlertIds -> Rows(scene) \cup {NoRow, Deleted}]
  BY <1>1, UnresolvedRow DEF AlertsInv, AlertsTypeOK
<1>4. None \in Int
  BY DEF None
<1>5. q \in Rows(scene) /\ q.resolved
  BY <1>3, <1>4 DEF Rows
<1>6. /\ q.notified = alerts[a].notified /\ q.remindersSent = alerts[a].remindersSent
      /\ q.notifiedRank = alerts[a].notifiedRank /\ q.rank = alerts[a].rank
  BY <1>3 DEF Rows
<1>7. alerts' = [alerts EXCEPT ![a] = q]
  <2> HIDE DEF q
  <2>1. QED
    BY <1>2, <1>3
<1>8. QED
  <2> HIDE DEF q
  <2>1. QED
    BY <1>1, <1>3, <1>5, <1>6, <1>7, QuietRow

LEMMA SnoozeInv ==
  ASSUME AlertsInv, NEW a \in AlertIds, NEW d \in Setting[scene].snoozes,
         snoozeAlertAction(a, d), UNCHANGED <<scene, now>>
  PROVE  AlertsInv'
<1> DEFINE q == [alerts[a] EXCEPT !.snoozedUntil = now + d]
<1>1. Unresolved(a) /\ OthersRest /\ UNCHANGED quiet /\ alerts' = [alerts EXCEPT ![a] = q]
  BY DEF snoozeAlertAction, snoozeAlert, quietAlerts, OthersRest
<1>2. alerts[a] \in Rows(scene)
  BY <1>1, UnresolvedRow
<1>3. now + d \in Int
  BY AlertsAssumption DEF AlertsInv, AlertsTypeOK
<1>4. q \in Rows(scene)
  BY <1>2, <1>3 DEF Rows
<1>5. RowMoves(alerts[a], q)
  <2>1. /\ q.notified = alerts[a].notified /\ q.remindersSent = alerts[a].remindersSent
        /\ q.notifiedRank = alerts[a].notifiedRank /\ q.rank = alerts[a].rank
        /\ q.resolved = alerts[a].resolved /\ q.acknowledged = alerts[a].acknowledged
        /\ q.nextReminderAt = alerts[a].nextReminderAt /\ alerts[a].rank \in Nat
    BY <1>2 DEF Rows
  <2> HIDE DEF q
  <2>2. Heard(alerts[a]) => Heard(q)
    BY <2>1 DEF Heard
  <2>3. QED
    BY <1>2, <1>4, <2>1, <2>2 DEF RowMoves
<1>6. QED
  BY <1>1, <1>2, <1>4, <1>5, OneRowInv

LEMMA ChoicesInv ==
  ASSUME AlertsInv, UNCHANGED <<scene, now>>,
         \/ \E m \in Members, p \in Setting[scene].preferences : savePreferenceAction(m, p)
         \/ \E w \in Setting[scene].windows : saveQuietHoursAction(w)
         \/ \E a \in AlertIds : raiserDies(a)
  PROVE  AlertsInv'
<1>1. UNCHANGED alerts /\ OthersRest
  BY DEF savePreferenceAction, savePreference, saveQuietHoursAction, saveBusinessSettings,
         raiserDies, OthersRest
<1>2. quiet' = quiet \/ quiet' \in Setting[scene].windows
  BY DEF savePreferenceAction, savePreference, saveQuietHoursAction, saveBusinessSettings,
         raiserDies
<1>3. quiet'.start \in Int /\ quiet'.end \in Int
  BY <1>2, AlertsAssumption DEF AlertsInv, AlertsTypeOK
<1>4. QED
  BY <1>1, <1>3, NoRowInv

LEMMA NextIdFree ==
  ASSUME AlertsInv, FreeIds # {}
  PROVE  NextId \in AlertIds /\ alerts[NextId] = NoRow
<1>1. FreeIds \subseteq AlertIds /\ FreeIds \subseteq Nat
  BY AlertsAssumption DEF FreeIds, AlertsInv, AlertsTypeOK
<1>2. \E a \in FreeIds : \A b \in FreeIds : a <= b
  BY <1>1, Least
<1>3. NextId \in FreeIds
  BY <1>2 DEF NextId
<1>4. QED
  BY <1>1, <1>3 DEF FreeIds

LEMMA RaiseInv ==
  ASSUME AlertsInv, NEW kind \in Setting[scene].kinds, NEW s \in Subjects, NEW rank \in Nat,
         raiseAlert(kind, s, rank), OthersRest, UNCHANGED quiet
  PROVE  AlertsInv'
<1> DEFINE R == Rows(scene)
           All == R \cup {NoRow, Deleted}
           about == About(kind, s)
           up(r) == [r EXCEPT !.rank = IF rank > r.rank THEN rank ELSE r.rank]
<1>1. alerts \in [AlertIds -> All] /\ quiet'.start \in Int /\ quiet'.end \in Int
  BY DEF AlertsInv, AlertsTypeOK
<1>2. alerts' = raised(kind, s, rank) /\ (about # {} \/ FreeIds # {})
  BY DEF raiseAlert
<1>3. CASE about = {}
  <2> DEFINE n == NewAlert(kind, s, rank)
             id == NextId
  <2>1. id \in AlertIds /\ alerts[id] = NoRow
    BY <1>2, <1>3, NextIdFree
  <2>2. alerts' = [alerts EXCEPT ![id] = n]
    BY <1>2, <1>3 DEF raised
  <2>3. n \in R /\ ~n.notified
    BY DEF NewAlert, Rows, None
  <2> HIDE DEF n, id, R
  <2>4. alerts' \in [AlertIds -> All]
    BY <1>1, <2>1, <2>2, <2>3
  <2>5. \A b \in AlertIds : RowMoves(alerts[b], alerts'[b])
    BY <1>1, <2>1, <2>2, <2>3 DEF RowMoves, R
  <2>6. QED
    BY <1>1, <2>4, <2>5, RowsMoveInv DEF R
<1>4. CASE about # {}
  <2>1. alerts' = [a \in AlertIds |-> IF a \in about THEN up(alerts[a]) ELSE alerts[a]]
    BY <1>2, <1>4 DEF raised
  <2>2. ASSUME NEW a \in AlertIds, a \in about
        PROVE  up(alerts[a]) \in R /\ RowMoves(alerts[a], up(alerts[a]))
    <3> DEFINE r == alerts[a]
               most == IF rank > r.rank THEN rank ELSE r.rank
               q == [r EXCEPT !.rank = most]
    <3>1. r \in R
      BY <2>2, UnresolvedRow DEF About
    <3>2. r.rank \in Nat /\ r.notifiedRank \in Nat
      BY <3>1 DEF Rows
    <3>3. most \in Nat /\ most >= r.rank /\ (most = r.rank \/ most > r.rank)
      BY <3>2
    <3> HIDE DEF most
    <3>4. q \in R /\ q.rank = most
      BY <3>1, <3>3 DEF Rows
    <3>5. /\ q.notified = r.notified /\ q.remindersSent = r.remindersSent
          /\ q.notifiedRank = r.notifiedRank /\ q.acknowledged = r.acknowledged
          /\ q.resolved = r.resolved /\ q.nextReminderAt = r.nextReminderAt
      BY <3>1 DEF Rows
    <3> HIDE DEF q
    <3>6. ASSUME r.notified => r.notifiedRank <= r.rank, Heard(r)
          PROVE  Heard(q)
      <4>1. CASE most = r.rank
        BY <3>4, <3>5, <3>6, <4>1 DEF Heard
      <4>2. CASE most > r.rank
        BY <3>2, <3>3, <3>4, <3>5, <3>6, <4>2 DEF Heard
      <4>3. QED
        BY <3>3, <4>1, <4>2
    <3>7. RowMoves(r, q)
      BY <3>1, <3>3, <3>4, <3>5, <3>6 DEF RowMoves
    <3>8. q = up(alerts[a])
      BY DEF q, most
    <3>9. QED
      BY <3>4, <3>7, <3>8
  <2> HIDE DEF up, R, about
  <2>3. alerts' \in [AlertIds -> All]
    BY <1>1, <2>1, <2>2
  <2>4. \A b \in AlertIds : RowMoves(alerts[b], alerts'[b])
    <3>1. \A r : RowMoves(r, r)
      BY DEF RowMoves
    <3>2. QED
      BY <2>1, <2>2, <3>1
  <2>5. QED
    BY <1>1, <2>3, <2>4, RowsMoveInv DEF R
<1>5. QED
  BY <1>3, <1>4

LEMMA RaisesInv ==
  ASSUME AlertsInv, Raises, UNCHANGED <<scene, now>>
  PROVE  AlertsInv'
<1>1. PICK s \in Subjects, kind \in Setting[scene].kinds :
        /\ \/ kind = "oversold" /\ alertOversold(s)
           \/ kind = "mapping_blocked" /\ alertMappingBlocked(s)
           \/ kind = "job_dead_lettered" /\ alertJobDeadLettered(s)
           \/ kind = "reconciliation_conflict" /\ alertConflict(s)
           \/ \E r \in Ranks : kind = "connection_unhealthy" /\ raiseAlert(kind, s, r)
        /\ UNCHANGED <<deliveries, prefs, quiet, sweeps, wire, crashes>>
  BY DEF Raises
<1>2. \E r \in Nat : raiseAlert(kind, s, r)
  BY <1>1, AlertsAssumption DEF alertOversold, alertMappingBlocked, alertJobDeadLettered, alertConflict
<1>3. OthersRest /\ UNCHANGED quiet
  BY <1>1 DEF OthersRest
<1>4. QED
  BY <1>2, <1>3, RaiseInv

-------------------------------------------------------------------------------
(* Steps of a sweep, of the clock and of retention.                          *)

LEMMA UnsentFinite ==
  ASSUME NEW k
  PROVE  /\ IsFiniteSet(Unsent(k)) /\ Cardinality(Unsent(k)) \in Nat
         /\ IsFiniteSet(Unsent(k)') /\ Cardinality(Unsent(k)') \in Nat
<1>1. Unsent(k) \in SUBSET Workers /\ Unsent(k)' \in SUBSET Workers
  BY DEF Unsent
<1>2. QED
  BY <1>1, AlertsAssumption, FS_Subset, FS_CardinalityType

LEMMA CountsAreNats ==
  ASSUME AlertsTypeOK, NEW k \in Keys
  PROVE  Wired(k) \in Nat /\ Attempted(k) \in Nat /\ Attempted(k) <= MAX_DELIVERY_ATTEMPTS
<1>1. MAX_DELIVERY_ATTEMPTS \in Nat
  BY AlertsAssumption
<1>2. Wired(k) \in Nat
  BY DEF Wired, AlertsTypeOK
<1>3. Attempted(k) \in 0..MAX_DELIVERY_ATTEMPTS
  BY <1>1 DEF Attempted, AlertsTypeOK, DeliveryRows
<1>4. QED
  BY <1>1, <1>2, <1>3

\* A delivery stays covered when nothing more is to be sent of it.
LEMMA CoveredKept ==
  ASSUME AlertsInv, UNCHANGED alerts, NEW k \in Keys, Unsent(k)' \subseteq Unsent(k),
         Wired(k)' = Wired(k), Attempted(k)' = Attempted(k)
  PROVE  CoveredAt(k)'
<1>1. Cardinality(Unsent(k)') <= Cardinality(Unsent(k))
  BY UnsentFinite, FS_Subset
<1>2. CoveredAt(k) /\ AlertsTypeOK
  BY DEF AlertsInv, AttemptsCover
<1>3. Wired(k) \in Nat /\ Attempted(k) \in Nat
  BY <1>2, CountsAreNats
<1>4. Exists(k[1])' = Exists(k[1])
  BY DEF Exists
<1>5. QED
  BY <1>1, <1>2, <1>3, <1>4, UnsentFinite DEF CoveredAt

\* What a sweep may hold: rows of alerts that were raised and, where sweeps are counted,
\* rows that say which notification is next.
Fits(w, q) ==
  /\ q \in Sweeps(scene)
  /\ \A a \in DOMAIN q.todo : alerts[a] # NoRow
  /\ \A k \in q.claims : alerts[k[1]] # NoRow
  /\ q.wrote # None => q.wrote \in DOMAIN q.todo
  /\ DOMAIN q.todo # {} => q.pass # "idle" /\ q.at \in Nat
  /\ scene = "alerts" =>
       /\ q.pass # "idle" => sweeps[w].pass # "idle" \/ \A v \in Workers : sweeps[v].pass = "idle"
       /\ \A a \in DOMAIN q.todo : notificationNumber(q.todo[a]) = notificationNumber(alerts[a])
       /\ q.wrote # None =>
            \A m \in Members :
              <<q.wrote, "in_app", m, notificationNumber(alerts[q.wrote])>> \in DOMAIN deliveries'

LEMMA SweepStepInv ==
  ASSUME AlertsInv, UNCHANGED <<scene, now, alerts, quiet>>, NEW w \in Workers, NEW q, Fits(w, q),
         sweeps' = [sweeps EXCEPT ![w] = q],
         DOMAIN deliveries \subseteq DOMAIN deliveries', DOMAIN deliveries' \subseteq Keys,
         \A k \in DOMAIN deliveries' : deliveries'[k] \in DeliveryRows,
         DOMAIN wire' \subseteq Keys, \A k \in DOMAIN wire' : wire'[k] \in Nat,
         \A k \in DOMAIN wire' : alerts[k[1]] # NoRow,
         \A k \in DOMAIN deliveries' : alerts[k[1]] # NoRow,
         \A k \in Keys : CoveredAt(k)', SendsAreBounded'
  PROVE  AlertsInv'
<1>1. /\ AlertsTypeOK /\ sweeps \in [Workers -> Sweeps(scene)]
      /\ \A v \in Workers : sweeps'[v] = IF v = w THEN q ELSE sweeps[v]
  BY DEF AlertsInv, AlertsTypeOK
<1>2. AlertsTypeOK'
  <2>1. sweeps' \in [Workers -> Sweeps(scene)]
    BY <1>1 DEF Fits
  <2>2. QED
    BY <1>1, <2>1 DEF AlertsTypeOK
<1>3. KnownAlerts'
  BY <1>1 DEF AlertsInv, KnownAlerts, Fits
<1>4. RankTrails' /\ OutstandingIsHeard'
  BY DEF AlertsInv, RankTrails, OutstandingIsHeard, Exists, Unresolved
<1>5. AttemptsCover'
  BY DEF AttemptsCover
<1>6. CountedWasWritten'
  BY DEF AlertsInv, CountedWasWritten, Exists
<1>7. Numbered'
  <2> SUFFICES ASSUME scene = "alerts" PROVE Numbered'
    BY DEF Numbered
  <2>1. \A a \in AlertIds : alerts'[a] # Deleted
    BY DEF AlertsInv, Numbered
  <2>2. \A u, v \in Workers : sweeps'[u].pass # "idle" /\ sweeps'[v].pass # "idle" => u = v
    BY <1>1 DEF AlertsInv, Numbered, Fits
  <2>3. \A v \in Workers : \A a \in DOMAIN sweeps'[v].todo :
           notificationNumber(sweeps'[v].todo[a]) = notificationNumber(alerts'[a])
    BY <1>1 DEF AlertsInv, Numbered, Fits
  <2>4. ASSUME NEW v \in Workers, sweeps'[v].wrote # None, NEW m \in Members
        PROVE  <<sweeps'[v].wrote, "in_app", m, notificationNumber(alerts'[sweeps'[v].wrote])>>
                 \in DOMAIN deliveries'
    <3>1. CASE v = w
      BY <1>1, <2>4, <3>1 DEF Fits
    <3>2. CASE v # w
      BY <1>1, <2>4, <3>2 DEF AlertsInv, Numbered
    <3>3. QED
      BY <3>1, <3>2
  <2>5. QED
    BY <2>1, <2>2, <2>3, <2>4 DEF Numbered
<1>8. QED
  BY <1>2, <1>3, <1>4, <1>5, <1>6, <1>7 DEF AlertsInv

\* Nothing is written and nothing is to be sent that was not before.
LEMMA QuietSweepInv ==
  ASSUME AlertsInv, UNCHANGED <<scene, now, alerts, quiet, deliveries, wire>>,
         NEW w \in Workers, NEW q, Fits(w, q), sweeps' = [sweeps EXCEPT ![w] = q],
         q.claims \subseteq sweeps[w].claims, q.claims = {} \/ q.answer = sweeps[w].answer
  PROVE  AlertsInv'
<1>1. \A v \in Workers : sweeps'[v] = IF v = w THEN q ELSE sweeps[v]
  BY DEF AlertsInv, AlertsTypeOK
<1>2. ASSUME NEW k \in Keys PROVE CoveredAt(k)'
  <2>1. Unsent(k)' \subseteq Unsent(k)
    BY <1>1 DEF Unsent
  <2>2. Wired(k)' = Wired(k) /\ Attempted(k)' = Attempted(k)
    BY DEF Wired, Attempted
  <2>3. QED
    BY <2>1, <2>2, CoveredKept
<1>3. SendsAreBounded'
  BY DEF AlertsInv, SendsAreBounded
<1>4. /\ DOMAIN deliveries \subseteq DOMAIN deliveries' /\ DOMAIN deliveries' \subseteq Keys
      /\ \A k \in DOMAIN deliveries' : deliveries'[k] \in DeliveryRows
      /\ DOMAIN wire' \subseteq Keys /\ \A k \in DOMAIN wire' : wire'[k] \in Nat
      /\ \A k \in DOMAIN wire' : alerts[k[1]] # NoRow
      /\ \A k \in DOMAIN deliveries' : alerts[k[1]] # NoRow
  BY DEF AlertsInv, AlertsTypeOK, KnownAlerts
<1>5. QED
  BY <1>2, <1>3, <1>4, SweepStepInv

LEMMA IdleSweep ==
  \A s : /\ Idle \in Sweeps(s)
         /\ DOMAIN Idle.todo = {} /\ Idle.wrote = None /\ Idle.claims = {} /\ Idle.pass = "idle"
<1>1. \A s : << >> \in [{} -> Rows(s)]
  OBVIOUS
<1>2. \A s : << >> \in Todos(s)
  BY <1>1 DEF Todos
<1>3. NoAnswer \in {NoAnswer} \cup [key : Keys, delivered : BOOLEAN]
  OBVIOUS
<1>4. QED
  BY <1>2, <1>3 DEF Idle, Sweeps

LEMMA BackToIdleInv ==
  ASSUME AlertsInv, UNCHANGED <<scene, now, alerts, quiet, deliveries, wire>>,
         NEW w \in Workers, sweeps' = [sweeps EXCEPT ![w] = Idle]
  PROVE  AlertsInv'
<1>1. Fits(w, Idle)
  BY IdleSweep DEF Fits
<1>2. QED
  BY <1>1, IdleSweep, QuietSweepInv

\* A pass begins with rows as they are.
LEMMA PassBeginsInv ==
  ASSUME AlertsInv, UNCHANGED <<scene, now, alerts, quiet, deliveries, wire>>,
         NEW w \in Workers, NEW S \in SUBSET AlertIds, NEW pass \in {"announce", "remind"},
         \A a \in S : Unresolved(a),
         scene = "alerts" => sweeps[w].pass # "idle" \/ \A v \in Workers : sweeps[v].pass = "idle",
         sweeps' = [sweeps EXCEPT ![w] = [Idle EXCEPT !.pass = pass, !.at = now,
                                                      !.todo = [a \in S |-> alerts[a]]]]
  PROVE  AlertsInv'
<1> DEFINE t == [a \in S |-> alerts[a]]
           q == [Idle EXCEPT !.pass = pass, !.at = now, !.todo = t]
<1>1. \A a \in S : alerts[a] \in Rows(scene) /\ alerts[a] # NoRow
  BY UnresolvedRow, RowFacts DEF AlertsInv
<1>2. t \in Todos(scene)
  <2>1. t \in [S -> Rows(scene)]
    BY <1>1
  <2>2. QED
    BY <2>1 DEF Todos
<1>3. DOMAIN t = S /\ \A a \in S : t[a] = alerts[a]
  OBVIOUS
<1>4. now \in Nat
  BY DEF AlertsInv, AlertsTypeOK
<1> HIDE DEF t
<1>5. /\ q \in Sweeps(scene) /\ q.todo = t /\ q.wrote = None /\ q.claims = {} /\ q.pass = pass
      /\ q.at = now
  BY <1>2, <1>4, IdleSweep DEF Sweeps
<1>6. sweeps' = [sweeps EXCEPT ![w] = q]
  BY DEF t
<1> HIDE DEF q
<1>7. Fits(w, q)
  BY <1>1, <1>3, <1>4, <1>5 DEF Fits
<1>8. QED
  BY <1>5, <1>6, <1>7, QuietSweepInv

LEMMA AnnounceInv ==
  ASSUME AlertsInv, NEW w \in Workers, announceNewAlerts(w), UNCHANGED <<scene, now>>
  PROVE  AlertsInv'
<1> DEFINE S == {x \in AlertIds : Unresolved(x) /\ ~alerts[x].notified}
           busy == {v \in Workers : sweeps[v].pass # "idle"}
<1>1. ASSUME scene = "alerts" PROVE \A v \in Workers : sweeps[v].pass = "idle"
  <2>1. Setting[scene].atOnce = 1
    BY <1>1, AlertsAssumption DEF AlertsInv, AlertsTypeOK
  <2>2. busy \in SUBSET Workers /\ Cardinality(busy) < 1
    BY <2>1 DEF announceNewAlerts
  <2>3. IsFiniteSet(busy) /\ Cardinality(busy) \in Nat
    BY <2>2, AlertsAssumption, FS_Subset, FS_CardinalityType
  <2>4. busy = {}
    BY <2>2, <2>3, FS_EmptySet
  <2>5. QED
    BY <2>4
<1>2. UNCHANGED <<alerts, quiet, deliveries, wire>>
      /\ sweeps' = [sweeps EXCEPT ![w] = [Idle EXCEPT !.pass = "announce", !.at = now,
                                            !.todo = [a \in S |-> alerts[a]]]]
  BY DEF announceNewAlerts
<1>3. S \in SUBSET AlertIds /\ \A a \in S : Unresolved(a)
  OBVIOUS
<1> HIDE DEF S
<1>4. QED
  BY <1>1, <1>2, <1>3, PassBeginsInv

LEMMA RemindInv ==
  ASSUME AlertsInv, NEW w \in Workers, sendDueReminders(w), UNCHANGED <<scene, now>>
  PROVE  AlertsInv'
<1>1. UNCHANGED <<alerts, quiet, deliveries, wire>> /\ sweeps[w].pass # "idle"
      /\ sweeps' = [sweeps EXCEPT ![w] = [Idle EXCEPT !.pass = "remind", !.at = now,
                                            !.todo = [a \in DueForReminder |-> alerts[a]]]]
  BY DEF sendDueReminders
<1>2. DueForReminder \in SUBSET AlertIds /\ \A a \in DueForReminder : Unresolved(a)
  BY DEF DueForReminder
<1>3. QED
  BY <1>1, <1>2, PassBeginsInv

LEMMA SweepStopsInv ==
  ASSUME AlertsInv, NEW w \in Workers, sweepEnds(w) \/ sweepDies(w), UNCHANGED <<scene, now>>
  PROVE  AlertsInv'
<1>1. UNCHANGED <<alerts, quiet, deliveries, wire>> /\ sweeps' = [sweeps EXCEPT ![w] = Idle]
  BY DEF sweepEnds, sweepDies
<1>2. QED
  BY <1>1, BackToIdleInv

LEMMA QuietUntilType ==
  ASSUME NEW t \in Nat, NEW v, v.start \in Int, v.end \in Int
  PROVE  quietUntil(t, v) \in Int
<1>1. DayLength \in Nat \ {0}
  BY AlertsAssumption
<1>2. t % DayLength \in Int
  BY <1>1
<1>3. (v.end - (t % DayLength) + DayLength) \in Int
  BY <1>1, <1>2
<1>4. (v.end - (t % DayLength) + DayLength) % DayLength \in Int
  BY <1>1, <1>3
<1>5. QED
  BY <1>4 DEF quietUntil, None

\* What a notification writes.
LEMMA RoutedTypes ==
  ASSUME AlertsInv, NEW a \in AlertIds, NEW row \in Rows(scene), NEW t \in Nat
  PROVE  LET routed == routeAlert(row, t)
             n == notificationNumber(row)
         IN /\ n \in Nat
            /\ KeysOf(a, n, routed) \subseteq Keys
            /\ \A k \in KeysOf(a, n, routed) : Delivery(k, routed) \in DeliveryRows /\ Delivery(k, routed).attempts = 0
            /\ scene = "alerts" => \A m \in Members : <<a, "in_app", m, n>> \in KeysOf(a, n, routed)
<1> DEFINE routed == routeAlert(row, t)
           n == notificationNumber(row)
           heard == {m \in listRecipients(row) : <<m, row.kind>> \in MayHear}
           defer == IF bypassesQuietHours(row.kind, row.rank) THEN None ELSE quietUntil(t, quiet)
<1>1. n \in Nat
  BY DEF notificationNumber, Rows
<1>2. defer \in Int
  <2>1. quietUntil(t, quiet) \in Int
    BY QuietUntilType DEF AlertsInv, AlertsTypeOK
  <2>2. QED
    BY <2>1 DEF None
<1>3. routed = [m \in heard |-> [mail |-> wantsEmail(row.kind, row.rank, prefs[m]), until |-> defer]]
  BY DEF routeAlert
<1>4. heard \subseteq Members
  BY DEF listRecipients
<1>5. DOMAIN routed = heard /\ \A m \in heard : routed[m].until = defer
  BY <1>3
<1> HIDE DEF routed, heard, defer, n
<1>6. \A k \in KeysOf(a, n, routed) :
         k \in Keys /\ k[3] \in heard
  BY <1>1, <1>4, <1>5 DEF KeysOf, Keys
<1>7. ASSUME NEW k \in KeysOf(a, n, routed)
      PROVE  Delivery(k, routed) \in DeliveryRows /\ Delivery(k, routed).attempts = 0
  <2>1. routed[k[3]].until \in Int /\ None \in Int /\ 0 \in 0..MAX_DELIVERY_ATTEMPTS
    BY <1>2, <1>5, <1>6, AlertsAssumption DEF None
  <2>2. \/ Delivery(k, routed) = [status |-> "sent", attempts |-> 0, until |-> None]
        \/ Delivery(k, routed) = [status |-> "pending", attempts |-> 0, until |-> None]
        \/ Delivery(k, routed) = [status |-> "deferred", attempts |-> 0, until |-> routed[k[3]].until]
    BY DEF Delivery
  <2>3. QED
    BY <2>1, <2>2 DEF DeliveryRows, DeliveryStates
<1>8. ASSUME scene = "alerts", NEW m \in Members PROVE <<a, "in_app", m, n>> \in KeysOf(a, n, routed)
  <2>1. row.kind \in Setting["alerts"].kinds /\ "alerts" \in WatchScenes
    BY <1>8 DEF Rows, AlertsInv, AlertsTypeOK
  <2>2. row.kind \notin InstallationKinds
    BY <2>1, AlertsAssumption
  <2>3. <<m, row.kind>> \in MayHear
    BY <2>1, AlertsAssumption
  <2>4. m \in heard
    BY <2>2, <2>3 DEF heard, listRecipients
  <2>5. QED
    BY <1>5, <2>4 DEF KeysOf
<1>9. QED
  BY <1>1, <1>6, <1>7, <1>8 DEF routed, n

LEMMA NotifyInv ==
  ASSUME AlertsInv, NEW w \in Workers, notifyEach(w), UNCHANGED <<scene, now>>
  PROVE  AlertsInv'
<1> DEFINE s == sweeps[w]
           a == NextUp(w)
           row == s.todo[a]
           routed == routeAlert(row, s.at)
           n == notificationNumber(row)
           q == [s EXCEPT !.wrote = a]
           keys == KeysOf(a, n, routed)
           none == [status |-> "suppressed", attempts |-> 0, until |-> None]
<1>1. AlertsTypeOK /\ s \in Sweeps(scene) /\ DOMAIN s.todo # {} /\ s.pass # "idle"
  BY DEF AlertsInv, AlertsTypeOK, notifyEach
<1>2. DOMAIN s.todo \subseteq AlertIds /\ \A b \in DOMAIN s.todo : s.todo[b] \in Rows(scene)
  BY <1>1 DEF Sweeps, Todos
<1>3. a \in DOMAIN s.todo
  <2>1. DOMAIN s.todo \subseteq Nat
    BY <1>2, AlertsAssumption
  <2>2. \E x \in DOMAIN s.todo : \A y \in DOMAIN s.todo : x <= y
    BY <1>1, <2>1, Least
  <2>3. QED
    BY <2>2 DEF NextUp
<1>4. a \in AlertIds /\ row \in Rows(scene) /\ s.at \in Nat /\ alerts[a] # NoRow
  BY <1>1, <1>2, <1>3 DEF AlertsInv, KnownAlerts
<1>5. /\ n \in Nat /\ keys \subseteq Keys
      /\ \A k \in keys : Delivery(k, routed) \in DeliveryRows /\ Delivery(k, routed).attempts = 0
      /\ scene = "alerts" => \A m \in Members : <<a, "in_app", m, n>> \in keys
  <2> HIDE DEF a, row
  <2>1. QED
    BY <1>4, RoutedTypes
<1>6. /\ UNCHANGED <<alerts, quiet, wire>>
      /\ sweeps' = [sweeps EXCEPT ![w].wrote = a]
      /\ \/ deliveries' = Added(deliveries, [k \in keys |-> none])
         \/ deliveries' = Added(deliveries, [k \in keys |-> Delivery(k, routed)])
  BY DEF notifyEach, recordDeliveries, recordSuppressed
<1>7. none \in DeliveryRows /\ none.attempts = 0
  BY AlertsAssumption DEF DeliveryRows, DeliveryStates, None
<1> HIDE DEF none, keys, n, routed, row, a
<1>8. /\ DOMAIN deliveries' = DOMAIN deliveries \cup keys
      /\ \A k \in DOMAIN deliveries : deliveries'[k] = deliveries[k]
      /\ \A k \in keys \ DOMAIN deliveries : deliveries'[k] \in DeliveryRows /\ deliveries'[k].attempts = 0
  <2>1. CASE deliveries' = Added(deliveries, [k \in keys |-> none])
    BY <1>7, <2>1 DEF Added
  <2>2. CASE deliveries' = Added(deliveries, [k \in keys |-> Delivery(k, routed)])
    BY <1>5, <2>2 DEF Added
  <2>3. QED
    BY <1>6, <2>1, <2>2
<1>9. sweeps' = [sweeps EXCEPT ![w] = q] /\ sweeps \in [Workers -> Sweeps(scene)]
  BY <1>1, <1>6 DEF AlertsTypeOK
<1>10. /\ q \in Sweeps(scene) /\ q.wrote = a /\ q.todo = s.todo /\ q.claims = s.claims
       /\ q.answer = s.answer /\ q.pass = s.pass /\ q.at = s.at
  BY <1>1, <1>4 DEF Sweeps
<1> HIDE DEF q
<1>11. Fits(w, q)
  <2>1. /\ \A b \in DOMAIN q.todo : alerts[b] # NoRow
        /\ \A k \in q.claims : alerts[k[1]] # NoRow
    BY <1>10 DEF AlertsInv, KnownAlerts
  <2>2. /\ q.wrote # None => q.wrote \in DOMAIN q.todo
        /\ DOMAIN q.todo # {} => q.pass # "idle" /\ q.at \in Nat
    BY <1>1, <1>3, <1>4, <1>10
  <2>3. ASSUME scene = "alerts"
        PROVE  /\ sweeps[w].pass # "idle"
               /\ \A b \in DOMAIN q.todo : notificationNumber(q.todo[b]) = notificationNumber(alerts[b])
               /\ \A m \in Members :
                    <<q.wrote, "in_app", m, notificationNumber(alerts[q.wrote])>> \in DOMAIN deliveries'
    <3>1. \A b \in DOMAIN q.todo : notificationNumber(q.todo[b]) = notificationNumber(alerts[b])
      BY <1>10, <2>3 DEF AlertsInv, Numbered
    <3>2. notificationNumber(alerts[a]) = n
      BY <1>3, <1>10, <3>1 DEF n, row
    <3>3. QED
      BY <1>1, <1>5, <1>8, <1>10, <2>3, <3>1, <3>2
  <2>4. QED
    BY <1>10, <2>1, <2>2, <2>3 DEF Fits
<1>12. ASSUME NEW k \in Keys PROVE CoveredAt(k)'
  <2>1. Wired(k)' = Wired(k) /\ Attempted(k)' = Attempted(k)
    BY <1>6, <1>8 DEF Wired, Attempted
  <2>2. Unsent(k)' = Unsent(k)
    BY <1>9, <1>10 DEF Unsent
  <2>3. QED
    BY <1>6, <2>1, <2>2, CoveredKept
<1>13. SendsAreBounded'
  BY <1>6 DEF AlertsInv, SendsAreBounded
<1>14. /\ DOMAIN deliveries \subseteq DOMAIN deliveries' /\ DOMAIN deliveries' \subseteq Keys
       /\ \A k \in DOMAIN deliveries' : deliveries'[k] \in DeliveryRows
       /\ \A k \in DOMAIN deliveries' : alerts[k[1]] # NoRow
  <2>1. \A k \in keys : k[1] = a
    BY DEF keys, KeysOf
  <2>2. QED
    BY <1>1, <1>4, <1>5, <1>8, <2>1 DEF AlertsTypeOK, AlertsInv, KnownAlerts
<1>15. /\ DOMAIN wire' \subseteq Keys /\ \A k \in DOMAIN wire' : wire'[k] \in Nat
       /\ \A k \in DOMAIN wire' : alerts[k[1]] # NoRow
  BY <1>6 DEF AlertsInv, AlertsTypeOK, KnownAlerts
<1>16. QED
  BY <1>6, <1>9, <1>11, <1>12, <1>13, <1>14, <1>15, SweepStepInv

\* Attempts are counted for what is claimed.
LEMMA ClaimInv ==
  ASSUME AlertsInv, NEW w \in Workers, sendPendingEmail(w), UNCHANGED <<scene, now>>
  PROVE  AlertsInv'
<1> DEFINE due == {k \in DOMAIN deliveries : Due(k)}
           q == [Idle EXCEPT !.pass = "send", !.at = now, !.claims = due]
<1>1. /\ AlertsTypeOK /\ UNCHANGED <<alerts, quiet, wire>> /\ sweeps[w].pass # "idle" /\ now \in Nat
      /\ sweeps' = [sweeps EXCEPT ![w] = q] /\ sweeps \in [Workers -> Sweeps(scene)]
      /\ deliveries' = claimDueDeliveries
  BY DEF AlertsInv, AlertsTypeOK, sendPendingEmail
<1>2. due \subseteq Keys /\ due \subseteq DOMAIN deliveries
  BY <1>1 DEF AlertsTypeOK
<1>3. /\ q \in Sweeps(scene) /\ q.wrote = None /\ q.claims = due /\ DOMAIN q.todo = {}
      /\ q.pass = "send" /\ q.answer = NoAnswer
  <2> HIDE DEF due
  <2>1. Idle.answer = NoAnswer
    BY DEF Idle
  <2>2. QED
    BY <1>1, <1>2, <2>1, IdleSweep DEF Sweeps
<1>4. /\ DOMAIN deliveries' = DOMAIN deliveries
      /\ \A k \in DOMAIN deliveries : deliveries'[k] \in DeliveryRows
      /\ \A k \in DOMAIN deliveries : deliveries'[k].attempts =
            deliveries[k].attempts + IF k \in due THEN 1 ELSE 0
  <2> SUFFICES ASSUME NEW k \in DOMAIN deliveries
               PROVE  /\ DOMAIN deliveries' = DOMAIN deliveries
                      /\ deliveries'[k] \in DeliveryRows
                      /\ deliveries'[k].attempts = deliveries[k].attempts + IF k \in due THEN 1 ELSE 0
    BY <1>1 DEF claimDueDeliveries
  <2>1. deliveries[k] \in DeliveryRows /\ MAX_DELIVERY_ATTEMPTS \in Nat
    BY <1>1, AlertsAssumption DEF AlertsTypeOK
  <2>2. deliveries[k].attempts \in 0..MAX_DELIVERY_ATTEMPTS
    BY <2>1 DEF DeliveryRows
  <2>3. CASE Due(k)
    <3>1. deliveries'[k] = [deliveries[k] EXCEPT !.status = "pending", !.attempts = deliveries[k].attempts + 1]
      BY <1>1, <2>3 DEF claimDueDeliveries
    <3>2. deliveries[k].attempts + 1 \in 0..MAX_DELIVERY_ATTEMPTS
      BY <2>1, <2>2, <2>3 DEF Due
    <3>3. deliveries'[k] \in DeliveryRows /\ deliveries'[k].attempts = deliveries[k].attempts + 1
      BY <2>1, <3>1, <3>2 DEF DeliveryRows, DeliveryStates
    <3>4. QED
      BY <1>1, <2>3, <3>3 DEF claimDueDeliveries
  <2>4. CASE ~Due(k)
    <3>1. deliveries'[k] = deliveries[k] /\ DOMAIN deliveries' = DOMAIN deliveries /\ k \notin due
      BY <1>1, <2>4 DEF claimDueDeliveries
    <3>2. QED
      BY <2>1, <2>2, <3>1
  <2>5. QED
    BY <2>3, <2>4
<1>5. \A k \in due : alerts[k[1]] # NoRow
  BY <1>2 DEF AlertsInv, KnownAlerts
<1> HIDE DEF due, q
<1>6. Fits(w, q)
  BY <1>1, <1>3, <1>5 DEF Fits
<1>7. ASSUME NEW k \in Keys PROVE CoveredAt(k)'
  <2>1. \A v \in Workers : sweeps'[v] = IF v = w THEN q ELSE sweeps[v]
    BY <1>1
  <2>2. Wired(k)' = Wired(k) /\ Wired(k) \in Nat /\ Attempted(k) \in Nat
    BY <1>1, CountsAreNats DEF Wired
  <2>3. CASE k \notin due
    <3>1. Attempted(k)' = Attempted(k)
      BY <1>1, <1>4, <2>2, <2>3 DEF Attempted
    <3>2. Unsent(k)' \subseteq Unsent(k)
      BY <1>3, <2>1, <2>3 DEF Unsent
    <3>3. QED
      BY <1>1, <2>2, <3>1, <3>2, CoveredKept
  <2>4. CASE k \in due
    <3>1. Attempted(k)' = Attempted(k) + 1
      BY <1>2, <1>4, <2>4 DEF Attempted
    <3>2. Unsent(k)' \in SUBSET (Unsent(k) \cup {w})
      BY <2>1 DEF Unsent
    <3>3. IsFiniteSet(Unsent(k) \cup {w}) /\ Cardinality(Unsent(k) \cup {w}) <= Cardinality(Unsent(k)) + 1
      <4> DEFINE U == Unsent(k)
      <4>1. IsFiniteSet(U) /\ Cardinality(U) \in Nat
        BY UnsentFinite
      <4> HIDE DEF U
      <4>2. /\ IsFiniteSet(U \cup {w})
            /\ Cardinality(U \cup {w}) = IF w \in U THEN Cardinality(U) ELSE Cardinality(U) + 1
        BY <4>1, FS_AddElement
      <4>3. Cardinality(U \cup {w}) <= Cardinality(U) + 1
        BY <4>1, <4>2
      <4>4. QED
        BY <4>2, <4>3 DEF U
    <3>4. Cardinality(Unsent(k) \cup {w}) \in Nat
      BY <3>3, FS_CardinalityType
    <3>5. Cardinality(Unsent(k)') <= Cardinality(Unsent(k)) + 1
      BY <3>2, <3>3, <3>4, FS_Subset, UnsentFinite
    <3>6. CoveredAt(k) /\ Exists(k[1])' = Exists(k[1])
      BY <1>1 DEF AlertsInv, AttemptsCover, Exists
    <3>7. QED
      BY <2>2, <3>1, <3>5, <3>6, UnsentFinite DEF CoveredAt
  <2>5. QED
    BY <2>3, <2>4
<1>8. SendsAreBounded'
  BY <1>1 DEF AlertsInv, SendsAreBounded
<1>9. /\ DOMAIN wire' \subseteq Keys /\ \A k \in DOMAIN wire' : wire'[k] \in Nat
      /\ \A k \in DOMAIN wire' : alerts[k[1]] # NoRow
  BY <1>1 DEF AlertsInv, AlertsTypeOK, KnownAlerts
<1>10. DOMAIN deliveries' \subseteq Keys /\ \A k \in DOMAIN deliveries' : alerts[k[1]] # NoRow
  BY <1>1, <1>4 DEF AlertsTypeOK, AlertsInv, KnownAlerts
<1>11. QED
  BY <1>1, <1>4, <1>6, <1>7, <1>8, <1>9, <1>10, SweepStepInv

LEMMA KeysAreNot == \A k \in Keys : k # << >>
<1>1. \A k \in Keys : DOMAIN k = 1..4
  BY DEF Keys
<1>2. QED
  BY <1>1

\* The relay is called for a claim, whose attempt was counted.
LEMMA SendInv ==
  ASSUME AlertsInv, NEW w \in Workers, NEW k \in sweeps[w].claims, NEW ok \in BOOLEAN,
         mailerSend(w, k, ok), UNCHANGED <<scene, now>>
  PROVE  AlertsInv'
<1> DEFINE s == sweeps[w]
           answer == [key |-> k, delivered |-> ok]
           q == [s EXCEPT !.answer = answer]
<1>1. /\ AlertsTypeOK /\ UNCHANGED <<alerts, quiet, deliveries>> /\ s.answer = NoAnswer
      /\ sweeps' = [sweeps EXCEPT ![w].answer = answer] /\ sweeps \in [Workers -> Sweeps(scene)]
      /\ wire' = IF Exists(k[1]) THEN Put(wire, k, Wired(k) + 1) ELSE wire
  BY DEF AlertsInv, AlertsTypeOK, mailerSend, Wired
<1>2. s \in Sweeps(scene) /\ k \in Keys /\ alerts[k[1]] # NoRow
  BY <1>1 DEF Sweeps, AlertsInv, KnownAlerts
<1>3. answer \in [key : Keys, delivered : BOOLEAN] /\ answer.key = k
  BY <1>2
<1>4. sweeps' = [sweeps EXCEPT ![w] = q]
  BY <1>1
<1> HIDE DEF answer
<1>5. /\ q \in Sweeps(scene) /\ q.answer = answer /\ q.claims = s.claims /\ q.todo = s.todo
      /\ q.wrote = s.wrote /\ q.pass = s.pass /\ q.at = s.at
  BY <1>2, <1>3 DEF Sweeps
<1> HIDE DEF q
<1>6. \A v \in Workers : sweeps'[v] = IF v = w THEN q ELSE sweeps[v]
  BY <1>1, <1>4
<1>7. Fits(w, q)
  BY <1>1, <1>5 DEF Fits, AlertsInv, KnownAlerts, Numbered
<1>8. ASSUME NEW j \in Keys PROVE CoveredAt(j)' /\ (Exists(j[1]) => Wired(j)' <= MAX_DELIVERY_ATTEMPTS)
  <2>1. Attempted(j)' = Attempted(j) /\ Exists(j[1])' = Exists(j[1])
    BY <1>1 DEF Attempted, Exists
  <2>2. /\ Wired(j) \in Nat /\ Attempted(j) \in Nat /\ Attempted(j) <= MAX_DELIVERY_ATTEMPTS
        /\ MAX_DELIVERY_ATTEMPTS \in Nat
    BY <1>1, CountsAreNats, AlertsAssumption
  <2>3. CoveredAt(j)
    BY DEF AlertsInv, AttemptsCover
  <2>4. CASE j = k /\ Exists(k[1])
    <3>1. Wired(j)' = Wired(j) + 1
      BY <1>1, <2>4 DEF Wired, Put
    <3>2. w \in Unsent(j) /\ Unsent(j)' \subseteq Unsent(j) \ {w}
      <4>1. NoAnswer.key # k
        BY <1>2, KeysAreNot DEF NoAnswer
      <4>2. w \in Unsent(j)
        BY <1>1, <2>4, <4>1 DEF Unsent
      <4>3. Unsent(j)' \subseteq Unsent(j) \ {w}
        BY <1>3, <1>5, <1>6, <2>4 DEF Unsent
      <4>4. QED
        BY <4>2, <4>3
    <3>3. Cardinality(Unsent(j)') + 1 <= Cardinality(Unsent(j))
      <4> DEFINE U == Unsent(j)
                 V == Unsent(j)'
      <4>1. IsFiniteSet(U) /\ Cardinality(U) \in Nat /\ Cardinality(V) \in Nat
        BY UnsentFinite
      <4>2. w \in U /\ V \in SUBSET (U \ {w})
        BY <3>2
      <4> HIDE DEF U, V
      <4>3. IsFiniteSet(U \ {w}) /\ Cardinality(U \ {w}) = Cardinality(U) - 1
        BY <4>1, <4>2, FS_RemoveElement
      <4>4. Cardinality(V) <= Cardinality(U \ {w})
        BY <4>2, <4>3, FS_Subset
      <4>5. Cardinality(V) + 1 <= Cardinality(U)
        BY <4>1, <4>3, <4>4
      <4>6. QED
        BY <4>5 DEF U, V
    <3>4. QED
      BY <2>1, <2>2, <2>3, <2>4, <3>1, <3>3, UnsentFinite DEF CoveredAt
  <2>5. CASE ~(j = k /\ Exists(k[1]))
    <3>1. Wired(j)' = Wired(j)
      BY <1>1, <2>5 DEF Wired, Put
    <3>2. NoAnswer.key # j
      BY KeysAreNot DEF NoAnswer
    <3>3. Unsent(j)' \subseteq Unsent(j)
      BY <1>1, <1>5, <1>6, <3>2 DEF Unsent
    <3>4. CoveredAt(j)'
      BY <1>1, <2>1, <3>1, <3>3, CoveredKept
    <3>5. Wired(j) + Cardinality(Unsent(j)) <= Attempted(j) => Wired(j) <= MAX_DELIVERY_ATTEMPTS
      BY <2>2, UnsentFinite
    <3>6. QED
      BY <2>3, <3>1, <3>4, <3>5 DEF CoveredAt
  <2>6. QED
    BY <2>4, <2>5
<1>9. /\ DOMAIN wire' \subseteq Keys
      /\ \A j \in DOMAIN wire' : wire'[j] = Wired(j)' /\ alerts[j[1]] # NoRow
      /\ \A j \in DOMAIN wire' : j \in DOMAIN wire \/ (j = k /\ Exists(k[1]))
      /\ \A j \in DOMAIN wire' : (j = k /\ Exists(k[1])) \/ wire'[j] = wire[j]
  BY <1>1, <1>2 DEF Wired, Put, AlertsInv, AlertsTypeOK, KnownAlerts
<1>10. \A j \in DOMAIN wire' : wire'[j] \in Nat
  <2>1. Wired(k) \in Nat
    BY <1>1, <1>2, CountsAreNats
  <2>2. Exists(k[1]) => Wired(k)' = Wired(k) + 1
    BY <1>1 DEF Wired, Put
  <2>3. QED
    BY <1>9, <2>1, <2>2 DEF AlertsInv, AlertsTypeOK
<1>11. SendsAreBounded'
  <2>1. ASSUME NEW j \in DOMAIN wire' PROVE wire'[j] <= MAX_DELIVERY_ATTEMPTS
    <3>1. CASE j = k /\ Exists(k[1])
      BY <1>2, <1>8, <1>9, <3>1
    <3>2. CASE ~(j = k /\ Exists(k[1]))
      BY <1>9, <3>2 DEF AlertsInv, SendsAreBounded
    <3>3. QED
      BY <3>1, <3>2
  <2>2. QED
    BY <2>1 DEF SendsAreBounded
<1>12. /\ DOMAIN deliveries \subseteq DOMAIN deliveries' /\ DOMAIN deliveries' \subseteq Keys
       /\ \A j \in DOMAIN deliveries' : deliveries'[j] \in DeliveryRows
       /\ \A j \in DOMAIN deliveries' : alerts[j[1]] # NoRow
  BY <1>1 DEF AlertsTypeOK, AlertsInv, KnownAlerts
<1>13. QED
  BY <1>1, <1>4, <1>7, <1>8, <1>9, <1>10, <1>11, <1>12, SweepStepInv

LEMMA MarkedRow ==
  ASSUME NEW d \in DeliveryRows
  PROVE  /\ markDelivered(d) \in DeliveryRows /\ markDelivered(d).attempts = d.attempts
         /\ markFailed(d) \in DeliveryRows /\ markFailed(d).attempts = d.attempts
  BY DEF markDelivered, markFailed, DeliveryRows, DeliveryStates

LEMMA MarkInv ==
  ASSUME AlertsInv, NEW w \in Workers, markAnswer(w), UNCHANGED <<scene, now>>
  PROVE  AlertsInv'
<1> DEFINE s == sweeps[w]
           k == s.answer.key
           q == [s EXCEPT !.answer = NoAnswer, !.claims = s.claims \ {k}]
<1>1. /\ AlertsTypeOK /\ UNCHANGED <<alerts, quiet, wire>> /\ s.answer # NoAnswer
      /\ sweeps' = [sweeps EXCEPT ![w].answer = NoAnswer, ![w].claims = s.claims \ {k}]
      /\ sweeps \in [Workers -> Sweeps(scene)]
      /\ deliveries' = IF k \notin DOMAIN deliveries THEN deliveries
                       ELSE [deliveries EXCEPT ![k] = IF s.answer.delivered
                               THEN markDelivered(deliveries[k]) ELSE markFailed(deliveries[k])]
  BY DEF AlertsInv, AlertsTypeOK, markAnswer
<1>2. s \in Sweeps(scene)
  BY <1>1
<1>3. sweeps' = [sweeps EXCEPT ![w] = q]
  BY <1>1
<1>4. /\ q \in Sweeps(scene) /\ q.answer = NoAnswer /\ q.claims = s.claims \ {k} /\ q.todo = s.todo
      /\ q.wrote = s.wrote /\ q.pass = s.pass /\ q.at = s.at
  BY <1>2 DEF Sweeps
<1> HIDE DEF q
<1>5. \A v \in Workers : sweeps'[v] = IF v = w THEN q ELSE sweeps[v]
  BY <1>1, <1>3
<1>6. /\ DOMAIN deliveries' = DOMAIN deliveries
      /\ \A j \in DOMAIN deliveries : deliveries'[j] \in DeliveryRows
      /\ \A j \in DOMAIN deliveries : deliveries'[j].attempts = deliveries[j].attempts
  <2>1. \A j \in DOMAIN deliveries : deliveries[j] \in DeliveryRows
    BY <1>1 DEF AlertsTypeOK
  <2>2. \A j \in DOMAIN deliveries : j # k => deliveries'[j] = deliveries[j]
    BY <1>1
  <2>3. k \in DOMAIN deliveries =>
          deliveries'[k] = markDelivered(deliveries[k]) \/ deliveries'[k] = markFailed(deliveries[k])
    BY <1>1
  <2>4. DOMAIN deliveries' = DOMAIN deliveries
    BY <1>1
  <2>5. QED
    BY <2>1, <2>2, <2>3, <2>4, MarkedRow
<1>7. Fits(w, q)
  <2>1. DOMAIN deliveries \subseteq DOMAIN deliveries'
    BY <1>6
  <2>2. QED
    BY <1>4, <2>1 DEF Fits, AlertsInv, KnownAlerts, Numbered
<1>8. ASSUME NEW j \in Keys PROVE CoveredAt(j)'
  <2>1. Wired(j)' = Wired(j) /\ Attempted(j)' = Attempted(j)
    BY <1>1, <1>6 DEF Wired, Attempted
  <2>2. Unsent(j)' \subseteq Unsent(j)
    BY <1>4, <1>5 DEF Unsent
  <2>3. QED
    BY <1>1, <2>1, <2>2, CoveredKept
<1>9. SendsAreBounded'
  BY <1>1 DEF AlertsInv, SendsAreBounded
<1>10. /\ DOMAIN wire' \subseteq Keys /\ \A j \in DOMAIN wire' : wire'[j] \in Nat
       /\ \A j \in DOMAIN wire' : alerts[j[1]] # NoRow
       /\ DOMAIN deliveries' \subseteq Keys
       /\ \A j \in DOMAIN deliveries' : alerts[j[1]] # NoRow
  BY <1>1, <1>6 DEF AlertsInv, AlertsTypeOK, KnownAlerts
<1>11. QED
  BY <1>1, <1>3, <1>6, <1>7, <1>8, <1>9, <1>10, SweepStepInv

LEMMA NextReminderLater ==
  ASSUME NEW n \in Nat, NEW at \in Nat
  PROVE  nextReminderAt(n, at) \in Nat /\ nextReminderAt(n, at) # None
<1>1. REMINDER_GAPS \in Seq(Nat) /\ REPEAT_REMINDER_GAP \in Nat
  BY AlertsAssumption
<1>2. n < Len(REMINDER_GAPS) => n + 1 \in 1..Len(REMINDER_GAPS)
  BY <1>1
<1>3. n < Len(REMINDER_GAPS) => REMINDER_GAPS[n + 1] \in Nat
  BY <1>1, <1>2
<1>4. QED
  BY <1>1, <1>3 DEF nextReminderAt, None

\* The notification is counted in the row as it now is.
LEMMA RecordInv ==
  ASSUME AlertsInv, NEW w \in Workers, recordNotified(w), UNCHANGED <<scene, now>>
  PROVE  AlertsInv'
<1> DEFINE s == sweeps[w]
           a == s.wrote
           row == alerts[a]
           n == notificationNumber(row)
           next == IF row.acknowledged \/ row.rank < REMINDABLE_SEVERITY_RANK
                   THEN None ELSE nextReminderAt(n, s.at)
           new == [row EXCEPT !.notified = TRUE, !.notifiedRank = row.rank, !.remindersSent = n,
                              !.nextReminderAt = next]
           rest == [b \in DOMAIN s.todo \ {a} |-> s.todo[b]]
           q == [s EXCEPT !.wrote = None, !.todo = rest]
<1>1. /\ AlertsTypeOK /\ UNCHANGED <<quiet, deliveries, wire>> /\ a # None
      /\ sweeps' = [sweeps EXCEPT ![w].wrote = None, ![w].todo = rest]
      /\ sweeps \in [Workers -> Sweeps(scene)]
      /\ alerts' = IF Unresolved(a) THEN [alerts EXCEPT ![a] = new] ELSE alerts
  BY DEF AlertsInv, AlertsTypeOK, recordNotified, recorded, notificationNumber
<1>2. s \in Sweeps(scene) /\ s.todo \in Todos(scene)
  BY <1>1 DEF Sweeps
<1>3. /\ a \in DOMAIN s.todo /\ a \in AlertIds /\ DOMAIN s.todo \subseteq AlertIds
      /\ \A b \in DOMAIN s.todo : s.todo[b] \in Rows(scene)
      /\ s.at \in Nat /\ s.pass # "idle"
  BY <1>1, <1>2 DEF Todos, AlertsInv, KnownAlerts
<1>4. rest \in Todos(scene) /\ DOMAIN rest = DOMAIN s.todo \ {a} /\ \A b \in DOMAIN rest : rest[b] = s.todo[b]
  <2>1. rest \in [DOMAIN s.todo \ {a} -> Rows(scene)]
    BY <1>3
  <2>2. QED
    BY <1>3, <2>1 DEF Todos
<1>5. sweeps' = [sweeps EXCEPT ![w] = q]
  BY <1>1
<1> HIDE DEF rest
<1>6. /\ q \in Sweeps(scene) /\ q.wrote = None /\ q.todo = rest /\ q.claims = s.claims
      /\ q.answer = s.answer /\ q.pass = s.pass /\ q.at = s.at
  BY <1>2, <1>4 DEF Sweeps
<1>7. \A v \in Workers : sweeps'[v] = IF v = w THEN q ELSE sweeps[v]
  BY <1>1, <1>5
<1>8. ASSUME Unresolved(a)
      PROVE  /\ row \in Rows(scene) /\ new \in Rows(scene) /\ n \in Nat
             /\ new.notified /\ new.remindersSent = n /\ new.notifiedRank = row.rank /\ new.rank = row.rank
             /\ Heard(new)
  <2>1. row \in Rows(scene) /\ ~row.resolved
    BY <1>3, <1>8, UnresolvedRow
  <2>2. n \in Nat
    BY <2>1 DEF notificationNumber, Rows
  <2>3. nextReminderAt(n, s.at) \in Nat /\ nextReminderAt(n, s.at) # None
    BY <1>3, <2>2, NextReminderLater
  <2>4. next \in Int /\ (~row.acknowledged /\ ~(row.rank < REMINDABLE_SEVERITY_RANK) => next # None)
    BY <2>3 DEF None
  <2>5. row.rank \in Nat
    BY <2>1 DEF Rows
  <2> HIDE DEF n, next
  <2>6. new \in Rows(scene)
    BY <2>1, <2>2, <2>4, <2>5 DEF Rows
  <2>7. /\ new.notified /\ new.remindersSent = n /\ new.notifiedRank = row.rank /\ new.rank = row.rank
        /\ new.nextReminderAt = next /\ new.acknowledged = row.acknowledged /\ new.resolved = row.resolved
    BY <2>1 DEF Rows
  <2> HIDE DEF new
  <2>8. Heard(new)
    BY <2>4, <2>5, <2>7 DEF Heard, REMINDABLE_SEVERITY_RANK
  <2>9. QED
    BY <2>1, <2>2, <2>6, <2>7, <2>8
<1> HIDE DEF q, new
<1>9. /\ alerts' \in [AlertIds -> Rows(scene) \cup {NoRow, Deleted}]
      /\ \A b \in AlertIds : alerts'[b] = IF b = a /\ Unresolved(a) THEN new ELSE alerts[b]
  <2>1. alerts \in [AlertIds -> Rows(scene) \cup {NoRow, Deleted}]
    BY <1>1 DEF AlertsTypeOK
  <2>2. QED
    BY <1>1, <1>3, <1>8, <2>1
<1>10. \A b \in AlertIds : /\ alerts[b] # NoRow => alerts'[b] # NoRow
                           /\ alerts[b] # Deleted => alerts'[b] # Deleted
                           /\ Exists(b)' <=> Exists(b)
  <2>1. ASSUME Unresolved(a) PROVE new # NoRow /\ new # Deleted /\ row # NoRow /\ row # Deleted
    BY <1>1, <1>8, <2>1, RowKinds DEF AlertsTypeOK
  <2>2. QED
    BY <1>9, <2>1 DEF Exists
<1>11. AlertsTypeOK'
  <2>1. sweeps' \in [Workers -> Sweeps(scene)]
    BY <1>1, <1>5, <1>6
  <2>2. QED
    BY <1>1, <1>9, <2>1 DEF AlertsTypeOK
<1>12. KnownAlerts'
  <2>1. \A v \in Workers : /\ \A b \in DOMAIN sweeps[v].todo : b \in AlertIds /\ alerts[b] # NoRow
                           /\ \A k \in sweeps[v].claims : k[1] \in AlertIds /\ alerts[k[1]] # NoRow
    <3> SUFFICES ASSUME NEW v \in Workers
                 PROVE  /\ \A b \in DOMAIN sweeps[v].todo : b \in AlertIds /\ alerts[b] # NoRow
                        /\ \A k \in sweeps[v].claims : k[1] \in AlertIds /\ alerts[k[1]] # NoRow
      OBVIOUS
    <3>1. sweeps[v].todo \in Todos(scene) /\ sweeps[v].claims \subseteq Keys
      BY <1>1 DEF AlertsTypeOK, Sweeps
    <3>2. DOMAIN sweeps[v].todo \subseteq AlertIds
      BY <3>1 DEF Todos
    <3>3. \A k \in sweeps[v].claims : k[1] \in AlertIds
      BY <3>1 DEF Keys
    <3>4. QED
      BY <3>2, <3>3 DEF AlertsInv, KnownAlerts
  <2>2. \A k \in DOMAIN wire \cup DOMAIN deliveries : k[1] \in AlertIds /\ alerts[k[1]] # NoRow
    BY <1>1 DEF AlertsInv, KnownAlerts, AlertsTypeOK, Keys
  <2>3. ASSUME NEW v \in Workers
        PROVE  /\ \A b \in DOMAIN sweeps'[v].todo : alerts'[b] # NoRow
               /\ \A k \in sweeps'[v].claims : alerts'[k[1]] # NoRow
               /\ sweeps'[v].wrote # None => sweeps'[v].wrote \in DOMAIN sweeps'[v].todo
               /\ DOMAIN sweeps'[v].todo # {} => sweeps'[v].pass # "idle" /\ sweeps'[v].at \in Nat
    <3>1. CASE v = w
      BY <1>3, <1>4, <1>6, <1>7, <1>10, <2>1, <3>1
    <3>2. CASE v # w
      BY <1>7, <1>10, <2>1, <3>2 DEF AlertsInv, KnownAlerts
    <3>3. QED
      BY <3>1, <3>2
  <2>4. QED
    BY <1>1, <1>10, <2>2, <2>3 DEF KnownAlerts
<1>13. RankTrails' /\ OutstandingIsHeard'
  <2> SUFFICES ASSUME NEW b \in AlertIds, Exists(b)'
               PROVE  /\ alerts'[b].notified => alerts'[b].notifiedRank <= alerts'[b].rank
                      /\ Heard(alerts'[b])
    BY DEF RankTrails, OutstandingIsHeard, Heard, Unresolved
  <2>1. CASE b = a /\ Unresolved(a)
    <3>1. new.rank \in Nat
      BY <1>8, <2>1 DEF Rows
    <3>2. QED
      BY <1>8, <1>9, <2>1, <3>1
  <2>2. CASE ~(b = a /\ Unresolved(a))
    <3>1. alerts'[b] = alerts[b] /\ Exists(b)
      BY <1>9, <1>10, <2>2
    <3>2. Heard(alerts[b]) /\ (alerts[b].notified => alerts[b].notifiedRank <= alerts[b].rank)
      BY <1>1, <3>1, HeardMeans DEF AlertsInv, RankTrails
    <3>3. QED
      BY <3>1, <3>2
  <2>3. QED
    BY <2>1, <2>2
<1>14. AttemptsCover' /\ SendsAreBounded'
  <2>1. SendsAreBounded'
    BY <1>1 DEF AlertsInv, SendsAreBounded
  <2>2. ASSUME NEW k \in Keys PROVE CoveredAt(k)'
    <3>1. Wired(k)' = Wired(k) /\ Attempted(k)' = Attempted(k)
      BY <1>1 DEF Wired, Attempted
    <3>2. Unsent(k)' = Unsent(k)
      BY <1>6, <1>7 DEF Unsent
    <3>3. Exists(k[1])' <=> Exists(k[1])
      BY <1>10 DEF Keys
    <3>4. QED
      BY <3>1, <3>2, <3>3 DEF AlertsInv, AttemptsCover, CoveredAt
  <2>3. QED
    BY <2>1, <2>2 DEF AttemptsCover
<1>15. Numbered' /\ CountedWasWritten'
  <2> SUFFICES ASSUME scene = "alerts" PROVE Numbered' /\ CountedWasWritten'
    BY DEF Numbered, CountedWasWritten
  <2>1. \A v \in Workers : v # w => sweeps[v].pass = "idle" /\ DOMAIN sweeps[v].todo = {} /\ sweeps[v].wrote = None
    BY <1>3 DEF AlertsInv, Numbered, KnownAlerts
  <2>2. Numbered'
    <3>1. \A b \in AlertIds : alerts'[b] # Deleted
      BY <1>10 DEF AlertsInv, Numbered
    <3>2. \A u, v \in Workers : sweeps'[u].pass # "idle" /\ sweeps'[v].pass # "idle" => u = v
      BY <1>7, <2>1
    <3>3. \A b \in DOMAIN rest : notificationNumber(rest[b]) = notificationNumber(alerts[b]) /\ alerts'[b] = alerts[b]
      BY <1>3, <1>4, <1>9 DEF AlertsInv, Numbered
    <3>4. \A v \in Workers : \A b \in DOMAIN sweeps'[v].todo :
             notificationNumber(sweeps'[v].todo[b]) = notificationNumber(alerts'[b])
      BY <1>6, <1>7, <2>1, <3>3
    <3>5. \A v \in Workers : sweeps'[v].wrote = None
      BY <1>6, <1>7, <2>1
    <3>6. QED
      BY <3>1, <3>2, <3>4, <3>5 DEF Numbered
  <2>3. CountedWasWritten'
    <3>1. ASSUME NEW b \in AlertIds, Exists(b)', alerts'[b].notified,
                 NEW i \in 0..alerts'[b].remindersSent, NEW m \in Members
          PROVE  <<b, "in_app", m, i>> \in DOMAIN deliveries
      <4>1. CASE b = a /\ Unresolved(a)
        <5>1. i \in 0..n /\ n \in Nat /\ row \in Rows(scene) /\ Exists(a)
          BY <1>8, <1>9, <3>1, <4>1 DEF Unresolved
        <5>2. <<a, "in_app", m, n>> \in DOMAIN deliveries
          BY <1>1 DEF AlertsInv, Numbered
        <5>3. CASE i = n
          BY <4>1, <5>2, <5>3
        <5>4. CASE i # n
          <6>1. row.notified /\ n = row.remindersSent + 1 /\ row.remindersSent \in Nat
            BY <5>1, <5>4 DEF notificationNumber, Rows
          <6>2. i \in 0..row.remindersSent
            BY <5>1, <5>4, <6>1
          <6>3. QED
            BY <1>3, <4>1, <5>1, <6>1, <6>2 DEF AlertsInv, CountedWasWritten
        <5>5. QED
          BY <5>3, <5>4
      <4>2. CASE ~(b = a /\ Unresolved(a))
        <5>1. alerts'[b] = alerts[b] /\ Exists(b)
          BY <1>9, <1>10, <3>1, <4>2
        <5>2. QED
          BY <3>1, <5>1 DEF AlertsInv, CountedWasWritten
      <4>3. QED
        BY <4>1, <4>2
    <3>2. QED
      BY <1>1, <3>1 DEF CountedWasWritten
  <2>4. QED
    BY <2>2, <2>3
<1>16. QED
  BY <1>11, <1>12, <1>13, <1>14, <1>15 DEF AlertsInv

\* Retention: the alert goes, and its deliveries with it.
LEMMA DeleteInv ==
  ASSUME AlertsInv, NEW a \in AlertIds, "retain" \in Setting[scene].acts, deleteResolvedAlert(a),
         UNCHANGED <<scene, now>>
  PROVE  AlertsInv'
<1> DEFINE gone == {k \in DOMAIN deliveries : k[1] = a}
<1>1. /\ AlertsTypeOK /\ UNCHANGED <<quiet, sweeps, wire>> /\ Exists(a)
      /\ alerts' = [alerts EXCEPT ![a] = Deleted]
      /\ deliveries' = [k \in DOMAIN deliveries \ gone |-> deliveries[k]]
      /\ alerts \in [AlertIds -> Rows(scene) \cup {NoRow, Deleted}]
  BY DEF AlertsInv, AlertsTypeOK, deleteResolvedAlert, Without
<1>2. scene # "alerts"
  BY <1>1, AlertsAssumption DEF AlertsTypeOK
<1>3. /\ \A b \in AlertIds : alerts'[b] = IF b = a THEN Deleted ELSE alerts[b]
      /\ alerts' \in [AlertIds -> Rows(scene) \cup {NoRow, Deleted}]
  BY <1>1
<1>4. /\ DOMAIN deliveries' = DOMAIN deliveries \ gone
      /\ \A k \in DOMAIN deliveries' : deliveries'[k] = deliveries[k]
  BY <1>1
<1>5. \A b \in AlertIds : /\ alerts[b] # NoRow => alerts'[b] # NoRow
                          /\ Exists(b)' => Exists(b) /\ b # a
  BY <1>3, RowKinds DEF Exists
<1>6. AlertsTypeOK'
  BY <1>1, <1>3, <1>4 DEF AlertsTypeOK
<1>7. KnownAlerts'
  <2>1. \A v \in Workers : /\ DOMAIN sweeps[v].todo \subseteq AlertIds
                           /\ \A k \in sweeps[v].claims : k[1] \in AlertIds
    <3> SUFFICES ASSUME NEW v \in Workers
                 PROVE  /\ DOMAIN sweeps[v].todo \subseteq AlertIds
                        /\ \A k \in sweeps[v].claims : k[1] \in AlertIds
      OBVIOUS
    <3>1. sweeps[v].todo \in Todos(scene) /\ sweeps[v].claims \subseteq Keys
      BY <1>1 DEF AlertsTypeOK, Sweeps
    <3>2. QED
      BY <3>1 DEF Todos, Keys
  <2>2. \A k \in DOMAIN wire \cup DOMAIN deliveries : k[1] \in AlertIds
    BY <1>1 DEF AlertsTypeOK, Keys
  <2>3. QED
    BY <1>1, <1>4, <1>5, <2>1, <2>2 DEF AlertsInv, KnownAlerts
<1>8. RankTrails' /\ OutstandingIsHeard'
  <2>1. \A b \in AlertIds : Exists(b)' => Exists(b) /\ alerts'[b] = alerts[b]
    BY <1>3, <1>5
  <2>2. QED
    BY <2>1 DEF AlertsInv, RankTrails, OutstandingIsHeard, Unresolved
<1>9. ASSUME NEW k \in Keys PROVE CoveredAt(k)'
  <2>1. k[1] \in AlertIds
    BY DEF Keys
  <2>2. ASSUME Exists(k[1])' PROVE Exists(k[1]) /\ Attempted(k)' = Attempted(k)
    BY <1>4, <1>5, <2>1, <2>2 DEF Attempted
  <2>3. Wired(k)' = Wired(k) /\ Unsent(k)' = Unsent(k)
    BY <1>1 DEF Wired, Unsent
  <2>4. QED
    BY <2>2, <2>3 DEF AlertsInv, AttemptsCover, CoveredAt
<1>10. SendsAreBounded' /\ Numbered' /\ CountedWasWritten'
  BY <1>1, <1>2 DEF AlertsInv, SendsAreBounded, Numbered, CountedWasWritten
<1>11. QED
  BY <1>6, <1>7, <1>8, <1>9, <1>10 DEF AlertsInv, AttemptsCover

LEMMA AlertsRestInv ==
  ASSUME AlertsInv, UNCHANGED <<scene, alertVars>>, now' \in Nat
  PROVE  AlertsInv'
<1>1. UNCHANGED <<scene, alerts, deliveries, quiet, sweeps, wire>>
  BY DEF alertVars
<1>2. AlertsTypeOK'
  BY <1>1 DEF AlertsInv, AlertsTypeOK
<1>3. KnownAlerts' /\ RankTrails' /\ OutstandingIsHeard'
  BY <1>1 DEF AlertsInv, KnownAlerts, RankTrails, OutstandingIsHeard, Exists, Unresolved
<1>4. AttemptsCover' /\ SendsAreBounded'
  BY <1>1 DEF AlertsInv, AttemptsCover, SendsAreBounded, CoveredAt, Wired, Attempted, Unsent, Exists
<1>5. Numbered' /\ CountedWasWritten'
  BY <1>1 DEF AlertsInv, Numbered, CountedWasWritten, Exists
<1>6. QED
  BY <1>2, <1>3, <1>4, <1>5 DEF AlertsInv

LEMMA AlertsInitInv == ASSUME WatchInit PROVE AlertsInv
<1>1. /\ scene \in WatchScenes /\ now = 0 /\ alerts = [a \in AlertIds |-> NoRow]
      /\ deliveries = << >> /\ wire = << >> /\ quiet = [start |-> None, end |-> None]
      /\ sweeps = [w \in Workers |-> Idle]
  BY DEF WatchInit, AlertsInit
<1>2. DOMAIN << >> = {}
  OBVIOUS
<1>3. AlertsTypeOK
  <2>1. sweeps \in [Workers -> Sweeps(scene)]
    BY <1>1, IdleSweep
  <2>2. quiet.start \in Int /\ quiet.end \in Int
    BY <1>1 DEF None
  <2>3. QED
    BY <1>1, <1>2, <2>1, <2>2 DEF AlertsTypeOK
<1>4. \A a \in AlertIds : ~Exists(a) /\ alerts[a] # Deleted
  BY <1>1, RowKinds DEF Exists
<1>5. KnownAlerts
  BY <1>1, <1>2, IdleSweep DEF KnownAlerts
<1>6. RankTrails /\ OutstandingIsHeard /\ CountedWasWritten
  BY <1>4 DEF RankTrails, OutstandingIsHeard, Unresolved, CountedWasWritten
<1>7. AttemptsCover /\ SendsAreBounded
  <2>1. \A k \in Keys : k[1] \in AlertIds
    BY DEF Keys
  <2>2. QED
    BY <1>1, <1>2, <1>4, <2>1 DEF AttemptsCover, CoveredAt, SendsAreBounded
<1>8. Numbered
  BY <1>1, <1>4, IdleSweep DEF Numbered
<1>9. QED
  BY <1>3, <1>5, <1>6, <1>7, <1>8 DEF AlertsInv

LEMMA SweepInv ==
  ASSUME AlertsInv, NEW w \in Workers, SweepSteps(w), UNCHANGED <<scene, now>>
  PROVE  AlertsInv'
<1>1. CASE announceNewAlerts(w)
  BY <1>1, AnnounceInv
<1>2. CASE notifyEach(w)
  BY <1>2, NotifyInv
<1>3. CASE recordNotified(w)
  BY <1>3, RecordInv
<1>4. CASE sendDueReminders(w)
  BY <1>4, RemindInv
<1>5. CASE sendPendingEmail(w)
  BY <1>5, ClaimInv
<1>6. CASE markAnswer(w)
  BY <1>6, MarkInv
<1>7. CASE sweepEnds(w) \/ sweepDies(w)
  BY <1>7, SweepStopsInv
<1>8. CASE \E k \in sweeps[w].claims, ok \in BOOLEAN : mailerSend(w, k, ok)
  BY <1>8, SendInv
<1>9. QED
  BY <1>1, <1>2, <1>3, <1>4, <1>5, <1>6, <1>7, <1>8 DEF SweepSteps

LEMMA PeopleInv ==
  ASSUME AlertsInv, PeopleSteps, UNCHANGED <<scene, now>>
  PROVE  AlertsInv'
<1>1. CASE Raises
  BY <1>1, RaisesInv
<1>2. CASE \/ \E m \in Members, p \in Setting[scene].preferences : savePreferenceAction(m, p)
           \/ \E w \in Setting[scene].windows : saveQuietHoursAction(w)
           \/ \E a \in AlertIds : raiserDies(a)
  BY <1>2, ChoicesInv
<1>3. ASSUME NEW a \in AlertIds, acknowledgeAlertAction(a) PROVE AlertsInv'
  BY <1>3, AcknowledgeInv
<1>4. ASSUME NEW a \in AlertIds, resolveAlert(a), quietAlerts PROVE AlertsInv'
  BY <1>4, ResolveInv
<1>5. ASSUME NEW a \in AlertIds, NEW d \in Setting[scene].snoozes, snoozeAlertAction(a, d) PROVE AlertsInv'
  BY <1>5, SnoozeInv
<1>6. ASSUME NEW a \in AlertIds, scheduleEscalation(a) PROVE AlertsInv'
  BY <1>6, ScheduleEscalationInv
<1>7. ASSUME NEW a \in AlertIds, "retain" \in Setting[scene].acts, deleteResolvedAlert(a) PROVE AlertsInv'
  BY <1>7, DeleteInv
<1>8. QED
  BY <1>1, <1>2, <1>3, <1>4, <1>5, <1>6, <1>7 DEF PeopleSteps

LEMMA AlertsNextInv == ASSUME AlertsInv, [WatchNext]_watchVars PROVE AlertsInv'
<1>1. now \in Nat
  BY DEF AlertsInv, AlertsTypeOK
<1>2. CASE AlertsNext
  <2>1. CASE Passes
    BY <1>1, <2>1, AlertsRestInv DEF Passes
  <2>2. CASE (\E w \in Workers : SweepSteps(w)) /\ UNCHANGED <<scene, now>>
    BY <2>2, SweepInv
  <2>3. CASE PeopleSteps /\ UNCHANGED <<scene, now>>
    BY <2>3, PeopleInv
  <2>4. QED
    BY <1>2, <2>1, <2>2, <2>3 DEF AlertsNext
<1>3. CASE SchedulingNext /\ UNCHANGED alertVars
  <2>1. UNCHANGED <<scene, alertVars>> /\ now' \in Nat
    BY <1>1, <1>3 DEF SchedulingNext
  <2>2. QED
    BY <2>1, AlertsRestInv
<1>4. CASE UNCHANGED watchVars
  BY <1>1, <1>4, AlertsRestInv DEF watchVars
<1>5. QED
  BY <1>2, <1>3, <1>4 DEF WatchNext

LEMMA AlertsInvariance == WatchSpec => []AlertsInv
<1>1. WatchInit => AlertsInv
  BY AlertsInitInv
<1>2. AlertsInv /\ [WatchNext]_watchVars => AlertsInv'
  BY AlertsNextInv
<1>3. QED
  BY <1>1, <1>2, PTL DEF WatchSpec

\* However sweeps overlap, die and are repeated, and whatever retention removes meanwhile, no
\* message is put on the wire more often than it may be attempted (dispatch.ts).
THEOREM SendsStayBounded == WatchSpec => []SendsAreBounded
<1>1. AlertsInv => SendsAreBounded
  BY DEF AlertsInv
<1>2. QED
  BY <1>1, AlertsInvariance, PTL

\* No order of escalations, acknowledgements, sweeps and crashes leaves an outstanding alert
\* that nobody will be told of (alerts.ts, dispatch.ts).
THEOREM AlertsStayHeard == WatchSpec => []OutstandingIsHeard
<1>1. AlertsInv => OutstandingIsHeard
  BY DEF AlertsInv
<1>2. QED
  BY <1>1, AlertsInvariance, PTL

\* With one sweep at a time no notification is counted that was not written, wherever sweeps
\* die (recordNotified after recordDeliveries, dispatch.ts).
THEOREM CountsAreWritten == WatchSpec => []CountedWasWritten
<1>1. AlertsInv => CountedWasWritten
  BY DEF AlertsInv
<1>2. QED
  BY <1>1, AlertsInvariance, PTL

-------------------------------------------------------------------------------
(* The election: whoever thinks it leads has the lease, or had it so long ago *)
(* that it has run out.                                                       *)

Processes ==
  [state : {"new", "up", "down"}, at : {"idle", "ask", "beat", "due", "ticking"},
   leader : BOOLEAN, begun : Int, lastRenew : Int, lastTick : Int, wake : Int]
Leases == [holder : Workers \cup {"nobody"}, expires : Int, beat : Int]

LeaderTypeOK == now \in Nat /\ sched \in [Workers -> Processes] /\ lease \in Leases

\* A renewal counts from the beginning of its step, so the lease may outlast it.
LeaseOutlived ==
  \A w \in Workers : sched[w].leader =>
    \/ lease.holder = w /\ lease.expires >= sched[w].lastRenew + LeaseFor
    \/ now > sched[w].lastRenew + LeaseFor

\* A step under way past its renewal began on a lease renewed lately.
WellBegun(p) ==
  /\ p.at = "ask" => p.begun <= now
  /\ p.at \in {"beat", "due", "ticking"} => p.leader /\ p.begun - p.lastRenew < RenewEvery
StepsBegun == \A w \in Workers : WellBegun(sched[w])

LeaderInv == LeaderTypeOK /\ LeaseOutlived /\ StepsBegun

LEMMA LeaderConstants ==
  RenewEvery \in Nat /\ LeaseFor \in Nat /\ TickEvery \in Nat /\ ContendEvery \in Nat /\ RenewEvery > 0
  BY SchedulingAssumption

LEMMA SoonestType == \A a, b \in Int : soonest(a, b) \in Int
  BY DEF soonest

LEMMA WakeType ==
  ASSUME now \in Nat
  PROVE  now + soonest(RenewEvery, TickEvery) \in Int /\ now + ContendEvery \in Int
<1>1. soonest(RenewEvery, TickEvery) \in Int
  BY LeaderConstants, SoonestType
<1>2. QED
  BY <1>1, LeaderConstants

\* A process between steps that does not lead.
Resting(p) == p \in Processes /\ ~p.leader /\ p.at = "idle"

LEMMA FreshProcess ==
  /\ Resting(NewProcess) /\ Resting([NewProcess EXCEPT !.state = "down"])
  /\ \A t \in Int : Resting([NewProcess EXCEPT !.state = "up", !.wake = t])
<1>1. None \in Int
  BY DEF None
<1>2. QED
  BY <1>1 DEF NewProcess, Processes, Resting

LEMMA FollowsIsIdle == ASSUME now \in Nat PROVE Resting(Follows)
  BY WakeType, FreshProcess DEF Follows

\* One process changes and the lease does not, unless the process is the one that has it.
LEMMA ProcessStepInv ==
  ASSUME LeaderInv, UNCHANGED now, NEW w \in Workers, NEW p \in Processes, NEW l \in Leases,
         sched' = [sched EXCEPT ![w] = p], lease' = l,
         l = lease \/ (\A v \in Workers : v # w /\ sched[v].leader => now > sched[v].lastRenew + LeaseFor),
         p.leader => \/ l.holder = w /\ l.expires >= p.lastRenew + LeaseFor
                     \/ now > p.lastRenew + LeaseFor,
         WellBegun(p)
  PROVE  LeaderInv'
<1>1. sched \in [Workers -> Processes] /\ now \in Nat
  BY DEF LeaderInv, LeaderTypeOK
<1>2. \A v \in Workers : sched'[v] = IF v = w THEN p ELSE sched[v]
  BY <1>1
<1>3. LeaderTypeOK'
  BY <1>1 DEF LeaderTypeOK
<1>4. LeaseOutlived'
  BY <1>2 DEF LeaderInv, LeaseOutlived
<1>5. StepsBegun'
  BY <1>2 DEF LeaderInv, StepsBegun, WellBegun
<1>6. QED
  BY <1>3, <1>4, <1>5 DEF LeaderInv

\* The lease stays as it is, and the process leads no more or as before.
LEMMA QuietProcessInv ==
  ASSUME LeaderInv, UNCHANGED <<now, lease>>, NEW w \in Workers, NEW p \in Processes,
         sched' = [sched EXCEPT ![w] = p], WellBegun(p),
         p.leader => sched[w].leader /\ p.lastRenew = sched[w].lastRenew
  PROVE  LeaderInv'
<1>1. lease \in Leases
  BY DEF LeaderInv, LeaderTypeOK
<1>2. p.leader => \/ lease.holder = w /\ lease.expires >= p.lastRenew + LeaseFor
                  \/ now > p.lastRenew + LeaseFor
  BY DEF LeaderInv, LeaseOutlived
<1>3. QED
  BY <1>1, <1>2, ProcessStepInv

\* A process that may renew or acquire the lease does: nobody else's was still good.
LEMMA TakenLeaseInv ==
  ASSUME LeaderInv, UNCHANGED now, NEW w \in Workers, NEW p \in Processes,
         mayRenew(w) \/ mayAcquire(w), lease' = held(w),
         sched' = [sched EXCEPT ![w] = p], WellBegun(p), p.leader => p.lastRenew <= now
  PROVE  LeaderInv'
<1>1. now \in Nat /\ lease \in Leases /\ p.lastRenew \in Int
  BY DEF LeaderInv, LeaderTypeOK, Processes
<1>2. held(w) \in Leases /\ held(w).holder = w /\ held(w).expires = now + LeaseFor
  BY <1>1, LeaderConstants DEF held, Leases
<1>3. ASSUME NEW v \in Workers, v # w, sched[v].leader
      PROVE  now > sched[v].lastRenew + LeaseFor
  <2>1. lease.holder = v => lease.expires < now
    <3>1. CASE lease = NoLease
      BY <3>1, SchedulingAssumption DEF NoLease
    <3>2. CASE lease # NoLease
      BY <1>3, <3>2 DEF mayRenew, mayAcquire
    <3>3. QED
      BY <3>1, <3>2
  <2>2. sched[v].lastRenew \in Int /\ lease.expires \in Int
    BY <1>1, <1>3 DEF LeaderInv, LeaderTypeOK, Processes, Leases
  <2>3. \/ lease.holder = v /\ lease.expires >= sched[v].lastRenew + LeaseFor
        \/ now > sched[v].lastRenew + LeaseFor
    BY <1>3 DEF LeaderInv, LeaseOutlived
  <2>4. QED
    BY <1>1, <2>1, <2>2, <2>3, LeaderConstants
<1>4. p.leader => held(w).holder = w /\ held(w).expires >= p.lastRenew + LeaseFor
  BY <1>1, <1>2, LeaderConstants
<1>5. QED
  BY <1>2, <1>3, <1>4, ProcessStepInv

LEMMA StepInv == ASSUME LeaderInv, NEW w \in Workers, step(w), UNCHANGED now PROVE LeaderInv'
<1> DEFINE s == sched[w]
           renewed == s.leader /\ now - s.lastRenew < RenewEvery
           a == IF renewed THEN "beat" ELSE "ask"
           p == [s EXCEPT !.at = a, !.begun = now]
<1>1. s \in Processes /\ now \in Nat /\ sched \in [Workers -> Processes]
  BY DEF LeaderInv, LeaderTypeOK
<1>2. sched' = [sched EXCEPT ![w] = p] /\ UNCHANGED lease
  BY <1>1 DEF step
<1>3. /\ p \in Processes /\ p.leader = s.leader /\ p.lastRenew = s.lastRenew
      /\ p.begun = now /\ p.at = a
  <2>1. now \in Int /\ s \in Processes
    BY <1>1
  <2>2. a \in {"ask", "beat"}
    <3> HIDE DEF renewed
    <3>1. QED
      OBVIOUS
  <2> HIDE DEF a, s
  <2>3. QED
    BY <2>1, <2>2 DEF Processes
<1>4. WellBegun(p)
  <2> HIDE DEF p
  <2>1. CASE renewed
    BY <1>1, <1>3, <2>1 DEF WellBegun
  <2>2. CASE ~renewed
    BY <1>1, <1>3, <2>2 DEF WellBegun
  <2>3. QED
    BY <2>1, <2>2
<1> HIDE DEF p
<1>5. QED
  BY <1>2, <1>3, <1>4, QuietProcessInv

LEMMA RenewOrAcquireInv ==
  ASSUME LeaderInv, NEW w \in Workers, renewOrAcquire(w), UNCHANGED now PROVE LeaderInv'
<1> DEFINE s == sched[w]
           ticked == IF s.leader THEN s.lastTick ELSE None
           p == [s EXCEPT !.at = "beat", !.leader = TRUE, !.lastRenew = s.begun, !.lastTick = ticked]
<1>1. s \in Processes /\ now \in Nat /\ s.at = "ask" /\ s.leader \in BOOLEAN
  BY DEF LeaderInv, LeaderTypeOK, Processes, renewOrAcquire
<1>2. s.begun \in Int /\ s.begun <= now /\ ticked \in Int
  BY <1>1 DEF LeaderInv, StepsBegun, WellBegun, Processes, None
<1>3. CASE UNCHANGED lease /\ sched' = [sched EXCEPT ![w] = Follows]
  <2>1. WellBegun(Follows) /\ Follows \in Processes /\ ~Follows.leader
    BY <1>1, FollowsIsIdle DEF WellBegun, Resting
  <2>2. QED
    BY <1>3, <2>1, QuietProcessInv
<1>4. CASE lease' = held(w) /\ sched' = [sched EXCEPT ![w] = p] /\ (mayRenew(w) \/ mayAcquire(w))
  <2>1. p \in Processes /\ p.leader /\ p.lastRenew = s.begun /\ p.begun = s.begun /\ p.at = "beat"
    <3> HIDE DEF ticked
    <3>1. QED
      BY <1>1, <1>2 DEF Processes
  <2>2. WellBegun(p) /\ p.lastRenew <= now
    BY <1>2, <2>1, LeaderConstants DEF WellBegun
  <2> HIDE DEF p
  <2>3. QED
    BY <1>4, <2>1, <2>2, TakenLeaseInv
<1>5. QED
  BY <1>1, <1>3, <1>4 DEF renewOrAcquire

\* The heartbeat, the start of the tick and its end change neither the lease nor who leads.
LEMMA BeatAndTickInv ==
  ASSUME LeaderInv, UNCHANGED now, NEW w \in Workers,
         schedulerBeat(w) \/ startTick(w) \/ tickFails(w) \/ tickEnds(w)
  PROVE  LeaderInv'
<1> DEFINE s == sched[w]
           beaten == [s EXCEPT !.at = "due"]
           started == [s EXCEPT !.at = "ticking", !.lastTick = now]
<1>1. s \in Processes /\ now \in Nat /\ sched \in [Workers -> Processes] /\ WellBegun(s)
  BY DEF LeaderInv, LeaderTypeOK, StepsBegun
<1>2. now + soonest(RenewEvery, TickEvery) \in Int /\ None \in Int
  BY <1>1, WakeType DEF None
<1>3. UNCHANGED lease
  BY DEF schedulerBeat, startTick, tickFails, tickEnds
<1>4. ASSUME sched' = [sched EXCEPT ![w] = Ends(s)] PROVE LeaderInv'
  <2>1. /\ Ends(s) \in Processes /\ Ends(s).at = "idle" /\ Ends(s).leader = s.leader
        /\ Ends(s).lastRenew = s.lastRenew
    BY <1>1, <1>2 DEF Ends, Processes
  <2>2. WellBegun(Ends(s))
    BY <2>1 DEF WellBegun
  <2> DEFINE ended == Ends(s)
  <2>3. /\ ended \in Processes /\ WellBegun(ended) /\ sched' = [sched EXCEPT ![w] = ended]
        /\ ended.leader => s.leader /\ ended.lastRenew = s.lastRenew
    BY <1>4, <2>1, <2>2
  <2> HIDE DEF ended
  <2>4. QED
    BY <1>3, <2>3, QuietProcessInv
<1>5. CASE schedulerBeat(w)
  <2>1. sched' = [sched EXCEPT ![w] = beaten] /\ s.at = "beat"
    BY <1>1, <1>5 DEF schedulerBeat
  <2>2. beaten \in Processes /\ beaten.leader = s.leader /\ beaten.lastRenew = s.lastRenew
        /\ beaten.begun = s.begun /\ beaten.at = "due"
    BY <1>1 DEF Processes
  <2>3. WellBegun(beaten)
    BY <1>1, <2>1, <2>2 DEF WellBegun
  <2> HIDE DEF beaten
  <2>4. QED
    BY <1>3, <2>1, <2>2, <2>3, QuietProcessInv
<1>6. CASE s.at = "due" /\ sched' = [sched EXCEPT ![w] = started]
  <2>1. started \in Processes /\ started.leader = s.leader /\ started.lastRenew = s.lastRenew
        /\ started.begun = s.begun /\ started.at = "ticking"
    <3>1. now \in Int
      BY <1>1
    <3>2. s \in Processes
      BY <1>1
    <3> HIDE DEF s
    <3>3. QED
      BY <3>1, <3>2 DEF Processes
  <2>2. WellBegun(started)
    BY <1>1, <1>6, <2>1 DEF WellBegun
  <2> HIDE DEF started
  <2>3. QED
    BY <1>3, <1>6, <2>1, <2>2, QuietProcessInv
<1>7. CASE tickFails(w) \/ tickEnds(w)
  BY <1>1, <1>4, <1>7 DEF tickFails, tickEnds
<1>8. CASE startTick(w)
  BY <1>1, <1>4, <1>6, <1>8 DEF startTick
<1>9. QED
  BY <1>5, <1>7, <1>8

LEMMA OtherProcessStepsInv ==
  ASSUME LeaderInv, UNCHANGED now, NEW w \in Workers,
         startWorker(w) \/ iterateFails(w) \/ stop(w) \/ workerDies(w)
  PROVE  LeaderInv'
<1>1. sched[w] \in Processes /\ now \in Nat /\ lease \in Leases
  BY DEF LeaderInv, LeaderTypeOK
<1>2. ASSUME NEW p, Resting(p), sched' = [sched EXCEPT ![w] = p],
             UNCHANGED lease \/ lease' = releaseSchedulerLease(w)
             \/ (lease' = held(w) /\ (mayRenew(w) \/ mayAcquire(w)))
      PROVE  LeaderInv'
  <2>1. p \in Processes /\ ~p.leader /\ WellBegun(p)
    BY <1>2 DEF Resting, WellBegun
  <2>2. CASE UNCHANGED lease
    BY <1>2, <2>1, <2>2, QuietProcessInv
  <2>3. CASE lease.holder = w /\ lease' = NoLease
    <3>1. NoLease \in Leases
      BY DEF NoLease, Leases, None
    <3>2. \A v \in Workers : v # w /\ sched[v].leader => now > sched[v].lastRenew + LeaseFor
      BY <2>3 DEF LeaderInv, LeaseOutlived
    <3>3. QED
      BY <1>2, <2>1, <2>3, <3>1, <3>2, ProcessStepInv
  <2>4. CASE lease' = held(w) /\ (mayRenew(w) \/ mayAcquire(w))
    BY <1>2, <2>1, <2>4, TakenLeaseInv
  <2>5. QED
    BY <1>2, <2>2, <2>3, <2>4 DEF releaseSchedulerLease
<1>3. CASE startWorker(w)
  <2>1. now \in Int
    BY <1>1
  <2>2. Resting([NewProcess EXCEPT !.state = "up", !.wake = now])
    BY <2>1, FreshProcess
  <2>3. QED
    BY <1>2, <1>3, <2>2 DEF startWorker
<1>4. CASE workerDies(w) \/ stop(w)
  <2>1. Resting([NewProcess EXCEPT !.state = "down"])
    BY FreshProcess
  <2>2. QED
    BY <1>2, <1>4, <2>1 DEF workerDies, stop
<1>5. CASE iterateFails(w)
  <2>1. Resting(Follows)
    BY <1>1, FollowsIsIdle
  <2>2. sched[w].leader \in BOOLEAN
    BY <1>1 DEF Processes
  <2>3. sched' = [sched EXCEPT ![w] = Follows]
    BY <1>5 DEF iterateFails
  <2>4. UNCHANGED lease \/ (lease' = held(w) /\ (mayRenew(w) \/ mayAcquire(w)))
    BY <1>5, <2>2 DEF iterateFails
  <2>5. QED
    BY <1>2, <2>1, <2>3, <2>4
<1>6. QED
  BY <1>3, <1>4, <1>5

LEMMA LeaderRestInv ==
  ASSUME LeaderInv, UNCHANGED <<sched, lease>>, now' \in Nat, now' >= now
  PROVE  LeaderInv'
<1>1. LeaderTypeOK'
  BY DEF LeaderInv, LeaderTypeOK
<1>2. \A w \in Workers : sched[w].lastRenew \in Int /\ sched[w].begun \in Int
  BY DEF LeaderInv, LeaderTypeOK, Processes
<1>3. LeaseOutlived'
  BY <1>2, LeaderConstants DEF LeaderInv, LeaderTypeOK, LeaseOutlived
<1>4. StepsBegun'
  BY <1>2 DEF LeaderInv, LeaderTypeOK, StepsBegun, WellBegun
<1>5. QED
  BY <1>1, <1>3, <1>4 DEF LeaderInv

LEMMA LeaderInitInv == ASSUME WatchInit PROVE LeaderInv
<1>1. now = 0 /\ lease = NoLease /\ sched = [w \in Workers |-> NewProcess]
  BY DEF WatchInit, AlertsInit, SchedulingInit
<1>2. Resting(NewProcess)
  BY FreshProcess
<1>3. LeaderTypeOK
  <2>1. NoLease \in Leases
    BY DEF Leases, NoLease, None
  <2>2. QED
    BY <1>1, <1>2, <2>1 DEF LeaderTypeOK, Resting
<1>4. QED
  BY <1>1, <1>2, <1>3 DEF LeaderInv, LeaseOutlived, StepsBegun, WellBegun, Resting

LEMMA LeaderNextInv == ASSUME LeaderInv, [WatchNext]_watchVars PROVE LeaderInv'
<1>1. now \in Nat
  BY DEF LeaderInv, LeaderTypeOK
<1>2. CASE AlertsNext /\ UNCHANGED leaderVars
  <2>1. UNCHANGED <<sched, lease>> /\ now' \in Nat /\ now' >= now
    BY <1>1, <1>2 DEF AlertsNext, Passes, leaderVars
  <2>2. QED
    BY <2>1, LeaderRestInv
<1>3. CASE LeaderNext /\ UNCHANGED now
  <2>1. ASSUME NEW w \in Workers, step(w) PROVE LeaderInv'
    BY <1>3, <2>1, StepInv
  <2>2. ASSUME NEW w \in Workers, renewOrAcquire(w) PROVE LeaderInv'
    BY <1>3, <2>2, RenewOrAcquireInv
  <2>3. ASSUME NEW w \in Workers,
               schedulerBeat(w) \/ startTick(w) \/ tickFails(w) \/ tickEnds(w)
        PROVE  LeaderInv'
    BY <1>3, <2>3, BeatAndTickInv
  <2>4. ASSUME NEW w \in Workers, startWorker(w) \/ iterateFails(w) \/ stop(w) \/ workerDies(w)
        PROVE  LeaderInv'
    BY <1>3, <2>4, OtherProcessStepsInv
  <2>5. CASE hostChanges \/ \E w \in Workers : heartbeatInterval(w) \/ tickAssesses(w)
    <3>1. UNCHANGED <<sched, lease>> /\ now' \in Nat /\ now' >= now
      BY <1>1, <1>3, <2>5 DEF hostChanges, heartbeatInterval, tickAssesses
    <3>2. QED
      BY <3>1, LeaderRestInv
  <2>6. QED
    BY <1>3, <2>1, <2>2, <2>3, <2>4, <2>5 DEF LeaderNext
<1>4. CASE UNCHANGED <<leaderVars, now>>
  <2>1. UNCHANGED <<sched, lease>> /\ now' \in Nat /\ now' >= now
    BY <1>1, <1>4 DEF leaderVars
  <2>2. QED
    BY <2>1, LeaderRestInv
<1>5. QED
  BY <1>2, <1>3, <1>4 DEF WatchNext, SchedulingNext, watchVars

LEMMA LeaderInvariance == WatchSpec => []LeaderInv
<1>1. WatchInit => LeaderInv
  BY LeaderInitInv
<1>2. LeaderInv /\ [WatchNext]_watchVars => LeaderInv'
  BY LeaderNextInv
<1>3. QED
  BY <1>1, <1>2, PTL DEF WatchSpec

\* Elections, lapses, slow or failed statements, deaths and shutdowns in any order never bring
\* a tick beside another unless one of their steps outlasts the lease's margin over a renewal
\* interval (leases.ts, scheduler.ts).
THEOREM OverlapsAreOverruns == WatchSpec => []OverlapMeansOverrun
<1>1. LeaderInv => OverlapMeansOverrun
  <2> SUFFICES ASSUME LeaderInv, NEW v \in Workers, NEW w \in Workers, v # w,
                      Ticking(v), Ticking(w)
               PROVE  \E x \in {v, w} : now - sched[x].begun > LeaseFor - RenewEvery
    BY DEF OverlapMeansOverrun
  <2>1. \E x \in {v, w} : lease.holder # x
    OBVIOUS
  <2>2. PICK x \in {v, w} : lease.holder # x
    BY <2>1
  <2>3. x \in Workers /\ sched[x].at = "ticking"
    BY DEF Ticking
  <2>4. sched[x].leader /\ sched[x].begun - sched[x].lastRenew < RenewEvery
    BY <2>3 DEF LeaderInv, StepsBegun, WellBegun
  <2>5. /\ sched[x].lastRenew \in Int /\ sched[x].begun \in Int /\ now \in Nat
    BY <2>3 DEF LeaderInv, LeaderTypeOK, Processes
  <2>6. now > sched[x].lastRenew + LeaseFor
    BY <2>2, <2>3, <2>4 DEF LeaderInv, LeaseOutlived
  <2>7. QED
    BY <2>4, <2>5, <2>6, LeaderConstants
<1>2. QED
  BY <1>1, LeaderInvariance, PTL

-------------------------------------------------------------------------------
(* The cadence of a connection: what is marked was enqueued.                  *)

SettingsRows == [target : Nat, effective : Int, lastPoll : Nat \cup {None}, paused : BOOLEAN]
PassRows ==
  [at : Nat, step : {"store", "queue", "mark"}, effective : Int, lastPoll : Nat \cup {None},
   paused : BOOLEAN]

CadenceTypeOK ==
  /\ now \in Nat /\ polled \in Int
  /\ settings \in SettingsRows \cup {NoSettings}
  /\ polls \in [1..2 -> PassRows \cup {NoPass}]

\* A pass is about a row that exists and, once it marks, about a poll that was enqueued.
PassesKnow ==
  /\ polled <= now
  /\ \A p \in 1..2 : polls[p] \in PassRows =>
       /\ settings \in SettingsRows /\ polls[p].at <= now
       /\ polls[p].step = "mark" => polled >= polls[p].at

CadenceInv == CadenceTypeOK /\ PassesKnow /\ MarkedPollWasQueued

LEMMA CadenceRows ==
  /\ \A r \in SettingsRows : r # NoSettings
  /\ \A r \in PassRows : r # NoPass
<1>1. None \notin Nat
  BY DEF None
<1>2. \A r \in SettingsRows : r.target \in Nat
  BY DEF SettingsRows
<1>3. \A r \in PassRows : r.at \in Nat
  BY DEF PassRows
<1>4. NoSettings.target = None /\ NoPass.at = None
  BY DEF NoSettings, NoPass
<1>5. QED
  BY <1>1, <1>2, <1>3, <1>4

LEMMA ClampType == \A n \in Int : clampInterval(n) \in Int /\ (n >= 0 => clampInterval(n) \in Nat)
                                  /\ clampInterval(n) \in Nat
<1>1. MIN_INTERVAL \in Nat /\ MAX_INTERVAL \in Nat
  BY SchedulingAssumption
<1>2. ASSUME NEW n \in Int PROVE clampInterval(n) \in Nat
  <2>1. CASE n < MIN_INTERVAL
    BY <1>1, <2>1 DEF clampInterval
  <2>2. CASE n > MAX_INTERVAL /\ ~(n < MIN_INTERVAL)
    BY <1>1, <2>2 DEF clampInterval
  <2>3. CASE ~(n > MAX_INTERVAL) /\ ~(n < MIN_INTERVAL)
    BY <1>1, <2>3 DEF clampInterval
  <2>4. QED
    BY <2>1, <2>2, <2>3
<1>3. QED
  BY <1>2

LEMMA CadenceType ==
  ASSUME NEW t \in Int, NEW quota \in DOMAIN Quotas, NEW health \in DOMAIN Healths, NEW b \in Backlogs
  PROVE  effectiveCadence(t, quota, health, b) \in Int
<1> DEFINE over == IF b > Tolerance THEN soonest(8, (b + Tolerance - 1) \div Tolerance) ELSE 1
           q == Quotas[quota]
           h == Healths[health]
           ps == {q, h, over}
           most == CHOOSE p \in ps : \A r \in ps : r <= p
<1>1. Tolerance \in Nat \ {0} /\ b \in Nat /\ MAX_INTERVAL \in Nat
  BY SchedulingAssumption
<1>2. over \in Int
  <2>1. (b + Tolerance - 1) \div Tolerance \in Int
    BY <1>1
  <2>2. soonest(8, (b + Tolerance - 1) \div Tolerance) \in Int
    BY <2>1, SoonestType
  <2>3. QED
    BY <2>2
<1>3. q \in Int /\ h \in Int
  BY DEF Quotas, Healths
<1> HIDE DEF over, q, h
<1>4. \E p \in ps : \A r \in ps : r <= p
  <2>1. CASE q >= h /\ q >= over
    BY <1>2, <1>3, <2>1
  <2>2. CASE h >= q /\ h >= over
    BY <1>2, <1>3, <2>2
  <2>3. CASE over >= q /\ over >= h
    BY <1>2, <1>3, <2>3
  <2>4. QED
    BY <1>2, <1>3, <2>1, <2>2, <2>3
<1>5. most \in ps
  BY <1>4
<1>6. most \in Int
  BY <1>2, <1>3, <1>5
<1>7. clampInterval(t) \in Int
  BY ClampType
<1> HIDE DEF most
<1>8. clampInterval(t) * most \in Int
  BY <1>6, <1>7
<1>9. soonest(MAX_INTERVAL, clampInterval(t) * most) \in Int
  BY <1>1, <1>8, SoonestType
<1>10. effectiveCadence(t, quota, health, b) = soonest(MAX_INTERVAL, clampInterval(t) * most)
  BY DEF effectiveCadence, most, over, q, h
<1>11. QED
  BY <1>9, <1>10

LEMMA FreshRow == FreshSettings \in SettingsRows /\ FreshSettings.lastPoll = None
<1>1. DEFAULT_INTERVAL \in Nat
  BY SchedulingAssumption
<1>2. QED
  BY <1>1 DEF FreshSettings, SettingsRows

\* What may be written: the mark of a row is covered by the poll q, and so is a pass.
RowMay(r, q) == r \in SettingsRows /\ (r.lastPoll # None => q >= r.lastPoll)
PassMay(x, q) == x \in PassRows /\ x.at <= now /\ (x.step = "mark" => q >= x.at)
PollMay(q) == q \in Int /\ q >= polled /\ q <= now

\* The row of settings is written and the pass p moves on or is over.
LEMMA CadenceStepInv ==
  ASSUME CadenceInv, UNCHANGED now, NEW p \in 1..2, NEW x, PassMay(x, polled') \/ x = NoPass,
         polls' = [polls EXCEPT ![p] = x], RowMay(settings', polled'), PollMay(polled')
  PROVE  CadenceInv'
<1>1. polls \in [1..2 -> PassRows \cup {NoPass}] /\ now \in Nat /\ polled \in Int
  BY DEF CadenceInv, CadenceTypeOK
<1>2. x \in PassRows \cup {NoPass}
  BY DEF PassMay
<1>3. \A y \in 1..2 : polls'[y] = IF y = p THEN x ELSE polls[y]
  BY <1>1
<1>4. polled' \in Int /\ polled' >= polled /\ polled' <= now
  BY DEF PollMay
<1>5. settings' \in SettingsRows /\ (settings'.lastPoll # None => polled' >= settings'.lastPoll)
  BY DEF RowMay
<1>6. CadenceTypeOK'
  <2>1. polls' \in [1..2 -> PassRows \cup {NoPass}]
    BY <1>1, <1>2
  <2>2. QED
    BY <1>1, <1>4, <1>5, <2>1 DEF CadenceTypeOK
<1>7. PassesKnow'
  <2>1. ASSUME NEW y \in 1..2, polls'[y] \in PassRows
        PROVE  polls'[y].at <= now /\ (polls'[y].step = "mark" => polled' >= polls'[y].at)
    <3>1. CASE y = p
      <4>1. polls'[y] = x /\ x # NoPass
        BY <1>3, <2>1, <3>1, CadenceRows
      <4>2. QED
        BY <4>1 DEF PassMay
    <3>2. CASE y # p
      <4>1. polls'[y] = polls[y]
        BY <1>3, <3>2
      <4>2. polls[y] \in PassRows /\ polls[y].at \in Nat
        BY <2>1, <4>1 DEF PassRows
      <4>3. polls[y].at <= now /\ (polls[y].step = "mark" => polled >= polls[y].at)
        BY <4>2 DEF CadenceInv, PassesKnow
      <4>4. polls[y].step = "mark" => polled' >= polls[y].at
        BY <1>1, <1>4, <4>2, <4>3
      <4>5. QED
        BY <4>1, <4>3, <4>4
    <3>3. QED
      BY <3>1, <3>2
  <2>2. QED
    BY <1>4, <1>5, <2>1 DEF PassesKnow
<1>8. MarkedPollWasQueued'
  <2>1. ASSUME settings'.lastPoll # None PROVE polled' # None /\ polled' >= settings'.lastPoll
    <3>1. settings'.lastPoll \in Nat
      BY <1>5, <2>1 DEF SettingsRows
    <3>2. QED
      BY <1>4, <1>5, <2>1, <3>1 DEF None
  <2>2. QED
    BY <2>1 DEF MarkedPollWasQueued
<1>9. QED
  BY <1>6, <1>7, <1>8 DEF CadenceInv

\* A row whose mark is as before, or new, is covered.
LEMMA RowStays ==
  ASSUME CadenceInv, NEW r \in SettingsRows, NEW q, PollMay(q),
         r.lastPoll = (IF settings = NoSettings THEN None ELSE settings.lastPoll)
  PROVE  RowMay(r, q)
<1>1. ASSUME r.lastPoll # None PROVE q >= r.lastPoll
  <2>1. settings # NoSettings /\ settings.lastPoll # None /\ r.lastPoll = settings.lastPoll
    BY <1>1
  <2>2. polled >= r.lastPoll
    BY <2>1 DEF CadenceInv, MarkedPollWasQueued
  <2>3. polled \in Int /\ r.lastPoll \in Nat
    BY <1>1 DEF CadenceInv, CadenceTypeOK, SettingsRows
  <2>4. QED
    BY <2>2, <2>3 DEF PollMay
<1>2. QED
  BY <1>1 DEF RowMay

LEMMA PollStays == ASSUME CadenceInv PROVE PollMay(polled) /\ PollMay(now)
  BY DEF CadenceInv, CadenceTypeOK, PassesKnow, PollMay

\* A pass under way is about a row that is there.
LEMMA PassNow ==
  ASSUME CadenceInv, NEW p \in 1..2, polls[p] # NoPass
  PROVE  /\ polls[p] \in PassRows /\ settings \in SettingsRows /\ settings # NoSettings
         /\ polls[p].at <= now /\ (polls[p].step = "mark" => polled >= polls[p].at)
<1>1. polls[p] \in PassRows
  BY DEF CadenceInv, CadenceTypeOK
<1>2. QED
  BY <1>1, CadenceRows DEF CadenceInv, PassesKnow

LEMMA ReadSettingsInv ==
  ASSUME CadenceInv, UNCHANGED now, NEW p \in 1..2, readSyncSettings(p)
  PROVE  CadenceInv'
<1> DEFINE r == IF settings = NoSettings THEN FreshSettings ELSE settings
<1>1. r \in SettingsRows /\ r.lastPoll = IF settings = NoSettings THEN None ELSE settings.lastPoll
  BY FreshRow DEF CadenceInv, CadenceTypeOK
<1>2. settings' = r /\ UNCHANGED polled
  BY DEF readSyncSettings
<1> HIDE DEF r
<1> DEFINE x(e) == [at |-> now, step |-> "store", effective |-> e,
                    lastPoll |-> settings'.lastPoll, paused |-> settings'.paused]
<1>3. PICK e \in Cadences(settings'.target) : polls' = [polls EXCEPT ![p] = x(e)]
  BY DEF readSyncSettings
<1>4. settings'.target \in Int
  BY <1>1, <1>2 DEF SettingsRows
<1>5. e \in Int
  BY <1>4, CadenceType DEF Cadences
<1>6. now \in Nat
  BY DEF CadenceInv, CadenceTypeOK
<1>7. x(e) \in PassRows
  BY <1>1, <1>2, <1>5, <1>6 DEF PassRows, SettingsRows
<1>8. PassMay(x(e), polled')
  BY <1>6, <1>7 DEF PassMay
<1> HIDE DEF x
<1>9. PollMay(polled')
  BY <1>2, PollStays
<1>10. RowMay(settings', polled')
  BY <1>1, <1>2, <1>9, RowStays
<1>11. QED
  BY <1>3, <1>8, <1>9, <1>10, CadenceStepInv

LEMMA StoreInv ==
  ASSUME CadenceInv, UNCHANGED now, NEW p \in 1..2, storeCadence(p)
  PROVE  CadenceInv'
<1> DEFINE new == [settings EXCEPT !.effective = polls[p].effective]
           on == [polls[p] EXCEPT !.step = "queue"]
<1>1. polls[p] # NoPass /\ UNCHANGED polled
  BY DEF storeCadence
<1>2. /\ polls[p] \in PassRows /\ settings \in SettingsRows /\ settings # NoSettings
      /\ polls[p].at <= now
  BY <1>1, PassNow
<1>3. new \in SettingsRows /\ new.lastPoll = settings.lastPoll
  BY <1>2 DEF SettingsRows, PassRows
<1>4. on \in PassRows /\ on.at = polls[p].at /\ on.step = "queue"
  BY <1>2 DEF PassRows
<1>5. /\ settings' = new \/ settings' = settings
      /\ polls' = [polls EXCEPT ![p] = NoPass] \/ polls' = [polls EXCEPT ![p] = on]
  BY DEF storeCadence
<1> HIDE DEF new, on
<1>6. PollMay(polled')
  BY <1>1, PollStays
<1>7. settings' \in SettingsRows /\ settings'.lastPoll = settings.lastPoll
  BY <1>2, <1>3, <1>5
<1>8. RowMay(settings', polled')
  BY <1>2, <1>6, <1>7, RowStays
<1>9. PassMay(on, polled')
  BY <1>2, <1>4 DEF PassMay
<1>10. QED
  BY <1>5, <1>6, <1>8, <1>9, CadenceStepInv

LEMMA QueueInv ==
  ASSUME CadenceInv, UNCHANGED now, NEW p \in 1..2, queuePoll(p)
  PROVE  CadenceInv'
<1> DEFINE on == [polls[p] EXCEPT !.step = "mark"]
<1>1. polls[p] # NoPass /\ UNCHANGED settings
  BY DEF queuePoll
<1>2. /\ polls[p] \in PassRows /\ settings \in SettingsRows /\ settings # NoSettings
      /\ polls[p].at <= now
  BY <1>1, PassNow
<1>3. on \in PassRows /\ on.at = polls[p].at /\ on.step = "mark"
  BY <1>2 DEF PassRows
<1>4. polls \in [1..2 -> PassRows \cup {NoPass}]
  BY DEF CadenceInv, CadenceTypeOK
<1>5. \/ polled' = now /\ polls' = [polls EXCEPT ![p] = on]
      \/ polled' = polled /\ polls' = [polls EXCEPT ![p] = NoPass]
  <2>1. \/ polled' = now /\ polls' = [polls EXCEPT ![p].step = "mark"]
        \/ polled' = polled /\ polls' = [polls EXCEPT ![p] = NoPass]
    BY DEF queuePoll
  <2>2. [polls EXCEPT ![p].step = "mark"] = [polls EXCEPT ![p] = on]
    BY <1>4
  <2>3. QED
    BY <2>1, <2>2
<1> HIDE DEF on
<1>6. PollMay(polled')
  BY <1>5, PollStays
<1>7. RowMay(settings', polled')
  BY <1>1, <1>2, <1>6, RowStays
<1>8. polled' = now => PassMay(on, polled')
  BY <1>2, <1>3 DEF PassMay
<1>9. QED
  BY <1>5, <1>6, <1>7, <1>8, CadenceStepInv

LEMMA MarkPollInv ==
  ASSUME CadenceInv, UNCHANGED now, NEW p \in 1..2, markPoll(p) \/ passDies(p)
  PROVE  CadenceInv'
<1> DEFINE new == [settings EXCEPT !.lastPoll = polls[p].at]
<1>1. polls[p] # NoPass /\ UNCHANGED polled /\ polls' = [polls EXCEPT ![p] = NoPass]
  BY DEF markPoll, passDies
<1>2. /\ polls[p] \in PassRows /\ settings \in SettingsRows /\ settings # NoSettings
      /\ polls[p].step = "mark" => polled >= polls[p].at
  BY <1>1, PassNow
<1>3. PollMay(polled')
  BY <1>1, PollStays
<1>4. CASE markPoll(p)
  <2>1. settings' = new /\ polled >= polls[p].at
    BY <1>2, <1>4 DEF markPoll
  <2>2. new \in SettingsRows /\ new.lastPoll = polls[p].at
    BY <1>2 DEF SettingsRows, PassRows
  <2> HIDE DEF new
  <2>3. RowMay(settings', polled')
    BY <1>1, <2>1, <2>2 DEF RowMay
  <2>4. QED
    BY <1>1, <1>3, <2>3, CadenceStepInv
<1>5. CASE passDies(p)
  <2>1. settings' = settings
    BY <1>5 DEF passDies
  <2>2. RowMay(settings', polled')
    BY <1>2, <1>3, <2>1, RowStays
  <2>3. QED
    BY <1>1, <1>3, <2>2, CadenceStepInv
<1>6. QED
  BY <1>4, <1>5

\* An operator writes the row; the passes under way do not notice.
LEMMA OperatorInv ==
  ASSUME CadenceInv, UNCHANGED <<now, polls, polled>>, NEW r \in SettingsRows, settings' = r,
         r.lastPoll = IF settings = NoSettings THEN None ELSE settings.lastPoll
  PROVE  CadenceInv'
<1>1. polls' = [polls EXCEPT ![1] = polls[1]] /\ 1 \in 1..2
  BY DEF CadenceInv, CadenceTypeOK
<1>2. PollMay(polled') /\ UNCHANGED now
  BY PollStays
<1>3. RowMay(settings', polled')
  BY <1>2, RowStays
<1>4. PassMay(polls[1], polled') \/ polls[1] = NoPass
  BY <1>1, PassNow DEF PassMay
<1>5. QED
  BY <1>1, <1>2, <1>3, <1>4, CadenceStepInv

LEMMA SetTargetInv ==
  ASSUME CadenceInv, UNCHANGED now, NEW n \in Intervals, setTargetInterval(n)
  PROVE  CadenceInv'
<1> DEFINE c == clampInterval(n)
           first == [FreshSettings EXCEPT !.target = c, !.effective = c]
           e == IF c > settings.effective THEN c ELSE settings.effective
           then == [settings EXCEPT !.target = c, !.effective = e]
<1>1. c \in Nat
  BY ClampType, SchedulingAssumption
<1>2. UNCHANGED <<polls, polled>> /\ settings' = IF settings = NoSettings THEN first ELSE then
  BY DEF setTargetInterval
<1> HIDE DEF c
<1>3. first \in SettingsRows /\ first.lastPoll = None
  <2>1. c \in Int
    BY <1>1
  <2>2. QED
    BY <1>1, <2>1 DEF FreshSettings, SettingsRows
<1>4. ASSUME settings # NoSettings PROVE then \in SettingsRows /\ then.lastPoll = settings.lastPoll
  <2>1. settings \in SettingsRows
    BY <1>4 DEF CadenceInv, CadenceTypeOK
  <2>2. e \in Int
    BY <1>1, <2>1 DEF SettingsRows
  <2> HIDE DEF e
  <2>3. QED
    BY <1>1, <2>1, <2>2 DEF SettingsRows
<1> HIDE DEF first, then
<1>5. QED
  BY <1>2, <1>3, <1>4, OperatorInv

LEMMA SetPausedInv ==
  ASSUME CadenceInv, UNCHANGED now, NEW b \in BOOLEAN, setSyncPaused(b)
  PROVE  CadenceInv'
<1> DEFINE r == IF settings = NoSettings THEN FreshSettings ELSE settings
           then == [r EXCEPT !.paused = b]
<1>1. UNCHANGED <<polls, polled>> /\ settings' = then
  BY DEF setSyncPaused
<1>2. r \in SettingsRows /\ r.lastPoll = IF settings = NoSettings THEN None ELSE settings.lastPoll
  BY FreshRow DEF CadenceInv, CadenceTypeOK
<1> HIDE DEF r
<1>3. then \in SettingsRows /\ then.lastPoll = r.lastPoll
  BY <1>2 DEF SettingsRows
<1> HIDE DEF then
<1>4. QED
  BY <1>1, <1>2, <1>3, OperatorInv

LEMMA CadenceRestInv ==
  ASSUME CadenceInv, UNCHANGED cadenceVars, now' \in Nat, now' >= now
  PROVE  CadenceInv'
<1>1. UNCHANGED <<settings, polls, polled>> /\ now \in Nat /\ polled \in Int
  BY DEF cadenceVars, CadenceInv, CadenceTypeOK
<1>2. CadenceTypeOK' /\ MarkedPollWasQueued'
  BY <1>1 DEF CadenceInv, CadenceTypeOK, MarkedPollWasQueued
<1>3. \A p \in 1..2 : polls[p] \in PassRows => polls[p].at \in Nat
  BY DEF PassRows
<1>4. PassesKnow'
  BY <1>1, <1>3 DEF CadenceInv, PassesKnow
<1>5. QED
  BY <1>2, <1>4 DEF CadenceInv

LEMMA CadenceInitInv == ASSUME WatchInit PROVE CadenceInv
<1>1. now = 0 /\ settings = NoSettings /\ polls = [p \in 1..2 |-> NoPass] /\ polled = None
  BY DEF WatchInit, AlertsInit, SchedulingInit
<1>2. CadenceTypeOK /\ MarkedPollWasQueued
  BY <1>1 DEF CadenceTypeOK, MarkedPollWasQueued, None
<1>3. PassesKnow
  BY <1>1, CadenceRows DEF PassesKnow, None
<1>4. QED
  BY <1>2, <1>3 DEF CadenceInv

LEMMA CadenceNextInv == ASSUME CadenceInv, [WatchNext]_watchVars PROVE CadenceInv'
<1>1. now \in Nat
  BY DEF CadenceInv, CadenceTypeOK
<1>2. CASE AlertsNext /\ UNCHANGED cadenceVars
  <2>1. now' \in Nat /\ now' >= now
    BY <1>1, <1>2 DEF AlertsNext, Passes
  <2>2. QED
    BY <1>2, <2>1, CadenceRestInv
<1>3. CASE CadenceNext /\ UNCHANGED now
  <2>1. ASSUME NEW p \in 1..2, readSyncSettings(p) PROVE CadenceInv'
    BY <1>3, <2>1, ReadSettingsInv
  <2>2. ASSUME NEW p \in 1..2, storeCadence(p) PROVE CadenceInv'
    BY <1>3, <2>2, StoreInv
  <2>3. ASSUME NEW p \in 1..2, queuePoll(p) PROVE CadenceInv'
    BY <1>3, <2>3, QueueInv
  <2>4. ASSUME NEW p \in 1..2, markPoll(p) \/ passDies(p) PROVE CadenceInv'
    BY <1>3, <2>4, MarkPollInv
  <2>5. ASSUME NEW n \in Intervals, setTargetInterval(n) PROVE CadenceInv'
    BY <1>3, <2>5, SetTargetInv
  <2>6. ASSUME NEW b \in BOOLEAN, setSyncPaused(b) PROVE CadenceInv'
    BY <1>3, <2>6, SetPausedInv
  <2>7. QED
    BY <1>3, <2>1, <2>2, <2>3, <2>4, <2>5, <2>6 DEF CadenceNext
<1>4. CASE UNCHANGED <<cadenceVars, now>>
  <2>1. now' \in Nat /\ now' >= now
    BY <1>1, <1>4
  <2>2. QED
    BY <1>4, <2>1, CadenceRestInv
<1>5. QED
  BY <1>2, <1>3, <1>4 DEF WatchNext, SchedulingNext, watchVars

\* Whatever passes overtake each other or die, and whatever an operator saves meanwhile, a
\* poll that is marked was enqueued at or after the time it is marked with (schedule.ts).
THEOREM MarkedPollsWereQueued == WatchSpec => []MarkedPollWasQueued
<1>1. WatchInit => CadenceInv
  BY CadenceInitInv
<1>2. CadenceInv /\ [WatchNext]_watchVars => CadenceInv'
  BY CadenceNextInv
<1>3. CadenceInv => MarkedPollWasQueued
  BY DEF CadenceInv
<1>4. QED
  BY <1>1, <1>2, <1>3, PTL DEF WatchSpec
-------------------------------------------------------------------------------
(* The pilot.                                                                *)

\* The pilot is dated no later than the first write under a stage, and an incident from a day
\* that has come.
IncidentShape(x) ==
  /\ x = [at |-> x.at, class |-> x.class]
  /\ x.at = Never \/ (x.at \in Nat /\ x.at <= day)
  /\ x.class \in {"unreviewed", "defect", "not_a_defect", "external"}
IncidentsFiled ==
  /\ incidents = [a \in OversaleAlerts |-> incidents[a]]
  /\ \A a \in OversaleAlerts : IncidentShape(incidents[a])
PilotInv ==
  /\ day \in Nat
  /\ stage.started = Never \/ (stage.started \in Nat /\ stage.started <= day)
  /\ stage.row /\ stage.stage # "observe" => stage.started # Never
  /\ served = Never \/ (served \in Nat /\ stage.started # Never /\ stage.started <= served)
  /\ IncidentsFiled

LEMMA NeverIsNoDay == Never \notin Nat
  BY DEF Never

LEMMA IncidentFiled ==
  ASSUME PilotInv, day' = day, NEW a, NEW x, incidents' = [incidents EXCEPT ![a] = x],
         a \in OversaleAlerts => IncidentShape(x)
  PROVE  IncidentsFiled'
<1>1. /\ incidents' = [b \in OversaleAlerts |-> incidents'[b]]
      /\ \A b \in OversaleAlerts : incidents'[b] = IF b = a THEN x ELSE incidents[b]
  BY DEF PilotInv, IncidentsFiled
<1>2. ASSUME NEW b \in OversaleAlerts PROVE IncidentShape(incidents[b])'
  <2>1. IncidentShape(incidents[b]) \/ b = a
    BY DEF PilotInv, IncidentsFiled
  <2>2. QED
    BY <1>1, <2>1 DEF IncidentShape
<1>3. QED
  BY <1>1, <1>2 DEF IncidentsFiled

LEMMA IncidentsRest ==
  ASSUME PilotInv, UNCHANGED <<incidents, day>>
  PROVE  IncidentsFiled'
  BY DEF PilotInv, IncidentsFiled, IncidentShape

\* A stage is changed: the clock starts with the first change out of observe.
LEMMA StageStarts ==
  ASSUME PilotInv, NEW o, setStage(o)
  PROVE  PilotInv'
<1>1. PICK s, limit :
        /\ stage' = [stage |-> s, limit |-> limit, started |-> stamped(s), row |-> TRUE]
        /\ UNCHANGED <<incidents, day, served>>
  BY DEF setStage
<1>2. stage'.started = stamped(s) /\ stage'.stage = s /\ stage'.row
  BY <1>1
<1>3. CASE s = "observe" \/ stage.started # Never
  BY <1>1, <1>2, <1>3, IncidentsRest DEF stamped, PilotInv
<1>4. CASE ~(s = "observe" \/ stage.started # Never)
  BY <1>1, <1>2, <1>4, IncidentsRest, NeverIsNoDay DEF stamped, PilotInv
<1>5. QED
  BY <1>3, <1>4

\* A write is let through only when the clock runs, once there is a stage.
LEMMA GateKeepsPilot ==
  ASSUME PilotInv, NEW m, GateAsked(m)
  PROVE  PilotInv'
<1>1. UNCHANGED <<day, stage, incidents>>
  BY DEF GateAsked
<1>2. mayWrite(m) => stage.stage # "observe"
  BY DEF mayWrite
<1>3. served' = served \/ (served' = day /\ stage.row /\ mayWrite(m))
  BY DEF GateAsked
<1>4. served' = Never \/ (served' \in Nat /\ stage.started # Never /\ stage.started <= served')
  BY <1>2, <1>3 DEF PilotInv
<1>5. QED
  BY <1>1, <1>4, IncidentsRest DEF PilotInv

LEMMA FilingKeepsPilot ==
  ASSUME PilotInv, NEW a \in OversaleAlerts, fileIncident(a)
  PROVE  PilotInv'
<1> DEFINE x == [at |-> day, class |-> "unreviewed"]
<1>1. /\ incidents' = incidents \/ incidents' = [incidents EXCEPT ![a] = x]
      /\ UNCHANGED <<day, stage, served>>
  BY DEF fileIncident
<1>2. IncidentShape(x)
  BY DEF IncidentShape, PilotInv
<1> HIDE DEF x
<1>3. IncidentsFiled'
  BY <1>1, <1>2, IncidentFiled, IncidentsRest
<1>4. QED
  BY <1>1, <1>3 DEF PilotInv

LEMMA ClassifyingKeepsPilot ==
  ASSUME PilotInv, NEW a \in OversaleAlerts, NEW class \in {"defect", "not_a_defect", "external"},
         ClassifyIncidentAction(a, class)
  PROVE  PilotInv'
<1> DEFINE x == [incidents[a] EXCEPT !.class = class]
<1>1. incidents' = [incidents EXCEPT ![a] = x] /\ UNCHANGED <<day, stage, served>>
  BY DEF ClassifyIncidentAction
<1>2. IncidentShape(x)
  BY DEF IncidentShape, PilotInv, IncidentsFiled
<1> HIDE DEF x
<1>3. QED
  BY <1>1, <1>2, IncidentFiled DEF PilotInv

LEMMA DaysKeepPilot ==
  ASSUME PilotInv, NextDay
  PROVE  PilotInv'
<1>1. day' = day + 1 /\ UNCHANGED <<stage, served, incidents>>
  BY DEF NextDay
<1>2. day \in Nat /\ day' \in Nat /\ day <= day'
  BY <1>1 DEF PilotInv
<1>3. \A a \in OversaleAlerts : IncidentShape(incidents[a])'
  BY <1>1, <1>2 DEF PilotInv, IncidentsFiled, IncidentShape
<1>4. IncidentsFiled'
  BY <1>1, <1>3 DEF PilotInv, IncidentsFiled
<1>5. QED
  BY <1>1, <1>2, <1>4 DEF PilotInv

LEMMA PilotRests ==
  ASSUME PilotInv, UNCHANGED <<day, stage, served, incidents>>
  PROVE  PilotInv'
  BY IncidentsRest DEF PilotInv

LEMMA PilotStays ==
  ASSUME PilotInv, [PilotNext]_pilotVars
  PROVE  PilotInv'
<1>1. ASSUME StageNext(Operators) PROVE PilotInv'
  <2>1. ASSUME NEW o \in Operators, NEW s, NEW limit, SetStageAction(o, s, limit) PROVE PilotInv'
    BY <2>1, PilotRests DEF SetStageAction
  <2>2. QED
    BY <1>1, <2>1, StageStarts DEF StageNext
<1>2. CASE EnrollNext(Operators, Enrollable)
  <2>1. UNCHANGED <<day, stage, served, incidents>>
    BY <1>2 DEF EnrollNext, EnrollAction, enrollCounts, enroll, UnenrollAction
  <2>2. QED
    BY <2>1, PilotRests
<1>3. CASE ReportNext
  <2>1. ASSUME NEW kind, NEW ok, RecordDrillAction(kind, ok) PROVE PilotInv'
    BY <2>1, PilotRests DEF RecordDrillAction
  <2>2. QED
    BY <1>3, <2>1, DaysKeepPilot, FilingKeepsPilot, ClassifyingKeepsPilot DEF ReportNext
<1>4. CASE UNCHANGED pilotVars
  BY <1>4, PilotRests DEF pilotVars
<1>5. CASE GateNext(Enrollable)
  BY <1>5, GateKeepsPilot DEF GateNext
<1>6. QED
  BY <1>1, <1>2, <1>3, <1>4, <1>5 DEF PilotNext

LEMMA PilotBegins ==
  ASSUME PilotInit
  PROVE  PilotInv
<1>1. day = 0 /\ served = Never /\ stage \in {NoStage, [NoStage EXCEPT !.started = 0, !.row = TRUE]}
  BY DEF PilotInit
<1>2. \/ stage.started = Never /\ stage.row = FALSE
      \/ stage.started = 0
  <2>1. \A r : r = TRUE => [NoStage EXCEPT !.started = 0, !.row = r].started = 0
    BY DEF NoStage
  <2>2. NoStage.started = Never /\ NoStage.row = FALSE
    BY DEF NoStage
  <2>3. QED
    BY <1>1, <2>1, <2>2
<1>3. IncidentsFiled
  BY DEF PilotInit, IncidentsFiled, IncidentShape
<1>4. QED
  BY <1>1, <1>2, <1>3, NeverIsNoDay DEF PilotInv

\* What the report calls met.
LEMMA EarnedByReport ==
  ASSUME PilotInv
  PROVE  PassIsEarned
<1> SUFFICES ASSUME assessPilot, served # Never, NEW a \in OversaleAlerts, incidents[a].at >= served
             PROVE  incidents[a].class \in {"not_a_defect", "external"}
  BY DEF PassIsEarned
<1>1. noOversale \in {"met"}
  BY DEF assessPilot
<1>2. Oversales("defect") = {} /\ Oversales("unreviewed") = {}
  BY <1>1 DEF noOversale, Verdict
<1>3. served \in Nat /\ stage.started # Never /\ stage.started \in Nat /\ stage.started <= served
  BY DEF PilotInv
<1>4. incidents[a].at \in Nat /\ incidents[a].at <= day /\ day \in Nat
  <2>1. incidents[a].at = Never \/ (incidents[a].at \in Nat /\ incidents[a].at <= day)
    BY DEF PilotInv, IncidentsFiled, IncidentShape
  <2>2. QED
    BY <1>3, <2>1 DEF Never, PilotInv
<1>5. Within(incidents[a].at)
  BY <1>3, <1>4 DEF Within, Window
<1>6. incidents[a].class # "defect" /\ incidents[a].class # "unreviewed"
  BY <1>2, <1>5 DEF Oversales
<1>7. QED
  BY <1>6 DEF PilotInv, IncidentsFiled, IncidentShape

\* A pilot that passes answers for every oversale filed since the gate first let a write
\* through under a stage, for any number of operators, enrollments and incidents: stepping
\* back to observe hides nothing (mayWrite, setStage, assessPilot).
THEOREM PassesAreEarned == PilotSpec => []PassIsEarned
<1>1. PilotInit => PilotInv
  BY PilotBegins
<1>2. PilotInv /\ [PilotNext]_pilotVars => PilotInv'
  BY PilotStays
<1>3. PilotInv => PassIsEarned
  BY EarnedByReport
<1>4. QED
  BY <1>1, <1>2, <1>3, PTL DEF PilotSpec
===============================================================================
