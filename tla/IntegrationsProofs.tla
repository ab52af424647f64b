-------------------------- MODULE IntegrationsProofs --------------------------
(***************************************************************************)
(* That an authorization is spent once, that a refresh is shared, that a   *)
(* recorded erasure is true, that a rotation leaves no silence and that a  *)
(* saved cursor has written ground behind it, for any number of callers,   *)
(* connections, authorizations, notifications, registrations and runs, and *)
(* over every step the integrations take.                                  *)
(*                                                                         *)
(* The invariants speak of what a caller is in the middle of.  For the     *)
(* first three most steps only move their caller to a stage none of them   *)
(* asks about; these are dealt with once (Quiet), and the steps that       *)
(* spend, lock, store and erase one by one.  Registrations and imports     *)
(* change in scenes of their own (Elsewhere, Imported).                    *)
(***************************************************************************)
EXTENDS Integrations, FiniteSetTheorems, TLAPS

\* The stages the invariants ask about: holding the lock of a connection, asking for it,
\* having a step to resume after the application token, and being at work on an erasure.
HeldStages == {"refresh", "store_access", "store_refresh", "revoke_refresh", "pause"}
AppStages == {"app_token", "app_fetch", "app_wait"}
TakenStages == {"request", "again", "reopen"}
PassStages == {"holders", "retry_holders", "erasing", "outcome"}
Marked == HeldStages \cup {"lock"} \cup AppStages \cup TakenStages \cup PassStages

Plain(x) == "stage" \in DOMAIN x /\ x.stage \notin Marked

\* An authorization has been spent never, or once and is consumed.
AuthInv ==
  /\ auths \in [AuthIds -> connectionAuthorizations \cup {NoRow}]
  /\ spent \in [AuthIds -> Nat]
  /\ \A a \in AuthIds : spent[a] = 0 \/ (spent[a] = 1 /\ auths[a].status = "consumed")

SecretsHold ==
  /\ secrets = [c \in ConnIds |-> [t \in connectionSecretTypes |-> secrets[c][t]]]
  /\ \A c \in ConnIds, t \in connectionSecretTypes :
       secrets[c][t] # NoSecret => {"usable", "by"} \subseteq DOMAIN secrets[c][t]

\* What a caller carries, by its stage.
Carries(x) ==
  /\ "stage" \in DOMAIN x
  /\ x.stage = "lock" => x.conn \in ConnIds /\ x.by \in {"refresh", "forced"}
  /\ x.stage \in HeldStages =>
       {"by", "conn"} \subseteq DOMAIN x /\ (x.by # "sign_in" => x.conn \in ConnIds)
  /\ x.stage \in AppStages => Plain(x.then)

ActingHolds ==
  /\ acting = [k \in Callers |-> acting[k]]
  /\ \A k \in Callers : Carries(acting[k])

\* The lock of a connection has one holder, and while it is there for a refresh nobody
\* forced, the connection's token is not one that a refresh stored.
Locked == \A j, k \in Callers, c \in ConnIds : Holds(j, c) /\ Holds(k, c) => j = k
Refreshed(c) ==
  LET old == secrets[c]["ebay_access_token"] IN old # NoSecret /\ old.usable /\ old.by = "refresh"
Refreshing(x) == x.stage \in {"refresh", "store_access"} /\ x.by = "refresh"
LooksAgain == \A k \in Callers : Refreshing(acting[k]) => ~Refreshed(acting[k].conn)

TokenInv == SecretsHold /\ ActingHolds /\ Locked /\ LooksAgain

\* A pass over a request works on one that was taken up, and as long as nothing failed it has
\* still before it every business that held orders then and holds them now.
Follows(x) ==
  /\ x.stage \in TakenStages => x.n \in Notices
  /\ x.stage = "request" => x.verified \in BOOLEAN
  /\ x.stage \in {"again", "reopen"} => requests[x.n] # NoRow
  /\ x.stage \in PassStages => x.n \in Notices /\ requests[x.n] # NoRow /\ requests[x.n].verified
  /\ x.stage \in {"erasing", "outcome"} =>
       /\ x.failures \in Nat
       /\ x.failures = 0 => asked[x.n] \cap holding \subseteq x.left

ErasureInv ==
  /\ requests \in [Notices -> marketplaceDeletionRequests \cup {NoRow}]
  /\ asked = [n \in Notices |-> asked[n]]
  /\ \A k \in Callers : Follows(acting[k])
  /\ RecordedErasureIsTrue

-------------------------------------------------------------------------------
(* Callers that move to stages nobody asks about.                            *)

Quiet ==
  /\ acting' = [k \in Callers |-> acting'[k]]
  /\ \A k \in Callers : acting'[k] = acting[k] \/ Plain(acting'[k])

LEMMA IdleIsPlain == Plain(Idle)
BY DEF Plain, Idle, Marked, HeldStages, AppStages, TakenStages, PassStages

LEMMA Stays == ASSUME ActingHolds, acting' = acting PROVE Quiet
BY DEF ActingHolds, Quiet

LEMMA Moves ==
  ASSUME ActingHolds, NEW k \in Callers, NEW x, Plain(x), Becomes(k, x)
  PROVE  Quiet
<1>1. acting' = [j \in Callers |-> IF j = k THEN x ELSE acting[j]]
  BY DEF ActingHolds, Becomes
<1>2. QED
  BY <1>1 DEF Quiet

LEMMA QuietTokens ==
  ASSUME TokenInv, Quiet, secrets' = secrets
  PROVE  TokenInv'
<1>1. SecretsHold'
  BY DEF TokenInv, SecretsHold
<1>2. ActingHolds'
  BY DEF TokenInv, ActingHolds, Quiet, Carries, Plain, Marked
<1>3. \A k \in Callers : acting'[k] = acting[k] \/ acting'[k].stage \notin Marked
  BY DEF Quiet, Plain
<1>4. Locked'
  BY <1>3 DEF TokenInv, Locked, Holds, Marked, HeldStages
<1>5. LooksAgain'
  BY <1>3 DEF TokenInv, LooksAgain, Refreshing, Refreshed, Marked, HeldStages
<1>6. QED
  BY <1>1, <1>2, <1>4, <1>5 DEF TokenInv

\* The same for the stages of an erasure alone.
Outside == \A k \in Callers : acting'[k] = acting[k] \/ acting'[k].stage \notin TakenStages \cup PassStages

LEMMA QuietIsOutside == ASSUME Quiet PROVE Outside
BY DEF Quiet, Outside, Plain, Marked

LEMMA OutsideErasures ==
  ASSUME ErasureInv, Outside, UNCHANGED <<holding, requests, asked>>
  PROVE  ErasureInv'
<1>1. \A k \in Callers : Follows(acting[k])'
  BY DEF ErasureInv, Follows, TakenStages, PassStages, Outside
<1>2. QED
  BY <1>1 DEF ErasureInv, RecordedErasureIsTrue

Inv == AuthInv /\ TokenInv /\ ErasureInv

LEMMA QuietStep ==
  ASSUME Inv, Quiet, UNCHANGED <<auths, spent, secrets, holding, requests, asked>>
  PROVE  Inv'
<1>1. AuthInv'
  BY DEF Inv, AuthInv
<1>2. QED
  BY <1>1, QuietTokens, QuietIsOutside, OutsideErasures DEF Inv

-------------------------------------------------------------------------------
(* Importing.                                                                *)

LEMMA ImportSteps ==
  ASSUME ActingHolds, NEW k \in Callers,
         \/ \E f \in BOOLEAN : claim(k, f) \/ fetch(k, f)
         \/ write(k) \/ sweep(k) \/ finish(k) \/ saveCursor(k) \/ Crash(k)
  PROVE  Quiet /\ UNCHANGED <<auths, spent, secrets>>
<1>1. ASSUME NEW f \in BOOLEAN, claim(k, f) PROVE Quiet /\ UNCHANGED <<auths, spent, secrets>>
  <2> DEFINE x(r) == [stage |-> "fetch", run |-> r, pages |-> 0, now |-> clock,
                      cursor |-> IF f THEN 0 ELSE cursors["catalog"]]
  <2>1. PICK r \in RunIds : Becomes(k, x(r))
    BY <1>1 DEF claim
  <2>2. Plain(x(r))
    BY DEF Plain, Marked, HeldStages, AppStages, TakenStages, PassStages
  <2> HIDE DEF x
  <2>3. QED
    BY <1>1, <2>1, <2>2, Moves DEF claim
<1>2. ASSUME NEW f \in BOOLEAN, fetch(k, f) PROVE Quiet /\ UNCHANGED <<auths, spent, secrets>>
  <2>1. \A status, cursor, swept : Plain(Ending(k, status, cursor, swept))
    BY DEF Ending, Plain, Marked, HeldStages, AppStages, TakenStages, PassStages
  <2> DEFINE page == fetchPage(acting[k].cursor, f)
             x == [stage |-> "write", run |-> acting[k].run, pages |-> acting[k].pages + 1,
                   now |-> acting[k].now, records |-> page.records, cursor |-> page.next]
  <2>2. Plain(x)
    BY DEF Plain, Marked, HeldStages, AppStages, TakenStages, PassStages
  <2>3. \/ Becomes(k, Ending(k, "completed", acting[k].cursor, FALSE))
        \/ Becomes(k, Ending(k, "failed", acting[k].cursor, FALSE))
        \/ Becomes(k, x)
    BY <1>2 DEF fetch
  <2> HIDE DEF x
  <2>4. QED
    BY <1>2, <2>1, <2>2, <2>3, Moves DEF fetch
<1>3. CASE write(k)
  <2> DEFINE x == [stage |-> IF acting[k].cursor = 0 THEN "sweep" ELSE "fetch", run |-> acting[k].run,
                   pages |-> acting[k].pages, now |-> acting[k].now, cursor |-> acting[k].cursor]
  <2>1. Plain(x)
    BY DEF Plain, Marked, HeldStages, AppStages, TakenStages, PassStages
  <2>2. Becomes(k, x)
    BY <1>3 DEF write
  <2> HIDE DEF x
  <2>3. QED
    BY <1>3, <2>1, <2>2, Moves DEF write
<1>4. CASE sweep(k)
  <2>1. Plain(Ending(k, "completed", 0, TRUE))
    BY DEF Ending, Plain, Marked, HeldStages, AppStages, TakenStages, PassStages
  <2>2. QED
    BY <1>4, <2>1, Moves DEF sweep
<1>5. CASE finish(k)
  <2> DEFINE x == [acting[k] EXCEPT !.stage = "save"]
  <2>1. Plain(x)
    BY DEF ActingHolds, Carries, Plain, Marked, HeldStages, AppStages, TakenStages, PassStages
  <2>2. Becomes(k, x)
    BY <1>5 DEF finish
  <2> HIDE DEF x
  <2>3. QED
    BY <1>5, <2>1, <2>2, Moves DEF finish
<1>6. CASE saveCursor(k)
  BY <1>6, IdleIsPlain, Moves DEF saveCursor
<1>7. CASE Crash(k)
  BY <1>7, IdleIsPlain, Moves DEF Crash
<1>8. QED
  BY <1>1, <1>2, <1>3, <1>4, <1>5, <1>6, <1>7

-------------------------------------------------------------------------------
(* Connections: the steps that move only their caller.                       *)

\* Any change of stage to one of these, whatever else the caller carries.
LEMMA NewStage ==
  ASSUME ActingHolds, NEW k \in Callers, NEW s, s \notin Marked
  PROVE  Plain([acting[k] EXCEPT !.stage = s])
<1>1. "stage" \in DOMAIN acting[k]
  BY DEF ActingHolds, Carries
<1>2. QED
  BY <1>1 DEF Plain

LEMMA ConnectionSteps ==
  ASSUME ActingHolds, NEW k \in Callers,
         \/ \E a \in AuthIds, p \in {"ebay", "woocommerce"} : consume(k, a, p)
         \/ \E account \in Accounts, g \in Grants : completeEbay(k, account, g)
         \/ \E p \in {"read", "read_write"} : completeStore(k, p)
         \/ \E who \in Managers, account \in Accounts : connectStoreManuallyAction(k, who, account)
         \/ \E who \in Managers : \E c : disconnectConnectionAction(k, who, c)
         \/ \E deleted \in BOOLEAN : remove(k, deleted)
         \/ Crash(k)
  PROVE  Quiet /\ UNCHANGED <<auths, spent, secrets>>
<1>1. ASSUME NEW a \in AuthIds, NEW p \in {"ebay", "woocommerce"}, consume(k, a, p)
      PROVE  Quiet /\ UNCHANGED <<auths, spent, secrets>>
  <2> DEFINE x == [stage |-> "spend", auth |-> a, now |-> clock]
  <2>1. Plain(x) /\ Becomes(k, x)
    BY <1>1 DEF consume, Plain, Marked, HeldStages, AppStages, TakenStages, PassStages
  <2> HIDE DEF x
  <2>2. QED
    BY <1>1, <2>1, Moves DEF consume
<1>2. ASSUME NEW account \in Accounts, NEW g \in Grants, completeEbay(k, account, g)
      PROVE  Quiet /\ UNCHANGED <<auths, spent, secrets>>
  <2> DEFINE x(live, granted, impaired) ==
               [stage |-> "record", conn |-> live, name |-> account.name, granted |-> granted,
                impaired |-> impaired]
  <2>1. \A live, granted, impaired : Plain(x(live, granted, impaired))
    BY DEF Plain, Marked, HeldStages, AppStages, TakenStages, PassStages
  <2>2. Becomes(k, Idle) \/ \E live, granted, impaired : Becomes(k, x(live, granted, impaired))
    BY <1>2, Zenon DEF completeEbay
  <2> HIDE DEF x
  <2>3. QED
    BY <1>2, <2>1, <2>2, IdleIsPlain, Moves DEF completeEbay
<1>3. ASSUME NEW p \in {"read", "read_write"}, completeStore(k, p)
      PROVE  Quiet /\ UNCHANGED <<auths, spent, secrets>>
  <2> DEFINE c == auths[acting[k].auth].conn
             x == [stage |-> "prove", conn |-> c, now |-> acting[k].now, permissions |-> readPermissions(p),
                   created |-> conns[c].status = "pending" /\ ~conns[c].connected]
  <2>1. Becomes(k, x)
    BY <1>3 DEF completeStore
  <2>2. Plain(x)
    BY DEF Plain, Marked, HeldStages, AppStages, TakenStages, PassStages
  <2> HIDE DEF x
  <2>3. QED
    BY <1>3, <2>1, <2>2, Moves DEF completeStore
<1>4. ASSUME NEW who \in Managers, NEW account \in Accounts, connectStoreManuallyAction(k, who, account)
      PROVE  Quiet /\ UNCHANGED <<auths, spent, secrets>>
  <2> DEFINE x(c) == [stage |-> "prove", conn |-> c, now |-> clock, permissions |-> "unknown",
                      created |-> liveConnection(account.name) = {}]
  <2>1. \A c : Plain(x(c))
    BY DEF Plain, Marked, HeldStages, AppStages, TakenStages, PassStages
  <2>2. \E c : Becomes(k, x(c))
    BY <1>4 DEF connectStoreManuallyAction
  <2> HIDE DEF x
  <2>3. QED
    BY <1>4, <2>1, <2>2, Moves DEF connectStoreManuallyAction
<1>5. ASSUME NEW who \in Managers, NEW c, disconnectConnectionAction(k, who, c)
      PROVE  Quiet /\ UNCHANGED <<auths, spent, secrets>>
  <2> DEFINE x == [stage |-> "unhook", conn |-> c,
                   rows |-> IF conns[c].provider = "woocommerce" THEN LiveHooks ELSE {}]
  <2>1. Becomes(k, x)
    BY <1>5 DEF disconnectConnectionAction
  <2>2. Plain(x)
    BY DEF Plain, Marked, HeldStages, AppStages, TakenStages, PassStages
  <2> HIDE DEF x
  <2>3. QED
    BY <1>5, <2>1, <2>2, Moves DEF disconnectConnectionAction
<1>6. ASSUME NEW deleted \in BOOLEAN, remove(k, deleted) PROVE Quiet /\ UNCHANGED <<auths, spent, secrets>>
  <2> DEFINE x(h) == [acting[k] EXCEPT !.rows = @ \ {h}]
  <2>1. \A h : Plain(x(h))
    <3>1. "stage" \in DOMAIN acting[k] /\ acting[k].stage = "unhook"
      BY <1>6 DEF ActingHolds, Carries, remove, Stage
    <3>2. QED
      BY <3>1 DEF Plain, Marked, HeldStages, AppStages, TakenStages, PassStages
  <2>2. \E h : Becomes(k, x(h))
    BY <1>6 DEF remove
  <2> HIDE DEF x
  <2>3. QED
    BY <1>6, <2>1, <2>2, Moves DEF remove
<1>7. CASE Crash(k)
  BY <1>7, IdleIsPlain, Moves DEF Crash
<1>8. QED
  BY <1>1, <1>2, <1>3, <1>4, <1>5, <1>6, <1>7

-------------------------------------------------------------------------------
(* Authorizations.                                                           *)

LEMMA AuthStays == ASSUME AuthInv, UNCHANGED <<auths, spent>> PROVE AuthInv'
BY DEF AuthInv

LEMMA BeginningAuth ==
  ASSUME AuthInv, NEW p \in {"ebay", "woocommerce"}, NEW c \in ConnIds \cup {0}, spent' = spent,
         beginAuthorization(p, c)
  PROVE  AuthInv'
<1> DEFINE new == [provider |-> p, conn |-> c, status |-> "pending", expired |-> FALSE]
<1>1. PICK a \in NextAuth :
        auths' = [b \in AuthIds |->
           IF b = a THEN new
           ELSE IF auths[b] # NoRow /\ auths[b].provider = p /\ auths[b].status = "pending"
             THEN [auths[b] EXCEPT !.status = "deleted"]
           ELSE auths[b]]
  BY DEF beginAuthorization
<1>2. new \in connectionAuthorizations
  BY DEF connectionAuthorizations
<1>3. \A r \in connectionAuthorizations : [r EXCEPT !.status = "deleted"] \in connectionAuthorizations
  BY DEF connectionAuthorizations
<1>4. \A b \in AuthIds : auths[b] \in connectionAuthorizations \cup {NoRow}
  BY DEF AuthInv
<1> HIDE DEF new
<1>5. auths' \in [AuthIds -> connectionAuthorizations \cup {NoRow}]
  BY <1>1, <1>2, <1>3, <1>4
<1>6. a \in AuthIds /\ spent[a] = 0
  <2>1. a \in AuthIds /\ auths[a].status = "none"
    BY DEF NextAuth, NoRow
  <2>2. QED
    BY <2>1 DEF AuthInv
<1>7. ASSUME NEW b \in AuthIds, spent[b] # 0 PROVE auths'[b] = auths[b]
  <2>1. b # a /\ auths[b].status # "pending"
    BY <1>6, <1>7 DEF AuthInv
  <2>2. QED
    BY <1>1, <2>1
<1>8. QED
  BY <1>5, <1>7 DEF AuthInv

LEMMA AuthSteps ==
  ASSUME AuthInv, ActingHolds,
         \/ \E k \in Callers, who \in Managers, c \in {0} \cup ConnIds : connectEbayAction(k, who, c)
         \/ \E k \in Callers, who \in Managers, account \in Accounts, c \in {0} \cup ConnIds :
              connectStoreAction(k, who, account, c)
         \/ \E k \in Callers : spend(k)
         \/ \E a \in AuthIds : AuthorizationExpires(a) \/ pruneExpired(a)
  PROVE  AuthInv' /\ Quiet /\ secrets' = secrets
<1>1. ASSUME NEW k \in Callers, NEW who \in Managers, NEW c \in {0} \cup ConnIds,
             connectEbayAction(k, who, c)
      PROVE  AuthInv' /\ Quiet /\ secrets' = secrets
  BY <1>1, BeginningAuth, Stays DEF connectEbayAction
<1>2. ASSUME NEW k \in Callers, NEW who \in Managers, NEW account \in Accounts,
             NEW asking \in {0} \cup ConnIds, connectStoreAction(k, who, account, asking)
      PROVE  AuthInv' /\ Quiet /\ secrets' = secrets
  <2>1. /\ spent' = spent /\ secrets' = secrets /\ acting' = acting
        /\ \E c \in ConnIds : beginAuthorization("woocommerce", c)
    BY <1>2 DEF connectStoreAction, liveConnection, NextConn
  <2>2. QED
    BY <2>1, BeginningAuth, Stays
<1>3. ASSUME NEW k \in Callers, spend(k) PROVE AuthInv' /\ Quiet /\ secrets' = secrets
  <2> DEFINE a == acting[k].auth
             x == [acting[k] EXCEPT !.stage = "exchange"]
  <2>1. CASE auths[a].status # "pending"
    BY <1>3, <2>1, IdleIsPlain, Moves, AuthStays DEF spend
  <2>2. CASE auths[a].status = "pending"
    <3>1. /\ auths' = [auths EXCEPT ![a].status = "consumed"]
          /\ spent' = [spent EXCEPT ![a] = @ + 1]
          /\ Becomes(k, x) /\ secrets' = secrets
      BY <1>3, <2>2 DEF spend
    <3>2. Plain(x)
      BY NewStage DEF Marked, HeldStages, AppStages, TakenStages, PassStages
    <3> HIDE DEF x
    <3>3. Quiet
      BY <3>1, <3>2, Moves
    <3>4. CASE a \in AuthIds
      <4>1. auths[a] \in connectionAuthorizations /\ spent[a] = 0
        BY <2>2, <3>4 DEF AuthInv, NoRow
      <4> DEFINE row == [auths[a] EXCEPT !.status = "consumed"]
      <4>2. row \in connectionAuthorizations /\ row.status = "consumed"
        BY <4>1 DEF connectionAuthorizations
      <4>3. auths' = [auths EXCEPT ![a] = row]
        BY <3>1
      <4> HIDE DEF row, a
      <4>4. \A b \in AuthIds : auths'[b] = IF b = a THEN row ELSE auths[b]
        BY <3>4, <4>3 DEF AuthInv
      <4>5. spent' \in [AuthIds -> Nat] /\ \A b \in AuthIds : spent'[b] = IF b = a THEN 1 ELSE spent[b]
        BY <3>1, <3>4, <4>1 DEF AuthInv
      <4>6. auths' \in [AuthIds -> connectionAuthorizations \cup {NoRow}]
        BY <4>2, <4>3 DEF AuthInv
      <4>7. QED
        BY <3>1, <3>3, <4>2, <4>4, <4>5, <4>6 DEF AuthInv
    <3>5. CASE a \notin AuthIds
      <4>1. auths' = auths /\ spent' = spent
        BY <3>1, <3>5 DEF AuthInv
      <4>2. QED
        BY <3>1, <3>3, <4>1, AuthStays
    <3>6. QED
      BY <3>4, <3>5
  <2>3. QED
    BY <2>1, <2>2
<1>4. ASSUME NEW a \in AuthIds, AuthorizationExpires(a) \/ pruneExpired(a)
      PROVE  AuthInv' /\ Quiet /\ secrets' = secrets
  <2>1. /\ UNCHANGED <<spent, secrets, acting>>
        /\ auths[a] # NoRow /\ auths[a].status = "pending"
        /\ \/ auths' = [auths EXCEPT ![a].expired = TRUE]
           \/ auths' = [auths EXCEPT ![a].status = "deleted"]
    BY <1>4 DEF AuthorizationExpires, pruneExpired
  <2>2. auths[a] \in connectionAuthorizations /\ spent[a] = 0
    BY <2>1 DEF AuthInv
  <2>3. PICK row \in connectionAuthorizations : auths' = [auths EXCEPT ![a] = row]
    BY <2>1, <2>2 DEF connectionAuthorizations
  <2>4. \A b \in AuthIds : b # a => auths'[b] = auths[b]
    BY <2>3 DEF AuthInv
  <2>5. auths' \in [AuthIds -> connectionAuthorizations \cup {NoRow}]
    BY <2>3 DEF AuthInv
  <2>6. AuthInv'
    BY <2>1, <2>2, <2>4, <2>5 DEF AuthInv
  <2>7. QED
    BY <2>1, <2>6, Stays
<1>5. QED
  BY <1>1, <1>2, <1>3, <1>4

-------------------------------------------------------------------------------
(* Credentials and the lock they are refreshed under.                        *)

\* A caller moves on while secrets change: it takes no lock another holds, no other holder's
\* connection gets a token a refresh stored, and it does not go on to refresh over one.
LEMMA HandsOver ==
  ASSUME TokenInv, SecretsHold', NEW k \in Callers, NEW x, Becomes(k, x), Carries(x),
         x.stage \in HeldStages /\ x.by # "sign_in" => \A j \in Callers \ {k} : ~Holds(j, x.conn),
         \A c \in ConnIds : Refreshed(c)' => Refreshed(c) \/ \A j \in Callers \ {k} : ~Holds(j, c),
         Refreshing(x) => ~Refreshed(x.conn)'
  PROVE  TokenInv'
<1>1. acting' = [j \in Callers |-> IF j = k THEN x ELSE acting[j]]
  BY DEF TokenInv, ActingHolds, Becomes
<1>2. ActingHolds'
  BY <1>1 DEF TokenInv, ActingHolds
<1>3. \A j \in Callers \ {k}, c \in ConnIds : Holds(j, c)' <=> Holds(j, c)
  BY <1>1 DEF Holds
<1>4. \A c \in ConnIds : Holds(k, c)' => x.stage \in HeldStages /\ x.by # "sign_in" /\ x.conn = c
  BY <1>1 DEF Holds, HeldStages
<1>5. Locked'
  <2>1. ASSUME NEW i \in Callers, NEW j \in Callers, NEW c \in ConnIds, Holds(i, c)', Holds(j, c)'
        PROVE  i = j
    BY <1>3, <1>4, <2>1 DEF TokenInv, Locked
  <2>2. QED
    BY <2>1 DEF Locked
<1>6. LooksAgain'
  <2>1. ASSUME NEW j \in Callers, Refreshing(acting[j])' PROVE ~Refreshed(acting[j].conn)'
    <3>1. CASE j = k
      BY <1>1, <2>1, <3>1 DEF Refreshing, Refreshed
    <3>2. CASE j # k
      <4>1. acting'[j] = acting[j] /\ Refreshing(acting[j])
        BY <1>1, <2>1, <3>2 DEF Refreshing
      <4>2. acting[j].conn \in ConnIds /\ Holds(j, acting[j].conn) /\ ~Refreshed(acting[j].conn)
        BY <4>1 DEF TokenInv, ActingHolds, Carries, LooksAgain, Refreshing, Holds, HeldStages
      <4>3. ~Refreshed(acting[j].conn)'
        <5>1. ASSUME NEW c \in ConnIds, c = acting[j].conn PROVE ~Refreshed(c)'
          BY <3>2, <4>2, <5>1
        <5>2. QED
          BY <4>1, <4>2, <5>1 DEF Refreshed
      <4>4. QED
        BY <4>3
    <3>3. QED
      BY <3>1, <3>2
  <2>2. QED
    BY <2>1 DEF LooksAgain
<1>7. QED
  BY <1>2, <1>5, <1>6 DEF TokenInv

LEMMA MovesOutside ==
  ASSUME ActingHolds, NEW k \in Callers, NEW x, Becomes(k, x), x.stage \notin TakenStages \cup PassStages
  PROVE  Outside
<1>1. acting' = [j \in Callers |-> IF j = k THEN x ELSE acting[j]]
  BY DEF ActingHolds, Becomes
<1>2. QED
  BY <1>1 DEF Outside

\* A secret is stored or retired: nothing else changes.
LEMMA PutEffect ==
  ASSUME SecretsHold, NEW c, NEW type, NEW secret,
         secret # NoSecret => {"usable", "by"} \subseteq DOMAIN secret, put(c, type, secret)
  PROVE  /\ SecretsHold'
         /\ \A d \in ConnIds, t \in connectionSecretTypes :
              secrets'[d][t] = IF d = c /\ t = type THEN secret ELSE secrets[d][t]
<1>1. secrets' = [secrets EXCEPT ![c] = [secrets[c] EXCEPT ![type] = secret]]
  BY DEF put
<1> DEFINE row == [secrets[c] EXCEPT ![type] = secret]
<1>2. CASE c \in ConnIds
  <2>1. secrets[c] = [t \in connectionSecretTypes |-> secrets[c][t]]
    BY <1>2 DEF SecretsHold
  <2>2. row = [t \in connectionSecretTypes |-> IF t = type THEN secret ELSE secrets[c][t]]
    BY <2>1
  <2> HIDE DEF row
  <2>3. secrets' = [d \in ConnIds |-> IF d = c THEN row ELSE secrets[d]]
    BY <1>1, <1>2 DEF SecretsHold, row
  <2>4. \A d \in ConnIds : secrets[d] = [t \in connectionSecretTypes |-> secrets[d][t]]
    BY DEF SecretsHold
  <2>5. \A d \in ConnIds, t \in connectionSecretTypes :
          secrets'[d][t] = IF d = c /\ t = type THEN secret ELSE secrets[d][t]
    BY <2>2, <2>3
  <2>6. \A d \in ConnIds : secrets'[d] = [t \in connectionSecretTypes |-> secrets'[d][t]]
    BY <2>2, <2>3, <2>4
  <2>7. secrets' = [d \in ConnIds |-> [t \in connectionSecretTypes |-> secrets'[d][t]]]
    BY <2>3, <2>6
  <2>8. SecretsHold'
    BY <2>5, <2>7 DEF SecretsHold
  <2>9. QED
    BY <2>5, <2>8
<1>3. CASE c \notin ConnIds
  <2>1. secrets' = secrets
    BY <1>1, <1>3 DEF SecretsHold
  <2>2. QED
    BY <1>3, <2>1 DEF SecretsHold
<1>4. QED
  BY <1>2, <1>3

LEMMA RetireEffect ==
  ASSUME SecretsHold, NEW c, NEW type, retire(c, type)
  PROVE  SecretsHold' /\ \A d \in ConnIds : Refreshed(d)' => Refreshed(d)
<1>1. put(c, type, NoSecret)
  BY DEF retire, put
<1>2. /\ SecretsHold'
      /\ \A d \in ConnIds, t \in connectionSecretTypes :
           secrets'[d][t] = IF d = c /\ t = type THEN NoSecret ELSE secrets[d][t]
  BY <1>1, PutEffect
<1>3. "ebay_access_token" \in connectionSecretTypes
  BY DEF connectionSecretTypes
<1>4. QED
  BY <1>2, <1>3 DEF Refreshed

\* Storing one of another type leaves the access tokens.
LEMMA OtherEffect ==
  ASSUME SecretsHold, NEW c, NEW type \in connectionSecretTypes \ {"ebay_access_token"}, NEW name, NEW by,
         put(c, type, Secret(name, by))
  PROVE  SecretsHold' /\ \A d \in ConnIds : Refreshed(d)' => Refreshed(d)
<1> DEFINE new == Secret(name, by)
<1>1. {"usable", "by"} \subseteq DOMAIN new
  BY DEF Secret
<1> HIDE DEF new
<1>2. /\ SecretsHold'
      /\ \A d \in ConnIds, t \in connectionSecretTypes :
           secrets'[d][t] = IF d = c /\ t = type THEN new ELSE secrets[d][t]
  BY <1>1, PutEffect DEF new
<1>3. "ebay_access_token" \in connectionSecretTypes
  BY DEF connectionSecretTypes
<1>4. QED
  BY <1>2, <1>3 DEF Refreshed

LEMMA Waiting ==
  ASSUME TokenInv, NEW k \in Callers
  PROVE  /\ Carries(acting[k]) /\ SecretsHold /\ ActingHolds
         /\ \A c \in ConnIds : Holds(k, c) => \A j \in Callers \ {k} : ~Holds(j, c)
BY DEF TokenInv, ActingHolds, Locked

\* A caller that holds nothing and will hold nothing.
LEMMA PlainHandsOver ==
  ASSUME TokenInv, NEW k \in Callers, NEW x, Becomes(k, x), Plain(x), SecretsHold',
         \A c \in ConnIds : Refreshed(c)' => Refreshed(c)
  PROVE  TokenInv' /\ Outside
<1>1. Carries(x) /\ x.stage \notin HeldStages \cup TakenStages \cup PassStages
  BY DEF Plain, Carries, Marked
<1>2. ~Refreshing(x)
  BY <1>1 DEF Refreshing, HeldStages
<1>3. TokenInv'
  BY <1>1, <1>2, HandsOver
<1>4. QED
  BY <1>1, <1>3, MovesOutside DEF TokenInv

LEMMA LapseInv ==
  ASSUME TokenInv, NEW c \in ConnIds, TokenLapses(c)
  PROVE  TokenInv' /\ Quiet
<1> DEFINE T == "ebay_access_token"
           row == [secrets[c][T] EXCEPT !.usable = FALSE]
<1>1. secrets' = [secrets EXCEPT ![c] = [secrets[c] EXCEPT ![T] = row]] /\ acting' = acting
  BY DEF TokenLapses
<1>2. T \in connectionSecretTypes /\ secrets[c][T] # NoSecret
  BY DEF connectionSecretTypes, TokenLapses, usableAccessToken
<1>3. {"usable", "by"} \subseteq DOMAIN row /\ ~row.usable
  BY <1>2 DEF TokenInv, SecretsHold
<1>4. put(c, T, row)
  BY <1>1 DEF put
<1> HIDE DEF T, row
<1>5. /\ SecretsHold'
      /\ \A d \in ConnIds, t \in connectionSecretTypes :
           secrets'[d][t] = IF d = c /\ t = T THEN row ELSE secrets[d][t]
  BY <1>2, <1>3, <1>4, PutEffect DEF TokenInv
<1>6. \A d \in ConnIds : Refreshed(d)' => Refreshed(d)
  BY <1>2, <1>3, <1>5 DEF Refreshed, T
<1>7. ActingHolds' /\ Locked'
  BY <1>1 DEF TokenInv, ActingHolds, Locked, Holds
<1>8. LooksAgain'
  <2>1. ASSUME NEW k \in Callers, Refreshing(acting[k])' PROVE ~Refreshed(acting[k].conn)'
    <3>1. Refreshing(acting[k]) /\ acting[k].conn \in ConnIds /\ ~Refreshed(acting[k].conn)
      BY <1>1, <2>1 DEF TokenInv, ActingHolds, Carries, LooksAgain, Refreshing, HeldStages
    <3>2. \A d \in ConnIds : d = acting[k].conn => ~Refreshed(d)'
      BY <1>6, <3>1
    <3>3. QED
      BY <1>1, <3>1, <3>2 DEF Refreshed
  <2>2. QED
    BY <2>1 DEF LooksAgain
<1>9. QED
  BY <1>1, <1>5, <1>7, <1>8, Stays DEF TokenInv

LEMMA CompleteConnectionInv ==
  ASSUME TokenInv, NEW k \in Callers, completeConnection(k)
  PROVE  TokenInv' /\ Outside
<1> DEFINE x(c, both) == [stage |-> "store_access", conn |-> c, name |-> acting[k].name,
                          by |-> "sign_in", withRefresh |-> both]
<1>1. Becomes(k, Idle) \/ \E c, both : Becomes(k, x(c, both))
  BY DEF completeConnection
<1>2. SecretsHold' /\ \A c \in ConnIds : Refreshed(c)' => Refreshed(c)
  BY DEF completeConnection, TokenInv, SecretsHold, Refreshed
<1>3. CASE Becomes(k, Idle)
  BY <1>2, <1>3, IdleIsPlain, PlainHandsOver
<1>4. ASSUME NEW c, NEW both, Becomes(k, x(c, both)) PROVE TokenInv' /\ Outside
  <2>1. /\ Carries(x(c, both)) /\ x(c, both).by = "sign_in" /\ ~Refreshing(x(c, both))
        /\ x(c, both).stage \notin TakenStages \cup PassStages
    BY DEF Carries, Refreshing, HeldStages, AppStages, TakenStages, PassStages
  <2> HIDE DEF x
  <2>2. TokenInv'
    BY <1>2, <1>4, <2>1, HandsOver
  <2>3. QED
    BY <1>4, <2>1, <2>2, MovesOutside DEF TokenInv
<1>5. QED
  BY <1>1, <1>3, <1>4

LEMMA StoreTokensInv ==
  ASSUME TokenInv, NEW k \in Callers, storeTokens(k)
  PROVE  TokenInv' /\ Outside
<1> DEFINE c == acting[k].conn
           name == acting[k].name
           by == acting[k].by
           new == Secret(name, by)
           x == [acting[k] EXCEPT !.stage = "store_refresh"]
<1>1. CASE Stage(k, "store_access")
  <2>1. put(c, "ebay_access_token", new) /\ (Becomes(k, x) \/ Becomes(k, Idle))
    BY <1>1 DEF storeTokens, Stage
  <2>2. {"usable", "by"} \subseteq DOMAIN new /\ new.by = by
    BY DEF Secret
  <2>3. "ebay_access_token" \in connectionSecretTypes
    BY DEF connectionSecretTypes
  <2>4. /\ {"by", "conn"} \subseteq DOMAIN acting[k] /\ (by # "sign_in" => c \in ConnIds)
        /\ "stage" \in DOMAIN acting[k]
    BY <1>1, Waiting DEF Carries, HeldStages, Stage
  <2>5. /\ x.stage = "store_refresh" /\ x.conn = c /\ x.by = by /\ {"stage", "by", "conn"} \subseteq DOMAIN x
    BY <2>4
  <2>6. by # "sign_in" => \A j \in Callers \ {k} : ~Holds(j, c)
    BY <1>1, <2>4, Waiting DEF Holds, Stage
  <2> HIDE DEF new, x, c, by
  <2>7. /\ SecretsHold'
        /\ \A d \in ConnIds, t \in connectionSecretTypes :
             secrets'[d][t] = IF d = c /\ t = "ebay_access_token" THEN new ELSE secrets[d][t]
    BY <2>1, <2>2, <2>3, PutEffect, Waiting
  <2>8. \A d \in ConnIds : Refreshed(d)' => Refreshed(d) \/ \A j \in Callers \ {k} : ~Holds(j, d)
    <3>1. ASSUME NEW d \in ConnIds, Refreshed(d)', ~Refreshed(d) PROVE \A j \in Callers \ {k} : ~Holds(j, d)
      <4>1. d = c /\ by = "refresh"
        BY <2>2, <2>3, <2>7, <3>1 DEF Refreshed
      <4>2. QED
        BY <2>6, <4>1
    <3>2. QED
      BY <3>1
  <2>9. CASE Becomes(k, x)
    <3>1. Carries(x) /\ ~Refreshing(x) /\ x.stage \notin TakenStages \cup PassStages
      BY <2>4, <2>5 DEF Carries, Refreshing, HeldStages, AppStages, TakenStages, PassStages
    <3>2. TokenInv'
      BY <2>5, <2>6, <2>7, <2>8, <2>9, <3>1, HandsOver
    <3>3. QED
      BY <2>9, <3>1, <3>2, MovesOutside DEF TokenInv
  <2>10. CASE Becomes(k, Idle)
    <3>1. /\ Carries(Idle) /\ ~Refreshing(Idle) /\ Idle.stage \notin HeldStages \cup TakenStages \cup PassStages
      BY DEF Idle, Carries, Refreshing, HeldStages, AppStages, TakenStages, PassStages
    <3>2. TokenInv'
      BY <2>7, <2>8, <2>10, <3>1, HandsOver
    <3>3. QED
      BY <2>10, <3>1, <3>2, MovesOutside DEF TokenInv
  <2>11. QED
    BY <2>1, <2>9, <2>10
<1>2. CASE Stage(k, "store_refresh")
  <2>1. put(c, "ebay_refresh_token", Secret(name, by)) /\ Becomes(k, Idle)
    BY <1>2 DEF storeTokens, Stage
  <2>2. "ebay_refresh_token" \in connectionSecretTypes \ {"ebay_access_token"}
    BY DEF connectionSecretTypes
  <2> HIDE DEF c, name, by
  <2>3. SecretsHold' /\ \A d \in ConnIds : Refreshed(d)' => Refreshed(d)
    BY <2>1, <2>2, OtherEffect, Waiting
  <2>4. QED
    BY <2>1, <2>3, IdleIsPlain, PlainHandsOver
<1>3. QED
  BY <1>1, <1>2 DEF storeTokens

LEMMA AccessTokenInv ==
  ASSUME TokenInv, NEW k \in Callers, NEW c \in ConnIds, NEW force \in BOOLEAN, accessToken(k, c, force)
  PROVE  TokenInv' /\ Outside
<1> DEFINE x == [stage |-> "lock", conn |-> c, by |-> IF force THEN "forced" ELSE "refresh"]
<1>1. Becomes(k, x) /\ secrets' = secrets
  BY DEF accessToken
<1>2. /\ Carries(x) /\ ~Refreshing(x) /\ x.stage \notin HeldStages
      /\ x.stage \notin TakenStages \cup PassStages
  BY DEF Carries, Refreshing, HeldStages, AppStages, TakenStages, PassStages
<1> HIDE DEF x
<1>3. SecretsHold' /\ \A d \in ConnIds : Refreshed(d)' => Refreshed(d)
  BY <1>1, Waiting DEF SecretsHold, Refreshed
<1>4. TokenInv'
  BY <1>1, <1>2, <1>3, HandsOver
<1>5. QED
  BY <1>1, <1>2, <1>4, MovesOutside DEF TokenInv

LEMMA LockInv ==
  ASSUME TokenInv, NEW k \in Callers, lockRefresh(k)
  PROVE  TokenInv' /\ Outside
<1>1. /\ Stage(k, "lock") /\ secrets' = secrets
      /\ \A j \in Callers : ~Holds(j, acting[k].conn)
      /\ \/ Becomes(k, Idle)
         \/ /\ ~(acting[k].by = "refresh" /\ usableAccessToken(acting[k].conn))
            /\ Becomes(k, [stage |-> "refresh", conn |-> acting[k].conn, by |-> acting[k].by,
                           name |-> secrets[acting[k].conn]["ebay_refresh_token"].of])
  BY DEF lockRefresh
<1>2. SecretsHold' /\ \A d \in ConnIds : Refreshed(d)' => Refreshed(d)
  BY <1>1, Waiting DEF SecretsHold, Refreshed
<1>3. CASE Becomes(k, Idle)
  BY <1>2, <1>3, IdleIsPlain, PlainHandsOver
<1>4. ASSUME NEW c \in ConnIds, NEW by \in {"refresh", "forced"}, NEW name, \A j \in Callers : ~Holds(j, c),
             ~(by = "refresh" /\ usableAccessToken(c)),
             Becomes(k, [stage |-> "refresh", conn |-> c, by |-> by, name |-> name])
      PROVE  TokenInv' /\ Outside
  <2> DEFINE x == [stage |-> "refresh", conn |-> c, by |-> by, name |-> name]
  <2>1. Refreshing(x) => ~Refreshed(x.conn)'
    BY <1>1, <1>4 DEF Refreshing, Refreshed, usableAccessToken
  <2>2. Carries(x) /\ x.conn = c /\ x.stage \notin TakenStages \cup PassStages
    BY DEF Carries, HeldStages, AppStages, TakenStages, PassStages
  <2>3. Becomes(k, x)
    BY <1>4
  <2> HIDE DEF x
  <2>4. TokenInv'
    BY <1>2, <1>4, <2>1, <2>2, <2>3, HandsOver
  <2>5. QED
    BY <2>2, <2>3, <2>4, MovesOutside DEF TokenInv
<1>5. acting[k].conn \in ConnIds /\ acting[k].by \in {"refresh", "forced"}
  BY <1>1, Waiting DEF Carries, Stage
<1>6. QED
  BY <1>1, <1>3, <1>4, <1>5

LEMMA ExchangeInv ==
  ASSUME TokenInv, NEW k \in Callers, NEW answer, exchange(k, answer)
  PROVE  TokenInv' /\ Outside
<1>1. Stage(k, "refresh")
  BY DEF exchange
<1>2. PICK c, by, name : c = acting[k].conn /\ by = acting[k].by /\ name = acting[k].name
  OBVIOUS
<1>3. /\ {"stage", "by", "conn"} \subseteq DOMAIN acting[k] /\ (by # "sign_in" => c \in ConnIds)
      /\ by # "sign_in" => \A j \in Callers \ {k} : ~Holds(j, c)
      /\ by = "refresh" => ~Refreshed(c)
  <2>1. {"stage", "by", "conn"} \subseteq DOMAIN acting[k] /\ (by # "sign_in" => c \in ConnIds)
    BY <1>1, <1>2, Waiting DEF Carries, HeldStages, Stage
  <2>2. by # "sign_in" => \A j \in Callers \ {k} : ~Holds(j, c)
    BY <1>1, <1>2, <2>1, Waiting DEF Holds, Stage
  <2>3. by = "refresh" => ~Refreshed(c)
    BY <1>1, <1>2 DEF TokenInv, LooksAgain, Refreshing, Stage
  <2>4. QED
    BY <2>1, <2>2, <2>3
<1>4. ASSUME NEW x, Becomes(k, x), secrets' = secrets,
             {"stage", "by", "conn"} \subseteq DOMAIN x, x.conn = c, x.by = by, x.stage = "store_access"
      PROVE  TokenInv' /\ Outside
  <2>1. SecretsHold' /\ \A d \in ConnIds : Refreshed(d)' => Refreshed(d)
    BY <1>4, Waiting DEF SecretsHold, Refreshed
  <2>2. Carries(x) /\ x.stage \notin TakenStages \cup PassStages
    BY <1>3, <1>4 DEF Carries, HeldStages, AppStages, TakenStages, PassStages
  <2>3. Refreshing(x) => ~Refreshed(x.conn)'
    BY <1>3, <1>4 DEF Refreshing, Refreshed
  <2>4. TokenInv'
    BY <1>3, <1>4, <2>1, <2>2, <2>3, HandsOver
  <2>5. QED
    BY <1>4, <2>2, <2>4, MovesOutside DEF TokenInv
<1>5. CASE answer \in {"tokens", "access_only"}
  <2> DEFINE x == [stage |-> "store_access", conn |-> c, by |-> by, name |-> name,
                   withRefresh |-> answer = "tokens"]
  <2>1. Becomes(k, x) /\ secrets' = secrets
    BY <1>2, <1>5 DEF exchange
  <2>2. {"stage", "by", "conn"} \subseteq DOMAIN x /\ x.conn = c /\ x.by = by /\ x.stage = "store_access"
    OBVIOUS
  <2> HIDE DEF x
  <2>3. QED
    BY <1>4, <2>1, <2>2
<1>6. CASE answer = "invalid_grant"
  <2>1. PICK x : x = [acting[k] EXCEPT !.stage = "revoke_refresh"]
    OBVIOUS
  <2>2. {"stage", "by", "conn"} \subseteq DOMAIN x /\ x.stage = "revoke_refresh" /\ x.conn = c /\ x.by = by
    BY <1>2, <1>3, <2>1
  <2>3. Becomes(k, x) /\ retire(c, "ebay_access_token")
    BY <1>2, <1>6, <2>1 DEF exchange
  <2>4. "ebay_access_token" \in connectionSecretTypes
    BY DEF connectionSecretTypes
  <2>5. SecretsHold' /\ \A d \in ConnIds : Refreshed(d)' => Refreshed(d)
    BY <2>3, <2>4, RetireEffect, Waiting
  <2>6. Carries(x) /\ ~Refreshing(x) /\ x.stage \notin TakenStages \cup PassStages
    BY <1>3, <2>2 DEF Carries, Refreshing, HeldStages, AppStages, TakenStages, PassStages
  <2>7. TokenInv'
    BY <1>3, <2>2, <2>3, <2>5, <2>6, HandsOver
  <2>8. QED
    BY <2>3, <2>6, <2>7, MovesOutside DEF TokenInv
<1>7. CASE answer = "failed"
  <2>1. Becomes(k, Idle) /\ secrets' = secrets
    BY <1>7 DEF exchange
  <2>2. SecretsHold' /\ \A d \in ConnIds : Refreshed(d)' => Refreshed(d)
    BY <2>1, Waiting DEF SecretsHold, Refreshed
  <2>3. QED
    BY <2>1, <2>2, IdleIsPlain, PlainHandsOver
<1>8. QED
  BY <1>5, <1>6, <1>7 DEF exchange

LEMMA PauseInv ==
  ASSUME TokenInv, NEW k \in Callers, pauseForRevocation(k)
  PROVE  TokenInv' /\ Outside
<1>1. CASE Stage(k, "revoke_refresh")
  <2>1. PICK x, c, by : x = [acting[k] EXCEPT !.stage = "pause"] /\ c = acting[k].conn /\ by = acting[k].by
    OBVIOUS
  <2>2. /\ {"stage", "by", "conn"} \subseteq DOMAIN acting[k] /\ (by # "sign_in" => c \in ConnIds)
    BY <1>1, <2>1, Waiting DEF Carries, HeldStages, Stage
  <2>3. by # "sign_in" => \A j \in Callers \ {k} : ~Holds(j, c)
    BY <1>1, <2>1, <2>2, Waiting DEF Holds, Stage
  <2>4. {"stage", "by", "conn"} \subseteq DOMAIN x /\ x.stage = "pause" /\ x.conn = c /\ x.by = by
    BY <2>1, <2>2
  <2>5. Becomes(k, x) /\ retire(c, "ebay_refresh_token")
    BY <1>1, <2>1 DEF pauseForRevocation, Stage
  <2>6. "ebay_refresh_token" \in connectionSecretTypes
    BY DEF connectionSecretTypes
  <2>7. SecretsHold' /\ \A d \in ConnIds : Refreshed(d)' => Refreshed(d)
    BY <2>5, <2>6, RetireEffect, Waiting
  <2>8. Carries(x) /\ ~Refreshing(x) /\ x.stage \notin TakenStages \cup PassStages
    BY <2>2, <2>4 DEF Carries, Refreshing, HeldStages, AppStages, TakenStages, PassStages
  <2>9. TokenInv'
    BY <2>3, <2>4, <2>5, <2>7, <2>8, HandsOver
  <2>10. QED
    BY <2>5, <2>8, <2>9, MovesOutside DEF TokenInv
<1>2. CASE Stage(k, "pause")
  <2>1. Becomes(k, Idle) /\ secrets' = secrets
    BY <1>2 DEF pauseForRevocation, Stage
  <2>2. SecretsHold' /\ \A d \in ConnIds : Refreshed(d)' => Refreshed(d)
    BY <2>1, Waiting DEF SecretsHold, Refreshed
  <2>3. QED
    BY <2>1, <2>2, IdleIsPlain, PlainHandsOver
<1>3. QED
  BY <1>1, <1>2 DEF pauseForRevocation

LEMMA AdoptInv ==
  ASSUME TokenInv, NEW k \in Callers, adopt(k)
  PROVE  TokenInv' /\ Outside
<1>1. ASSUME NEW x, Becomes(k, x), Plain(x), secrets' = secrets PROVE TokenInv' /\ Outside
  <2>1. SecretsHold' /\ \A d \in ConnIds : Refreshed(d)' => Refreshed(d)
    BY <1>1, Waiting DEF SecretsHold, Refreshed
  <2>2. QED
    BY <1>1, <2>1, PlainHandsOver
<1>2. ASSUME NEW s \in {"store_secret", "activate"}, Becomes(k, [acting[k] EXCEPT !.stage = s]),
             NEW type \in connectionSecretTypes \ {"ebay_access_token"},
             put(acting[k].conn, type, Secret(conns[acting[k].conn].account, "sign_in"))
      PROVE  TokenInv' /\ Outside
  <2>1. Plain([acting[k] EXCEPT !.stage = s])
    BY NewStage, Waiting DEF Marked, HeldStages, AppStages, TakenStages, PassStages
  <2>2. SecretsHold' /\ \A d \in ConnIds : Refreshed(d)' => Refreshed(d)
    BY <1>2, OtherEffect, Waiting
  <2>3. QED
    BY <1>2, <2>1, <2>2, PlainHandsOver
<1>3. CASE Stage(k, "prove")
  <2> DEFINE x(writes) == [acting[k] EXCEPT !.stage = "store_key",
                             !.permissions = IF @ = "unknown" THEN probePermissions(writes) ELSE @]
  <2>1. \A writes : Plain(x(writes))
    BY Waiting DEF Carries, Plain, Marked, HeldStages, AppStages, TakenStages, PassStages
  <2>2. secrets' = secrets /\ (Becomes(k, Idle) \/ \E writes \in BOOLEAN : Becomes(k, x(writes)))
    BY <1>3 DEF adopt, Stage
  <2> HIDE DEF x
  <2>3. QED
    BY <1>1, <2>1, <2>2, IdleIsPlain
<1>4. CASE Stage(k, "store_key")
  <2>1. /\ put(acting[k].conn, "woocommerce_consumer_key", Secret(conns[acting[k].conn].account, "sign_in"))
        /\ Becomes(k, [acting[k] EXCEPT !.stage = "store_secret"])
    BY <1>4 DEF adopt, Stage
  <2>2. "woocommerce_consumer_key" \in connectionSecretTypes \ {"ebay_access_token"}
    BY DEF connectionSecretTypes
  <2>3. QED
    BY <1>2, <2>1, <2>2
<1>5. CASE Stage(k, "store_secret")
  <2>1. /\ put(acting[k].conn, "woocommerce_consumer_secret", Secret(conns[acting[k].conn].account, "sign_in"))
        /\ Becomes(k, [acting[k] EXCEPT !.stage = "activate"])
    BY <1>5 DEF adopt, Stage
  <2>2. "woocommerce_consumer_secret" \in connectionSecretTypes \ {"ebay_access_token"}
    BY DEF connectionSecretTypes
  <2>3. QED
    BY <1>2, <2>1, <2>2
<1>6. CASE Stage(k, "activate")
  <2>1. Becomes(k, Idle) /\ secrets' = secrets
    BY <1>6 DEF adopt, Stage
  <2>2. QED
    BY <1>1, <2>1, IdleIsPlain
<1>7. QED
  BY <1>3, <1>4, <1>5, <1>6 DEF adopt

LEMMA DisconnectInv ==
  ASSUME TokenInv, NEW k \in Callers, disconnect(k)
  PROVE  TokenInv' /\ Outside
<1>1. ASSUME NEW x, Becomes(k, x), Plain(x), secrets' = secrets PROVE TokenInv' /\ Outside
  <2>1. SecretsHold' /\ \A d \in ConnIds : Refreshed(d)' => Refreshed(d)
    BY <1>1, Waiting DEF SecretsHold, Refreshed
  <2>2. QED
    BY <1>1, <2>1, PlainHandsOver
<1>2. CASE Stage(k, "unhook") /\ acting[k].rows = {}
  <2> DEFINE x == [stage |-> "discard", conn |-> acting[k].conn,
                   types |-> {t \in connectionSecretTypes : secrets[acting[k].conn][t] # NoSecret}]
  <2>1. Plain(x)
    BY DEF Plain, Marked, HeldStages, AppStages, TakenStages, PassStages
  <2>2. Becomes(k, x) /\ secrets' = secrets
    BY <1>2 DEF disconnect, Stage
  <2> HIDE DEF x
  <2>3. QED
    BY <1>1, <2>1, <2>2
<1>3. ASSUME NEW t \in acting[k].types, Stage(k, "discard"), retire(acting[k].conn, t),
             Becomes(k, [acting[k] EXCEPT !.types = @ \ {t}])
      PROVE  TokenInv' /\ Outside
  <2>1. Plain([acting[k] EXCEPT !.types = @ \ {t}])
    BY <1>3, Waiting DEF Carries, Stage, Plain, Marked, HeldStages, AppStages, TakenStages, PassStages
  <2>2. SecretsHold' /\ \A d \in ConnIds : Refreshed(d)' => Refreshed(d)
    BY <1>3, RetireEffect, Waiting
  <2>3. QED
    BY <1>3, <2>1, <2>2, PlainHandsOver
<1>4. CASE Becomes(k, Idle) /\ secrets' = secrets
  BY <1>1, <1>4, IdleIsPlain
<1>5. QED
  BY <1>2, <1>3, <1>4 DEF disconnect

-------------------------------------------------------------------------------
(* Webhooks.                                                                 *)

LEMMA HookStages ==
  /\ \A s \in {"repair", "gone", "settle_deleted", "put_secret", "observe", "promote", "retire_old"} : \A h :
       Plain([stage |-> s, hook |-> h])
  /\ \A r : Plain([stage |-> "insert", replaces |-> r])
  /\ \A l, f : Plain([stage |-> "listed", listed |-> l, fine |-> f])
  /\ \A h, ok : Plain([stage |-> "settle", hook |-> h, ok |-> ok])
BY DEF Plain, Marked, HeldStages, AppStages, TakenStages, PassStages

LEMMA HookSteps ==
  ASSUME ActingHolds, NEW k \in Callers,
         \/ \E who \in Managers : reconcile(k, who) \/ rotate(k, who) \/ HookDisconnect(k, who)
         \/ reconcileTopic(k) \/ retireHook(k) \/ HookCrash(k)
         \/ \E answer : createHook(k, answer)
         \/ \E ok \in BOOLEAN : repair(k, ok) \/ observe(k, ok)
         \/ \E h \in HookIds, e \in Events : receive(k, h, e)
  PROVE  Quiet /\ UNCHANGED <<auths, spent, secrets>>
<1>1. ASSUME NEW who \in Managers, reconcile(k, who) PROVE Quiet /\ UNCHANGED <<auths, spent, secrets>>
  BY <1>1, HookStages, Moves DEF reconcile, BeginsToChange
<1>2. ASSUME NEW who \in Managers, rotate(k, who) PROVE Quiet /\ UNCHANGED <<auths, spent, secrets>>
  <2>1. \E h : Becomes(k, [stage |-> "insert", replaces |-> h])
    BY <1>2 DEF rotate
  <2>2. QED
    BY <1>2, <2>1, HookStages, Moves DEF rotate
<1>3. ASSUME NEW who \in Managers, HookDisconnect(k, who)
      PROVE  Quiet /\ UNCHANGED <<auths, spent, secrets>>
  <2> DEFINE x == [stage |-> "unhook", conn |-> 1,
                   rows |-> IF conns[1].provider = "woocommerce" THEN LiveHooks ELSE {}]
  <2>1. Becomes(k, x) /\ UNCHANGED <<auths, spent, secrets>>
    BY <1>3 DEF HookDisconnect, disconnectConnectionAction
  <2>2. Plain(x)
    BY DEF Plain, Marked, HeldStages, AppStages, TakenStages, PassStages
  <2> HIDE DEF x
  <2>3. QED
    BY <2>1, <2>2, Moves
<1>4. CASE reconcileTopic(k)
  <2>1. \/ Becomes(k, [stage |-> "insert", replaces |-> 0]) \/ Becomes(k, Idle)
        \/ \E mine : \/ Becomes(k, [stage |-> "repair", hook |-> mine])
                     \/ Becomes(k, [stage |-> "gone", hook |-> mine])
    BY <1>4 DEF reconcileTopic
  <2>2. QED
    BY <1>4, <2>1, HookStages, IdleIsPlain, Moves DEF reconcileTopic, OtherHookVars
<1>5. CASE retireHook(k)
  <2>1. \/ Becomes(k, [stage |-> "settle_deleted", hook |-> acting[k].hook])
        \/ Becomes(k, [stage |-> "insert", replaces |-> 0])
    BY <1>5 DEF retireHook
  <2>2. QED
    BY <1>5, <2>1, HookStages, Moves DEF retireHook, OtherHookVars
<1>6. CASE HookCrash(k)
  BY <1>6, IdleIsPlain, Moves DEF HookCrash, Crash
<1>7. ASSUME NEW answer, createHook(k, answer) PROVE Quiet /\ UNCHANGED <<auths, spent, secrets>>
  <2>1. \/ \E h : Becomes(k, [stage |-> "put_secret", hook |-> h])
        \/ Becomes(k, [acting[k] EXCEPT !.stage = "post"])
        \/ \E h, ok : Becomes(k, [stage |-> "settle", hook |-> h, ok |-> ok])
        \/ Becomes(k, Idle)
    BY <1>7 DEF createHook
  <2>2. Plain([acting[k] EXCEPT !.stage = "post"])
    BY NewStage DEF Marked, HeldStages, AppStages, TakenStages, PassStages
  <2>3. QED
    BY <1>7, <2>1, <2>2, HookStages, IdleIsPlain, Moves DEF createHook, OtherHookVars
<1>8. ASSUME NEW ok \in BOOLEAN, repair(k, ok) PROVE Quiet /\ UNCHANGED <<auths, spent, secrets>>
  <2>1. \/ Becomes(k, [acting[k] EXCEPT !.stage = "repaired"])
        \/ Becomes(k, [acting[k] EXCEPT !.stage = "refused"])
        \/ Becomes(k, Idle)
    BY <1>8 DEF repair
  <2>2. \A s \in {"repaired", "refused"} : Plain([acting[k] EXCEPT !.stage = s])
    BY NewStage DEF Marked, HeldStages, AppStages, TakenStages, PassStages
  <2>3. QED
    BY <1>8, <2>1, <2>2, IdleIsPlain, Moves DEF repair, OtherHookVars
<1>9. ASSUME NEW ok \in BOOLEAN, observe(k, ok) PROVE Quiet /\ UNCHANGED <<auths, spent, secrets>>
  <2>1. \/ Becomes(k, Idle)
        \/ \E h : \/ Becomes(k, [stage |-> "promote", hook |-> h])
                  \/ Becomes(k, [stage |-> "retire_old", hook |-> h])
    BY <1>9 DEF observe
  <2>2. QED
    BY <1>9, <2>1, HookStages, IdleIsPlain, Moves DEF observe, OtherHookVars
<1>10. ASSUME NEW h \in HookIds, NEW e \in Events, receive(k, h, e)
       PROVE  Quiet /\ UNCHANGED <<auths, spent, secrets>>
  BY <1>10, HookStages, Moves DEF receive, OtherHookVars
<1>11. QED
  BY <1>1, <1>2, <1>3, <1>4, <1>5, <1>6, <1>7, <1>8, <1>9, <1>10

-------------------------------------------------------------------------------
(* The standing of a connection.                                             *)

LEMMA StandSteps ==
  ASSUME ActingHolds, NEW k \in Callers,
         \/ \E answers : createEbayReadiness(k, answers) \/ createWooReadiness(k, answers)
         \/ recordChecks(k) \/ createConnectionHealth(k)
  PROVE  Quiet /\ UNCHANGED <<auths, spent, secrets>>
<1>1. \A results : Plain([stage |-> "checked", results |-> results])
  BY DEF Plain, Marked, HeldStages, AppStages, TakenStages, PassStages
<1>2. \A failures, verdict : Plain([stage |-> "assessed", failures |-> failures, verdict |-> verdict])
  BY DEF Plain, Marked, HeldStages, AppStages, TakenStages, PassStages
<1>3. ASSUME NEW answers, createEbayReadiness(k, answers) \/ createWooReadiness(k, answers)
      PROVE  Quiet /\ UNCHANGED <<auths, spent, secrets>>
  <2>1. /\ \E results : Becomes(k, [stage |-> "checked", results |-> results])
        /\ UNCHANGED <<auths, spent, secrets>>
    BY <1>3, Zenon DEF createEbayReadiness, createWooReadiness, StandFrame
  <2>2. QED
    BY <1>1, <2>1, Moves
<1>4. CASE recordChecks(k)
  <2>1. Becomes(k, Idle) /\ UNCHANGED <<auths, spent, secrets>>
    BY <1>4 DEF recordChecks, StandFrame
  <2>2. QED
    BY <2>1, IdleIsPlain, Moves
<1>5. CASE createConnectionHealth(k)
  <2>1. /\ \/ \E failures, verdict :
                Becomes(k, [stage |-> "assessed", failures |-> failures, verdict |-> verdict])
           \/ Becomes(k, Idle)
        /\ UNCHANGED <<auths, spent, secrets>>
    BY <1>5, Zenon DEF createConnectionHealth, StandFrame
  <2>2. QED
    BY <1>2, <2>1, IdleIsPlain, Moves
<1>6. QED
  BY <1>3, <1>4, <1>5
-------------------------------------------------------------------------------
(* eBay's notifications: what does not concern an erasure.                   *)

LEMMA NoteSteps ==
  ASSUME ActingHolds, NEW k \in Callers,
         \/ \E h, answer, n, seller : createNotificationIntake(k, h, answer, n, seller)
         \/ RecordNotification(k) \/ store(k) \/ recordTopics(k) \/ NoteCrash(k)
         \/ \E ok \in BOOLEAN : \/ readDestination(k, ok) \/ discoverTopics(k, ok)
                                \/ readSubscriptions(k, ok) \/ enableSubscription(k, ok)
         \/ \E answer : writeDestination(k, answer) \/ createSubscription(k, answer)
         \/ \E t : settleTopic(k, t)
  PROVE  Quiet /\ UNCHANGED <<auths, spent, secrets, holding, requests, asked>>
<1> DEFINE Same == UNCHANGED <<auths, spent, secrets, holding, requests, asked>>
<1> USE DEF ConnFrame, ErasureVars, DestinationFrame, TopicFrame
<1>1. "stage" \in DOMAIN acting[k]
  BY DEF ActingHolds, Carries
<1>2. ASSUME NEW x, Becomes(k, x), "stage" \in DOMAIN x,
             x.stage \in {"note", "store", "put", "post", "subscriptions", "settle", "enable", "create"}
      PROVE  Quiet
  BY <1>2, Moves DEF Plain, Marked, HeldStages, AppStages, TakenStages, PassStages
<1>3. ASSUME Becomes(k, Idle) PROVE Quiet
  BY <1>3, IdleIsPlain, Moves
<1>4. ASSUME NEW h, NEW answer, NEW n, NEW seller, createNotificationIntake(k, h, answer, n, seller)
      PROVE  Quiet /\ Same
  <2>1. Same /\ (Becomes(k, Idle) \/ \E owners : Becomes(k, [stage |-> "note", left |-> owners, notice |-> n]))
    BY <1>4 DEF createNotificationIntake
  <2>2. QED
    BY <1>2, <1>3, <2>1
<1>5. CASE RecordNotification(k)
  <2>1. Same /\ (Becomes(k, Idle) \/ \E c : Becomes(k, [acting[k] EXCEPT !.left = @ \ {c}]))
    BY <1>5 DEF RecordNotification
  <2>2. \A c : /\ "stage" \in DOMAIN [acting[k] EXCEPT !.left = @ \ {c}]
               /\ [acting[k] EXCEPT !.left = @ \ {c}].stage = "note"
    BY <1>1, <1>5 DEF RecordNotification, Stage
  <2>3. QED
    BY <1>2, <1>3, <2>1, <2>2
<1>6. CASE store(k) \/ recordTopics(k)
  BY <1>3, <1>6 DEF store, recordTopics
<1>7. CASE NoteCrash(k)
  BY <1>3, <1>7 DEF NoteCrash, Crash, noteVars
<1>8. ASSUME NEW ok \in BOOLEAN, readDestination(k, ok) PROVE Quiet /\ Same
  <2>1. /\ Same
        /\ \/ \E row : Becomes(k, [stage |-> "store", row |-> row])
           \/ \E s \in {"put", "post"} : \E was, e, t :
                Becomes(k, [stage |-> s, was |-> was, endpoint |-> e, token |-> t])
    BY <1>8, Zenon DEF readDestination
  <2>2. QED
    BY <1>2, <2>1
<1>9. ASSUME NEW ok \in BOOLEAN, discoverTopics(k, ok) PROVE Quiet /\ Same
  <2>1. Same /\ (Becomes(k, Idle) \/ \E topics : Becomes(k, [stage |-> "subscriptions", topics |-> topics]))
    BY <1>9 DEF discoverTopics
  <2>2. QED
    BY <1>2, <1>3, <2>1
<1>10. ASSUME NEW ok \in BOOLEAN, readSubscriptions(k, ok) PROVE Quiet /\ Same
  <2>1. /\ Same
        /\ \/ Becomes(k, Idle)
           \/ \E left, result, existing :
                Becomes(k, [stage |-> "settle", left |-> left, result |-> result, existing |-> existing])
    BY <1>10 DEF readSubscriptions
  <2>2. QED
    BY <1>2, <1>3, <2>1
<1>11. ASSUME NEW t, NEW result, Settled(k, t, result) PROVE Quiet
  <2> DEFINE x == [stage |-> "settle", left |-> acting[k].left \ {t}, existing |-> acting[k].existing,
                   result |-> [acting[k].result EXCEPT ![t] = result]]
  <2>1. Becomes(k, x) /\ "stage" \in DOMAIN x /\ x.stage = "settle"
    BY <1>11 DEF Settled
  <2> HIDE DEF x
  <2>2. QED
    BY <1>2, <2>1
<1>12. ASSUME NEW t, NEW doing \in {"enable", "create"}, Working(k, doing, t) PROVE Quiet
  <2> DEFINE x == [stage |-> doing, topic |-> t, left |-> acting[k].left, existing |-> acting[k].existing,
                   result |-> acting[k].result]
  <2>1. Becomes(k, x) /\ "stage" \in DOMAIN x /\ x.stage \in {"enable", "create"}
    BY <1>12 DEF Working
  <2> HIDE DEF x
  <2>2. QED
    BY <1>2, <2>1
<1>13. ASSUME NEW ok \in BOOLEAN, enableSubscription(k, ok) PROVE Quiet /\ Same
  <2>1. Same /\ \E t, result : Settled(k, t, result)
    BY <1>13 DEF enableSubscription
  <2>2. QED
    BY <1>11, <2>1
<1>14. ASSUME NEW answer, writeDestination(k, answer) PROVE Quiet /\ Same
  <2>1. Same /\ \E row : Becomes(k, [stage |-> "store", row |-> row])
    BY <1>14 DEF writeDestination
  <2>2. QED
    BY <1>2, <2>1
<1>15. ASSUME NEW answer, createSubscription(k, answer) PROVE Quiet /\ Same
  <2>1. Same /\ \E t : Working(k, "enable", t) \/ Settled(k, t, "failed")
    BY <1>15 DEF createSubscription
  <2>2. QED
    BY <1>11, <1>12, <2>1
<1>16. ASSUME NEW t, settleTopic(k, t) PROVE Quiet /\ Same
  <2>1. /\ Same
        /\ \/ \E result : Settled(k, t, result)
           \/ \E doing \in {"enable", "create"} : Working(k, doing, t)
    BY <1>16 DEF settleTopic
  <2>2. QED
    BY <1>11, <1>12, <2>1
<1>17. QED
  BY <1>4, <1>5, <1>6, <1>7, <1>8, <1>9, <1>10, <1>13, <1>14, <1>15, <1>16

\* A caller moves on, no secret changes, and it holds nothing.
LEMMA HoldsNothing ==
  ASSUME TokenInv, NEW k \in Callers, NEW x, Becomes(k, x), Carries(x), x.stage \notin HeldStages,
         secrets' = secrets
  PROVE  TokenInv'
<1>1. SecretsHold' /\ \A d \in ConnIds : Refreshed(d)' => Refreshed(d)
  BY Waiting DEF SecretsHold, Refreshed
<1>2. ~Refreshing(x)
  BY DEF Refreshing, HeldStages
<1>3. QED
  BY <1>1, <1>2, HandsOver

LEMMA AsksForToken ==
  ASSUME TokenInv, NEW k \in Callers, NEW x, Becomes(k, x), "stage" \in DOMAIN x, x.stage \in AppStages,
         Plain(x.then), secrets' = secrets
  PROVE  TokenInv' /\ Outside
<1>1. Carries(x) /\ x.stage \notin HeldStages \cup TakenStages \cup PassStages
  BY DEF Carries, AppStages, HeldStages, TakenStages, PassStages
<1>2. QED
  BY <1>1, HoldsNothing, MovesOutside DEF TokenInv

LEMMA AppTokenSteps ==
  ASSUME TokenInv, NEW k \in Callers,
         \/ \E answer : applicationToken(k, answer) \/ createApplicationTokenReader(k, answer)
         \/ \E e, t : ensure(k, e, t)
         \/ reconcileTopics(k)
  PROVE  TokenInv' /\ Outside /\ UNCHANGED <<auths, spent, holding, requests, asked>>
<1> DEFINE Same == UNCHANGED <<auths, spent, secrets, holding, requests, asked>>
<1> USE DEF ConnFrame, ErasureVars, DestinationFrame, TopicFrame
<1>1. \A j \in Callers : "stage" \in DOMAIN acting[j] /\ (acting[j].stage \in AppStages => Plain(acting[j].then))
  BY DEF TokenInv, ActingHolds, Carries
<1>2. ASSUME NEW answer, applicationToken(k, answer) PROVE TokenInv' /\ Outside /\ Same
  <2>1. /\ Same /\ Stage(k, "app_token")
        /\ \/ Becomes(k, acting[k].then)
           \/ \E s \in {"app_fetch", "app_wait"} : Becomes(k, [acting[k] EXCEPT !.stage = s])
    BY <1>2 DEF applicationToken
  <2>2. Plain(acting[k].then)
    BY <1>1, <2>1 DEF Stage, AppStages
  <2>3. CASE Becomes(k, acting[k].then)
    BY <2>1, <2>2, <2>3, Moves, QuietTokens, QuietIsOutside DEF TokenInv
  <2>4. ASSUME NEW s \in {"app_fetch", "app_wait"}, Becomes(k, [acting[k] EXCEPT !.stage = s])
        PROVE  TokenInv' /\ Outside
    <3>1. PICK x : x = [acting[k] EXCEPT !.stage = s]
      OBVIOUS
    <3>2. "stage" \in DOMAIN x /\ x.stage \in AppStages /\ Plain(x.then)
      BY <1>1, <2>2, <3>1 DEF AppStages
    <3>3. QED
      BY <2>1, <2>4, <3>1, <3>2, AsksForToken
  <2>5. QED
    BY <2>1, <2>3, <2>4
<1>3. ASSUME NEW answer, createApplicationTokenReader(k, answer) PROVE TokenInv' /\ Outside /\ Same
  <2>1. /\ Same /\ Stage(k, "app_fetch")
        /\ acting' = [j \in Callers |-> IF j = k \/ Stage(j, "app_wait")
                                          THEN IF answer = "ok" THEN acting[j].then ELSE Idle
                                          ELSE acting[j]]
    BY <1>3 DEF createApplicationTokenReader
  <2>2. ASSUME NEW j \in Callers PROVE acting'[j] = acting[j] \/ Plain(acting'[j])
    BY <1>1, <2>1, IdleIsPlain DEF Stage, AppStages
  <2>3. Quiet
    BY <2>1, <2>2 DEF Quiet
  <2>4. QED
    BY <2>1, <2>3, QuietTokens, QuietIsOutside
<1>4. ASSUME NEW then, Plain(then), Same, Becomes(k, [stage |-> "app_token", then |-> then])
      PROVE  TokenInv' /\ Outside
  BY <1>4, AsksForToken DEF AppStages
<1>5. ASSUME NEW e, NEW t, ensure(k, e, t) PROVE TokenInv' /\ Outside /\ Same
  <2>1. Plain([stage |-> "destination", endpoint |-> e, token |-> t])
    BY DEF Plain, Marked, HeldStages, AppStages, TakenStages, PassStages
  <2>2. QED
    BY <1>4, <1>5, <2>1 DEF ensure
<1>6. CASE reconcileTopics(k)
  <2>1. Plain([stage |-> "discover"])
    BY DEF Plain, Marked, HeldStages, AppStages, TakenStages, PassStages
  <2>2. QED
    BY <1>4, <1>6, <2>1 DEF reconcileTopics
<1>7. QED
  BY <1>2, <1>3, <1>5, <1>6

-------------------------------------------------------------------------------
(* Erasures.                                                                 *)

\* What a pass relies on is never taken from under it: a request that was taken up stays,
\* and no business comes to hold orders it was asked to erase.
Kept ==
  /\ requests' \in [Notices -> marketplaceDeletionRequests \cup {NoRow}]
  /\ asked' = [n \in Notices |-> asked'[n]]
  /\ \A n \in Notices :
       /\ requests[n] # NoRow => requests'[n] # NoRow
       /\ requests[n] # NoRow /\ requests[n].verified =>
            requests'[n].verified /\ asked'[n] \cap holding' \subseteq asked[n] \cap holding

LEMMA FollowsOn ==
  ASSUME Kept, NEW x, Follows(x)
  PROVE  Follows(x)'
BY DEF Kept, Follows, TakenStages, PassStages

LEMMA ErasureMoves ==
  ASSUME ErasureInv, ActingHolds, NEW k \in Callers, NEW x, Becomes(k, x), Kept,
         Follows(x)', RecordedErasureIsTrue'
  PROVE  ErasureInv'
<1>1. acting' = [j \in Callers |-> IF j = k THEN x ELSE acting[j]]
  BY DEF ActingHolds, Becomes
<1>2. ASSUME NEW j \in Callers PROVE Follows(acting[j])'
  <2>1. PICK y : y = acting[j]
    OBVIOUS
  <2>2. Follows(y)'
    BY <2>1, FollowsOn DEF ErasureInv
  <2>3. acting'[j] = IF j = k THEN x ELSE y
    BY <1>1, <2>1
  <2>4. CASE j = k
    BY <2>3, <2>4 DEF Follows
  <2>5. CASE j # k
    BY <2>2, <2>3, <2>5 DEF Follows
  <2>6. QED
    BY <2>4, <2>5
<1>3. QED
  BY <1>2 DEF ErasureInv, Kept

LEMMA NothingErased ==
  ASSUME ErasureInv, UNCHANGED <<holding, requests, asked>>
  PROVE  Kept /\ RecordedErasureIsTrue'
BY DEF ErasureInv, Kept, RecordedErasureIsTrue

\* The stages of an erasure hold nothing and have nothing to resume.
LEMMA ErasingHoldsNothing ==
  ASSUME NEW x, "stage" \in DOMAIN x, x.stage \in TakenStages \cup PassStages \cup {"idle"}
  PROVE  Carries(x) /\ x.stage \notin HeldStages
BY DEF Carries, HeldStages, AppStages, TakenStages, PassStages

LEMMA ErasureGoesOn ==
  ASSUME TokenInv, ErasureInv, NEW k \in Callers, NEW x, Becomes(k, x), "stage" \in DOMAIN x,
         x.stage \in TakenStages \cup PassStages \cup {"idle"}, Kept, secrets' = secrets,
         Follows(x)', RecordedErasureIsTrue'
  PROVE  TokenInv' /\ ErasureInv'
BY ErasingHoldsNothing, HoldsNothing, ErasureMoves DEF TokenInv

LEMMA IdleFollows == Follows(Idle)'
BY DEF Follows, Idle, TakenStages, PassStages

\* The rows of requests and who is asked to erase, when a request is taken up.
LEMMA TakenUp ==
  ASSUME ErasureInv, NEW n \in Notices, NEW row \in marketplaceDeletionRequests,
         requests' = [requests EXCEPT ![n] = row], row.status # "completed",
         requests[n] # NoRow /\ requests[n].verified => row.verified /\ asked' = asked,
         asked' = asked \/ asked' = [asked EXCEPT ![n] = holding], holding' = holding
  PROVE  Kept /\ RecordedErasureIsTrue' /\ requests'[n] = row /\ row # NoRow
<1>1. row # NoRow
  BY DEF marketplaceDeletionRequests, NoRow
<1>2. requests' \in [Notices -> marketplaceDeletionRequests \cup {NoRow}]
  BY DEF ErasureInv
<1>3. \A m \in Notices : requests'[m] = IF m = n THEN row ELSE requests[m]
  BY DEF ErasureInv
<1>4. /\ asked' = [m \in Notices |-> asked'[m]]
      /\ \A m \in Notices \ {n} : asked'[m] = asked[m]
  BY DEF ErasureInv
<1>5. RecordedErasureIsTrue'
  BY <1>3, <1>4 DEF ErasureInv, RecordedErasureIsTrue
<1>6. Kept
  BY <1>1, <1>2, <1>3, <1>4 DEF Kept
<1>7. QED
  BY <1>1, <1>3, <1>5, <1>6

LEMMA ErasureSteps ==
  ASSUME TokenInv, ErasureInv, NEW k \in Callers,
         \/ \E n \in Notices : retry(k, n) \/ \E v \in BOOLEAN : readDeletionNotification(k, n, v)
         \/ receiveDeletion(k) \/ receiveAgain(k) \/ erase(k) \/ recordOutcome(k) \/ finishErasure(k)
         \/ \E b \in Businesses, ok \in BOOLEAN : eraseForBusiness(k, b, ok)
  PROVE  TokenInv' /\ ErasureInv' /\ UNCHANGED <<auths, spent>>
<1> DEFINE Same == UNCHANGED <<auths, spent, secrets>>
           Steady == UNCHANGED <<auths, spent, secrets, holding, requests, asked>>
<1> USE DEF ErasureFrame, ConnFrame
<1>1. Follows(acting[k])
  BY DEF ErasureInv
\* A caller that ends, or goes on to x while nothing else of the erasure changes.
<1>2. ASSUME Becomes(k, Idle), Kept, RecordedErasureIsTrue', secrets' = secrets
      PROVE  TokenInv' /\ ErasureInv'
  BY <1>2, IdleFollows, ErasureGoesOn DEF Idle
<1>3. ASSUME NEW x, Becomes(k, x), "stage" \in DOMAIN x, x.stage \in TakenStages \cup PassStages,
             Steady, Follows(x)
      PROVE  TokenInv' /\ ErasureInv'
  BY <1>3, NothingErased, FollowsOn, ErasureGoesOn
<1>4. ASSUME NEW n \in Notices, NEW v \in BOOLEAN, readDeletionNotification(k, n, v)
      PROVE  TokenInv' /\ ErasureInv' /\ Same
  <2> DEFINE x == [stage |-> "request", n |-> n, verified |-> v]
  <2>1. Becomes(k, x) /\ Steady
    BY <1>4 DEF readDeletionNotification
  <2>2. Follows(x) /\ "stage" \in DOMAIN x /\ x.stage \in TakenStages \cup PassStages
    BY DEF Follows, TakenStages, PassStages
  <2> HIDE DEF x
  <2>3. QED
    BY <1>3, <2>1, <2>2
<1>5. ASSUME NEW n \in Notices, retry(k, n) PROVE TokenInv' /\ ErasureInv' /\ Same
  <2>1. PICK x : x = [stage |-> "retry_holders", n |-> n]
    OBVIOUS
  <2>2. Becomes(k, x) /\ Steady /\ requests[n] # NoRow /\ requests[n].verified
    BY <1>5, <2>1 DEF retry
  <2>3. Follows(x) /\ "stage" \in DOMAIN x /\ x.stage \in TakenStages \cup PassStages
    BY <2>1, <2>2 DEF Follows, TakenStages, PassStages
  <2>4. QED
    BY <1>3, <2>2, <2>3
<1>6. CASE receiveDeletion(k)
  <2>1. PICK n, v : n = acting[k].n /\ v = acting[k].verified
    OBVIOUS
  <2>2. Stage(k, "request") /\ n \in Notices /\ v \in BOOLEAN
    BY <1>1, <1>6, <2>1 DEF receiveDeletion, Follows, Stage, TakenStages
  <2>3. CASE requests[n] # NoRow
    <3>1. PICK x : x = [stage |-> "again", n |-> n]
      OBVIOUS
    <3>2. Steady /\ (Becomes(k, Idle) \/ Becomes(k, x))
      BY <1>6, <2>1, <2>3, <3>1 DEF receiveDeletion
    <3>3. Follows(x) /\ "stage" \in DOMAIN x /\ x.stage \in TakenStages \cup PassStages
      BY <2>2, <2>3, <3>1 DEF Follows, TakenStages, PassStages
    <3>4. QED
      BY <1>2, <1>3, <3>2, <3>3, NothingErased
  <2>4. CASE requests[n] = NoRow
    <3>1. PICK row : row = [verified |-> v, status |-> IF v THEN "processing" ELSE "rejected"]
      OBVIOUS
    <3>2. /\ requests' = [requests EXCEPT ![n] = row]
          /\ asked' = asked \/ asked' = [asked EXCEPT ![n] = holding]
          /\ holding' = holding /\ Same
          /\ IF v THEN Becomes(k, [stage |-> "holders", n |-> n]) ELSE Becomes(k, Idle)
      BY <1>6, <2>1, <2>4, <3>1 DEF receiveDeletion
    <3>3. CASE ~v
      <4>1. row = [verified |-> FALSE, status |-> "rejected"]
        BY <2>2, <3>1, <3>3
      <4>2. row \in marketplaceDeletionRequests /\ row.status # "completed"
        BY <4>1 DEF marketplaceDeletionRequests
      <4>3. QED
        BY <1>2, <2>2, <2>4, <3>2, <3>3, <4>2, TakenUp
    <3>4. CASE v
      <4>1. row.verified /\ row \in marketplaceDeletionRequests /\ row.status # "completed"
        BY <2>2, <3>1, <3>4 DEF marketplaceDeletionRequests
      <4>2. PICK x : x = [stage |-> "holders", n |-> n]
        OBVIOUS
      <4>3. Kept /\ RecordedErasureIsTrue' /\ requests'[n] = row /\ row # NoRow
        BY <2>2, <2>4, <3>2, <4>1, TakenUp
      <4>4. Follows(x)' /\ "stage" \in DOMAIN x /\ x.stage \in TakenStages \cup PassStages
        BY <2>2, <4>1, <4>2, <4>3 DEF Follows, TakenStages, PassStages
      <4>5. QED
        BY <3>2, <3>4, <4>2, <4>3, <4>4, ErasureGoesOn
    <3>5. QED
      BY <3>3, <3>4
  <2>5. QED
    BY <2>3, <2>4
<1>7. CASE receiveAgain(k)
  <2>1. PICK n : n = acting[k].n
    OBVIOUS
  <2>2. acting[k].stage \in {"again", "reopen"} /\ n \in Notices /\ requests[n] # NoRow
    BY <1>1, <1>7, <2>1 DEF receiveAgain, Follows, Stage, TakenStages
  <2>3. CASE Stage(k, "again")
    <3>1. PICK x : x = [stage |-> "reopen", n |-> n]
      OBVIOUS
    <3>2. Steady /\ (Becomes(k, Idle) \/ Becomes(k, x))
      BY <1>7, <2>1, <2>3, <3>1 DEF receiveAgain, Stage
    <3>3. Follows(x) /\ "stage" \in DOMAIN x /\ x.stage \in TakenStages \cup PassStages
      BY <2>2, <3>1 DEF Follows, TakenStages, PassStages
    <3>4. QED
      BY <1>2, <1>3, <3>2, <3>3, NothingErased
  <2>4. CASE Stage(k, "reopen")
    <3>1. PICK row, x : row = [verified |-> TRUE, status |-> "processing"] /\ x = [stage |-> "holders", n |-> n]
      OBVIOUS
    <3>2. /\ requests' = [requests EXCEPT ![n] = row]
          /\ asked' = asked \/ asked' = [asked EXCEPT ![n] = holding]
          /\ requests[n].verified => asked' = asked
          /\ holding' = holding /\ Same /\ Becomes(k, x)
      BY <1>7, <2>1, <2>4, <3>1 DEF receiveAgain, Stage
    <3>3. row.verified /\ row \in marketplaceDeletionRequests /\ row.status # "completed"
      BY <3>1 DEF marketplaceDeletionRequests
    <3>4. Kept /\ RecordedErasureIsTrue' /\ requests'[n] = row /\ row # NoRow
      BY <2>2, <3>2, <3>3, TakenUp
    <3>5. Follows(x)' /\ "stage" \in DOMAIN x /\ x.stage \in TakenStages \cup PassStages
      BY <2>2, <3>1, <3>3, <3>4 DEF Follows, TakenStages, PassStages
    <3>6. QED
      BY <3>2, <3>4, <3>5, ErasureGoesOn
  <2>5. QED
    BY <2>2, <2>3, <2>4 DEF Stage
<1>8. CASE erase(k)
  <2>1. PICK n : n = acting[k].n
    OBVIOUS
  <2>2. n \in Notices /\ requests[n] # NoRow /\ requests[n].verified
    BY <1>1, <1>8, <2>1 DEF erase, Follows, PassStages
  <2>3. Steady /\ \E left : /\ holding \subseteq left
                            /\ Becomes(k, [stage |-> "erasing", n |-> n, left |-> left, failures |-> 0])
    BY <1>8, <2>1 DEF erase
  <2>4. PICK left, x : /\ holding \subseteq left /\ Becomes(k, x)
                       /\ x = [stage |-> "erasing", n |-> n, left |-> left, failures |-> 0]
    BY <2>3
  <2>5. Follows(x) /\ "stage" \in DOMAIN x /\ x.stage \in TakenStages \cup PassStages
    BY <2>2, <2>4 DEF Follows, TakenStages, PassStages
  <2>6. QED
    BY <1>3, <2>3, <2>4, <2>5
<1>9. ASSUME NEW b \in Businesses, NEW ok \in BOOLEAN, eraseForBusiness(k, b, ok)
      PROVE  TokenInv' /\ ErasureInv' /\ Same
  <2>1. PICK n, left, failures : n = acting[k].n /\ left = acting[k].left /\ failures = acting[k].failures
    OBVIOUS
  <2>2. /\ n \in Notices /\ requests[n] # NoRow /\ requests[n].verified
        /\ failures \in Nat /\ (failures = 0 => asked[n] \cap holding \subseteq left)
    BY <1>1, <1>9, <2>1 DEF eraseForBusiness, Stage, Follows, PassStages
  <2>3. PICK x, as, more : /\ more = IF ok THEN failures ELSE failures + 1
                           /\ x = [stage |-> "outcome", n |-> n, left |-> left \ {b}, b |-> b,
                                   failures |-> more, as |-> as]
                           /\ Becomes(k, x)
    BY <1>9, <2>1 DEF eraseForBusiness
  <2>4. /\ Same /\ UNCHANGED <<requests, asked>>
        /\ holding' = IF ok THEN holding \ {b} ELSE holding
    BY <1>9 DEF eraseForBusiness
  <2>5. Kept /\ RecordedErasureIsTrue'
    BY <2>4 DEF ErasureInv, Kept, RecordedErasureIsTrue
  <2>6. x.stage = "outcome" /\ "stage" \in DOMAIN x /\ x.n = n /\ x.left = left \ {b} /\ x.failures = more
    BY <2>3
  <2>7. more \in Nat /\ (more = 0 => asked'[n] \cap holding' \subseteq left \ {b})
    <3>1. CASE ok
      BY <2>2, <2>3, <2>4, <3>1
    <3>2. CASE ~ok
      BY <2>2, <2>3, <3>2
    <3>3. QED
      BY <3>1, <3>2
  <2>8. Follows(x)' /\ x.stage \in TakenStages \cup PassStages
    BY <2>2, <2>4, <2>6, <2>7 DEF Follows, TakenStages, PassStages
  <2>9. QED
    BY <2>3, <2>4, <2>5, <2>6, <2>8, ErasureGoesOn
<1>10. CASE recordOutcome(k)
  <2>1. PICK x : x = [stage |-> "erasing", n |-> acting[k].n, left |-> acting[k].left,
                      failures |-> acting[k].failures]
    OBVIOUS
  <2>2. Becomes(k, x) /\ Steady /\ Stage(k, "outcome")
    BY <1>10, <2>1 DEF recordOutcome
  <2>3. Follows(x) /\ "stage" \in DOMAIN x /\ x.stage \in TakenStages \cup PassStages
    BY <1>1, <2>1, <2>2 DEF Follows, Stage, TakenStages, PassStages
  <2>4. QED
    BY <1>3, <2>2, <2>3
<1>11. CASE finishErasure(k)
  <2>1. PICK n, failures, status : /\ n = acting[k].n /\ failures = acting[k].failures
                                   /\ status = IF failures > 0 THEN "partially_failed" ELSE "completed"
    OBVIOUS
  <2>2. /\ n \in Notices /\ requests[n] # NoRow /\ failures \in Nat
        /\ failures = 0 => asked[n] \cap holding = {}
    BY <1>1, <1>11, <2>1 DEF finishErasure, Stage, Follows, PassStages
  <2>3. /\ requests' = [requests EXCEPT ![n].status = status]
        /\ Becomes(k, Idle) /\ Same /\ UNCHANGED <<holding, asked>>
    BY <1>11, <2>1 DEF finishErasure
  <2>4. requests[n] \in marketplaceDeletionRequests
    BY <2>2 DEF ErasureInv
  <2>5. PICK row : row = [requests[n] EXCEPT !.status = status]
    OBVIOUS
  <2>6. /\ row \in marketplaceDeletionRequests /\ row.status = status
        /\ row.verified = requests[n].verified /\ row # NoRow
    BY <2>1, <2>4, <2>5 DEF marketplaceDeletionRequests, NoRow
  <2>7. \A m \in Notices : requests'[m] = IF m = n THEN row ELSE requests[m]
    BY <2>3, <2>5 DEF ErasureInv
  <2>8. requests' \in [Notices -> marketplaceDeletionRequests \cup {NoRow}]
    BY <2>3, <2>5, <2>6 DEF ErasureInv
  <2>9. Kept
    BY <2>3, <2>6, <2>7, <2>8 DEF ErasureInv, Kept
  <2>10. RecordedErasureIsTrue'
    <3>1. status = "completed" => asked[n] \cap holding = {}
      BY <2>1, <2>2
    <3>2. QED
      BY <2>3, <2>6, <2>7, <3>1 DEF ErasureInv, RecordedErasureIsTrue
  <2>11. QED
    BY <1>2, <2>3, <2>9, <2>10
<1>12. QED
  BY <1>4, <1>5, <1>6, <1>7, <1>8, <1>9, <1>10, <1>11

LEMMA ImportOfAnOrder ==
  ASSUME Inv, NEW b \in Businesses, OrderImported(b)
  PROVE  Inv'
<1>1. /\ holding' = holding \cup {b} /\ asked' = [n \in Notices |-> asked[n] \ {b}]
      /\ UNCHANGED <<acting, auths, spent, secrets, requests>>
  BY DEF OrderImported, ErasureFrame, ConnFrame
<1>2. \A n \in Notices : asked'[n] \cap holding' \subseteq asked[n] \cap holding
  BY <1>1
<1>3. Kept /\ RecordedErasureIsTrue'
  BY <1>1, <1>2 DEF Inv, ErasureInv, Kept, RecordedErasureIsTrue
<1>4. \A k \in Callers : Follows(acting[k])'
  <2>1. ASSUME NEW k \in Callers PROVE Follows(acting[k])'
    <3>1. PICK x : x = acting[k]
      OBVIOUS
    <3>2. Follows(x)'
      BY <1>3, <3>1, FollowsOn DEF Inv, ErasureInv
    <3>3. acting'[k] = x
      BY <1>1, <3>1
    <3>4. QED
      BY <3>2, <3>3 DEF Follows
  <2>2. QED
    BY <2>1
<1>5. ErasureInv'
  BY <1>3, <1>4 DEF ErasureInv, Kept
<1>6. AuthInv' /\ TokenInv'
  BY <1>1, Stays, QuietTokens, AuthStays DEF Inv, TokenInv
<1>7. QED
  BY <1>5, <1>6 DEF Inv

-------------------------------------------------------------------------------
(* Every step of the integrations.                                           *)

LEMMA TokenSteps ==
  ASSUME TokenInv, NEW k \in Callers,
         \/ completeConnection(k) \/ storeTokens(k) \/ lockRefresh(k) \/ pauseForRevocation(k)
         \/ adopt(k) \/ disconnect(k)
         \/ \E c \in ConnIds, force \in BOOLEAN : accessToken(k, c, force)
         \/ \E answer : exchange(k, answer)
  PROVE  TokenInv' /\ Outside /\ UNCHANGED <<auths, spent>>
<1>1. TokenInv' /\ Outside
  BY CompleteConnectionInv, StoreTokensInv, LockInv, PauseInv, AdoptInv, DisconnectInv,
     AccessTokenInv, ExchangeInv
<1>2. UNCHANGED <<auths, spent>>
  BY Zenon DEF completeConnection, storeTokens, lockRefresh, pauseForRevocation, adopt, disconnect,
               accessToken, exchange
<1>3. QED
  BY <1>1, <1>2

LEMMA OutsideStep ==
  ASSUME Inv, TokenInv', Outside, UNCHANGED <<auths, spent, holding, requests, asked>>
  PROVE  Inv'
BY AuthStays, OutsideErasures DEF Inv

\* A step of no caller that changes no secret.
LEMMA NobodyMoves ==
  ASSUME Inv, UNCHANGED <<acting, auths, spent, secrets, holding, requests, asked>>
  PROVE  Inv'
BY Stays, QuietStep DEF Inv, TokenInv

LEMMA LapseStep ==
  ASSUME Inv, NEW c, TokenLapses(c), UNCHANGED <<holding, requests, asked>>
  PROVE  Inv'
<1>1. UNCHANGED <<acting, auths, spent>>
  BY DEF TokenLapses
<1>2. CASE c \in ConnIds
  BY <1>1, <1>2, LapseInv, QuietIsOutside, OutsideStep DEF Inv
<1>3. CASE c \notin ConnIds
  <2>1. secrets' = secrets
    BY <1>3 DEF Inv, TokenInv, SecretsHold, TokenLapses
  <2>2. QED
    BY <1>1, <2>1, NobodyMoves
<1>4. QED
  BY <1>2, <1>3

LEMMA ConnNextInv ==
  ASSUME Inv, ConnNext, UNCHANGED <<holding, requests, asked>>
  PROVE  Inv'
<1>1. ASSUME AuthInv', Quiet, secrets' = secrets PROVE Inv'
  BY <1>1, QuietTokens, QuietIsOutside, OutsideErasures DEF Inv
<1>2. ASSUME Quiet, UNCHANGED <<auths, spent, secrets>> PROVE Inv'
  BY <1>2, QuietStep
<1>3. ActingHolds /\ TokenInv /\ AuthInv
  BY DEF Inv, TokenInv
<1>4. CASE EbayStep
  <2>1. CASE \E k \in Callers, who \in Managers : \E c \in {0} \cup {d \in ConnIds : Exists(d)} :
               connectEbayAction(k, who, c)
    BY <1>1, <1>3, <2>1, AuthSteps
  <2>2. CASE \E k \in Callers : spend(k)
    BY <1>1, <1>3, <2>2, AuthSteps
  <2>3. CASE \/ \E k \in Callers, a \in AuthIds : consume(k, a, "ebay")
             \/ \E k \in Callers, account \in Accounts, g \in Grants : completeEbay(k, account, g)
    BY <1>2, <1>3, <2>3, ConnectionSteps
  <2>4. CASE \E k \in Callers : completeConnection(k) \/ storeTokens(k)
    BY <1>3, <2>4, TokenSteps, OutsideStep
  <2>5. QED
    BY <1>4, <2>1, <2>2, <2>3, <2>4, Zenon DEF EbayStep
<1>5. CASE TokenStep
  <2>1. CASE \E c \in ConnIds : TokenLapses(c)
    BY <2>1, LapseStep
  <2>2. CASE \E k \in Callers : \/ \E c \in ConnIds, force \in BOOLEAN : accessToken(k, c, force)
                                \/ \E answer : exchange(k, answer)
                                \/ lockRefresh(k) \/ pauseForRevocation(k)
    BY <1>3, <2>2, TokenSteps, OutsideStep
  <2>3. QED
    BY <1>5, <2>1, <2>2, Zenon DEF TokenStep
<1>6. CASE StoreStep
  <2>1. CASE \E k \in Callers, who \in Managers, account \in Accounts, c \in {0} \cup ConnIds :
               connectStoreAction(k, who, account, c)
    BY <1>1, <1>3, <2>1, AuthSteps
  <2>2. CASE \E k \in Callers : spend(k)
    BY <1>1, <1>3, <2>2, AuthSteps
  <2>3. CASE \/ \E k \in Callers, who \in Managers, account \in Accounts :
                  connectStoreManuallyAction(k, who, account)
             \/ \E k \in Callers, a \in AuthIds : consume(k, a, "woocommerce")
             \/ \E k \in Callers, p \in {"read", "read_write"} : completeStore(k, p)
    BY <1>2, <1>3, <2>3, ConnectionSteps
  <2>4. CASE \E k \in Callers : adopt(k)
    BY <1>3, <2>4, TokenSteps, OutsideStep
  <2>5. CASE UNCHANGED <<acting, auths, spent, secrets>>
    BY <2>5, NobodyMoves
  <2>6. QED
    BY <1>6, <2>1, <2>2, <2>3, <2>4, <2>5, Zenon DEF StoreStep
<1>7. CASE ConnStep
  <2>1. CASE \E a \in AuthIds : AuthorizationExpires(a) \/ pruneExpired(a)
    BY <1>1, <1>3, <2>1, AuthSteps
  <2>2. CASE \E k \in Callers, who \in Managers, c \in ConnIds : disconnectConnectionAction(k, who, c)
    BY <1>2, <1>3, <2>2, ConnectionSteps
  <2>3. CASE \E k \in Callers, who \in Managers, c \in ConnIds, pause \in BOOLEAN :
               setConnectionPausedAction(k, who, c, pause)
    BY <2>3, NobodyMoves DEF setConnectionPausedAction
  <2>4. CASE \E k \in Callers : disconnect(k)
    BY <1>3, <2>4, TokenSteps, OutsideStep
  <2>5. CASE \E k \in Callers : Crash(k)
    BY <1>2, <1>3, <2>5, ConnectionSteps
  <2>6. QED
    BY <1>7, <2>1, <2>2, <2>3, <2>4, <2>5, Zenon DEF ConnStep
<1>8. QED
  BY <1>4, <1>5, <1>6, <1>7 DEF ConnNext

LEMMA ImportNextInv ==
  ASSUME Inv, ImportNext, UNCHANGED <<holding, requests, asked>>
  PROVE  Inv'
<1>1. ActingHolds /\ TokenInv
  BY DEF Inv, TokenInv
<1>2. CASE \E k \in Callers : \/ \E f \in BOOLEAN : claim(k, f) \/ fetch(k, f)
                              \/ write(k) \/ sweep(k) \/ finish(k) \/ saveCursor(k) \/ Crash(k)
  BY <1>1, <1>2, ImportSteps, QuietStep
<1>3. CASE (\E r \in RunIds : reclaimAbandonedRuns(r)) \/ EntryRemoved \/ Tick
  BY <1>3, NobodyMoves DEF reclaimAbandonedRuns, EntryRemoved, Tick, connVars
<1>4. CASE \E k \in Callers, who \in Managers, a \in Accounts : connectStoreManuallyAction(k, who, a)
  BY <1>1, <1>4, ConnectionSteps, QuietStep
<1>5. CASE \E k \in Callers : adopt(k)
  BY <1>1, <1>5, TokenSteps, OutsideStep
<1>6. QED
  BY <1>2, <1>3, <1>4, <1>5, Zenon DEF ImportNext

LEMMA HookNextInv ==
  ASSUME Inv, HookNext, UNCHANGED <<holding, requests, asked>>
  PROVE  Inv'
<1>1. ActingHolds /\ TokenInv
  BY DEF Inv, TokenInv
<1>2. CASE \E k \in Callers :
             \/ \E who \in Managers : reconcile(k, who) \/ rotate(k, who) \/ HookDisconnect(k, who)
             \/ reconcileTopic(k) \/ retireHook(k) \/ HookCrash(k)
             \/ \E answer : createHook(k, answer)
             \/ \E ok \in BOOLEAN : repair(k, ok) \/ observe(k, ok)
             \/ \E h \in HookIds, e \in Events : receive(k, h, e)
  BY <1>1, <1>2, HookSteps, QuietStep
<1>3. CASE prepareManual \/ \E h \in HookIds : StoreChanges(h)
  BY <1>3, NobodyMoves DEF prepareManual, StoreChanges, OtherHookVars
<1>4. CASE \E k \in Callers, deleted \in BOOLEAN : remove(k, deleted)
  BY <1>1, <1>4, ConnectionSteps, QuietStep
<1>5. CASE \E k \in Callers : disconnect(k)
  BY <1>1, <1>5, TokenSteps, OutsideStep
<1>6. QED
  BY <1>2, <1>3, <1>4, <1>5, Zenon DEF HookNext

LEMMA StandNextInv ==
  ASSUME Inv, StandNext, UNCHANGED <<holding, requests, asked>>
  PROVE  Inv'
<1>1. ActingHolds /\ TokenInv
  BY DEF Inv, TokenInv
<1>2. CASE \E k \in Callers : \/ \E answers : createEbayReadiness(k, answers) \/ createWooReadiness(k, answers)
                              \/ recordChecks(k) \/ createConnectionHealth(k)
  BY <1>1, <1>2, StandSteps, QuietStep
<1>3. CASE UNCHANGED <<acting, auths, spent, secrets>>
  BY <1>3, NobodyMoves
<1>4. CASE ReadyStep
  <2>1. CASE TokenLapses(1)
    BY <2>1, LapseStep
  <2>2. CASE \E k \in Callers, who \in Managers : disconnectConnectionAction(k, who, 1)
    BY <1>1, <2>2, ConnectionSteps, QuietStep
  <2>3. CASE \E k \in Callers, who \in Managers, pause \in BOOLEAN : setConnectionPausedAction(k, who, 1, pause)
    BY <1>3, <2>3 DEF setConnectionPausedAction
  <2>4. CASE \E k \in Callers : disconnect(k)
    BY <1>1, <2>4, TokenSteps, OutsideStep
  <2>5. CASE readRecordedChecks
    BY <1>3, <2>5 DEF readRecordedChecks, StandFrame
  <2>6. QED
    BY <1>2, <1>4, <2>1, <2>2, <2>3, <2>4, <2>5, Zenon DEF ReadyStep
<1>5. CASE HealthStep
  <2>1. CASE \/ \E failed \in BOOLEAN : recordHealth(failed)
             \/ CoolDown \/ consumeQuota
             \/ \E limit, remaining : readEbayRateLimits(limit, remaining)
             \/ \E w : WindowEnds(w)
    BY <1>3, <2>1 DEF recordHealth, CoolDown, consumeQuota, readEbayRateLimits, WindowEnds, StandFrame
  <2>2. QED
    BY <1>2, <1>5, <2>1, Zenon DEF HealthStep
<1>6. CASE HopStep
  BY <1>3, <1>6 DEF HopStep, StandFrame
<1>7. QED
  BY <1>4, <1>5, <1>6 DEF StandNext

LEMMA NoteNextInv ==
  ASSUME Inv, NoteNext
  PROVE  Inv'
<1>1. ActingHolds /\ TokenInv /\ ErasureInv /\ AuthInv
  BY DEF Inv, TokenInv
<1>2. CASE ErasureStep
  <2>1. CASE \E b \in Businesses : OrderImported(b)
    BY <2>1, ImportOfAnOrder
  <2>2. CASE \E k \in Callers :
               \/ \E n \in Notices : retry(k, n) \/ \E v \in BOOLEAN : readDeletionNotification(k, n, v)
               \/ receiveDeletion(k) \/ receiveAgain(k) \/ erase(k) \/ recordOutcome(k) \/ finishErasure(k)
               \/ \E b \in Businesses, ok \in BOOLEAN : eraseForBusiness(k, b, ok)
    BY <1>1, <2>2, ErasureSteps, AuthStays DEF Inv
  <2>3. QED
    BY <1>2, <2>1, <2>2, Zenon DEF ErasureStep
<1>3. ASSUME NEW k \in Callers,
             \/ \E h, answer, n, seller : createNotificationIntake(k, h, answer, n, seller)
             \/ RecordNotification(k) \/ store(k) \/ recordTopics(k) \/ NoteCrash(k)
             \/ \E ok \in BOOLEAN : \/ readDestination(k, ok) \/ discoverTopics(k, ok)
                                    \/ readSubscriptions(k, ok) \/ enableSubscription(k, ok)
             \/ \E answer : writeDestination(k, answer) \/ createSubscription(k, answer)
             \/ \E t : settleTopic(k, t)
      PROVE  Inv'
  BY <1>1, <1>3, NoteSteps, QuietStep
<1>4. ASSUME NEW k \in Callers,
             \/ \E answer : applicationToken(k, answer) \/ createApplicationTokenReader(k, answer)
             \/ \E e, t : ensure(k, e, t)
             \/ reconcileTopics(k)
      PROVE  Inv'
  BY <1>1, <1>4, AppTokenSteps, OutsideStep
<1>5. CASE IntakeStep
  <2>1. CASE \E i \in DOMAIN keyCache : KeyLapses(i)
    BY <2>1, NobodyMoves DEF KeyLapses, ConnFrame, ErasureVars
  <2>2. QED
    BY <1>3, <1>5, <2>1, Zenon DEF IntakeStep
<1>6. CASE TokenStepOf
  <2>1. CASE TokenExpires
    BY <2>1, NobodyMoves DEF TokenExpires, ConnFrame, ErasureVars
  <2>2. QED
    BY <1>4, <1>6, <2>1, Zenon DEF TokenStepOf
<1>7. CASE DestinationStep
  <2>1. CASE \E i \in DOMAIN atEbay : DestinationChanges(i)
    BY <2>1, NobodyMoves DEF DestinationChanges, DestinationFrame, ConnFrame, ErasureVars
  <2>2. QED
    BY <1>3, <1>4, <1>6, <1>7, <2>1, Zenon DEF DestinationStep
<1>8. CASE TopicStep
  <2>1. CASE \E t \in Topics : SubscriptionChanges(t)
    BY <2>1, NobodyMoves DEF SubscriptionChanges, TopicFrame, ConnFrame, ErasureVars
  <2>2. QED
    BY <1>3, <1>4, <1>6, <1>8, <2>1, Zenon DEF TopicStep
<1>9. QED
  BY <1>2, <1>3, <1>5, <1>7, <1>8, Zenon DEF NoteNext

LEMMA InvPreserved ==
  ASSUME Inv, [IntegrationsNext]_integrationVars
  PROVE  Inv'
<1>1. CASE NoteNext
  BY <1>1, NoteNextInv
<1>2. CASE UNCHANGED noteVars /\ (ConnNext \/ ImportNext \/ HookNext \/ StandNext)
  BY <1>2, ConnNextInv, ImportNextInv, HookNextInv, StandNextInv DEF noteVars
<1>3. CASE UNCHANGED integrationVars
  BY <1>3, NobodyMoves DEF integrationVars, connVars, noteVars
<1>4. QED
  BY <1>1, <1>2, <1>3 DEF IntegrationsNext

LEMMA InvInitially == IntegrationsInit => Inv
<1> SUFFICES ASSUME IntegrationsInit PROVE Inv
  OBVIOUS
<1> USE DEF IntegrationsInit, ConnInit, NoteInit
<1>1. AuthInv
  BY DEF AuthInv, connectionAuthorizations
<1>2. SecretsHold
  <2>1. secrets = [c \in ConnIds |-> [t \in connectionSecretTypes |->
                     IF conns[c] # NoRow /\ conns[c].connected /\ t \in SecretsOf[conns[c].provider]
                       THEN Secret(conns[c].account, "sign_in") ELSE NoSecret]]
    OBVIOUS
  <2>2. \A c \in ConnIds, t \in connectionSecretTypes :
          secrets[c][t] # NoSecret => secrets[c][t] = Secret(conns[c].account, "sign_in")
    BY <2>1
  <2>3. \A name : {"usable", "by"} \subseteq DOMAIN Secret(name, "sign_in")
    BY DEF Secret
  <2>4. \A c \in ConnIds : secrets[c] = [t \in connectionSecretTypes |-> secrets[c][t]]
    BY <2>1
  <2>5. secrets = [c \in ConnIds |-> [t \in connectionSecretTypes |-> secrets[c][t]]]
    BY <2>1, <2>4
  <2>6. QED
    BY <2>2, <2>3, <2>5 DEF SecretsHold
<1>3. ActingHolds /\ \A k \in Callers : acting[k] = Idle
  BY DEF ActingHolds, Carries, Idle, HeldStages, AppStages
<1>4. Locked /\ LooksAgain
  BY <1>3 DEF Locked, Holds, LooksAgain, Refreshing, Idle
<1>5. ErasureInv
  <2>1. \A k \in Callers : Follows(acting[k])
    BY <1>3 DEF Follows, Idle, TakenStages, PassStages
  <2>2. QED
    BY <2>1 DEF ErasureInv, RecordedErasureIsTrue
<1>6. QED
  BY <1>1, <1>2, <1>3, <1>4, <1>5 DEF Inv, TokenInv

LEMMA InvAlways == IntegrationsSpec => []Inv
BY InvInitially, InvPreserved, PTL DEF IntegrationsSpec

-------------------------------------------------------------------------------
(* Registrations of webhooks change in no other scene.                       *)

Elsewhere == scene # "webhooks" /\ UNCHANGED <<scene, hooks>>

LEMMA ConnectionsElsewhere == ASSUME ConnNext PROVE Elsewhere
<1>1. scene # "webhooks"
  BY DEF ConnNext, EbayStep, TokenStep, StoreStep, ConnStep
<1>2. CASE EbayStep
  <2>1. CASE \E k \in Callers, who \in Managers : \E c \in {0} \cup {d \in ConnIds : Exists(d)} :
               connectEbayAction(k, who, c)
    BY <1>1, <2>1 DEF connectEbayAction, Elsewhere
  <2>2. CASE \/ \E k \in Callers, a \in AuthIds : consume(k, a, "ebay")
             \/ \E k \in Callers, account \in Accounts, g \in Grants : completeEbay(k, account, g)
    BY <1>1, <2>2 DEF consume, completeEbay, OtherConnVars, Elsewhere
  <2>3. CASE \E k \in Callers : spend(k) \/ completeConnection(k) \/ storeTokens(k)
    BY <1>1, <2>3 DEF spend, completeConnection, storeTokens, OtherConnVars, Elsewhere
  <2>4. QED
    BY <1>2, <2>1, <2>2, <2>3, Zenon DEF EbayStep
<1>3. CASE TokenStep
  <2>1. CASE \/ \E c \in ConnIds : TokenLapses(c)
             \/ \E k \in Callers : \/ \E c \in ConnIds, force \in BOOLEAN : accessToken(k, c, force)
                                   \/ lockRefresh(k) \/ pauseForRevocation(k)
    BY <1>1, <2>1 DEF TokenLapses, accessToken, lockRefresh, pauseForRevocation, OtherConnVars, Elsewhere
  <2>2. CASE \E k \in Callers, answer \in {"tokens", "access_only", "invalid_grant", "failed"} : exchange(k, answer)
    BY <1>1, <2>2 DEF exchange, OtherConnVars, Elsewhere
  <2>3. QED
    BY <1>3, <2>1, <2>2, Zenon DEF TokenStep
<1>4. CASE StoreStep
  <2>1. CASE \E k \in Callers, who \in Managers, account \in Accounts, c \in {0} \cup ConnIds :
               connectStoreAction(k, who, account, c)
    BY <1>1, <2>1 DEF connectStoreAction, Elsewhere
  <2>2. CASE \E k \in Callers, who \in Managers, account \in Accounts : connectStoreManuallyAction(k, who, account)
    BY <1>1, <2>2 DEF connectStoreManuallyAction, Elsewhere
  <2>3. CASE \/ \E k \in Callers, a \in AuthIds : consume(k, a, "woocommerce")
             \/ \E k \in Callers, p \in {"read", "read_write"} : completeStore(k, p)
             \/ \E k \in Callers : spend(k) \/ adopt(k)
    BY <1>1, <2>3 DEF consume, completeStore, spend, adopt, OtherConnVars, Elsewhere
  <2>4. QED
    BY <1>1, <1>4, <2>1, <2>2, <2>3, Zenon DEF StoreStep, Elsewhere
<1>5. CASE ConnStep
  <2>1. CASE \E a \in AuthIds : AuthorizationExpires(a) \/ pruneExpired(a)
    BY <1>1, <2>1 DEF AuthorizationExpires, pruneExpired, OtherConnVars, Elsewhere
  <2>2. CASE \E k \in Callers, who \in Managers, c \in ConnIds :
               \/ disconnectConnectionAction(k, who, c)
               \/ \E pause \in BOOLEAN : setConnectionPausedAction(k, who, c, pause)
    BY <1>1, <2>2 DEF disconnectConnectionAction, setConnectionPausedAction, Elsewhere
  <2>3. CASE \E k \in Callers : disconnect(k) \/ Crash(k)
    BY <1>1, <2>3 DEF disconnect, Crash, OtherConnVars, Elsewhere
  <2>4. QED
    BY <1>5, <2>1, <2>2, <2>3, Zenon DEF ConnStep
<1>6. QED
  BY <1>2, <1>3, <1>4, <1>5 DEF ConnNext

LEMMA ImportsElsewhere == ASSUME ImportNext PROVE Elsewhere
<1>1. scene # "webhooks"
  BY DEF ImportNext
<1>2. CASE \E k \in Callers : \/ \E f \in BOOLEAN : claim(k, f) \/ fetch(k, f)
                              \/ write(k) \/ sweep(k) \/ finish(k) \/ saveCursor(k) \/ Crash(k)
  BY <1>1, <1>2 DEF claim, fetch, write, sweep, finish, saveCursor, Crash, OtherConnVars, Elsewhere
<1>3. CASE (\E r \in RunIds : reclaimAbandonedRuns(r)) \/ EntryRemoved \/ Tick
  BY <1>1, <1>3 DEF reclaimAbandonedRuns, EntryRemoved, Tick, connVars, Elsewhere
<1>4. CASE \E k \in Callers : (\E who \in Managers, a \in Accounts : connectStoreManuallyAction(k, who, a)) \/ adopt(k)
  BY <1>1, <1>4 DEF connectStoreManuallyAction, adopt, OtherConnVars, Elsewhere
<1>5. QED
  BY <1>2, <1>3, <1>4, Zenon DEF ImportNext

LEMMA NotesElsewhere == ASSUME NoteNext PROVE Elsewhere
<1>1. scene # "webhooks"
  BY DEF NoteNext, ErasureStep, IntakeStep, DestinationStep, TopicStep
<1> USE DEF ConnFrame, Elsewhere
<1>2. CASE ErasureStep
  BY <1>1, <1>2 DEF ErasureStep, readDeletionNotification, receiveDeletion, receiveAgain, erase, recordOutcome,
                    finishErasure, retry, eraseForBusiness, OrderImported, ErasureFrame
<1>3. CASE IntakeStep
  BY <1>1, <1>3 DEF IntakeStep, createNotificationIntake, RecordNotification, KeyLapses
<1>4. CASE TokenStepOf
  BY <1>1, <1>4 DEF TokenStepOf, applicationToken, createApplicationTokenReader, TokenExpires
<1>5. CASE DestinationStep
  BY <1>1, <1>4, <1>5 DEF DestinationStep, ensure, readDestination, writeDestination, store, DestinationChanges,
                          DestinationFrame
<1>6. CASE TopicStep
  BY <1>1, <1>4, <1>6 DEF TopicStep, reconcileTopics, recordTopics, discoverTopics, readSubscriptions,
                          enableSubscription, createSubscription, settleTopic, SubscriptionChanges, TopicFrame
<1>7. CASE \E k \in Callers : NoteCrash(k)
  BY <1>1, <1>7 DEF NoteCrash, Crash
<1>8. QED
  BY <1>2, <1>3, <1>5, <1>6, <1>7 DEF NoteNext

LEMMA StandingElsewhere == ASSUME StandNext PROVE Elsewhere
<1>1. scene # "webhooks"
  BY DEF StandNext, ReadyStep, HealthStep, HopStep
<1> USE DEF StandFrame, Elsewhere
<1>2. CASE ReadyStep
  <2>1. CASE \E k \in Callers : \/ \E answers : createEbayReadiness(k, answers) \/ createWooReadiness(k, answers)
                                \/ recordChecks(k)
    BY <1>1, <2>1 DEF createEbayReadiness, createWooReadiness, recordChecks
  <2>2. CASE readRecordedChecks \/ TokenLapses(1)
    BY <1>1, <2>2 DEF readRecordedChecks, TokenLapses, OtherConnVars
  <2>3. CASE \E k \in Callers, who \in Managers : \/ disconnectConnectionAction(k, who, 1)
                                                  \/ \E pause \in BOOLEAN : setConnectionPausedAction(k, who, 1, pause)
    BY <1>1, <2>3 DEF disconnectConnectionAction, setConnectionPausedAction
  <2>4. CASE \E k \in Callers : disconnect(k)
    BY <1>1, <2>4 DEF disconnect, OtherConnVars
  <2>5. QED
    BY <1>2, <2>1, <2>2, <2>3, <2>4, Zenon DEF ReadyStep
<1>3. CASE HealthStep
  BY <1>1, <1>3 DEF HealthStep, recordHealth, CoolDown, createConnectionHealth, readEbayRateLimits, consumeQuota, WindowEnds
<1>4. CASE HopStep
  BY <1>1, <1>4 DEF HopStep
<1>5. QED
  BY <1>2, <1>3, <1>4 DEF StandNext

LEMMA OneOfTheScenes ==
  ASSUME IntegrationsNext
  PROVE  HookNext \/ (Elsewhere /\ UNCHANGED hookVars)
BY ConnectionsElsewhere, ImportsElsewhere, NotesElsewhere, StandingElsewhere DEF IntegrationsNext

-------------------------------------------------------------------------------
(* The overlap of a rotation.  Of the registrations that lasted, those whose  *)
(* row knows them and the replacements the store has, the one made last is    *)
(* heard, and nothing that follows gives it up: what is deleted, retired or   *)
(* given up is one that another followed, or one the store never had.  A      *)
(* first registration lasts once its row could be made active.                *)

Carried(h) == remote[h] # NoRow /\ ~remote[h].byHand
Posted(h) == hooks[h].external # 0 \/ Carried(h)
Lasting(h) == hooks[h].external # 0 \/ (Carried(h) /\ hooks[h].replaces # 0)
Latest(h) == Lasting(h) /\ \A g \in Ours : Lasting(g) => g <= h
Behind(h) == Lasting(h) /\ \E g \in Ours : Lasting(g) /\ g > h
Verified == {"active", "replacing", "pending"}
Sound(h) == Delivering(h) /\ ~remote[h].byHand /\ hooks[h].status \in Verified /\ hooks[h].secret
\* Nobody changed one at the store: each is as it was made.
Registration == [active : {TRUE}, here : {TRUE}, byHand : BOOLEAN]

RowsHold ==
  /\ hooks \in [HookIds -> webhookRows \cup {NoRow}]
  /\ remote \in [HookIds -> Registration \cup {NoRow}]
  /\ \A g \in Ours, h \in HookIds : h < g => h \in Ours
  /\ \A h \in HookIds : h \notin Ours => remote[h] = NoRow
  /\ \A h \in Ours : hooks[h].external \in {0, h}
  /\ \A h \in Ours : LET r == hooks[h].replaces IN r = 0 \/ (r \in Ours /\ r < h /\ hooks[r].external # 0)
  /\ \A h \in Ours : remote[h] # NoRow /\ remote[h].byHand => hooks[h].replaces = 0
  /\ \A h \in Ours : hooks[h].status = "replacing" => hooks[h].replaces # 0

\* At most one row is active, and it lasts.
ActiveLasts == OneActive(hooks) /\ \A h \in Ours : hooks[h].status = "active" => Lasting(h)

OneChanges ==
  \A j, k \in Callers : acting[j].stage \in ChangingStages /\ acting[k].stage \in ChangingStages => j = k

\* A registration its row does not know is being settled, or could not be: then it is a first
\* one beside another that the rows know.
Settling(h) == \E k \in Callers : Stage(k, "settle") /\ acting[k].ok /\ acting[k].hook = h
PostedIsSettled ==
  \A h \in Ours : Posted(h) /\ hooks[h].external = 0 =>
     Settling(h) \/ (hooks[h].replaces = 0 /\ \E g \in Ours : hooks[g].external # 0)

\* What a caller carries is still so when it acts on it.
Minds(k) ==
  LET x == acting[k]
  IN  /\ x.stage \notin {"unhook", "discard", "repair", "repaired", "refused"}
      /\ x.stage = "listed" => x.listed \subseteq x.fine /\ \A h \in Ours : Carried(h) => h \in x.listed
      /\ x.stage \in {"gone", "settle_deleted"} => x.hook \in Ours /\ (Lasting(x.hook) => Behind(x.hook))
      /\ x.stage = "insert" => x.replaces = 0 \/ (x.replaces \in Ours /\ hooks[x.replaces].external # 0)
      /\ x.stage \in {"put_secret", "post"} =>
           /\ x.hook \in Ours /\ hooks[x.hook].external = 0 /\ remote[x.hook] = NoRow
           /\ hooks[x.hook].status \in Verified
           /\ \A g \in Ours : Posted(g) => g < x.hook
      /\ x.stage = "post" => hooks[x.hook].secret
      /\ x.stage = "put_secret" => "hook" \in DOMAIN x
      /\ x.stage = "settle" =>
           /\ x.hook \in Ours /\ x.ok \in BOOLEAN /\ hooks[x.hook].external = 0 /\ (x.ok <=> Posted(x.hook))
           /\ x.ok => Sound(x.hook)
           /\ \A g \in Ours : Posted(g) => g <= x.hook
      /\ x.stage = "retire_old" => x.hook \in Ours /\ hooks[x.hook].external # 0 /\ Behind(x.hook)
      /\ x.stage \in {"observe", "promote"} => x.hook \in Ours /\ (hooks[x.hook].replaces = 0 \/ Posted(x.hook))
      /\ x.stage = "promote" => hooks[x.hook].replaces # 0

LatestIsSound == (\E h \in Ours : Lasting(h)) => \E h \in Ours : Latest(h) /\ Sound(h)

Calm ==
  RowsHold /\ ActiveLasts /\ OneChanges /\ PostedIsSettled /\ (\A k \in Callers : Minds(k)) /\ LatestIsSound

\* What a step leaves: rows stay, posted ones stay posted; none is posted; none that is not
\* posted loses what it will be verified by; the one posted last goes on being heard.
PostedStay ==
  \A h \in Ours : /\ h \in Ours' /\ hooks'[h].replaces = hooks[h].replaces
                  /\ hooks[h].external # 0 => hooks'[h].external # 0
                  /\ Posted(h) => Posted(h)'
NonePosted ==
  \A h \in Ours' : /\ Posted(h)' => h \in Ours /\ Posted(h)
                   /\ Carried(h)' => h \in Ours /\ Carried(h)
                   /\ hooks'[h].external # 0 => hooks[h].external # 0
Harmless ==
  \A h \in Ours : hooks[h].external = 0 =>
     /\ hooks'[h].external = 0
     /\ Sound(h) => Sound(h)'
     /\ remote[h] = NoRow =>
          /\ remote'[h] = NoRow
          /\ hooks[h].status \in Verified => hooks'[h].status \in Verified
          /\ hooks[h].secret => hooks'[h].secret
Unhurt == \A h \in Ours : Latest(h) /\ Sound(h) => Sound(h)'
NoneActivated == \A h \in HookIds : hooks'[h].status = "active" => hooks[h].status = "active"
OthersWait(k) == \A j \in Callers \ {k} : acting'[j] = acting[j]

LEMMA RowsAreRows == NoRow \notin webhookRows /\ NoRow \notin Registration
BY DEF NoRow, webhookRows, Registration

LEMMA MovesAlone ==
  ASSUME ActingHolds, NEW k \in Callers, NEW x, Becomes(k, x)
  PROVE  acting'[k] = x /\ OthersWait(k)
<1>1. acting' = [j \in Callers |-> IF j = k THEN x ELSE acting[j]]
  BY DEF ActingHolds, Becomes
<1>2. QED
  BY <1>1 DEF OthersWait

\* What lasted lasts on, and nothing else does.
LEMMA LastingStays ==
  ASSUME PostedStay
  PROVE  /\ \A h \in Ours : Lasting(h) => h \in Ours' /\ Lasting(h)'
         /\ \A h \in Ours : Behind(h) => h \in Ours' /\ Behind(h)'
         /\ NonePosted => \A h \in Ours' : Lasting(h)' => h \in Ours /\ Lasting(h)
<1>1. \A h \in Ours : Lasting(h) => h \in Ours' /\ Lasting(h)'
  BY DEF PostedStay, Lasting, Posted
<1>2. \A h \in Ours : Behind(h) => h \in Ours' /\ Behind(h)'
  BY <1>1 DEF Behind
<1>3. ASSUME NonePosted, NEW h \in Ours', Lasting(h)' PROVE h \in Ours /\ Lasting(h)
  <2>1. h \in Ours
    BY <1>3 DEF NonePosted, Lasting, Posted
  <2>2. QED
    BY <1>3, <2>1 DEF NonePosted, PostedStay, Lasting
<1>4. QED
  BY <1>1, <1>2, <1>3

LEMMA ActiveStays ==
  ASSUME RowsHold, ActiveLasts, PostedStay, NoneActivated
  PROVE  ActiveLasts'
<1>1. \A h \in HookIds : hooks'[h].status = "active" => h \in Ours /\ hooks[h].status = "active"
  <2>1. NoRow.status # "active"
    BY DEF NoRow
  <2>2. QED
    BY <2>1 DEF NoneActivated, Ours
<1>2. OneActive(hooks')
  BY <1>1 DEF ActiveLasts, OneActive
<1>3. \A h \in Ours' : hooks'[h].status = "active" => Lasting(h)'
  BY <1>1, LastingStays DEF ActiveLasts, Ours
<1>4. QED
  BY <1>2, <1>3 DEF ActiveLasts, OneActive

\* Callers that wait while somebody else moves.
LEMMA IdleMinds == ASSUME NEW k \in Callers, acting'[k] = Idle PROVE Minds(k)'
BY DEF Minds, Idle

LEMMA WaitingAside ==
  ASSUME NEW j \in Callers, Minds(j), PostedStay, acting'[j] = acting[j], acting[j].stage \notin ChangingStages
  PROVE  Minds(j)'
<1> DEFINE h == acting[j].hook
<1>1. acting[j].stage = "retire_old" => h \in Ours' /\ hooks'[h].external # 0 /\ Behind(h)'
  BY LastingStays DEF Minds, PostedStay
<1>2. acting[j].stage \in {"observe", "promote"} => h \in Ours' /\ (hooks'[h].replaces = 0 \/ Posted(h)')
  BY DEF Minds, PostedStay
<1>3. acting[j].stage = "promote" => hooks'[h].replaces # 0
  BY DEF Minds, PostedStay
<1>4. QED
  BY <1>1, <1>2, <1>3 DEF Minds, ChangingStages

LEMMA WaitingByAnyStage ==
  ASSUME NEW j \in Callers, Minds(j), PostedStay, NonePosted, Harmless, acting'[j] = acting[j]
  PROVE  Minds(j)'
<1> DEFINE h == acting[j].hook
<1>1. acting[j].stage = "listed" =>
        acting[j].listed \subseteq acting[j].fine /\ \A g \in Ours' : Carried(g)' => g \in acting[j].listed
  BY DEF Minds, NonePosted
<1>2. acting[j].stage \in {"gone", "settle_deleted"} => h \in Ours' /\ (Lasting(h)' => Behind(h)')
  BY LastingStays DEF Minds, PostedStay
<1>3. acting[j].stage = "insert" =>
        acting[j].replaces = 0 \/ (acting[j].replaces \in Ours' /\ hooks'[acting[j].replaces].external # 0)
  BY DEF Minds, PostedStay
<1>4. acting[j].stage \in {"put_secret", "post"} =>
        /\ h \in Ours' /\ hooks'[h].external = 0 /\ remote'[h] = NoRow /\ hooks'[h].status \in Verified
        /\ \A g \in Ours' : Posted(g)' => g < h
  <2>1. ASSUME acting[j].stage \in {"put_secret", "post"}
        PROVE  /\ h \in Ours /\ hooks[h].external = 0 /\ remote[h] = NoRow /\ hooks[h].status \in Verified
               /\ \A g \in Ours : Posted(g) => g < h
    BY <2>1 DEF Minds
  <2> HIDE DEF h
  <2>2. QED
    BY <2>1 DEF PostedStay, NonePosted, Harmless
<1>5. acting[j].stage = "post" => hooks'[h].secret
  BY DEF Minds, Harmless
<1>6. acting[j].stage = "settle" =>
        /\ h \in Ours' /\ acting[j].ok \in BOOLEAN /\ hooks'[h].external = 0 /\ (acting[j].ok <=> Posted(h)')
        /\ acting[j].ok => Sound(h)'
        /\ \A g \in Ours' : Posted(g)' => g <= h
  <2> SUFFICES ASSUME acting[j].stage = "settle"
               PROVE  /\ h \in Ours' /\ acting[j].ok \in BOOLEAN /\ hooks'[h].external = 0
                      /\ (acting[j].ok <=> Posted(h)') /\ (acting[j].ok => Sound(h)')
                      /\ \A g \in Ours' : Posted(g)' => g <= h
    OBVIOUS
  <2>1. h' = h
    OBVIOUS
  <2>2. /\ h \in Ours /\ acting[j].ok \in BOOLEAN /\ hooks[h].external = 0 /\ (acting[j].ok <=> Posted(h))
        /\ acting[j].ok => Sound(h)
        /\ \A g \in Ours : Posted(g) => g <= h
    BY DEF Minds
  <2> HIDE DEF h
  <2>3. h \in Ours' /\ hooks'[h].external = 0 /\ (Posted(h)' <=> Posted(h))
    BY <2>1, <2>2 DEF PostedStay, NonePosted, Harmless
  <2>4. Sound(h) => Sound(h)'
    BY <2>1, <2>2 DEF Harmless
  <2>5. \A g \in Ours' : Posted(g)' => g <= h
    BY <2>2 DEF NonePosted
  <2>6. QED
    BY <2>2, <2>3, <2>4, <2>5
<1>7. acting[j].stage = "retire_old" => h \in Ours' /\ hooks'[h].external # 0 /\ Behind(h)'
  BY LastingStays DEF Minds, PostedStay
<1>8. acting[j].stage \in {"observe", "promote"} => h \in Ours' /\ (hooks'[h].replaces = 0 \/ Posted(h)')
  BY DEF Minds, PostedStay
<1>9. acting[j].stage = "promote" => hooks'[h].replaces # 0
  BY DEF Minds, PostedStay
<1>10. /\ acting[j].stage \notin {"unhook", "discard", "repair", "repaired", "refused"}
       /\ acting[j].stage = "put_secret" => "hook" \in DOMAIN acting[j]
  BY DEF Minds
<1> HIDE DEF h
<1>11. QED
  BY <1>1, <1>2, <1>3, <1>4, <1>5, <1>6, <1>7, <1>8, <1>9, <1>10 DEF Minds, h

\* The one that lasted longest goes on being so, and is heard.
LEMMA LatestStays ==
  ASSUME LatestIsSound, PostedStay, NonePosted, Unhurt
  PROVE  LatestIsSound'
<1>1. ASSUME NEW h \in Ours', Lasting(h)' PROVE \E g \in Ours' : Latest(g)' /\ Sound(g)'
  <2>1. PICK g \in Ours : Latest(g) /\ Sound(g)
    BY <1>1, LastingStays DEF LatestIsSound
  <2>2. g \in Ours' /\ Lasting(g)' /\ Sound(g)'
    BY <2>1, LastingStays DEF Unhurt, Latest
  <2>3. \A f \in Ours' : Lasting(f)' => f <= g
    BY <2>1, LastingStays DEF Latest
  <2>4. QED
    BY <2>2, <2>3 DEF Latest
<1>2. QED
  BY <1>1 DEF LatestIsSound

LEMMA SettlingStays ==
  ASSUME PostedIsSettled, PostedStay, NonePosted, NEW k \in Callers, OthersWait(k), acting[k].stage # "settle"
  PROVE  PostedIsSettled'
<1>1. ASSUME NEW h \in Ours', Posted(h)', hooks'[h].external = 0
      PROVE  Settling(h)' \/ (hooks'[h].replaces = 0 /\ \E g \in Ours' : hooks'[g].external # 0)
  <2>1. h \in Ours /\ Posted(h) /\ hooks[h].external = 0
    BY <1>1 DEF NonePosted, PostedStay
  <2>2. CASE Settling(h)
    <3>1. PICK j \in Callers : Stage(j, "settle") /\ acting[j].ok /\ acting[j].hook = h
      BY <2>2 DEF Settling
    <3>2. acting'[j] = acting[j]
      BY <3>1 DEF OthersWait, Stage
    <3>3. QED
      BY <3>1, <3>2 DEF Settling, Stage
  <2>3. CASE hooks[h].replaces = 0 /\ \E g \in Ours : hooks[g].external # 0
    BY <2>1, <2>3 DEF PostedStay
  <2>4. QED
    BY <2>1, <2>2, <2>3 DEF PostedIsSettled
<1>2. QED
  BY <1>1 DEF PostedIsSettled

\* One caller moves on, to a stage of its own or one that nobody else is at.
LEMMA OneStillChanges ==
  ASSUME OneChanges, NEW k \in Callers, OthersWait(k),
         acting'[k].stage \notin ChangingStages \/ acting[k].stage \in ChangingStages \/ ~Overlaps(k)
  PROVE  OneChanges'
BY DEF OneChanges, OthersWait, Overlaps

LEMMA OthersMind ==
  ASSUME Calm, PostedStay, NonePosted, NEW k \in Callers, OthersWait(k),
         Harmless \/ acting[k].stage \in ChangingStages
  PROVE  \A j \in Callers \ {k} : Minds(j)'
<1> TAKE j \in Callers \ {k}
<1>1. Minds(j) /\ acting'[j] = acting[j]
  BY DEF Calm, OthersWait
<1>2. CASE Harmless
  BY <1>1, <1>2, WaitingByAnyStage
<1>3. CASE acting[k].stage \in ChangingStages
  <2>1. acting[j].stage \notin ChangingStages
    BY <1>3 DEF Calm, OneChanges
  <2>2. QED
    BY <1>1, <2>1, WaitingAside
<1>4. QED
  BY <1>2, <1>3

LEMMA CalmStays ==
  ASSUME Calm, RowsHold', NoneActivated \/ ActiveLasts', PostedStay, NonePosted, Unhurt, NEW k \in Callers, OthersWait(k), Minds(k)',
         acting[k].stage # "settle",
         Harmless \/ acting[k].stage \in ChangingStages,
         acting'[k].stage \notin ChangingStages \/ acting[k].stage \in ChangingStages \/ ~Overlaps(k)
  PROVE  Calm' /\ PostedStay
<1>1. \A j \in Callers : Minds(j)'
  BY OthersMind
<1>2. OneChanges'
  BY OneStillChanges DEF Calm
<1>3. PostedIsSettled' /\ LatestIsSound' /\ ActiveLasts'
  BY SettlingStays, LatestStays, ActiveStays DEF Calm
<1>4. QED
  BY <1>1, <1>2, <1>3 DEF Calm

-------------------------------------------------------------------------------
(* What steps do to the rows and to the registrations.                       *)

\* Rows are revised, never their external or what they replace; registrations are deleted
\* where the row knows them.
Revised ==
  /\ hooks' = [h \in HookIds |-> hooks'[h]] /\ remote' = [h \in HookIds |-> remote'[h]]
  /\ \A h \in HookIds :
       \/ hooks'[h] = hooks[h]
       \/ /\ h \in Ours /\ hooks'[h] \in webhookRows
          /\ hooks'[h].external = hooks[h].external /\ hooks'[h].replaces = hooks[h].replaces
          /\ hooks'[h].status = "replacing" => hooks[h].status = "replacing"
  /\ \A h \in HookIds : remote'[h] = remote[h] \/ (remote'[h] = NoRow /\ h \in Ours /\ hooks[h].external # 0)

LEMMA RevisedRows ==
  ASSUME RowsHold, Revised
  PROVE  RowsHold' /\ PostedStay /\ NonePosted
<1>1. Ours' = Ours
  BY RowsAreRows DEF Revised, Ours
<1>2. \A h \in Ours : hooks'[h].external = hooks[h].external /\ hooks'[h].replaces = hooks[h].replaces
  BY DEF Revised, Ours
<1>3. \A h \in HookIds : remote'[h] # NoRow => remote[h] # NoRow /\ remote'[h].byHand = remote[h].byHand
  BY RowsAreRows DEF Revised
<1>4. \A h \in Ours : Carried(h) => Carried(h)' \/ hooks[h].external # 0
  BY RowsAreRows DEF Revised, Carried, Ours
<1>5. PostedStay /\ NonePosted
  BY <1>1, <1>2, <1>3, <1>4 DEF PostedStay, NonePosted, Posted, Carried, Ours
<1>6. hooks' \in [HookIds -> webhookRows \cup {NoRow}] /\ remote' \in [HookIds -> Registration \cup {NoRow}]
  BY DEF Revised, RowsHold
<1>7. \A g \in Ours', h \in HookIds : h < g => h \in Ours'
  BY <1>1 DEF RowsHold
<1>8. \A h \in HookIds : h \notin Ours' => remote'[h] = NoRow
  BY <1>1, <1>3 DEF RowsHold
<1>9. \A h \in Ours' : hooks'[h].external \in {0, h}
  BY <1>1, <1>2 DEF RowsHold
<1>10. \A h \in Ours' : LET r == hooks'[h].replaces IN r = 0 \/ (r \in Ours' /\ r < h /\ hooks'[r].external # 0)
  BY <1>1, <1>2 DEF RowsHold
<1>11. \A h \in Ours' : remote'[h] # NoRow /\ remote'[h].byHand => hooks'[h].replaces = 0
  BY <1>1, <1>2, <1>3 DEF RowsHold, Ours
<1>12. \A h \in Ours' : hooks'[h].status = "replacing" => hooks'[h].replaces # 0
  BY <1>1, <1>2 DEF RowsHold, Revised, Ours
<1>13. QED
  BY <1>5, <1>6, <1>7, <1>8, <1>9, <1>10, <1>11, <1>12 DEF RowsHold

\* Nothing changes.
LEMMA RowsRest ==
  ASSUME RowsHold, hooks' = hooks, remote' = remote
  PROVE  RowsHold' /\ PostedStay /\ NonePosted /\ Harmless /\ Unhurt /\ NoneActivated
<1>1. Revised
  BY DEF Revised, RowsHold
<1>2. Harmless /\ Unhurt /\ NoneActivated
  BY DEF Harmless, Unhurt, Sound, Delivering, NoneActivated
<1>3. QED
  BY <1>1, <1>2, RevisedRows

\* One row is revised.
LEMMA OneRowRevised ==
  ASSUME RowsHold, NEW h \in Ours, NEW row \in webhookRows, hooks' = [hooks EXCEPT ![h] = row], remote' = remote,
         row.external = hooks[h].external, row.replaces = hooks[h].replaces,
         row.status \in {hooks[h].status, "deleted"}
  PROVE  /\ RowsHold' /\ PostedStay /\ NonePosted /\ NoneActivated
         /\ (~Latest(h) \/ ~Sound(h) \/ (row.status \in Verified /\ row.secret)) => Unhurt
         /\ hooks[h].external # 0 => Harmless
<1>1. \A g \in HookIds : hooks'[g] = IF g = h THEN row ELSE hooks[g]
  BY DEF RowsHold
<1>2. Revised
  BY <1>1 DEF Revised, RowsHold
<1>3. (~Latest(h) \/ ~Sound(h) \/ (row.status \in Verified /\ row.secret)) => Unhurt
  BY <1>1 DEF Unhurt, Sound, Delivering, Ours
<1>4. hooks[h].external # 0 => Harmless
  BY <1>1 DEF Harmless, Ours, Sound, Delivering
<1>5. NoneActivated
  BY <1>1 DEF NoneActivated
<1>6. QED
  BY <1>2, <1>3, <1>4, <1>5, RevisedRows

LEMMA BehindIsNotLatest == ASSUME NEW h \in Ours, Behind(h) PROVE ~Latest(h)
BY WebhooksAssumption DEF Behind, Latest, Ours

\* One that lasted and is not heard, or not known to the store, is not the one made last.
LEMMA UnheardIsBehind ==
  ASSUME LatestIsSound, NEW h \in Ours, Lasting(h), ~(Latest(h) /\ Sound(h))
  PROVE  Behind(h)
<1>1. PICK g \in Ours : Latest(g) /\ Sound(g)
  BY DEF LatestIsSound
<1>2. h <= g /\ h # g /\ Lasting(g)
  BY <1>1 DEF Latest
<1>3. QED
  BY <1>2, WebhooksAssumption DEF Behind, Ours

-------------------------------------------------------------------------------
(* The steps.                                                                *)

LEMMA ReconcileCalm ==
  ASSUME Calm, ActingHolds, NEW k \in Callers, NEW who, reconcile(k, who), ~overlapped'
  PROVE  Calm' /\ PostedStay
<1> DEFINE x == [stage |-> "listed", listed |-> {h \in HookIds : remote[h] # NoRow},
                 fine |-> {h \in HookIds : Delivering(h)}]
<1>1. Becomes(k, x) /\ UNCHANGED <<hooks, remote>> /\ ~Overlaps(k) /\ acting[k].stage = "idle"
  BY DEF reconcile, BeginsToChange, Begins, Stage
<1>2. acting'[k] = x /\ OthersWait(k)
  BY <1>1, MovesAlone
<1>3. RowsHold /\ RowsHold' /\ PostedStay /\ NonePosted /\ Harmless /\ Unhurt /\ NoneActivated
  BY <1>1, RowsRest DEF Calm
<1>4. Minds(k)'
  <2>1. \A h \in Ours' : Carried(h)' => h \in x.listed
    BY <1>1 DEF Ours, Carried
  <2>2. x.listed \subseteq x.fine
    BY <1>3 DEF RowsHold, Registration, Delivering
  <2>3. QED
    BY <1>2, <2>1, <2>2 DEF Minds
<1> HIDE DEF x
<1>5. QED
  BY <1>1, <1>2, <1>3, <1>4, CalmStays

LEMMA RotateCalm ==
  ASSUME Calm, ActingHolds, NEW k \in Callers, NEW who, rotate(k, who), ~overlapped'
  PROVE  Calm' /\ PostedStay
<1>1. PICK h \in Ours : hooks[h].external # 0 /\ Becomes(k, [stage |-> "insert", replaces |-> h])
  BY DEF rotate
<1>2. UNCHANGED <<hooks, remote>> /\ ~Overlaps(k) /\ acting[k].stage = "idle"
  BY DEF rotate, BeginsToChange, Begins, Stage
<1>3. acting'[k] = [stage |-> "insert", replaces |-> h] /\ OthersWait(k)
  BY <1>1, MovesAlone
<1>4. RowsHold' /\ PostedStay /\ NonePosted /\ Harmless /\ Unhurt /\ NoneActivated
  BY <1>2, RowsRest DEF Calm
<1>5. Minds(k)'
  BY <1>1, <1>2, <1>3 DEF Minds, Ours
<1>6. QED
  BY <1>2, <1>3, <1>4, <1>5, CalmStays

\* The one heard is in the listing, with its identifier in the row: who posted it has settled.
LEMMA LatestIsKnown ==
  ASSUME Calm, NEW k \in Callers, Stage(k, "listed"), NEW h \in Ours, Latest(h), Sound(h)
  PROVE  hooks[h].external = h /\ h \in acting[k].listed
<1>1. Minds(k) /\ Carried(h)
  BY DEF Calm, Sound, Delivering, Carried
<1>2. h \in acting[k].listed
  BY <1>1 DEF Minds, Stage
<1>3. hooks[h].external # 0
  <2>1. SUFFICES ASSUME hooks[h].external = 0 PROVE FALSE
    OBVIOUS
  <2>2. Settling(h)
    BY <1>1, <2>1 DEF Calm, PostedIsSettled, Latest, Lasting, Posted
  <2>3. PICK j \in Callers : Stage(j, "settle")
    BY <2>2 DEF Settling
  <2>4. QED
    BY <2>3 DEF Calm, OneChanges, Stage, ChangingStages
<1>4. QED
  BY <1>2, <1>3 DEF Calm, RowsHold

LEMMA ReconcileTopicCalm ==
  ASSUME Calm, ActingHolds, NEW k \in Callers, reconcileTopic(k)
  PROVE  Calm' /\ PostedStay
<1> DEFINE known(h) == hooks[h].external # 0 /\ hooks[h].external \in acting[k].listed
<1>1. acting[k].stage = "listed" /\ acting[k].stage \in ChangingStages /\ remote' = remote /\ Stage(k, "listed")
      /\ hooks' = hooks
  BY DEF reconcileTopic, Stage, ChangingStages
<1>2. RowsHold /\ LatestIsSound /\ Minds(k)
  BY DEF Calm
<1>3. RowsHold' /\ PostedStay /\ NonePosted /\ Harmless /\ Unhurt /\ NoneActivated
  BY <1>1, <1>2, RowsRest
<1>4. CASE Becomes(k, [stage |-> "insert", replaces |-> 0])
  <2>1. acting'[k] = [stage |-> "insert", replaces |-> 0] /\ OthersWait(k)
    BY <1>4, MovesAlone
  <2>2. Minds(k)'
    BY <2>1 DEF Minds
  <2>3. QED
    BY <1>1, <1>3, <2>1, <2>2, CalmStays
<1>5. CASE Becomes(k, Idle)
  <2>1. acting'[k] = Idle /\ OthersWait(k)
    BY <1>5, MovesAlone
  <2>2. QED
    BY <1>1, <1>3, <2>1, IdleMinds, CalmStays
<1>6. ASSUME NEW mine \in Ours, ~known(mine), Becomes(k, [stage |-> "gone", hook |-> mine])
      PROVE  Calm' /\ PostedStay
  <2>1. acting'[k] = [stage |-> "gone", hook |-> mine] /\ OthersWait(k)
    BY <1>6, MovesAlone
  <2>2. ~(Latest(mine) /\ Sound(mine))
    BY <1>1, <1>6, LatestIsKnown, WebhooksAssumption DEF Ours
  <2>3. Lasting(mine) => Behind(mine)
    BY <1>2, <2>2, UnheardIsBehind
  <2>4. mine \in Ours' /\ (Lasting(mine)' => Behind(mine)')
    BY <1>3, <2>3, LastingStays DEF PostedStay
  <2>5. Minds(k)'
    BY <2>1, <2>4 DEF Minds
  <2>6. QED
    BY <1>1, <1>3, <2>1, <2>5, CalmStays
<1>7. ASSUME NEW mine \in Ours, known(mine) PROVE mine \in acting[k].fine
  BY <1>1, <1>2, <1>7 DEF Minds, RowsHold
<1>8. QED
  <2>1. \/ Becomes(k, [stage |-> "insert", replaces |-> 0])
        \/ \E mine \in Ours : Becomes(k, IF ~known(mine) THEN [stage |-> "gone", hook |-> mine]
                                          ELSE IF mine \in acting[k].fine THEN Idle
                                          ELSE [stage |-> "repair", hook |-> mine])
    BY DEF reconcileTopic
  <2> HIDE DEF known
  <2>2. QED
    BY <1>4, <1>5, <1>6, <1>7, <2>1

LEMMA RetireHookCalm ==
  ASSUME Calm, ActingHolds, NEW k \in Callers, retireHook(k)
  PROVE  Calm' /\ PostedStay
<1>1. PICK h : h = acting[k].hook
  OBVIOUS
<1>2. acting[k].stage \in {"gone", "settle_deleted"} /\ acting[k].stage \in ChangingStages /\ remote' = remote
  BY DEF retireHook, Stage, ChangingStages
<1>3. h \in Ours /\ (Lasting(h) => Behind(h)) /\ RowsHold
  BY <1>1, <1>2 DEF Calm, Minds
<1>4. ~Latest(h) /\ hooks[h] \in webhookRows
  BY <1>3, BehindIsNotLatest DEF Latest, RowsHold, Ours
<1>5. PICK row \in webhookRows :
        /\ hooks' = [hooks EXCEPT ![h] = row]
        /\ row.external = hooks[h].external /\ row.replaces = hooks[h].replaces
        /\ row.status \in {hooks[h].status, "deleted"}
  <2>1. CASE Stage(k, "gone")
    <3> DEFINE row == [hooks[h] EXCEPT !.status = "deleted"]
    <3>1. hooks' = [hooks EXCEPT ![h] = row]
      BY <1>1, <2>1 DEF retireHook, Stage
    <3>2. /\ row \in webhookRows /\ row.external = hooks[h].external /\ row.replaces = hooks[h].replaces
          /\ row.status \in {hooks[h].status, "deleted"}
      BY <1>4 DEF webhookRows
    <3> HIDE DEF row
    <3>3. QED
      BY <3>1, <3>2
  <2>2. CASE Stage(k, "settle_deleted")
    <3> DEFINE row == [hooks[h] EXCEPT !.secret = FALSE]
    <3>1. hooks' = [hooks EXCEPT ![h] = row]
      BY <1>1, <2>2 DEF retireHook, Stage
    <3>2. /\ row \in webhookRows /\ row.external = hooks[h].external /\ row.replaces = hooks[h].replaces
          /\ row.status \in {hooks[h].status, "deleted"}
      BY <1>4 DEF webhookRows
    <3> HIDE DEF row
    <3>3. QED
      BY <3>1, <3>2
  <2>3. QED
    BY <2>1, <2>2 DEF retireHook
<1>6. RowsHold' /\ PostedStay /\ NonePosted /\ Unhurt /\ NoneActivated
  BY <1>2, <1>3, <1>4, <1>5, OneRowRevised
<1>7. h \in Ours' /\ (Lasting(h)' => Behind(h)')
  BY <1>3, <1>6, LastingStays DEF PostedStay
<1>8. acting'[k] \in {[stage |-> "settle_deleted", hook |-> h], [stage |-> "insert", replaces |-> 0]} /\ OthersWait(k)
  <2>1. \/ Becomes(k, [stage |-> "settle_deleted", hook |-> h])
        \/ Becomes(k, [stage |-> "insert", replaces |-> 0])
    BY <1>1 DEF retireHook
  <2>2. QED
    BY <2>1, MovesAlone
<1>9. Minds(k)'
  <2>1. CASE acting'[k] = [stage |-> "settle_deleted", hook |-> h]
    BY <1>7, <2>1 DEF Minds
  <2>2. CASE acting'[k] = [stage |-> "insert", replaces |-> 0]
    BY <2>2 DEF Minds
  <2>3. QED
    BY <1>8, <2>1, <2>2
<1>10. QED
  BY <1>2, <1>6, <1>8, <1>9, CalmStays

-------------------------------------------------------------------------------
(* Making a registration.                                                    *)

\* A row is added that the store does not know yet, or knows because somebody made it there.
LEMMA RowAdded ==
  ASSUME RowsHold, NEW h \in NextHook, NEW row \in webhookRows, hooks' = [hooks EXCEPT ![h] = row],
         row.external = 0,
         row.replaces = 0 \/ (row.replaces \in Ours /\ hooks[row.replaces].external # 0),
         row.status = "pending" \/ (row.status = "replacing" /\ row.replaces # 0),
         remote' = [g \in HookIds |-> remote'[g]],
         \A g \in HookIds \ {h} : remote'[g] = remote[g],
         remote'[h] = NoRow \/ (remote'[h] \in Registration /\ remote'[h].byHand /\ row.replaces = 0)
  PROVE  /\ RowsHold' /\ PostedStay /\ NonePosted /\ Harmless /\ Unhurt /\ NoneActivated
         /\ h \in Ours' /\ \A g \in Ours' : Posted(g)' => g < h
<1>1. h \in HookIds /\ hooks[h] = NoRow /\ h \notin Ours /\ remote[h] = NoRow
  BY DEF NextHook, Ours, RowsHold
<1>2. \A g \in HookIds : hooks'[g] = IF g = h THEN row ELSE hooks[g]
  BY DEF RowsHold
<1>3. Ours' = Ours \cup {h}
  BY <1>1, <1>2, RowsAreRows DEF Ours
<1>4. \A g \in Ours : hooks'[g] = hooks[g] /\ remote'[g] = remote[g] /\ g \in HookIds
  BY <1>1, <1>2 DEF Ours
<1>5. ~Posted(h)'
  BY <1>1, <1>2 DEF Posted, Carried
<1>6. PostedStay /\ NonePosted /\ Harmless /\ Unhurt
  <2>1. ~Carried(h)' /\ hooks'[h].external = 0
    BY <1>1, <1>2 DEF Carried
  <2>2. QED
    BY <1>3, <1>4, <1>5, <2>1 DEF PostedStay, NonePosted, Harmless, Unhurt, Posted, Carried, Sound, Delivering
<1>7. \A g \in Ours : g < h
  BY <1>1, WebhooksAssumption DEF RowsHold, Ours
<1>8. \A g \in Ours' : Posted(g)' => g < h
  BY <1>3, <1>5, <1>7
<1>9. RowsHold'
  <2>1. hooks' \in [HookIds -> webhookRows \cup {NoRow}] /\ remote' \in [HookIds -> Registration \cup {NoRow}]
    <3>1. remote' \in [HookIds -> Registration \cup {NoRow}]
      BY <1>1 DEF RowsHold
    <3>2. QED
      BY <3>1 DEF RowsHold
  <2>2. \A g \in Ours', f \in HookIds : f < g => f \in Ours'
    <3>1. \A f \in HookIds : f < h => f \in Ours
      BY DEF NextHook, Ours
    <3>2. QED
      BY <1>3, <3>1 DEF RowsHold
  <2>3. \A g \in HookIds : g \notin Ours' => remote'[g] = NoRow
    BY <1>3 DEF RowsHold
  <2>4. \A g \in Ours' : hooks'[g].external \in {0, g}
    BY <1>1, <1>2, <1>3, <1>4 DEF RowsHold
  <2>5. \A g \in Ours' : LET r == hooks'[g].replaces IN r = 0 \/ (r \in Ours' /\ r < g /\ hooks'[r].external # 0)
    <3>1. \A g \in Ours : LET r == hooks[g].replaces IN r = 0 \/ (r \in Ours /\ r < g /\ hooks[r].external # 0)
      BY DEF RowsHold
    <3>2. hooks'[h] = row
      BY <1>1, <1>2
    <3>3. QED
      BY <1>3, <1>4, <1>7, <3>1, <3>2
  <2>6. \A g \in Ours' : remote'[g] # NoRow /\ remote'[g].byHand => hooks'[g].replaces = 0
    BY <1>1, <1>2, <1>3, <1>4 DEF RowsHold
  <2>7. \A g \in Ours' : hooks'[g].status = "replacing" => hooks'[g].replaces # 0
    BY <1>1, <1>2, <1>3, <1>4 DEF RowsHold
  <2>8. QED
    BY <2>1, <2>2, <2>3, <2>4, <2>5, <2>6, <2>7 DEF RowsHold
<1>10. NoneActivated
  BY <1>2 DEF NoneActivated
<1>11. QED
  BY <1>3, <1>6, <1>8, <1>9, <1>10

LEMMA InsertCalm ==
  ASSUME Calm, ActingHolds, NEW k \in Callers, Stage(k, "insert"), createHook(k, "none")
  PROVE  Calm' /\ PostedStay
<1>1. PICK r : r = acting[k].replaces
  OBVIOUS
<1>2. r = 0 \/ (r \in Ours /\ hooks[r].external # 0)
  BY <1>1 DEF Calm, Minds, Stage
<1> DEFINE row == [topic |-> "order.updated", external |-> 0, secret |-> FALSE,
                   status |-> IF r = 0 THEN "pending" ELSE "replacing", replaces |-> r]
<1>3. PICK h \in NextHook : /\ hooks' = [hooks EXCEPT ![h] = row]
                            /\ Becomes(k, [stage |-> "put_secret", hook |-> h])
  BY <1>1 DEF createHook, Stage
<1>4. remote' = remote /\ acting[k].stage = "insert" /\ acting[k].stage \in ChangingStages
  BY DEF createHook, Stage, ChangingStages, OtherHookVars
<1>5. acting'[k] = [stage |-> "put_secret", hook |-> h] /\ OthersWait(k)
  BY <1>3, MovesAlone
<1>6. /\ row \in webhookRows /\ row.external = 0 /\ row.status \in Verified
      /\ row.status = "pending" \/ (row.status = "replacing" /\ row.replaces # 0)
      /\ row.replaces = 0 \/ (row.replaces \in Ours /\ hooks[row.replaces].external # 0)
  <2>1. r \in HookIds \cup {0}
    BY <1>2 DEF Ours
  <2>2. /\ row.status = "pending" \/ (row.status = "replacing" /\ r # 0)
        /\ row.replaces = r /\ row.external = 0
    OBVIOUS
  <2>3. row \in webhookRows
    <3>1. (IF r = 0 THEN "pending" ELSE "replacing")
            \in {"pending", "active", "replacing", "paused", "failed", "deleted"}
      OBVIOUS
    <3>2. QED
      BY <2>1, <3>1 DEF webhookRows
  <2>4. QED
    BY <1>2, <2>2, <2>3 DEF Verified
<1>7. RowsHold /\ h \in HookIds /\ remote[h] = NoRow /\ remote' = [g \in HookIds |-> remote'[g]]
  BY <1>4 DEF Calm, RowsHold, NextHook, Ours
<1> HIDE DEF row
<1>8. /\ RowsHold' /\ PostedStay /\ NonePosted /\ Harmless /\ Unhurt /\ NoneActivated
      /\ h \in Ours' /\ \A g \in Ours' : Posted(g)' => g < h
  BY <1>3, <1>4, <1>6, <1>7, RowAdded
<1>9. hooks'[h] = row /\ remote'[h] = NoRow
  BY <1>3, <1>4, <1>7 DEF RowsHold
<1>10. Minds(k)'
  BY <1>5, <1>6, <1>8, <1>9 DEF Minds
<1>11. QED
  BY <1>4, <1>5, <1>8, <1>10, CalmStays

LEMMA PutSecretCalm ==
  ASSUME Calm, ActingHolds, NEW k \in Callers, Stage(k, "put_secret"), createHook(k, "none")
  PROVE  Calm' /\ PostedStay
<1>1. PICK h : h = acting[k].hook
  OBVIOUS
<1>2. acting[k].stage = "put_secret" /\ acting[k].stage \in ChangingStages
  BY DEF Stage, ChangingStages
<1>3. /\ h \in Ours /\ hooks[h].external = 0 /\ remote[h] = NoRow /\ hooks[h].status \in Verified
      /\ \A g \in Ours : Posted(g) => g < h
      /\ "hook" \in DOMAIN acting[k] /\ RowsHold
  BY <1>1, <1>2 DEF Calm, Minds
<1> DEFINE row == [hooks[h] EXCEPT !.secret = TRUE]
           x == [acting[k] EXCEPT !.stage = "post"]
<1>4. hooks' = [hooks EXCEPT ![h] = row] /\ Becomes(k, x) /\ remote' = remote
  BY <1>1, <1>2 DEF createHook, Stage, OtherHookVars
<1>5. x.stage = "post" /\ x.hook = h
  BY <1>1, <1>3 DEF ActingHolds, Carries
<1> HIDE DEF x
<1>6. acting'[k] = x /\ OthersWait(k)
  BY <1>4, MovesAlone
<1>7. hooks[h] \in webhookRows
  BY <1>3 DEF RowsHold, Ours
<1>8. /\ row \in webhookRows /\ row.external = hooks[h].external /\ row.replaces = hooks[h].replaces
      /\ row.status = hooks[h].status /\ row.secret
  BY <1>7 DEF webhookRows
<1> HIDE DEF row
<1>9. RowsHold' /\ PostedStay /\ NonePosted /\ Unhurt /\ NoneActivated
  BY <1>3, <1>4, <1>8, OneRowRevised
<1>10. hooks'[h] = row
  BY <1>3, <1>4 DEF RowsHold, Ours
<1>11. /\ h \in Ours' /\ \A g \in Ours' : Posted(g)' => g < h
  BY <1>3, <1>9 DEF PostedStay, NonePosted
<1>12. Minds(k)'
  BY <1>3, <1>4, <1>5, <1>6, <1>8, <1>10, <1>11 DEF Minds
<1>13. QED
  BY <1>2, <1>6, <1>9, <1>12, CalmStays

\* The store made the registration: it is heard, and if it is a replacement it is the one
\* made last.
LEMMA PostCalm ==
  ASSUME Calm, ActingHolds, NEW k \in Callers, Stage(k, "post"), ~excused',
         NEW answer \in {"none", "created", "lost", "refused"}, createHook(k, answer)
  PROVE  Calm' /\ PostedStay
<1>1. PICK h : h = acting[k].hook
  OBVIOUS
<1>2. acting[k].stage = "post" /\ acting[k].stage \in ChangingStages
  BY DEF Stage, ChangingStages
<1>3. /\ h \in Ours /\ h \in HookIds /\ hooks[h].external = 0 /\ remote[h] = NoRow
      /\ hooks[h].status \in Verified /\ hooks[h].secret
      /\ \A g \in Ours : Posted(g) => g < h
  BY <1>1, <1>2 DEF Calm, Minds, Ours
<1>4. RowsHold /\ OneChanges /\ PostedIsSettled /\ LatestIsSound /\ ActiveLasts
  BY DEF Calm
<1> DEFINE made == [active |-> TRUE, here |-> TRUE, byHand |-> FALSE]
           x == [stage |-> "settle", hook |-> h, ok |-> answer = "created"]
<1>5. /\ remote' = IF answer = "refused" THEN remote ELSE [remote EXCEPT ![h] = made]
      /\ answer # "lost" /\ Becomes(k, x) /\ hooks' = hooks
  BY <1>1, <1>2 DEF createHook, Stage, OtherHookVars
<1>6. acting'[k] = x /\ OthersWait(k)
  BY <1>5, MovesAlone
<1>7. CASE answer = "refused"
  <2>1. RowsHold' /\ PostedStay /\ NonePosted /\ Harmless /\ Unhurt /\ NoneActivated
    BY <1>4, <1>5, <1>7, RowsRest
  <2>2. h \in Ours' /\ ~Posted(h)' /\ hooks'[h].external = 0 /\ \A g \in Ours' : Posted(g)' => g <= h
    <3>1. \A g \in Ours : g < h => g <= h
      BY <1>3, WebhooksAssumption DEF Ours
    <3>2. QED
      BY <1>3, <1>5, <1>7, <3>1 DEF Posted, Carried, Ours
  <2>3. x.stage = "settle" /\ x.hook = h /\ x.ok = FALSE
    BY <1>7
  <2> HIDE DEF x
  <2>4. Minds(k)'
    BY <1>6, <2>2, <2>3 DEF Minds
  <2>5. QED
    BY <1>2, <1>6, <2>1, <2>4, CalmStays
<1>8. answer # "none"
  BY <1>2 DEF createHook, Stage
<1>9. CASE answer = "created"
  <2>1. \A g \in HookIds : remote'[g] = IF g = h THEN made ELSE remote[g]
    <3>1. remote' = [remote EXCEPT ![h] = made]
      BY <1>5, <1>9 DEF made
    <3>2. remote = [g \in HookIds |-> remote[g]]
      BY <1>4 DEF RowsHold
    <3>3. QED
      BY <3>1, <3>2
  <2>2. made \in Registration /\ made # NoRow
    <3>1. made \in Registration
      BY DEF Registration
    <3>2. QED
      BY <3>1, RowsAreRows
  <2>3. Ours' = Ours
    BY <1>5 DEF Ours
  <2>4. \A g \in Ours : g # h => (Posted(g)' <=> Posted(g))
    BY <1>5, <2>1 DEF Posted, Carried, Ours
  <2>5. Carried(h)' /\ Posted(h)' /\ ~Posted(h)
    BY <1>3, <2>1, <2>2 DEF Carried, Posted, made
  <2>6. PostedStay
    BY <1>5, <2>3, <2>4, <2>5 DEF PostedStay
  <2>7. RowsHold'
    <3>1. remote' \in [HookIds -> Registration \cup {NoRow}]
      BY <1>4, <1>5, <1>9, <2>2 DEF RowsHold
    <3>2. \A g \in HookIds : g \notin Ours' => remote'[g] = NoRow
      BY <1>3, <1>4, <2>1, <2>3 DEF RowsHold
    <3>3. \A g \in Ours' : remote'[g] # NoRow /\ remote'[g].byHand => hooks'[g].replaces = 0
      BY <1>4, <1>5, <2>1, <2>3 DEF RowsHold, Ours, made
    <3>4. QED
      BY <1>4, <1>5, <2>3, <3>1, <3>2, <3>3 DEF RowsHold
  <2>8. Sound(h)' /\ hooks'[h].external = 0 /\ h \in Ours' /\ \A g \in Ours' : Posted(g)' => g <= h
    <3>1. \A g \in Ours' : Posted(g)' => g <= h
      BY <1>3, <2>3, <2>4, WebhooksAssumption DEF Ours
    <3>2. Sound(h)'
      BY <1>3, <1>5, <2>1, <2>2 DEF Sound, Delivering, made
    <3>3. QED
      BY <1>3, <1>5, <2>3, <3>1, <3>2
  <2>14. LatestIsSound' /\ ActiveLasts'
    <3>1. ASSUME hooks[h].replaces # 0 PROVE LatestIsSound'
      <4>1. Lasting(h)'
        BY <1>5, <2>5, <3>1 DEF Lasting
      <4>2. \A g \in Ours' : Lasting(g)' => Posted(g)'
        BY DEF Lasting, Posted
      <4>3. Latest(h)'
        BY <2>8, <4>1, <4>2 DEF Latest
      <4>4. QED
        BY <2>8, <4>3 DEF LatestIsSound
    <3>2. ASSUME hooks[h].replaces = 0 PROVE LatestIsSound'
      <4>1. ~Lasting(h)' /\ ~Lasting(h)
        BY <1>3, <1>5, <3>2 DEF Lasting
      <4>2. \A g \in Ours : g # h => (Lasting(g)' <=> Lasting(g)) /\ (Sound(g)' <=> Sound(g))
        BY <1>5, <2>1 DEF Lasting, Carried, Sound, Delivering, Ours
      <4>3. \A g \in Ours : (Lasting(g)' <=> Lasting(g)) /\ (Latest(g) /\ Sound(g) => Sound(g)')
        BY <4>1, <4>2 DEF Latest
      <4>4. \A g \in Ours : Latest(g)' <=> Latest(g)
        BY <2>3, <4>3 DEF Latest
      <4>5. QED
        BY <1>4, <2>3, <4>3, <4>4 DEF LatestIsSound
    <3>3. ActiveLasts'
      BY <1>4, <1>5, <2>6, ActiveStays DEF NoneActivated
    <3>4. QED
      BY <3>1, <3>2, <3>3
  <2>9. x.stage = "settle" /\ x.hook = h /\ x.ok = TRUE
    BY <1>9
  <2> HIDE DEF x
  <2>10. Minds(k)'
    BY <1>3, <1>6, <2>3, <2>5, <2>8, <2>9 DEF Minds
  <2>11. \A j \in Callers : Minds(j)'
    <3>1. ASSUME NEW j \in Callers, j # k PROVE Minds(j)'
      <4>1. acting[j].stage \notin ChangingStages /\ acting'[j] = acting[j] /\ Minds(j)
        BY <1>2, <1>4, <1>6, <3>1 DEF OneChanges, OthersWait, Calm
      <4>2. QED
        BY <2>6, <4>1, WaitingAside
    <3>2. QED
      BY <2>10, <3>1
  <2>12. PostedIsSettled'
    <3>1. ASSUME NEW g \in Ours, Posted(g), hooks[g].external = 0, Settling(g) PROVE Settling(g)'
      <4>1. PICK j \in Callers : Stage(j, "settle") /\ acting[j].ok /\ acting[j].hook = g
        BY <3>1 DEF Settling
      <4>2. acting'[j] = acting[j]
        BY <1>2, <1>6, <4>1 DEF OthersWait, Stage
      <4>3. QED
        BY <4>1, <4>2 DEF Settling, Stage
    <3>2. Settling(h)'
      BY <1>6, <2>9 DEF Settling, Stage
    <3>3. QED
      BY <1>4, <1>5, <2>3, <2>4, <3>1, <3>2 DEF PostedIsSettled
  <2>13. OneChanges'
    BY <1>2, <1>4, <1>6, OneStillChanges
  <2>15. QED
    BY <2>6, <2>7, <2>11, <2>12, <2>13, <2>14 DEF Calm
<1>10. QED
  BY <1>5, <1>7, <1>8, <1>9

\* Nobody else is settling.
LEMMA OneSettles ==
  ASSUME Calm, NEW k \in Callers, Stage(k, "settle"), NEW g \in Ours, g # acting[k].hook, Posted(g),
         hooks[g].external = 0
  PROVE  hooks[g].replaces = 0 /\ \E f \in Ours : hooks[f].external # 0
<1>1. ~Settling(g)
  <2>1. SUFFICES ASSUME NEW j \in Callers, Stage(j, "settle"), acting[j].hook = g PROVE FALSE
    BY DEF Settling
  <2>2. j = k
    BY <2>1 DEF Calm, OneChanges, Stage, ChangingStages
  <2>3. QED
    BY <2>1, <2>2
<1>2. QED
  BY <1>1 DEF Calm, PostedIsSettled

\* The row cannot be written: another is active.
LEMMA SettleRefusedCalm ==
  ASSUME Calm, ActingHolds, NEW k \in Callers, Stage(k, "settle"), Becomes(k, Idle), hooks' = hooks, remote' = remote,
         acting[k].ok => hooks[acting[k].hook].replaces = 0 /\ \E g \in Ours : hooks[g].status = "active"
  PROVE  Calm' /\ PostedStay
<1>1. RowsHold /\ OneChanges /\ PostedIsSettled /\ LatestIsSound /\ ActiveLasts
  BY DEF Calm
<1>2. RowsHold' /\ PostedStay /\ NonePosted /\ Harmless /\ Unhurt /\ NoneActivated
  BY <1>1, RowsRest
<1>3. acting[k].stage = "settle" /\ acting[k].stage \in ChangingStages
  BY DEF Stage, ChangingStages
<1>4. acting'[k] = Idle /\ OthersWait(k)
  BY MovesAlone
<1>5. \A j \in Callers : Minds(j)'
  BY <1>2, <1>3, <1>4, OthersMind, IdleMinds
<1>6. OneChanges'
  BY <1>1, <1>3, <1>4, OneStillChanges
<1>7. PostedIsSettled'
  <2>1. ASSUME NEW g \in Ours, Posted(g), hooks[g].external = 0
        PROVE  hooks[g].replaces = 0 /\ \E f \in Ours : hooks[f].external # 0
    <3>1. CASE g # acting[k].hook
      BY <2>1, <3>1, OneSettles
    <3>2. CASE g = acting[k].hook
      <4>1. acting[k].ok
        BY <1>3, <2>1, <3>2 DEF Calm, Minds
      <4>2. PICK f \in Ours : hooks[f].status = "active"
        BY <4>1
      <4>3. Lasting(f)
        BY <1>1, <4>2 DEF ActiveLasts
      <4>4. QED
        BY <1>1, <3>2, <4>1, <4>3 DEF Lasting, RowsHold
    <3>3. QED
      BY <3>1, <3>2
  <2>2. Ours' = Ours /\ \A g \in Ours : Posted(g)' <=> Posted(g)
    BY DEF Ours, Posted, Carried
  <2>3. QED
    BY <2>1, <2>2 DEF PostedIsSettled
<1>8. LatestIsSound' /\ ActiveLasts'
  BY <1>1, <1>2, LatestStays, ActiveStays
<1>9. QED
  BY <1>2, <1>5, <1>6, <1>7, <1>8 DEF Calm

\* The row takes the identifier of what the store made, or fails.
LEMMA SettleWrittenCalm ==
  ASSUME Calm, ActingHolds, NEW k \in Callers, Stage(k, "settle"), Becomes(k, Idle), remote' = remote,
         NEW row \in webhookRows, hooks' = [hooks EXCEPT ![acting[k].hook] = row], OneActive(hooks'),
         row.replaces = hooks[acting[k].hook].replaces, row.secret = hooks[acting[k].hook].secret,
         acting[k].ok => /\ row.external = acting[k].hook
                         /\ row.status = IF row.replaces = 0 THEN "active" ELSE "replacing",
         ~acting[k].ok => row.external = 0 /\ row.status = "failed"
  PROVE  Calm' /\ PostedStay
<1>h. PICK h : h = acting[k].hook
  OBVIOUS
<1>o. PICK ok : ok = acting[k].ok
  OBVIOUS
<1>1. acting[k].stage = "settle" /\ acting[k].stage \in ChangingStages
  BY DEF Stage, ChangingStages
<1>2. /\ h \in Ours /\ h \in HookIds /\ ok \in BOOLEAN /\ hooks[h].external = 0 /\ (ok <=> Posted(h))
      /\ ok => Sound(h)
      /\ \A g \in Ours : Posted(g) => g <= h
  BY <1>h, <1>o, <1>1 DEF Calm, Minds, Ours
<1>3. RowsHold /\ OneChanges /\ PostedIsSettled /\ LatestIsSound /\ ActiveLasts /\ hooks[h] \in webhookRows
  BY <1>2 DEF Calm, RowsHold, Ours
<1>4. \A g \in HookIds : hooks'[g] = IF g = h THEN row ELSE hooks[g]
  BY <1>h, <1>3 DEF RowsHold
<1>5. h # 0
  BY <1>2, WebhooksAssumption
<1>6. /\ row \in webhookRows /\ row.replaces = hooks[h].replaces /\ row.secret = hooks[h].secret
      /\ row.external = IF ok THEN h ELSE 0
      /\ ok => row.status \in Verified /\ (row.status = "replacing" => row.replaces # 0)
      /\ ~ok => row.status = "failed"
  BY <1>h, <1>o, <1>2 DEF Verified
<1>7. acting'[k] = Idle /\ OthersWait(k)
  BY MovesAlone
<1>8. Ours' = Ours
  BY <1>2, <1>4, <1>6, RowsAreRows DEF Ours
<1>9. hooks'[h] = row /\ \A g \in Ours : g # h => hooks'[g] = hooks[g]
  BY <1>2, <1>4 DEF Ours
<1>10. \A g \in Ours : (Posted(g)' <=> Posted(g)) /\ (Carried(g)' <=> Carried(g))
  BY <1>2, <1>5, <1>6, <1>9 DEF Posted, Carried
<1>11. PostedStay
  BY <1>2, <1>6, <1>8, <1>9, <1>10 DEF PostedStay
<1>12. RowsHold'
  <2>1. hooks' \in [HookIds -> webhookRows \cup {NoRow}]
    BY <1>3, <1>6 DEF RowsHold
  <2>2. \A g \in Ours' : hooks'[g].external \in {0, g}
    BY <1>3, <1>6, <1>8, <1>9 DEF RowsHold
  <2>3. \A g \in Ours : hooks'[g].replaces = hooks[g].replaces
    BY <1>6, <1>9
  <2>4. \A g \in Ours' : LET r == hooks'[g].replaces IN r = 0 \/ (r \in Ours' /\ r < g /\ hooks'[r].external # 0)
    <3>1. \A r \in Ours : hooks[r].external # 0 => hooks'[r].external # 0
      BY <1>11 DEF PostedStay
    <3>2. \A g \in Ours : LET r == hooks[g].replaces IN r = 0 \/ (r \in Ours /\ r < g /\ hooks[r].external # 0)
      BY <1>3 DEF RowsHold
    <3>3. QED
      BY <1>8, <2>3, <3>1, <3>2
  <2>5. \A g \in Ours' : remote'[g] # NoRow /\ remote'[g].byHand => hooks'[g].replaces = 0
    BY <1>3, <1>8, <2>3 DEF RowsHold
  <2>6. \A g \in Ours' : hooks'[g].status = "replacing" => hooks'[g].replaces # 0
    BY <1>2, <1>3, <1>6, <1>8, <1>9 DEF RowsHold
  <2>7. QED
    BY <1>3, <1>8, <2>1, <2>2, <2>4, <2>5, <2>6 DEF RowsHold
<1>13. PostedIsSettled'
  <2>1. ASSUME NEW g \in Ours, Posted(g)', hooks'[g].external = 0
        PROVE  hooks'[g].replaces = 0 /\ \E f \in Ours : hooks'[f].external # 0
    <3>1. g # h
      <4>1. CASE ok
        BY <1>5, <1>6, <1>9, <2>1, <4>1
      <4>2. CASE ~ok
        BY <1>2, <1>10, <2>1, <4>2
      <4>3. QED
        BY <1>2, <4>1, <4>2
    <3>2. hooks[g].replaces = 0 /\ \E f \in Ours : hooks[f].external # 0
      BY <1>h, <1>9, <1>10, <2>1, <3>1, OneSettles
    <3>3. QED
      BY <1>11, <3>2 DEF PostedStay
  <2>2. QED
    BY <1>8, <2>1 DEF PostedIsSettled
<1>14. \A j \in Callers : Minds(j)'
  <2>1. ASSUME NEW j \in Callers, j # k PROVE Minds(j)'
    <3>1. acting[j].stage \notin ChangingStages /\ acting'[j] = acting[j] /\ Minds(j)
      BY <1>1, <1>3, <1>7, <2>1 DEF OneChanges, OthersWait, Calm
    <3>2. QED
      BY <1>11, <3>1, WaitingAside
  <2>2. Minds(k)'
    BY <1>7, IdleMinds
  <2>3. QED
    BY <2>1, <2>2
<1>15. OneChanges'
  BY <1>1, <1>3, <1>7, OneStillChanges
<1>16. LatestIsSound'
  <2>1. CASE ok
    <3>1. Lasting(h)' /\ Sound(h)'
      BY <1>2, <1>5, <1>6, <1>9, <2>1 DEF Lasting, Sound, Delivering
    <3>2. \A g \in Ours' : Lasting(g)' => g <= h
      BY <1>2, <1>8, <1>10 DEF Lasting, Posted
    <3>3. QED
      BY <1>2, <1>8, <3>1, <3>2 DEF LatestIsSound, Latest
  <2>2. CASE ~ok
    <3>1. NonePosted
      BY <1>2, <1>6, <1>8, <1>9, <1>10, <2>2 DEF NonePosted
    <3>2. ~Latest(h)
      BY <1>2, <2>2 DEF Latest, Lasting, Posted
    <3>3. Unhurt
      BY <1>9, <3>2 DEF Unhurt, Sound, Delivering
    <3>4. QED
      BY <1>3, <1>11, <3>1, <3>3, LatestStays
  <2>3. QED
    BY <1>2, <2>1, <2>2
<1>17. ActiveLasts'
  <2>1. ASSUME NEW g \in Ours, hooks'[g].status = "active" PROVE Lasting(g)'
    <3>1. CASE g = h
      BY <1>5, <1>6, <1>9, <2>1, <3>1 DEF Lasting
    <3>2. CASE g # h
      BY <1>3, <1>9, <1>11, <2>1, <3>2, LastingStays DEF ActiveLasts
    <3>3. QED
      BY <3>1, <3>2
  <2>2. QED
    BY <1>8, <2>1 DEF ActiveLasts, OneActive
<1>18. QED
  BY <1>11, <1>12, <1>13, <1>14, <1>15, <1>16, <1>17 DEF Calm

LEMMA SettleCalm ==
  ASSUME Calm, ActingHolds, NEW k \in Callers, Stage(k, "settle"), createHook(k, "none")
  PROVE  Calm' /\ PostedStay
<1>1. PICK h : h = acting[k].hook
  OBVIOUS
<1>2. PICK ok : ok = acting[k].ok
  OBVIOUS
<1>3. PICK row : row = [hooks[h] EXCEPT !.external = IF ok THEN h ELSE @,
                                        !.status = IF ~ok THEN "failed"
                                                   ELSE IF hooks[h].replaces = 0 THEN "active" ELSE "replacing"]
  OBVIOUS
<1>4. /\ hooks' = IF OneActive([hooks EXCEPT ![h] = row]) THEN [hooks EXCEPT ![h] = row] ELSE hooks
      /\ Becomes(k, Idle) /\ remote' = remote
  <2> DEFINE made == [hooks EXCEPT ![h].external = IF ok THEN h ELSE @,
                                   ![h].status = IF ~ok THEN "failed"
                                                 ELSE IF hooks[h].replaces = 0 THEN "active" ELSE "replacing"]
  <2>1. Saves(made) /\ Becomes(k, Idle) /\ remote' = remote
    BY <1>1, <1>2, Zenon DEF createHook, Stage
  <2>2. made = [hooks EXCEPT ![h] = row]
    <3>1. h \in HookIds /\ hooks = [g \in HookIds |-> hooks[g]]
      BY <1>1 DEF Calm, Minds, Stage, RowsHold, Ours
    <3>2. QED
      BY <1>3, <3>1
  <2> HIDE DEF made
  <2>3. QED
    BY <2>1, <2>2 DEF Saves
<1>5. CASE OneActive([hooks EXCEPT ![h] = row])
  <2>1. hooks' = [hooks EXCEPT ![h] = row] /\ OneActive(hooks')
    <3> DEFINE made == [hooks EXCEPT ![h] = row]
    <3>1. OneActive(made) /\ hooks' = made
      BY <1>4, <1>5
    <3> HIDE DEF made
    <3>2. OneActive(hooks')
      BY <3>1 DEF OneActive
    <3>3. QED
      BY <3>1, <3>2 DEF made
  <2>2. Becomes(k, Idle) /\ remote' = remote
    BY <1>4
  <2>3. h \in HookIds /\ ok \in BOOLEAN /\ hooks[h] \in webhookRows /\ hooks[h].external = 0
    BY <1>1, <1>2 DEF Calm, Minds, Stage, RowsHold, Ours
  <2>4. /\ row \in webhookRows /\ row.replaces = hooks[h].replaces /\ row.secret = hooks[h].secret
        /\ ok => row.external = h /\ row.status = IF row.replaces = 0 THEN "active" ELSE "replacing"
        /\ ~ok => row.external = 0 /\ row.status = "failed"
    BY <1>3, <2>3 DEF webhookRows
  <2>5. QED
    BY <1>1, <1>2, <2>1, <2>2, <2>4, SettleWrittenCalm
<1>6. CASE ~OneActive([hooks EXCEPT ![h] = row])
  <2>1. h \in Ours /\ ok \in BOOLEAN /\ RowsHold /\ ActiveLasts /\ hooks[h] \in webhookRows
    BY <1>1, <1>2 DEF Calm, Minds, Stage, RowsHold, Ours
  <2>2. PICK g \in HookIds, f \in HookIds :
          /\ [hooks EXCEPT ![h] = row][g].status = "active" /\ [hooks EXCEPT ![h] = row][f].status = "active"
          /\ g # f
    BY <1>6 DEF OneActive
  <2>3. \A e \in HookIds : [hooks EXCEPT ![h] = row][e] = IF e = h THEN row ELSE hooks[e]
    BY <2>1 DEF RowsHold
  <2>4. row.status = IF ~ok THEN "failed" ELSE IF hooks[h].replaces = 0 THEN "active" ELSE "replacing"
    BY <1>3, <2>1 DEF webhookRows
  <2>5. ok /\ hooks[h].replaces = 0 /\ \E e \in HookIds : hooks[e].status = "active"
    BY <2>1, <2>2, <2>3, <2>4 DEF ActiveLasts, OneActive
  <2>6. \E e \in Ours : hooks[e].status = "active"
    BY <2>5 DEF Ours, NoRow
  <2>7. QED
    BY <1>1, <1>2, <1>4, <1>6, <2>5, <2>6, SettleRefusedCalm
<1>7. QED
  BY <1>5, <1>6

\* Nobody repairs what nobody changed at the store.
LEMMA RepairCalm ==
  ASSUME Calm, NEW k \in Callers, NEW ok \in BOOLEAN, repair(k, ok)
  PROVE  Calm' /\ PostedStay
BY DEF repair, Stage, Calm, Minds

\* A registration made by hand is no posted one: nobody moves, and a row is added.
LEMMA ManualCalm ==
  ASSUME Calm, prepareManual
  PROVE  Calm' /\ PostedStay
<1> DEFINE row == [topic |-> "order.updated", status |-> "pending", external |-> 0, secret |-> TRUE, replaces |-> 0]
           there == [active |-> TRUE, here |-> TRUE, byHand |-> TRUE]
<1>1. PICK h \in NextHook : hooks' = [hooks EXCEPT ![h] = row] /\ remote' = [remote EXCEPT ![h] = there]
  BY DEF prepareManual
<1>2. acting' = acting
  BY DEF prepareManual
<1>3. RowsHold /\ ActiveLasts /\ OneChanges /\ PostedIsSettled /\ LatestIsSound /\ h \in HookIds
  BY DEF Calm, NextHook
<1>4. row \in webhookRows /\ row.external = 0 /\ row.replaces = 0 /\ row.status = "pending"
  BY DEF webhookRows
<1>5. there \in Registration /\ there.byHand
  BY DEF Registration
<1> HIDE DEF row, there
<1>6. /\ remote' = [g \in HookIds |-> remote'[g]] /\ remote'[h] = there
      /\ \A g \in HookIds \ {h} : remote'[g] = remote[g]
  <2>1. remote = [g \in HookIds |-> remote[g]]
    BY <1>3 DEF RowsHold
  <2>2. remote' = [g \in HookIds |-> IF g = h THEN there ELSE remote[g]]
    BY <1>1, <2>1
  <2>3. QED
    BY <1>3, <2>2
<1>7. RowsHold' /\ PostedStay /\ NonePosted /\ Harmless /\ Unhurt /\ NoneActivated
  <2>1. hooks' = [hooks EXCEPT ![h] = row]
    BY <1>1
  <2>2. remote'[h] = NoRow \/ (remote'[h] \in Registration /\ remote'[h].byHand /\ row.replaces = 0)
    BY <1>4, <1>5, <1>6
  <2>3. QED
    BY <1>3, <1>4, <1>6, <2>1, <2>2, RowAdded
<1>8. \A j \in Callers : Minds(j)'
  BY <1>2, <1>7, WaitingByAnyStage DEF Calm
<1>9. LatestIsSound' /\ OneChanges' /\ ActiveLasts'
  BY <1>2, <1>3, <1>7, LatestStays, ActiveStays DEF OneChanges
<1>10. PostedIsSettled'
  <2>1. ASSUME NEW g \in Ours', Posted(g)', hooks'[g].external = 0
        PROVE  Settling(g)' \/ (hooks'[g].replaces = 0 /\ \E f \in Ours' : hooks'[f].external # 0)
    <3>1. g \in Ours /\ Posted(g) /\ hooks[g].external = 0 /\ hooks'[g].replaces = hooks[g].replaces
      BY <1>7, <2>1 DEF NonePosted, PostedStay
    <3>2. Settling(g) => Settling(g)'
      BY <1>2 DEF Settling, Stage
    <3>3. QED
      BY <1>3, <1>7, <3>1, <3>2 DEF PostedIsSettled, PostedStay
  <2>2. QED
    BY <2>1 DEF PostedIsSettled
<1>11. QED
  BY <1>7, <1>8, <1>9, <1>10 DEF Calm

-------------------------------------------------------------------------------
(* Deliveries.                                                               *)

LEMMA ReceiveCalm ==
  ASSUME Calm, ActingHolds, NEW k \in Callers, NEW h \in HookIds, NEW e \in Events, receive(k, h, e)
  PROVE  Calm' /\ PostedStay
<1>1. /\ acting[k].stage = "idle" /\ hooks' = hooks /\ remote' = remote /\ Delivering(h) /\ h \in Ours
      /\ Becomes(k, [stage |-> "observe", hook |-> h])
  BY DEF receive, Stage, verifyWebhookSignature, verifiableSecrets
<1>2. acting'[k] = [stage |-> "observe", hook |-> h] /\ OthersWait(k)
  BY <1>1, MovesAlone
<1>3. RowsHold' /\ PostedStay /\ NonePosted /\ Harmless /\ Unhurt /\ NoneActivated
  BY <1>1, RowsRest DEF Calm
<1>4. hooks[h].replaces = 0 \/ Posted(h)
  BY <1>1 DEF Calm, RowsHold, Delivering, Posted, Carried
<1>5. h \in Ours' /\ (hooks'[h].replaces = 0 \/ Posted(h)')
  BY <1>1, <1>3, <1>4 DEF PostedStay
<1>6. Minds(k)' /\ acting'[k].stage \notin ChangingStages
  BY <1>2, <1>5 DEF Minds, ChangingStages
<1>7. QED
  BY <1>1, <1>2, <1>3, <1>6, CalmStays

\* What a row replaces was posted before it.
LEMMA ReplacedIsBehind ==
  ASSUME RowsHold, NEW h \in Ours, hooks[h].replaces # 0, Posted(h)
  PROVE  /\ hooks[h].replaces \in Ours /\ Behind(hooks[h].replaces)
         /\ hooks[hooks[h].replaces].external = hooks[h].replaces /\ hooks[h].replaces # h
<1>1. PICK r : r = hooks[h].replaces
  OBVIOUS
<1>2. r \in Ours /\ r < h /\ hooks[r].external # 0
  BY <1>1 DEF RowsHold
<1>3. hooks[r].external = r
  BY <1>2 DEF RowsHold
<1>4. Behind(r)
  BY <1>1, <1>2, WebhooksAssumption DEF Behind, Lasting, Posted, Ours
<1>5. r # h
  BY <1>2, WebhooksAssumption DEF Ours
<1>6. QED
  BY <1>1, <1>2, <1>3, <1>4, <1>5

\* The replacement becomes the active one, unless another is.
LEMMA PromoteCalm ==
  ASSUME Calm, ActingHolds, NEW k \in Callers, NEW deleted \in BOOLEAN, observe(k, deleted), Stage(k, "promote")
  PROVE  Calm' /\ PostedStay
<1>1. PICK h : h = acting[k].hook
  OBVIOUS
<1>2. PICK o : o = hooks[h].replaces
  OBVIOUS
<1>3. acting[k].stage = "promote" /\ acting[k].stage \notin ChangingStages
  BY DEF Stage, ChangingStages
<1>4. RowsHold /\ ActiveLasts /\ h \in Ours /\ h \in HookIds /\ hooks[h].replaces # 0 /\ Posted(h)
  <2>1. RowsHold /\ ActiveLasts /\ h \in Ours /\ hooks[h].replaces # 0 /\ Posted(h)
    BY <1>1, <1>3 DEF Calm, Minds
  <2>2. QED
    BY <2>1 DEF Ours
<1>5. o # 0 /\ o # h /\ o \in Ours /\ o \in HookIds /\ Behind(o) /\ ~Latest(o) /\ hooks[o].external # 0
  <2>1. o # 0 /\ o # h /\ o \in Ours /\ Behind(o) /\ hooks[o].external = o
    BY <1>2, <1>4, ReplacedIsBehind
  <2>2. QED
    BY <2>1, BehindIsNotLatest DEF Ours
<1> DEFINE made == [g \in HookIds |-> IF g = o THEN [hooks[g] EXCEPT !.status = "deleted"]
                                     ELSE IF g = h THEN [hooks[g] EXCEPT !.status = "active"]
                                     ELSE hooks[g]]
<1>6. /\ hooks' = IF OneActive(made) THEN made ELSE hooks
      /\ Becomes(k, IF o = 0 \/ ~OneActive(made) THEN Idle ELSE [stage |-> "retire_old", hook |-> o])
      /\ remote' = remote
  BY <1>1, <1>2, <1>3 DEF observe, Stage, Saves
<1>7. CASE ~OneActive(made)
  <2> HIDE DEF made
  <2>1. acting'[k] = Idle /\ OthersWait(k) /\ hooks' = hooks
    BY <1>6, <1>7, MovesAlone
  <2>2. RowsHold' /\ PostedStay /\ NonePosted /\ Harmless /\ Unhurt /\ NoneActivated
    BY <1>4, <1>6, <2>1, RowsRest
  <2>3. Minds(k)' /\ acting'[k].stage \notin ChangingStages
    BY <2>1, IdleMinds DEF Idle, ChangingStages
  <2>4. QED
    BY <1>3, <2>1, <2>2, <2>3, CalmStays
<1>8. CASE OneActive(made)
  <2>1. \A g \in HookIds : /\ g = o => hooks'[g] = [hooks[g] EXCEPT !.status = "deleted"]
                           /\ g = h => hooks'[g] = [hooks[g] EXCEPT !.status = "active"]
                           /\ g # o /\ g # h => hooks'[g] = hooks[g]
    BY <1>5, <1>6, <1>8
  <2>2. hooks' = [g \in HookIds |-> hooks'[g]] /\ remote' = [g \in HookIds |-> remote'[g]] /\ OneActive(hooks')
    BY <1>4, <1>6, <1>8 DEF RowsHold
  <2> HIDE DEF made
  <2>3. acting'[k] = [stage |-> "retire_old", hook |-> o] /\ OthersWait(k)
    BY <1>5, <1>6, <1>8, MovesAlone
  <2>4. hooks[o] \in webhookRows /\ hooks[h] \in webhookRows
    BY <1>4, <1>5 DEF RowsHold, Ours
  <2>5. /\ hooks'[o] \in webhookRows /\ hooks'[o].external = hooks[o].external
        /\ hooks'[o].replaces = hooks[o].replaces /\ hooks'[o].status = "deleted"
    BY <1>5, <2>1, <2>4 DEF webhookRows
  <2>6. /\ hooks'[h] \in webhookRows /\ hooks'[h].external = hooks[h].external
        /\ hooks'[h].replaces = hooks[h].replaces /\ hooks'[h].status = "active"
        /\ hooks'[h].secret = hooks[h].secret
    BY <1>4, <2>1, <2>4 DEF webhookRows
  <2>7. Revised
    BY <1>4, <1>5, <1>6, <2>1, <2>2, <2>5, <2>6 DEF Revised
  <2>8. RowsHold' /\ PostedStay /\ NonePosted
    BY <1>4, <2>7, RevisedRows
  <2>9. \A g \in Ours : g # o =>
           \/ hooks'[g] = hooks[g]
           \/ hooks'[g].status \in Verified /\ hooks'[g].external = hooks[g].external /\ hooks'[g].secret = hooks[g].secret
    BY <2>1, <2>6 DEF Ours, Verified
  <2>10. Harmless
    BY <1>5, <1>6, <2>9 DEF Harmless, Sound, Delivering
  <2>11. Unhurt
    BY <1>5, <1>6, <2>9 DEF Unhurt, Sound, Delivering
  <2>12. ActiveLasts'
    <3>1. ASSUME NEW g \in Ours', hooks'[g].status = "active" PROVE Lasting(g)'
      <4>1. CASE g = h
        <5>1. Lasting(h)
          BY <1>4 DEF Lasting, Posted
        <5>2. QED
          BY <1>4, <2>8, <4>1, <5>1, LastingStays
      <4>2. CASE g # h
        <5>1. g # o /\ g \in HookIds
          BY <2>5, <3>1 DEF Ours
        <5>2. g \in Ours /\ hooks[g].status = "active"
          BY <2>1, <3>1, <4>2, <5>1 DEF Ours
        <5>3. QED
          BY <1>4, <2>8, <5>2, LastingStays DEF ActiveLasts
      <4>3. QED
        BY <4>1, <4>2
    <3>2. QED
      BY <2>2, <3>1 DEF ActiveLasts
  <2>13. o \in Ours' /\ Behind(o)' /\ hooks'[o].external # 0
    BY <1>5, <2>5, <2>8, LastingStays
  <2>14. Minds(k)' /\ acting'[k].stage \notin ChangingStages
    BY <2>3, <2>13 DEF Minds, ChangingStages
  <2>15. QED
    BY <1>3, <2>3, <2>8, <2>10, <2>11, <2>12, <2>14, CalmStays
<1>9. QED
  BY <1>7, <1>8

LEMMA ObserveCalm ==
  ASSUME Calm, ActingHolds, NEW k \in Callers, NEW deleted \in BOOLEAN, observe(k, deleted)
  PROVE  Calm' /\ PostedStay
<1>1. PICK h : h = acting[k].hook
  OBVIOUS
<1>2. acting[k].stage \in {"observe", "promote", "retire_old"} /\ acting[k].stage # "settle"
  BY DEF observe, Stage
<1>3. RowsHold /\ h \in Ours /\ h \in HookIds /\ hooks[h] \in webhookRows
  <2>1. RowsHold /\ h \in Ours
    BY <1>1, <1>2 DEF Calm, Minds
  <2>2. QED
    BY <2>1 DEF RowsHold, Ours
<1> DEFINE old == hooks[h].replaces
<1>4. acting[k].stage \in {"observe", "promote"} /\ old # 0 =>
        old \in Ours /\ Behind(old) /\ ~Latest(old) /\ hooks[old].external = old /\ old # h
  BY <1>1, <1>3, ReplacedIsBehind, BehindIsNotLatest DEF Calm, Minds
<1>5. CASE acting[k].stage = "observe"
  <2>1. CASE hooks[h].status # "replacing"
    <3>1. Becomes(k, Idle) /\ remote' = remote /\ hooks' = hooks
      BY <1>1, <1>5, <2>1 DEF observe, Stage
    <3>2. acting'[k] = Idle /\ OthersWait(k)
      BY <3>1, MovesAlone
    <3>3. RowsHold' /\ PostedStay /\ NonePosted /\ Harmless /\ Unhurt /\ NoneActivated
      BY <1>3, <3>1, RowsRest
    <3>4. Minds(k)' /\ acting'[k].stage \notin ChangingStages
      BY <3>2, IdleMinds DEF Idle, ChangingStages
    <3>5. QED
      BY <1>2, <3>2, <3>3, <3>4, CalmStays
  <2>2. CASE hooks[h].status = "replacing"
    <3>1. /\ Becomes(k, [stage |-> "promote", hook |-> h]) /\ hooks' = hooks
          /\ remote' = IF old # 0 /\ hooks[old].external # 0 /\ deleted
                         THEN [remote EXCEPT ![hooks[old].external] = NoRow] ELSE remote
      BY <1>1, <1>5, <2>2 DEF observe, Stage
    <3>2. acting'[k] = [stage |-> "promote", hook |-> h] /\ OthersWait(k)
      BY <3>1, MovesAlone
    <3>3. \A g \in HookIds : remote'[g] = remote[g] \/ (g = old /\ old # 0 /\ remote'[g] = NoRow)
      BY <1>3, <1>4, <1>5, <3>1 DEF RowsHold
    <3>4. remote' = [g \in HookIds |-> remote'[g]]
      BY <1>3, <3>1 DEF RowsHold
    <3>5. Revised
      BY <1>3, <1>4, <1>5, <3>1, <3>3, <3>4, WebhooksAssumption DEF Revised, RowsHold
    <3>6. RowsHold' /\ PostedStay /\ NonePosted /\ NoneActivated
      BY <1>3, <3>1, <3>5, RevisedRows DEF NoneActivated
    <3>7. Harmless
      <4>1. \A g \in Ours : hooks[g].external = 0 => remote'[g] = remote[g]
        BY <1>4, <1>5, <3>3 DEF Ours
      <4>2. QED
        BY <3>1, <4>1 DEF Harmless, Sound, Delivering
    <3>8. Unhurt
      BY <1>4, <1>5, <3>1, <3>3 DEF Unhurt, Sound, Delivering, Ours
    <3>9. h \in Ours' /\ (hooks'[h].replaces = 0 \/ Posted(h)')
      BY <1>1, <1>3, <1>5, <3>6 DEF PostedStay, Calm, Minds
    <3>10. Minds(k)' /\ acting'[k].stage \notin ChangingStages
      <4>1. hooks'[h].replaces # 0
        BY <1>3, <2>2, <3>1 DEF RowsHold
      <4>2. QED
        BY <3>2, <3>9, <4>1 DEF Minds, ChangingStages
    <3>11. QED
      BY <1>2, <3>2, <3>6, <3>7, <3>8, <3>10, CalmStays
  <2>3. QED
    BY <2>1, <2>2
<1>6. CASE acting[k].stage = "promote"
  BY <1>6, PromoteCalm DEF Stage
<1>7. CASE acting[k].stage = "retire_old"
  <2> DEFINE row == [hooks[h] EXCEPT !.secret = FALSE]
  <2>1. hooks' = [hooks EXCEPT ![h] = row] /\ Becomes(k, Idle) /\ remote' = remote
    BY <1>1, <1>7 DEF observe, Stage, OtherHookVars
  <2>2. /\ row \in webhookRows /\ row.external = hooks[h].external /\ row.replaces = hooks[h].replaces
        /\ row.status = hooks[h].status
    BY <1>3 DEF webhookRows
  <2>3. acting'[k] = Idle /\ OthersWait(k)
    BY <2>1, MovesAlone
  <2>4. ~Latest(h) /\ hooks[h].external # 0
    BY <1>1, <1>3, <1>7, BehindIsNotLatest DEF Calm, Minds
  <2> HIDE DEF row
  <2>5. RowsHold' /\ PostedStay /\ NonePosted /\ Unhurt /\ Harmless /\ NoneActivated
    BY <1>3, <2>1, <2>2, <2>4, OneRowRevised
  <2>6. Minds(k)' /\ acting'[k].stage \notin ChangingStages
    BY <2>3, IdleMinds DEF Idle, ChangingStages
  <2>7. QED
    BY <1>2, <2>3, <2>5, <2>6, CalmStays
<1>8. QED
  BY <1>2, <1>5, <1>6, <1>7

LEMMA HookCrashCalm ==
  ASSUME Calm, ActingHolds, NEW k \in Callers, HookCrash(k), ~excused'
  PROVE  Calm' /\ PostedStay
<1>1. hooks' = hooks /\ remote' = remote /\ Becomes(k, Idle) /\ acting[k].stage # "settle"
  BY DEF HookCrash, Crash
<1>2. acting'[k] = Idle /\ OthersWait(k)
  BY <1>1, MovesAlone
<1>3. RowsHold' /\ PostedStay /\ NonePosted /\ Harmless /\ Unhurt /\ NoneActivated
  BY <1>1, RowsRest DEF Calm
<1>4. Minds(k)' /\ acting'[k].stage \notin ChangingStages
  BY <1>2, IdleMinds DEF Idle, ChangingStages
<1>5. QED
  BY <1>1, <1>2, <1>3, <1>4, CalmStays

LEMMA CreateHookCalm ==
  ASSUME Calm, ActingHolds, NEW k \in Callers, ~excused',
         NEW answer \in {"none", "created", "lost", "refused"}, createHook(k, answer)
  PROVE  Calm' /\ PostedStay
<1>1. \/ Stage(k, "insert") /\ answer = "none"
      \/ Stage(k, "put_secret") /\ answer = "none"
      \/ Stage(k, "post")
      \/ Stage(k, "settle") /\ answer = "none"
  BY DEF createHook
<1>2. QED
  BY <1>1, InsertCalm, PutSecretCalm, PostCalm, SettleCalm

\* As long as nobody changed a registration at the store, no answer was lost, no two requests
\* that change registrations overlapped and nobody disconnects the store, what lasted latest
\* is heard.
HookInv ==
  /\ tampered \in Nat
  /\ scene # "webhooks" => Ours = {}
  /\ scene = "webhooks" /\ tampered = 0 /\ ~excused /\ ~overlapped => Calm

LEMMA HookStepCalm ==
  ASSUME HookInv, ActingHolds, HookNext
  PROVE  /\ tampered' \in Nat /\ scene' = scene /\ scene = "webhooks"
         /\ tampered' = 0 /\ ~excused' /\ ~overlapped' =>
              tampered = 0 /\ ~excused /\ ~overlapped /\ Calm /\ Calm' /\ PostedStay
<1>1. scene = "webhooks" /\ tampered \in Nat
  BY DEF HookNext, HookInv
<1>2. CASE \E k \in Callers : HookCrash(k)
  <2>1. UNCHANGED <<scene, tampered, overlapped>> /\ (excused => excused')
    BY <1>2 DEF HookCrash, Crash
  <2>2. QED
    BY <1>1, <1>2, <2>1, HookCrashCalm DEF HookInv
<1>3. CASE \E k \in Callers, answer \in {"none", "created", "lost", "refused"} : createHook(k, answer)
  <2>1. UNCHANGED <<scene, tampered, overlapped>> /\ (excused => excused')
    <3>1. ASSUME NEW k \in Callers, NEW answer, createHook(k, answer)
          PROVE  UNCHANGED <<scene, tampered, overlapped>> /\ (excused' = excused \/ excused' = (excused \/ answer = "lost"))
      BY <3>1, Zenon DEF createHook, hookVars, OtherHookVars
    <3>2. QED
      BY <1>3, <3>1
  <2>2. QED
    BY <1>1, <1>3, <2>1, CreateHookCalm DEF HookInv
<1>9. CASE \E k \in Callers, who \in Managers : reconcile(k, who) \/ rotate(k, who)
  <2>1. UNCHANGED <<scene, tampered, excused>> /\ (overlapped => overlapped')
    BY <1>9 DEF reconcile, rotate, BeginsToChange
  <2>2. Calm /\ ~overlapped' => Calm' /\ PostedStay
    BY <1>9, ReconcileCalm, RotateCalm
  <2>3. QED
    BY <1>1, <2>1, <2>2 DEF HookInv
<1>4. CASE \/ \E k \in Callers : reconcileTopic(k) \/ retireHook(k)
           \/ \E k \in Callers, ok \in BOOLEAN : repair(k, ok) \/ observe(k, ok)
           \/ prepareManual
           \/ \E k \in Callers, h \in HookIds, e \in Events : receive(k, h, e)
  <2>1. UNCHANGED <<scene, tampered, excused, overlapped>>
    BY <1>4 DEF reconcileTopic, retireHook, repair, observe, prepareManual, receive, hookVars,
                OtherHookVars
  <2>2. Calm => Calm' /\ PostedStay
    BY <1>4, ReconcileTopicCalm, RetireHookCalm, RepairCalm, ObserveCalm, ManualCalm,
       ReceiveCalm
  <2>3. QED
    BY <1>1, <2>1, <2>2 DEF HookInv
<1>5. CASE \E h \in HookIds : StoreChanges(h)
  <2>1. scene' = scene /\ tampered' = tampered + 1
    BY <1>5 DEF StoreChanges, OtherHookVars
  <2>2. QED
    BY <1>1, <2>1
<1>6. CASE \E k \in Callers, who \in Managers : HookDisconnect(k, who)
  BY <1>1, <1>6 DEF HookDisconnect, disconnectConnectionAction
<1>7. CASE \/ \E k \in Callers, deleted \in BOOLEAN : remove(k, deleted) /\ UNCHANGED hookVars
           \/ \E k \in Callers : disconnect(k) /\ UNCHANGED hookVars
  <2>1. UNCHANGED <<scene, tampered, excused, overlapped>>
    BY <1>7 DEF remove, disconnect, hookVars, OtherConnVars
  <2>2. ~Calm
    BY <1>7 DEF remove, disconnect, Stage, Calm, Minds
  <2>3. QED
    BY <1>1, <2>1, <2>2 DEF HookInv
<1>10. QED
  BY <1>2, <1>3, <1>4, <1>5, <1>6, <1>7, <1>9, Zenon DEF HookNext

LEMMA HookInvPreserved ==
  ASSUME HookInv, ActingHolds, [IntegrationsNext]_integrationVars
  PROVE  HookInv'
<1>1. CASE HookNext
  BY <1>1, HookStepCalm DEF HookInv
<1>2. CASE Elsewhere /\ UNCHANGED hookVars
  BY <1>2 DEF Elsewhere, HookInv, hookVars, Ours
<1>3. CASE UNCHANGED <<connVars, hookVars>>
  <2>1. UNCHANGED <<hooks, remote, acting, scene, tampered, excused, overlapped>>
    BY <1>3 DEF connVars, hookVars
  <2>2. Calm => Calm'
    <3>1. (RowsHold => RowsHold') /\ (OneChanges => OneChanges')
      BY <2>1 DEF RowsHold, OneChanges, Ours
    <3>2. PostedIsSettled => PostedIsSettled'
      BY <2>1 DEF PostedIsSettled, Settling, Posted, Carried, Ours, Stage
    <3>3. \A k \in Callers : Minds(k) => Minds(k)'
      BY <2>1 DEF Minds, Sound, Behind, Lasting, Posted, Carried, Ours, Delivering
    <3>4. (LatestIsSound => LatestIsSound') /\ (ActiveLasts => ActiveLasts')
      BY <2>1 DEF LatestIsSound, Latest, Sound, Lasting, Carried, Ours, Delivering, ActiveLasts, OneActive
    <3>5. QED
      BY <3>1, <3>2, <3>3, <3>4 DEF Calm
  <2>3. QED
    BY <2>1, <2>2 DEF HookInv, Ours
<1>4. QED
  BY <1>1, <1>2, <1>3, OneOfTheScenes DEF integrationVars

LEMMA HookInvInitially == IntegrationsInit => HookInv
<1> SUFFICES ASSUME IntegrationsInit PROVE HookInv
  OBVIOUS
<1>1. /\ hooks = [h \in HookIds |-> NoRow] /\ remote = [h \in HookIds |-> NoRow]
      /\ acting = [k \in Callers |-> Idle] /\ tampered = 0
  BY DEF IntegrationsInit, ConnInit, HookInit
<1>2. Ours = {}
  BY <1>1 DEF Ours
<1>3. RowsHold /\ PostedIsSettled /\ LatestIsSound /\ ActiveLasts
  BY <1>1, <1>2 DEF RowsHold, PostedIsSettled, LatestIsSound, ActiveLasts, OneActive, NoRow
<1>4. OneChanges /\ \A k \in Callers : Minds(k)
  BY <1>1 DEF OneChanges, ChangingStages, Minds, Idle
<1>5. QED
  BY <1>1, <1>2, <1>3, <1>4 DEF HookInv, Calm

LEMMA HookInvAlways == IntegrationsSpec => [](HookInv /\ Inv)
<1>1. HookInv /\ Inv /\ [IntegrationsNext]_integrationVars => HookInv' /\ Inv'
  BY HookInvPreserved, InvPreserved DEF Inv, TokenInv
<1>2. QED
  BY <1>1, HookInvInitially, InvInitially, PTL DEF IntegrationsSpec

-------------------------------------------------------------------------------
(* Pages.                                                                    *)

Imported == {"import", "import_orders"}

\* A page reaches from the cursor to the end of the page or of what is listed, whichever
\* comes first.
LEMMA PageReaches ==
  ASSUME NEW S, listing \in Seq(S), NEW from \in Nat
  PROVE  \E m \in 0..Len(listing) :
           /\ m = from + PageSize \/ (m < from + PageSize /\ m = Listed)
           /\ m <= Listed
           /\ Len(Page(from)) = IF from < m THEN m - from ELSE 0
           /\ \A i \in (from + 1)..m : listing[i] \in Entries(Page(from))
<1>1. Listed \in 0..Len(listing)
  <2> DEFINE T == {i \in DOMAIN listing : PlacedBy(listing[i], clock)}
  <2>1. DOMAIN listing = 1..Len(listing) /\ Len(listing) \in Nat
    OBVIOUS
  <2>2. IsFiniteSet(1..Len(listing)) /\ Cardinality(1..Len(listing)) = Len(listing)
    BY <2>1, FS_Interval
  <2>3. T \subseteq 1..Len(listing)
    BY <2>1
  <2> HIDE DEF T
  <2>4. Cardinality(T) \in Nat /\ Cardinality(T) <= Cardinality(1..Len(listing))
    BY <2>2, <2>3, FS_Subset, FS_CardinalityType
  <2>5. QED
    BY <2>1, <2>2, <2>4 DEF Listed, T
<1>2. PageSize \in Nat \ {0}
  BY ImportsAssumption
<1> DEFINE m == Min({from + PageSize, Listed})
<1>3. m \in {from + PageSize, Listed} /\ m <= from + PageSize /\ m <= Listed
  <2>1. \E x \in {from + PageSize, Listed} : \A y \in {from + PageSize, Listed} : x =< y
    BY <1>1, <1>2
  <2>2. QED
    BY <2>1 DEF Min
<1> HIDE DEF m
<1>4. m \in 0..Len(listing)
  BY <1>1, <1>2, <1>3
<1>5. Page(from) = SubSeq(listing, from + 1, m)
  BY DEF Page, m
<1>6. Len(Page(from)) = IF from < m THEN m - from ELSE 0
  BY <1>4, <1>5
<1>7. ASSUME NEW i \in (from + 1)..m PROVE listing[i] \in Entries(Page(from))
  <2>1. i - from \in DOMAIN Page(from) /\ Page(from)[i - from] = listing[i]
    BY <1>4, <1>5, <1>6, <1>7
  <2>2. QED
    BY <2>1 DEF Entries
<1>8. QED
  BY <1>1, <1>2, <1>3, <1>4, <1>6, <1>7

\* The records of a page contain one for every entry up to the next cursor that can be named.
Reads(page, cursor) ==
  \A i \in (Before(cursor) + 1)..Before(page.next) :
    listing[i].id # "none" => \E r \in page.records : r.id = listing[i].id

LEMMA OffsetReads ==
  ASSUME NEW S, listing \in Seq(S), NEW c \in Nat, NEW f \in BOOLEAN,
         stream \in {"ebay_inventory", "ebay_locations", "ebay_orders"}
  PROVE  fetchPage(c, f).next \in Nat /\ Reads(fetchPage(c, f), c)
<1>1. PICK m \in 0..Len(listing) :
           /\ m = c + PageSize \/ (m < c + PageSize /\ m = Listed)
           /\ m <= Listed
           /\ Len(Page(c)) = IF c < m THEN m - c ELSE 0
           /\ \A i \in (c + 1)..m : listing[i] \in Entries(Page(c))
  BY PageReaches
<1>2. /\ fetchPage(c, f).next \in {0, c + Len(Page(c))}
      /\ \A e \in Entries(Page(c)) : e.id # "none" => \E r \in fetchPage(c, f).records : r.id = e.id
  <2>1. CASE stream = "ebay_inventory"
    <3>1. fetchPage(c, f) = inventoryStream(c, f)
      BY <2>1 DEF fetchPage
    <3>2. inventoryStream(c, f).next \in {0, c + Len(Page(c))}
      BY DEF inventoryStream, OffsetPage, readOffset
    <3>3. ASSUME NEW e \in Entries(Page(c)), e.id # "none"
          PROVE  \E r \in fetchPage(c, f).records : r.id = e.id
      <4> DEFINE both(x) == mapInventoryItem(x) \cup
                   (IF f /\ mapInventoryItem(x) # {} THEN UNION {mapOffer(o) : o \in x.offers} ELSE {})
      <4>1. inventoryStream(c, f).records = UNION {both(x) : x \in Entries(Page(c))}
        BY DEF inventoryStream, OffsetPage, readOffset
      <4>2. Item(e.id, TRUE) \in both(e)
        BY <3>3 DEF mapInventoryItem, Named
      <4> HIDE DEF both
      <4>3. Item(e.id, TRUE) \in fetchPage(c, f).records
        BY <3>1, <4>1, <4>2
      <4>4. Item(e.id, TRUE).id = e.id
        BY DEF Item
      <4>5. QED
        BY <4>3, <4>4
    <3>4. QED
      BY <3>1, <3>2, <3>3
  <2>2. CASE stream = "ebay_locations"
    <3>1. fetchPage(c, f) = locationStream(c)
      BY <2>2 DEF fetchPage
    <3>2. locationStream(c).next \in {0, c + Len(Page(c))}
      BY DEF locationStream, OffsetPage, readOffset
    <3>3. ASSUME NEW e \in Entries(Page(c)), e.id # "none"
          PROVE  \E r \in fetchPage(c, f).records : r.id = e.id
      <4> DEFINE rec == [id |-> e.id, enabled |-> e.status # "DISABLED"]
      <4>1. rec \in fetchPage(c, f).records
        BY <3>1, <3>3 DEF locationStream, OffsetPage, readOffset, mapLocation, Named
      <4>2. rec.id = e.id
        OBVIOUS
      <4> HIDE DEF rec
      <4>3. QED
        BY <4>1, <4>2
    <3>4. QED
      BY <3>1, <3>2, <3>3
  <2>3. CASE stream = "ebay_orders"
    <3>1. fetchPage(c, f) = ebayOrderStream(c)
      BY <2>3 DEF fetchPage
    <3>2. ebayOrderStream(c).next \in {0, c + Len(Page(c))}
      BY DEF ebayOrderStream, OffsetPage, readOffset
    <3>3. ASSUME NEW e \in Entries(Page(c)), e.id # "none"
          PROVE  \E r \in fetchPage(c, f).records : r.id = e.id
      <4> DEFINE rec == [id |-> e.id, placed |-> e.placed, buyer |-> e.buyer,
                     lines |-> UNION {mapOrderLine(l) : l \in e.lines}]
      <4>1. rec \in fetchPage(c, f).records
        <5>1. ebayOrderStream(c).records = UNION {mapOrder(x) : x \in Entries(Page(c))}
          BY DEF ebayOrderStream, OffsetPage, readOffset
        <5>2. rec \in mapOrder(e)
          BY <3>3 DEF mapOrder, Named
        <5>3. QED
          BY <3>1, <5>1, <5>2
      <4>2. rec.id = e.id
        OBVIOUS
      <4> HIDE DEF rec
      <4>3. QED
        BY <4>1, <4>2
    <3>4. QED
      BY <3>1, <3>2, <3>3
  <2>4. QED
    BY <2>1, <2>2, <2>3
<1>3. \A n : Before(n) = n
  BY DEF Before, Numbered, readOffset
<1>4. QED
  BY <1>1, <1>2, <1>3 DEF Reads

LEMMA NumberedReads ==
  ASSUME NEW S, listing \in Seq(S), NEW c \in Nat, NEW f \in BOOLEAN,
         stream \in {"woocommerce_products", "woocommerce_orders"}
  PROVE  fetchPage(c, f).next \in Nat /\ Reads(fetchPage(c, f), c)
<1> DEFINE p == readPage(c)
           from == (p - 1) * PageSize
<1>1. p \in Nat \ {0} /\ PageSize \in Nat \ {0}
  BY ImportsAssumption DEF readPage
<1>2. from \in Nat /\ p * PageSize = from + PageSize
  BY <1>1
<1>3. /\ fetchPage(c, f).next \in {0, p + 1}
      /\ fetchPage(c, f).next # 0 => p * PageSize < Listed
      /\ \A e \in Entries(Page(from)) : e.id # "none" => \E r \in fetchPage(c, f).records : r.id = e.id
  <2>1. CASE stream = "woocommerce_products"
    <3>1. fetchPage(c, f) = productStream(c, f)
      BY <2>1 DEF fetchPage
    <3>2. productStream(c, f).next = IF p * PageSize < Listed THEN p + 1 ELSE 0
      BY DEF productStream, NumberedPage
    <3>3. ASSUME NEW e \in Entries(Page(from)), e.id # "none"
          PROVE  \E r \in fetchPage(c, f).records : r.id = e.id
      <4> DEFINE both(x) == mapProduct(x) \cup
                   (IF f /\ mapProduct(x) # {} /\ x.type = "variable"
                      THEN UNION {mapVariation(v, x) : v \in x.variations} ELSE {})
                 rec == Item(e.id, ~productIneligibility(e.type, e.manages))
      <4>1. productStream(c, f).records = UNION {both(x) : x \in Entries(Page(from))}
        BY DEF productStream, NumberedPage
      <4>2. rec \in both(e)
        BY <3>3 DEF mapProduct, Named
      <4>3. rec.id = e.id
        BY DEF Item
      <4> HIDE DEF both, rec
      <4>4. QED
        BY <3>1, <4>1, <4>2, <4>3
    <3>4. QED
      BY <3>1, <3>2, <3>3
  <2>2. CASE stream = "woocommerce_orders"
    <3>1. fetchPage(c, f) = wooOrderStream(c)
      BY <2>2 DEF fetchPage
    <3>2. wooOrderStream(c).next = IF p * PageSize < Listed THEN p + 1 ELSE 0
      BY DEF wooOrderStream, NumberedPage
    <3>3. ASSUME NEW e \in Entries(Page(from)), e.id # "none"
          PROVE  \E r \in fetchPage(c, f).records : r.id = e.id
      <4> DEFINE rec == [id |-> e.id, placed |-> e.placed, buyer |-> e.buyer,
                     lines |-> UNION {mapOrderLine(l) : l \in e.lines}]
      <4>1. rec \in fetchPage(c, f).records
        <5>1. wooOrderStream(c).records = UNION {mapOrder(x) : x \in Entries(Page(from))}
          BY DEF wooOrderStream, NumberedPage
        <5>2. rec \in mapOrder(e)
          BY <3>3 DEF mapOrder, Named
        <5>3. QED
          BY <3>1, <5>1, <5>2
      <4>2. rec.id = e.id
        OBVIOUS
      <4> HIDE DEF rec
      <4>3. QED
        BY <4>1, <4>2
    <3>4. QED
      BY <3>1, <3>2, <3>3
  <2>3. QED
    BY <2>1, <2>2
<1>4. Before(c) = from /\ Before(0) = 0 /\ Before(p + 1) = p * PageSize
  BY <1>1 DEF Before, Numbered, readPage
<1> HIDE DEF from
<1>5. PICK m \in 0..Len(listing) :
           /\ m = from + PageSize \/ (m < from + PageSize /\ m = Listed)
           /\ m <= Listed
           /\ Len(Page(from)) = IF from < m THEN m - from ELSE 0
           /\ \A i \in (from + 1)..m : listing[i] \in Entries(Page(from))
  BY <1>2, PageReaches
<1>6. CASE fetchPage(c, f).next = 0
  BY <1>2, <1>4, <1>6 DEF Reads
<1>7. CASE fetchPage(c, f).next # 0
  <2>1. fetchPage(c, f).next = p + 1 /\ Before(fetchPage(c, f).next) = from + PageSize
    BY <1>2, <1>3, <1>4, <1>7
  <2>2. m = from + PageSize
    BY <1>1, <1>2, <1>3, <1>5, <1>7
  <2>3. QED
    BY <1>1, <1>3, <1>4, <1>5, <2>1, <2>2 DEF Reads
<1>8. QED
  BY <1>6, <1>7

-------------------------------------------------------------------------------
(* Written ground.                                                           *)

ReadingStages == {"fetch", "write", "sweep", "finish", "save"}

\* The listing an import has been reading since it began, for the streams that write what
\* they list.
Followed == scene \in Imported /\ Static /\ stream \notin {"ebay_policies", "woocommerce_refunds"}

\* What a caller has fetched and not written.
InHand(x) == IF x.stage = "write" THEN {r.id : r \in x.records} ELSE {}
Covers(cursor, ids) == \A i \in 1..Before(cursor) : listing[i].id # "none" => listing[i].id \in ids
Reader(x) ==
  x.stage \in ReadingStages =>
    /\ "cursor" \in DOMAIN x
    /\ x.cursor \in Nat
    /\ Covers(x.cursor, DOMAIN rows \cup InHand(x))

\* The saved cursor has written ground behind it, and so has the cursor every run goes by,
\* with what it is about to write.
CursorInv ==
  /\ scene \in Imported => stream \in ImportStreams /\ cursors = [s \in {"catalog"} |-> cursors["catalog"]]
  /\ Followed => /\ cursors["catalog"] \in Nat
                 /\ Covers(cursors["catalog"], DOMAIN rows)
                 /\ \A k \in Callers : Reader(acting[k])

LEMMA CoversMore ==
  ASSUME NEW c, NEW A, NEW B, Covers(c, A), A \subseteq B
  PROVE  Covers(c, B)
BY DEF Covers

LEMMA BeforeIsNat == ASSUME NEW c \in Nat PROVE Before(c) \in Nat
<1>1. PageSize \in Nat /\ readPage(c) - 1 \in Nat
  BY ImportsAssumption DEF readPage
<1>2. \A m, n \in Nat : m * n \in Nat
  OBVIOUS
<1>3. QED
  BY <1>1, <1>2 DEF Before, readOffset

LEMMA NoneCovered == ASSUME stream \in ImportStreams, NEW A PROVE Covers(0, A)
<1>1. Before(0) = 0
  BY ImportsAssumption DEF Before, readPage, readOffset
<1>2. QED
  BY <1>1 DEF Covers

\* A caller moves on and what others go by stays: rows are only added.
LEMMA ReaderMoves ==
  ASSUME CursorInv, ActingHolds, NEW k \in Callers, NEW x, Becomes(k, x),
         UNCHANGED <<scene, stream, listing, cursors>>, DOMAIN rows \subseteq DOMAIN rows',
         Followed /\ x.stage \in ReadingStages =>
            /\ "cursor" \in DOMAIN x /\ x.cursor \in Nat
            /\ Covers(x.cursor, DOMAIN rows' \cup InHand(x))
  PROVE  CursorInv'
<1>1. acting' = [j \in Callers |-> IF j = k THEN x ELSE acting[j]]
  BY DEF ActingHolds, Becomes
<1>2. Followed' = Followed
  BY DEF Followed, Static
<1>3. SUFFICES ASSUME Followed
               PROVE  /\ cursors["catalog"] \in Nat
                      /\ Covers(cursors["catalog"], DOMAIN rows')
                      /\ \A j \in Callers : acting'[j].stage \in ReadingStages =>
                           /\ "cursor" \in DOMAIN acting'[j] /\ acting'[j].cursor \in Nat
                           /\ Covers(acting'[j].cursor, DOMAIN rows' \cup InHand(acting'[j]))
  BY <1>2 DEF CursorInv, Reader, Covers, Before, readPage, readOffset, Numbered, InHand
<1>4. Covers(cursors["catalog"], DOMAIN rows')
  BY <1>3, CoversMore DEF CursorInv
<1>5. ASSUME NEW j \in Callers, j # k, acting'[j].stage \in ReadingStages
      PROVE  /\ "cursor" \in DOMAIN acting'[j] /\ acting'[j].cursor \in Nat
             /\ Covers(acting'[j].cursor, DOMAIN rows' \cup InHand(acting'[j]))
  <2>1. acting'[j] = acting[j] /\ Reader(acting[j])
    BY <1>1, <1>3, <1>5 DEF CursorInv
  <2>2. DOMAIN rows \cup InHand(acting[j]) \subseteq DOMAIN rows' \cup InHand(acting[j])
    OBVIOUS
  <2>3. QED
    BY <1>5, <2>1, <2>2, CoversMore DEF Reader
<1>6. acting'[k] = x
  BY <1>1
<1>7. QED
  BY <1>3, <1>4, <1>5, <1>6 DEF CursorInv

\* Nobody reads who was not reading.
LEMMA ReadersStay ==
  ASSUME CursorInv, UNCHANGED <<scene, stream, listing, cursors, rows>>,
         \A k \in Callers : acting'[k] = acting[k] \/ acting'[k].stage \notin ReadingStages
  PROVE  CursorInv'
<1>1. Followed' = Followed
  BY DEF Followed, Static
<1>2. SUFFICES ASSUME Followed, NEW k \in Callers, acting'[k].stage \in ReadingStages
               PROVE  "cursor" \in DOMAIN acting'[k] /\ acting'[k].cursor \in Nat
                      /\ Covers(acting'[k].cursor, DOMAIN rows \cup InHand(acting'[k]))
  BY <1>1 DEF CursorInv, Reader, Covers, Before, readPage, readOffset, Numbered, InHand
<1>3. acting'[k] = acting[k] /\ Reader(acting[k])
  BY <1>2 DEF CursorInv
<1>4. QED
  BY <1>2, <1>3 DEF Reader

LEMMA ClaimKeeps ==
  ASSUME CursorInv, ActingHolds, NEW k \in Callers, NEW f \in BOOLEAN, claim(k, f), scene \in Imported
  PROVE  CursorInv'
<1> DEFINE x(r) == [stage |-> "fetch", run |-> r, pages |-> 0, now |-> clock,
                    cursor |-> IF f THEN 0 ELSE cursors["catalog"]]
<1>1. PICK r \in RunIds : Becomes(k, x(r))
  BY DEF claim
<1>2. "cursor" \in DOMAIN x(r) /\ x(r).cursor \in {0, cursors["catalog"]} /\ InHand(x(r)) = {}
  BY DEF InHand
<1> HIDE DEF x
<1>3. UNCHANGED <<scene, stream, listing, cursors, rows>>
  BY DEF claim, OtherConnVars
<1>4. Followed => x(r).cursor \in Nat /\ Covers(x(r).cursor, DOMAIN rows' \cup InHand(x(r)))
  BY <1>2, <1>3, NoneCovered DEF CursorInv
<1>5. QED
  BY <1>1, <1>2, <1>3, <1>4, ReaderMoves

\* A page is fetched, or ends the run where the last one left it.
LEMMA FetchKeeps ==
  ASSUME CursorInv, ActingHolds, NEW k \in Callers, NEW f \in BOOLEAN, fetch(k, f), scene \in Imported
  PROVE  CursorInv'
<1> DEFINE page == fetchPage(acting[k].cursor, f)
           c == acting[k].cursor
           x == [stage |-> "write", run |-> acting[k].run, pages |-> acting[k].pages + 1,
                 now |-> acting[k].now, records |-> page.records, cursor |-> page.next]
<1>1. UNCHANGED <<scene, stream, listing, cursors, rows>>
  BY DEF fetch, importVars, OtherConnVars
<1>2. \/ Becomes(k, x)
      \/ Becomes(k, Ending(k, "completed", c, FALSE))
      \/ Becomes(k, Ending(k, "failed", c, FALSE))
  BY DEF fetch
<1>3. Followed => c \in Nat /\ Covers(c, DOMAIN rows)
  BY DEF CursorInv, Reader, ReadingStages, InHand, fetch, Stage
<1>4. CASE Becomes(k, x)
  <2>1. "cursor" \in DOMAIN x /\ x.cursor = page.next /\ InHand(x) = {r.id : r \in page.records}
    BY DEF InHand
  <2>2. ASSUME Followed PROVE x.cursor \in Nat /\ Covers(x.cursor, DOMAIN rows \cup InHand(x))
    <3>1. listing \in Seq(Range(listing)) /\ stream \in ImportStreams
      BY <2>2, ImportsAssumption DEF Followed, Static, CursorInv
    <3>2. page.next \in Nat /\ Reads(page, c)
      <4>1. CASE stream \in {"ebay_inventory", "ebay_locations", "ebay_orders"}
        BY <1>3, <2>2, <3>1, <4>1, OffsetReads
      <4>2. CASE stream \in {"woocommerce_products", "woocommerce_orders"}
        BY <1>3, <2>2, <3>1, <4>2, NumberedReads
      <4>3. \/ stream \in {"ebay_inventory", "ebay_locations", "ebay_orders"}
            \/ stream \in {"woocommerce_products", "woocommerce_orders"}
        BY <2>2, <3>1 DEF Followed, ImportStreams
      <4>4. QED
        BY <4>1, <4>2, <4>3
    <3> HIDE DEF page, x
    <3>3. Before(c) \in Nat /\ Before(page.next) \in Nat
      BY <1>3, <2>2, <3>2, BeforeIsNat
    <3>4. ASSUME NEW i \in 1..Before(page.next), listing[i].id # "none"
          PROVE  listing[i].id \in DOMAIN rows \cup {r.id : r \in page.records}
      <4>1. CASE i <= Before(c)
        BY <1>3, <2>2, <3>3, <3>4, <4>1 DEF Covers
      <4>2. CASE i > Before(c)
        BY <3>2, <3>3, <3>4, <4>2 DEF Reads
      <4>3. QED
        BY <3>3, <4>1, <4>2
    <3>5. QED
      BY <2>1, <3>2, <3>4 DEF Covers
  <2> HIDE DEF x
  <2>3. QED
    BY <1>1, <1>4, <2>1, <2>2, ReaderMoves
<1>5. ASSUME NEW status, Becomes(k, Ending(k, status, c, FALSE)) PROVE CursorInv'
  <2> DEFINE y == Ending(k, status, c, FALSE)
  <2>1. "cursor" \in DOMAIN y /\ y.cursor = c /\ InHand(y) = {}
    BY DEF InHand, Ending
  <2> HIDE DEF y, c
  <2>2. Followed => y.cursor \in Nat /\ Covers(y.cursor, DOMAIN rows' \cup InHand(y))
    BY <1>1, <1>3, <2>1
  <2>3. Becomes(k, y)
    BY <1>5 DEF y, c
  <2>4. QED
    BY <1>1, <2>1, <2>2, <2>3, ReaderMoves
<1>6. QED
  BY <1>2, <1>4, <1>5

\* Writing adds the rows of the page.
LEMMA WriteKeeps ==
  ASSUME CursorInv, ActingHolds, NEW k \in Callers, write(k), scene \in Imported
  PROVE  CursorInv'
<1> DEFINE x == [stage |-> IF acting[k].cursor = 0 THEN "sweep" ELSE "fetch", run |-> acting[k].run,
                 pages |-> acting[k].pages, now |-> acting[k].now, cursor |-> acting[k].cursor]
<1>1. UNCHANGED <<scene, stream, listing, cursors>> /\ Becomes(k, x)
  BY DEF write, OtherConnVars
<1>2. DOMAIN rows' = DOMAIN rows \cup {r.id : r \in acting[k].records}
  <2>1. CASE stream \in {"ebay_orders", "woocommerce_orders"}
    BY <2>1 DEF write, writeOrders, Merged
  <2>2. CASE stream = "woocommerce_refunds"
    BY <2>2 DEF write, writeRefunds, Merged
  <2>3. CASE stream \notin {"ebay_orders", "woocommerce_orders", "woocommerce_refunds"}
    BY <2>3 DEF write, writeItems, Merged
  <2>4. QED
    BY <2>1, <2>2, <2>3
<1>3. "cursor" \in DOMAIN x /\ x.cursor = acting[k].cursor /\ InHand(x) = {}
  BY DEF InHand
<1>4. Followed => x.cursor \in Nat /\ Covers(x.cursor, DOMAIN rows' \cup InHand(x))
  <2>1. acting[k].stage = "write"
    BY DEF write, Stage
  <2> HIDE DEF x
  <2>2. QED
    BY <1>2, <1>3, <2>1 DEF CursorInv, Reader, ReadingStages, InHand
<1> HIDE DEF x
<1>5. QED
  BY <1>1, <1>2, <1>3, <1>4, ReaderMoves

LEMMA SweepKeeps ==
  ASSUME CursorInv, ActingHolds, NEW k \in Callers, sweep(k), scene \in Imported
  PROVE  CursorInv'
<1> DEFINE x == Ending(k, "completed", 0, TRUE)
<1>1. UNCHANGED <<scene, stream, listing, cursors>> /\ Becomes(k, x)
  BY DEF sweep, OtherConnVars
<1>2. DOMAIN rows' = DOMAIN rows
  BY DEF sweep, sweepItems
<1>3. "cursor" \in DOMAIN x /\ x.cursor = 0 /\ InHand(x) = {}
  BY DEF InHand, Ending
<1> HIDE DEF x
<1>4. Covers(x.cursor, DOMAIN rows' \cup InHand(x))
  BY <1>3, NoneCovered DEF CursorInv
<1>5. QED
  BY <1>1, <1>2, <1>3, <1>4, ReaderMoves

LEMMA FinishKeeps ==
  ASSUME CursorInv, ActingHolds, NEW k \in Callers, finish(k), scene \in Imported
  PROVE  CursorInv'
<1> DEFINE x == [acting[k] EXCEPT !.stage = "save"]
<1>1. UNCHANGED <<scene, stream, listing, cursors, rows>> /\ Becomes(k, x) /\ acting[k].stage = "finish"
  BY DEF finish, OtherConnVars, Stage
<1>2. ASSUME Followed PROVE "cursor" \in DOMAIN x /\ x.cursor \in Nat /\ Covers(x.cursor, DOMAIN rows' \cup InHand(x))
  <2>1. Reader(acting[k])
    BY <1>2 DEF CursorInv
  <2>2. "cursor" \in DOMAIN acting[k] /\ acting[k].cursor \in Nat /\ Covers(acting[k].cursor, DOMAIN rows)
    BY <1>1, <2>1 DEF Reader, ReadingStages, InHand
  <2>3. "cursor" \in DOMAIN x /\ x.cursor = acting[k].cursor
    BY <2>2
  <2> HIDE DEF x
  <2>4. QED
    BY <1>1, <2>2, <2>3, CoversMore
<1> HIDE DEF x
<1>3. QED
  BY <1>1, <1>2, ReaderMoves

LEMMA SaveKeeps ==
  ASSUME CursorInv, ActingHolds, NEW k \in Callers, saveCursor(k), scene \in Imported
  PROVE  CursorInv'
<1>1. /\ UNCHANGED <<scene, stream, listing, rows>> /\ Becomes(k, Idle) /\ acting[k].stage = "save"
      /\ cursors' = [cursors EXCEPT !["catalog"] = acting[k].cursor]
  BY DEF saveCursor, importVars, Stage
<1>2. cursors' = [s \in {"catalog"} |-> acting[k].cursor]
  BY <1>1 DEF CursorInv
<1>3. acting' = [j \in Callers |-> IF j = k THEN Idle ELSE acting[j]]
  BY <1>1 DEF ActingHolds, Becomes
<1>4. Followed' = Followed
  BY <1>1 DEF Followed, Static
<1>5. SUFFICES ASSUME Followed
               PROVE  /\ acting[k].cursor \in Nat /\ Covers(acting[k].cursor, DOMAIN rows)
                      /\ \A j \in Callers : acting'[j].stage \in ReadingStages => Reader(acting[j]) /\ acting'[j] = acting[j]
  <2>1. cursors'["catalog"] = acting[k].cursor
    BY <1>2
  <2>2. Covers(acting[k].cursor, DOMAIN rows) => Covers(cursors["catalog"], DOMAIN rows)'
    BY <1>1, <2>1 DEF Covers, Before, readPage, readOffset, Numbered
  <2>3. \A j \in Callers : Reader(acting[j]) /\ acting'[j] = acting[j] => Reader(acting[j])'
    BY <1>1 DEF Reader, Covers, Before, readPage, readOffset, Numbered, InHand
  <2>4. \A j \in Callers : acting'[j].stage \notin ReadingStages => Reader(acting[j])'
    BY DEF Reader
  <2>5. QED
    BY <1>1, <1>2, <1>4, <2>1, <2>2, <2>3, <2>4 DEF CursorInv
<1>6. Reader(acting[k])
  BY <1>5 DEF CursorInv
<1>7. acting[k].cursor \in Nat /\ Covers(acting[k].cursor, DOMAIN rows)
  BY <1>1, <1>6 DEF Reader, ReadingStages, InHand
<1>8. QED
  BY <1>3, <1>5, <1>7 DEF CursorInv, ReadingStages, Idle

\* A listing that loses an entry is not what it was.
LEMMA RemovalShows ==
  ASSUME CursorInv, EntryRemoved, scene \in Imported
  PROVE  CursorInv'
<1>1. listing \in Seq(Range(listing)) /\ listing = Catalogues[stream]
  BY ImportsAssumption DEF EntryRemoved, Static, CursorInv
<1>2. UNCHANGED <<scene, stream, cursors>>
  BY DEF EntryRemoved, connVars
<1>3. PICK i \in DOMAIN listing : listing' = SubSeq(listing, 1, i - 1) \o SubSeq(listing, i + 1, Len(listing))
  BY DEF EntryRemoved
<1>4. i \in 1..Len(listing) /\ Len(listing) \in Nat
  BY <1>1, <1>3
<1>5. Len(listing') = Len(listing) - 1
  <2> DEFINE a == SubSeq(listing, 1, i - 1)
             b == SubSeq(listing, i + 1, Len(listing))
  <2>1. a \in Seq(Range(listing)) /\ Len(a) = i - 1
    BY <1>1, <1>4
  <2>2. b \in Seq(Range(listing)) /\ Len(b) = Len(listing) - i
    BY <1>1, <1>4
  <2> HIDE DEF a, b
  <2>3. \A S, u, v : u \in Seq(S) /\ v \in Seq(S) => Len(u \o v) = Len(u) + Len(v)
    OBVIOUS
  <2>4. Len(a \o b) = Len(a) + Len(b)
    BY <2>1, <2>2, <2>3
  <2>5. listing' = a \o b
    BY <1>3 DEF a, b
  <2>6. (i - 1) + (Len(listing) - i) = Len(listing) - 1
    BY <1>4
  <2>7. QED
    BY <2>1, <2>2, <2>4, <2>5, <2>6
<1>6. ~Static'
  BY <1>1, <1>2, <1>4, <1>5 DEF Static
<1>7. QED
  BY <1>2, <1>6 DEF CursorInv, Followed

LEMMA AdoptKeeps ==
  ASSUME CursorInv, ActingHolds, NEW k \in Callers, UNCHANGED <<stream, listing, rows>>,
         adopt(k) \/ \E who \in Managers, a \in Accounts : connectStoreManuallyAction(k, who, a)
  PROVE  CursorInv'
<1>1. CASE adopt(k)
  <2> DEFINE y(p) == [acting[k] EXCEPT !.stage = "store_key", !.permissions = p]
             z(stage) == [acting[k] EXCEPT !.stage = stage]
  <2>1. \/ \E p : Becomes(k, y(p))
        \/ \E stage \in {"store_secret", "activate"} : Becomes(k, z(stage))
        \/ Becomes(k, Idle)
    <3>1. ASSUME NEW proved, NEW writes,
                 Becomes(k, IF ~proved THEN Idle
                            ELSE [acting[k] EXCEPT !.stage = "store_key",
                                    !.permissions = IF @ = "unknown" THEN probePermissions(writes) ELSE @])
          PROVE  Becomes(k, Idle) \/ \E p : Becomes(k, y(p))
      BY <3>1
    <3>2. QED
      BY <1>1, <3>1 DEF adopt
  <2>2. "stage" \in DOMAIN acting[k]
    BY DEF ActingHolds, Carries
  <2>3. \A p, stage : y(p).stage = "store_key" /\ z(stage).stage = stage
    BY <2>2
  <2> HIDE DEF y, z
  <2>4. UNCHANGED <<scene, cursors>>
    BY <1>1 DEF adopt, OtherConnVars
  <2>5. ASSUME NEW x, Becomes(k, x), x.stage \notin ReadingStages PROVE CursorInv'
    BY <2>4, <2>5, ReaderMoves
  <2>6. QED
    BY <2>1, <2>3, <2>5 DEF ReadingStages, Idle
<1>2. CASE \E who \in Managers, a \in Accounts : connectStoreManuallyAction(k, who, a)
  <2>1. \E x : Becomes(k, x) /\ x.stage \notin ReadingStages
    <3>1. PICK a : \E c : Becomes(k, [stage |-> "prove", conn |-> c, now |-> clock, permissions |-> "unknown",
                                     created |-> liveConnection(a.name) = {}])
      BY <1>2 DEF connectStoreManuallyAction
    <3>2. \A x : x.stage = "prove" => x.stage \notin ReadingStages
      BY DEF ReadingStages
    <3>3. QED
      BY <3>1, <3>2
  <2>2. UNCHANGED <<scene, cursors>>
    BY <1>2 DEF connectStoreManuallyAction
  <2>3. QED
    BY <2>1, <2>2, ReaderMoves
<1>3. QED
  BY <1>1, <1>2

LEMMA CursorInvPreserved ==
  ASSUME CursorInv, HookInv, ActingHolds, [IntegrationsNext]_integrationVars
  PROVE  CursorInv'
<1>1. CASE ImportNext
  <2> USE <1>1
  <2>1. scene \in Imported
    BY DEF ImportNext, Imported
  <2>2. CASE \E k \in Callers, f \in BOOLEAN : claim(k, f) \/ fetch(k, f)
    BY <2>1, <2>2, ClaimKeeps, FetchKeeps
  <2>3. CASE \E k \in Callers : write(k) \/ sweep(k) \/ finish(k) \/ saveCursor(k)
    BY <2>1, <2>3, WriteKeeps, SweepKeeps, FinishKeeps, SaveKeeps
  <2>4. CASE EntryRemoved
    BY <2>1, <2>4, RemovalShows
  <2>5. CASE (\E r \in RunIds : reclaimAbandonedRuns(r)) \/ Tick
    BY <2>5, ReadersStay DEF reclaimAbandonedRuns, Tick, connVars, importVars
  <2>6. CASE \E k \in Callers : Crash(k) /\ UNCHANGED importVars
    BY <2>6, ReaderMoves DEF Crash, importVars, Idle, ReadingStages
  <2>7. CASE /\ \E k \in Callers : \/ \E who \in Managers, a \in Accounts : connectStoreManuallyAction(k, who, a)
                                  \/ adopt(k)
             /\ UNCHANGED importVars
    BY <2>7, AdoptKeeps DEF importVars
  <2>8. QED
    BY <2>2, <2>3, <2>4, <2>5, <2>6, <2>7, Zenon DEF ImportNext
<1>2. CASE ConnNext \/ NoteNext \/ StandNext
  <2>1. scene \notin Imported
    BY <1>2 DEF ConnNext, EbayStep, TokenStep, StoreStep, ConnStep, NoteNext, ErasureStep, IntakeStep, DestinationStep,
                TopicStep, StandNext, ReadyStep, HealthStep, HopStep, Imported
  <2>2. scene' = scene
    BY <1>2, ConnectionsElsewhere, NotesElsewhere, StandingElsewhere DEF Elsewhere
  <2>3. QED
    BY <2>1, <2>2 DEF CursorInv, Followed
<1>3. CASE HookNext
  BY <1>3, HookStepCalm DEF CursorInv, Followed, Imported
<1>4. CASE UNCHANGED integrationVars
  BY <1>4, ReadersStay DEF integrationVars, connVars, importVars
<1>5. QED
  BY <1>1, <1>2, <1>3, <1>4 DEF IntegrationsNext

LEMMA CursorInvInitially == IntegrationsInit => CursorInv
<1> SUFFICES ASSUME IntegrationsInit PROVE CursorInv
  OBVIOUS
<1>1. /\ cursors = [s \in {"catalog"} |-> 0] /\ acting = [k \in Callers |-> Idle]
      /\ stream \in DOMAIN Catalogues \cup {"woocommerce_orders"}
  BY DEF IntegrationsInit, ConnInit, ImportInit
<1>2. stream \in ImportStreams
  BY <1>1, ImportsAssumption DEF ImportStreams
<1>3. Covers(cursors["catalog"], DOMAIN rows)
  BY <1>1, <1>2, NoneCovered
<1>4. \A k \in Callers : Reader(acting[k])
  BY <1>1 DEF Reader, ReadingStages, Idle
<1>5. QED
  BY <1>1, <1>2, <1>3, <1>4 DEF CursorInv

-------------------------------------------------------------------------------
\* A state is exchanged for at most one sign-in, however many callbacks carry it at once and
\* however many sign-ins begin and die meanwhile (consume, authorizations.ts).
THEOREM AuthorizationIsSpentOnce == IntegrationsSpec => []AuthorizationSpentOnce
<1>1. Inv => AuthorizationSpentOnce
  BY DEF Inv, AuthInv, AuthorizationSpentOnce
<1>2. QED
  BY <1>1, InvAlways, PTL

\* A refresh nobody forced never replaces a usable token that another refresh stored: who
\* waited for the lock looks again, and nobody else refreshes while it is held (accessToken,
\* credentials.ts).
THEOREM RefreshStaysShared == IntegrationsSpec => RefreshIsShared
<1> DEFINE Shared ==
      \A k \in Callers :
        Stage(k, "store_access") /\ acting[k].by = "refresh" /\ acting'[k] # acting[k] /\ crashes' = crashes
          => LET old == secrets[acting[k].conn]["ebay_access_token"]
             IN  ~(old # NoSecret /\ old.usable /\ old.by = "refresh")
<1>1. Inv => [Shared]_connVars
  BY DEF Inv, TokenInv, LooksAgain, Refreshing, Refreshed, Stage
<1>2. QED
  BY <1>1, InvAlways, PTL DEF RefreshIsShared

\* A deletion request recorded as completed means that every business that held orders of
\* the buyer when it was taken up, and has imported none since, has erased them: whatever
\* failed, died, was retried or delivered again, two passes at once included (erase, deletion.ts).
THEOREM RecordedErasureStaysTrue == IntegrationsSpec => []RecordedErasureIsTrue
<1>1. Inv => RecordedErasureIsTrue
  BY DEF Inv, ErasureInv
<1>2. QED
  BY <1>1, InvAlways, PTL

\* Once a registration brings the topic's events here, rotations, reconciliations, deliveries
\* and requests that die never leave a moment in which none does, for any number of callers
\* and registrations, unless somebody changes one at the store, the store's answer to a
\* registration is lost, the store is being disconnected, or two requests that change
\* registrations overlap, which no lock keeps them from (rotate and observe, registration.ts).
THEOREM OverlapNeverFallsSilent == IntegrationsSpec => OverlapNeverSilences
<1> DEFINE Silenced == Heard => Heard' \/ tampered' > 0 \/ excused' \/ overlapped'
<1>1. ASSUME HookInv, Inv, [IntegrationsNext]_integrationVars PROVE [Silenced]_<<connVars, hookVars>>
  <2>1. ActingHolds
    BY <1>1 DEF Inv, TokenInv
  <2>2. CASE HookNext
    <3>1. SUFFICES ASSUME Heard, ~(tampered' > 0), ~excused', ~overlapped' PROVE Heard'
      OBVIOUS
    <3>2. Calm /\ Calm' /\ PostedStay
      BY <1>1, <2>1, <2>2, <3>1, HookStepCalm
    <3>3. PICK h \in Ours : Carried(h)
      BY <3>1 DEF Heard, Delivering, Carried
    <3>4. h \in Ours' /\ Posted(h)'
      BY <3>2, <3>3 DEF PostedStay, Posted
    <3>5. \E g \in Ours' : Sound(g)'
      <4>1. CASE \E g \in Ours' : Lasting(g)'
        BY <3>2, <4>1 DEF Calm, LatestIsSound
      <4>2. CASE ~ \E g \in Ours' : Lasting(g)'
        <5>1. Settling(h)'
          BY <3>2, <3>4, <4>2 DEF Calm, PostedIsSettled, Lasting
        <5>2. Sound(h)'
          BY <3>2, <5>1 DEF Settling, Calm, Minds, Stage
        <5>3. QED
          BY <3>4, <5>2
      <4>3. QED
        BY <4>1, <4>2
    <3>6. QED
      BY <3>5 DEF Heard, Sound, Verified, verifyWebhookSignature, verifiableSecrets
  <2>3. CASE Elsewhere
    BY <1>1, <2>3 DEF Elsewhere, HookInv, Heard
  <2>4. QED
    BY <1>1, <2>2, <2>3, OneOfTheScenes DEF integrationVars
<1> HIDE DEF Silenced
<1>2. HookInv /\ Inv /\ [IntegrationsNext]_integrationVars => [Silenced]_<<connVars, hookVars>>
  BY <1>1
<1>3. IntegrationsSpec => [][Silenced]_<<connVars, hookVars>>
  BY <1>2, HookInvAlways, PTL DEF IntegrationsSpec
<1>4. QED
  BY <1>3 DEF OverlapNeverSilences, Silenced

\* Whatever failed, died, was given up or resumed, and however many runs followed one
\* another, a saved cursor has every entry before it written, as long as the provider's
\* listing stands still: for any number of callers, runs, entries and any size of page
\* (run, imports/runner.ts).
THEOREM CursorsCoverGround == IntegrationsSpec => []CursorCoversWrittenGround
<1>1. CursorInv => CursorCoversWrittenGround
  BY DEF CursorInv, CursorCoversWrittenGround, Followed, Imported, Covers
<1>2. CursorInv /\ HookInv /\ Inv /\ [IntegrationsNext]_integrationVars => CursorInv'
  BY CursorInvPreserved DEF Inv, TokenInv
<1>3. QED
  BY <1>1, <1>2, CursorInvInitially, HookInvAlways, PTL DEF IntegrationsSpec

================================================================================
