------------------------------ MODULE Connections ------------------------------
(***************************************************************************)
(* A business's connections to eBay sellers and WooCommerce stores         *)
(* (packages/integrations): authorization states, credentials, signing in, *)
(* refreshing, pausing and disconnecting, as the web application's         *)
(* connection actions and callback routes call them.  A request is a       *)
(* sequence of statements and calls, each a step of its caller, and may    *)
(* die between two of them.                                                *)
(***************************************************************************)
EXTENDS Authz, Naturals, FiniteSets

CONSTANTS
    Callers,      \* requests under way at once
    Managers,     \* who sends them: [subject, recent]
    ConnIds,      \* identifiers of connections, used in order
    AuthIds,      \* identifiers of authorizations, used in order
    Accounts,     \* sellers and stores: [provider, name]
    Grants,       \* scopes an eBay consent may grant
    HookIds,      \* identifiers of provider_webhooks, used in order
    MaxClock,     \* bound on the clock
    MaxCrashes,   \* bound on requests that die
    MaxBegun,     \* bound on the requests begun at the connections page, for each scene
    Scenes,       \* what a behaviour looks at
    Connected     \* the connection a scene begins with, if it begins with one

VARIABLES
    scene,    \* the part of the integrations this behaviour looks at
    conns,    \* connections and connection_scopes
    secrets,  \* connection_secrets not retired, of the types without a scope
    auths,    \* connection_authorizations
    acting,   \* what each caller is doing
    hooks,    \* provider_webhooks, with the webhook_secret of each
    remote,   \* webhooks registered at the store
    cursors,  \* connection_cursors
    clock, crashes, begun,
    spent     \* how often each authorization was exchanged for a sign-in

connVars == <<scene, conns, secrets, auths, acting, hooks, remote, cursors, clock, crashes, begun, spent>>

Idle == [stage |-> "idle"]
NoRow == [status |-> "none"]
NoSecret == [of |-> "none"]

connections == [provider : {"ebay", "woocommerce"}, account : {a.name : a \in Accounts},
                status : {"pending", "active", "paused", "disconnected"},
                connected : BOOLEAN, activatedAt : 0..MaxClock, scopes : SUBSET UNION Grants]
connectionSecretTypes == {"ebay_refresh_token", "ebay_access_token",
                          "woocommerce_consumer_key", "woocommerce_consumer_secret"}
connectionSecrets == [of : {a.name : a \in Accounts}, usable : BOOLEAN,
                      by : {"sign_in", "refresh", "forced"}]
connectionAuthorizations == [provider : {"ebay", "woocommerce"}, conn : ConnIds \cup {0},
                             status : {"pending", "consumed", "deleted"}, expired : BOOLEAN]
webhookRows == [topic : {"order.updated"}, status : {"pending", "active", "replacing", "paused", "failed", "deleted"},
                external : HookIds \cup {0}, secret : BOOLEAN, replaces : HookIds \cup {0}]

Exists(c) == conns[c] # NoRow
Live(c) == Exists(c) /\ conns[c].status # "disconnected"
NextConn == {c \in ConnIds : ~Exists(c) /\ \A d \in ConnIds : d < c => Exists(d)}
NextAuth == {a \in AuthIds : auths[a] = NoRow /\ \A b \in AuthIds : b < a => auths[b] # NoRow}
Stage(k, s) == acting[k].stage = s
Becomes(k, doing) == acting' = [acting EXCEPT ![k] = doing]
OtherConnVars == <<scene, hooks, remote, cursors, clock, crashes, begun>>

-------------------------------------------------------------------------------
\* Who may change a connection: a member with the permission who signed in lately.
requireIntegrationManagement(who) ==
    authorize(who.subject, "manage_integrations", AnyTarget) /\ who.recent

\* A request of the connections page begins.
Begins(k, who) ==
    /\ Stage(k, "idle")
    /\ requireIntegrationManagement(who)
    /\ begun < MaxBegun[scene]
    /\ begun' = begun + 1

-------------------------------------------------------------------------------
\* What was granted.
CAPABILITY_SCOPES ==
    [import_catalog |-> {"sell.inventory.readonly"}, import_orders |-> {"sell.fulfillment.readonly"},
     import_policies |-> {"sell.account.readonly"}, identify_seller |-> {"commerce.identity.readonly"},
     write_quantities |-> {"sell.inventory"}, write_fulfillments |-> {"sell.fulfillment"}]

isExcluded(scope) == scope \in {"sell.marketing", "sell.finances"}
parseGrantedScopes(answer) == {s \in answer : ~isExcluded(s)}

supports(granted, capability) == CAPABILITY_SCOPES[capability] \subseteq granted

compareScopes(previous, current) ==
    {k \in DOMAIN CAPABILITY_SCOPES : supports(previous, k) /\ ~supports(current, k)}

CAPABILITY_PERMISSIONS ==
    [import_catalog |-> {"read", "read_write"}, import_orders |-> {"read", "read_write"},
     import_refunds |-> {"read", "read_write"}, manage_webhooks |-> {"read_write"},
     write_quantities |-> {"read_write"}, publish_products |-> {"read_write"},
     change_prices |-> {"read_write"}]

capabilitiesFor(permissions) ==
    {k \in DOMAIN CAPABILITY_PERMISSIONS : permissions \in CAPABILITY_PERMISSIONS[k]}

\* A key whose permissions the store does not name is taken for one that may only read.
readPermissions(value) == IF value \in {"read_write", "write"} THEN value ELSE "read"

-------------------------------------------------------------------------------
\* Authorization states.  Beginning one deletes the open ones of the same provider.
beginAuthorization(provider, c) ==
    \E a \in NextAuth :
       auths' = [b \in AuthIds |->
          IF b = a THEN [provider |-> provider, conn |-> c, status |-> "pending", expired |-> FALSE]
          ELSE IF auths[b] # NoRow /\ auths[b].provider = provider /\ auths[b].status = "pending"
            THEN [auths[b] EXCEPT !.status = "deleted"]
          ELSE auths[b]]

\* A callback with the state of a reads the row and then spends it, where nobody has.
consume(k, a, provider) ==
    /\ Stage(k, "idle")
    /\ auths[a] # NoRow /\ auths[a].provider = provider
    /\ auths[a].status = "pending" /\ ~auths[a].expired
    /\ Becomes(k, [stage |-> "spend", auth |-> a, now |-> clock])
    /\ UNCHANGED <<conns, secrets, auths, spent, OtherConnVars>>

spend_Unguarded(k) ==
    /\ Stage(k, "spend")
    /\ LET a == acting[k].auth
       IN  /\ auths' = [auths EXCEPT ![a].status = "consumed"]
           /\ spent' = [spent EXCEPT ![a] = @ + 1]
           /\ Becomes(k, [acting[k] EXCEPT !.stage = "exchange"])
    /\ UNCHANGED <<conns, secrets, OtherConnVars>>

spend(k) ==
    /\ Stage(k, "spend")
    /\ LET a == acting[k].auth
       IN  IF auths[a].status = "pending"
             THEN /\ auths' = [auths EXCEPT ![a].status = "consumed"]
                  /\ spent' = [spent EXCEPT ![a] = @ + 1]
                  /\ Becomes(k, [acting[k] EXCEPT !.stage = "exchange"])
             ELSE Becomes(k, Idle) /\ UNCHANGED <<auths, spent>>
    /\ UNCHANGED <<conns, secrets, OtherConnVars>>

\* A quarter of an hour passes; states nobody used are pruned.
AuthorizationExpires(a) ==
    /\ auths[a] # NoRow /\ auths[a].status = "pending" /\ ~auths[a].expired
    /\ auths' = [auths EXCEPT ![a].expired = TRUE]
    /\ UNCHANGED <<conns, secrets, acting, spent, OtherConnVars>>

pruneExpired(a) ==
    /\ auths[a] # NoRow /\ auths[a].status = "pending" /\ auths[a].expired
    /\ auths' = [auths EXCEPT ![a].status = "deleted"]
    /\ UNCHANGED <<conns, secrets, acting, spent, OtherConnVars>>

-------------------------------------------------------------------------------
\* Credentials.  put retires the one there was and stores the new one.
put(c, type, secret) == secrets' = [secrets EXCEPT ![c][type] = secret]
retire(c, type) == secrets' = [secrets EXCEPT ![c][type] = NoSecret]
Secret(name, by) == [of |-> name, usable |-> TRUE, by |-> by]

usableAccessToken(c) ==
    secrets[c]["ebay_access_token"] # NoSecret /\ secrets[c]["ebay_access_token"].usable

\* Two hours pass.
TokenLapses(c) ==
    /\ usableAccessToken(c)
    /\ secrets' = [secrets EXCEPT ![c]["ebay_access_token"].usable = FALSE]
    /\ UNCHANGED <<conns, auths, acting, spent, OtherConnVars>>

\* The token set of an exchange is stored by two statements.
storeTokens(k) ==
    \/ /\ Stage(k, "store_access")
       /\ put(acting[k].conn, "ebay_access_token", Secret(acting[k].name, acting[k].by))
       /\ Becomes(k, IF acting[k].withRefresh THEN [acting[k] EXCEPT !.stage = "store_refresh"] ELSE Idle)
       /\ UNCHANGED <<conns, auths, spent, OtherConnVars>>
    \/ /\ Stage(k, "store_refresh")
       /\ put(acting[k].conn, "ebay_refresh_token", Secret(acting[k].name, acting[k].by))
       /\ Becomes(k, Idle)
       /\ UNCHANGED <<conns, auths, spent, OtherConnVars>>

-------------------------------------------------------------------------------
\* eBay: signing in.
connectEbayAction(k, who, c) ==
    /\ Begins(k, who)
    /\ beginAuthorization("ebay", c)
    /\ UNCHANGED <<scene, conns, secrets, acting, hooks, remote, cursors, clock, crashes, spent>>

\* The code is exchanged, the seller identified, and one connection of that seller read,
\* whichever the database returns; it counts if it is not disconnected.  A sign-in that was
\* to renew a connection and is not for that one ends.
completeEbay(k, account, answer) ==
    /\ Stage(k, "exchange") /\ auths[acting[k].auth].provider = "ebay"
    /\ account.provider = "ebay"
    /\ LET mine == {c \in ConnIds : Exists(c) /\ conns[c].account = account.name}
           asked == auths[acting[k].auth].conn
       IN  \E found \in IF mine = {} THEN {0} ELSE mine :
             LET live == IF found # 0 /\ Live(found) THEN found ELSE 0
                 granted == parseGrantedScopes(answer)
                 before == IF live = 0 THEN {} ELSE conns[live].scopes
             IN  Becomes(k, IF asked # 0 /\ live # asked THEN Idle
                            ELSE [stage |-> "record", conn |-> live, name |-> account.name,
                                  granted |-> granted,
                                  impaired |-> compareScopes(before, granted)])
    /\ UNCHANGED <<conns, secrets, auths, spent, OtherConnVars>>

\* One connection that is not disconnected per account is a unique index: meeting it raises.
Fits(c, row) == \A d \in ConnIds \ {c} : Live(d) => conns[d].account # row.account

completeConnection(k) ==
    /\ Stage(k, "record")
    /\ LET new == [provider |-> "ebay", account |-> acting[k].name, status |-> "active",
                   connected |-> TRUE, activatedAt |-> 0, scopes |-> acting[k].granted]
       IN  \E c \in IF acting[k].conn = 0 THEN NextConn ELSE {acting[k].conn} :
             LET row == IF acting[k].conn = 0 THEN new
                        ELSE [conns[c] EXCEPT !.status = IF acting[k].impaired = {} THEN "active" ELSE "paused",
                                              !.scopes = acting[k].granted]
             IN  IF Fits(c, row)
                   THEN /\ conns' = [conns EXCEPT ![c] = row]
                        /\ \E both \in BOOLEAN :
                              Becomes(k, [stage |-> "store_access", conn |-> c, name |-> acting[k].name,
                                          by |-> "sign_in", withRefresh |-> both])
                   ELSE Becomes(k, Idle) /\ UNCHANGED conns
    /\ UNCHANGED <<secrets, auths, spent, OtherConnVars>>

-------------------------------------------------------------------------------
\* eBay: an access token for a call.  A caller that finds no usable one takes the
\* connection's advisory lock, looks again, and exchanges the refresh token while it holds
\* the lock; the lock goes with the transaction.
Holds(k, c) == acting[k].stage \in {"refresh", "store_access", "store_refresh", "revoke_refresh", "pause"}
               /\ acting[k].conn = c /\ "by" \in DOMAIN acting[k] /\ acting[k].by # "sign_in"

accessToken(k, c, force) ==
    /\ Stage(k, "idle")
    /\ Exists(c) /\ conns[c].provider = "ebay"
    /\ force \/ ~usableAccessToken(c)
    /\ Becomes(k, [stage |-> "lock", conn |-> c, by |-> IF force THEN "forced" ELSE "refresh"])
    /\ UNCHANGED <<conns, secrets, auths, spent, OtherConnVars>>

lockRefresh_Trusting(k) ==
    /\ Stage(k, "lock")
    /\ LET c == acting[k].conn
       IN  /\ \A j \in Callers : ~Holds(j, c)
           /\ Becomes(k, IF secrets[c]["ebay_refresh_token"] = NoSecret
                           THEN Idle
                           ELSE [stage |-> "refresh", conn |-> c, by |-> acting[k].by,
                                 name |-> secrets[c]["ebay_refresh_token"].of])
    /\ UNCHANGED <<conns, secrets, auths, spent, OtherConnVars>>

lockRefresh(k) ==
    /\ Stage(k, "lock")
    /\ LET c == acting[k].conn
       IN  /\ \A j \in Callers : ~Holds(j, c)
           /\ Becomes(k, IF \/ acting[k].by = "refresh" /\ usableAccessToken(c)
                            \/ secrets[c]["ebay_refresh_token"] = NoSecret
                           THEN Idle
                           ELSE [stage |-> "refresh", conn |-> c, by |-> acting[k].by,
                                 name |-> secrets[c]["ebay_refresh_token"].of])
    /\ UNCHANGED <<conns, secrets, auths, spent, OtherConnVars>>

\* The token endpoint answers, with a new refresh token or without; it refuses the grant;
\* or the call fails and nothing changes.
exchange(k, answer) ==
    /\ Stage(k, "refresh")
    /\ \/ /\ answer \in {"tokens", "access_only"}
          /\ Becomes(k, [stage |-> "store_access", conn |-> acting[k].conn, by |-> acting[k].by,
                         name |-> acting[k].name, withRefresh |-> answer = "tokens"])
          /\ UNCHANGED secrets
       \/ /\ answer = "invalid_grant"
          /\ Becomes(k, [acting[k] EXCEPT !.stage = "revoke_refresh"])
          /\ retire(acting[k].conn, "ebay_access_token")
       \/ answer = "failed" /\ Becomes(k, Idle) /\ UNCHANGED secrets
    /\ UNCHANGED <<conns, auths, spent, OtherConnVars>>

\* Both tokens are retired and the connection paused, whatever it has become.
pauseForRevocation(k) ==
    \/ /\ Stage(k, "revoke_refresh")
       /\ retire(acting[k].conn, "ebay_refresh_token")
       /\ Becomes(k, [acting[k] EXCEPT !.stage = "pause"])
       /\ UNCHANGED <<conns, auths, spent, OtherConnVars>>
    \/ /\ Stage(k, "pause")
       /\ conns' = IF Fits(acting[k].conn, conns[acting[k].conn])
                     THEN [conns EXCEPT ![acting[k].conn].status = "paused"] ELSE conns
       /\ Becomes(k, Idle)
       /\ UNCHANGED <<secrets, auths, spent, OtherConnVars>>

-------------------------------------------------------------------------------
\* WooCommerce: connecting a store.
liveConnection(name) == {c \in ConnIds : Live(c) /\ conns[c].account = name}

createPending(c, name) ==
    conns' = [conns EXCEPT ![c] = [provider |-> "woocommerce", account |-> name, status |-> "pending",
                                   connected |-> FALSE, activatedAt |-> 0, scopes |-> {}]]

\* The row comes first, and the authorization that names it with it.
connectStoreAction(k, who, account, asked) ==
    /\ Begins(k, who)
    /\ account.provider = "woocommerce"
    /\ \/ \E c \in liveConnection(account.name) :
             c = asked /\ beginAuthorization("woocommerce", c) /\ UNCHANGED conns
       \/ /\ liveConnection(account.name) = {}
          /\ \E c \in NextConn : createPending(c, account.name) /\ beginAuthorization("woocommerce", c)
    /\ UNCHANGED <<scene, secrets, acting, hooks, remote, cursors, clock, crashes, spent>>

\* The store posts a key to the callback.  The row is taken whatever its status; it was
\* created by this sign-in if it never was connected.
completeStore(k, permissions) ==
    /\ Stage(k, "exchange") /\ auths[acting[k].auth].provider = "woocommerce"
    /\ LET c == auths[acting[k].auth].conn
       IN  Becomes(k, [stage |-> "prove", conn |-> c, now |-> acting[k].now,
                       permissions |-> readPermissions(permissions),
                       created |-> conns[c].status = "pending" /\ ~conns[c].connected])
    /\ UNCHANGED <<conns, secrets, auths, spent, OtherConnVars>>

\* A key typed in by hand; what it may do is found out by a call.
connectStoreManuallyAction(k, who, account) ==
    /\ Begins(k, who)
    /\ account.provider = "woocommerce"
    /\ LET live == liveConnection(account.name)
           doing(c) == [stage |-> "prove", conn |-> c, now |-> clock, permissions |-> "unknown",
                        created |-> live = {}]
       IN  \/ \E c \in live : Becomes(k, doing(c)) /\ UNCHANGED conns
           \/ live = {} /\ \E c \in NextConn : createPending(c, account.name) /\ Becomes(k, doing(c))
    /\ UNCHANGED <<scene, secrets, auths, hooks, remote, cursors, clock, crashes, spent>>

probePermissions(answered) == IF answered THEN "read_write" ELSE "read"

\* The key must read a product before anything is stored; then the key, its secret and the
\* row are written by three statements.
adopt(k) ==
    LET c == acting[k].conn
    IN  \/ /\ Stage(k, "prove")
           /\ \E proved, writes \in BOOLEAN :
                 Becomes(k, IF ~proved THEN Idle
                            ELSE [acting[k] EXCEPT !.stage = "store_key",
                                    !.permissions = IF @ = "unknown" THEN probePermissions(writes) ELSE @])
           /\ UNCHANGED <<conns, secrets, auths, spent, OtherConnVars>>
        \/ /\ Stage(k, "store_key")
           /\ put(c, "woocommerce_consumer_key", Secret(conns[c].account, "sign_in"))
           /\ Becomes(k, [acting[k] EXCEPT !.stage = "store_secret"])
           /\ UNCHANGED <<conns, auths, spent, OtherConnVars>>
        \/ /\ Stage(k, "store_secret")
           /\ put(c, "woocommerce_consumer_secret", Secret(conns[c].account, "sign_in"))
           /\ Becomes(k, [acting[k] EXCEPT !.stage = "activate"])
           /\ UNCHANGED <<conns, auths, spent, OtherConnVars>>
        \/ /\ Stage(k, "activate")
           /\ conns' = IF ~Fits(c, conns[c]) THEN conns
                       ELSE [conns EXCEPT ![c] = [@ EXCEPT
                               !.status = "active", !.connected = TRUE,
                               !.scopes = {acting[k].permissions},
                               !.activatedAt = IF acting[k].created THEN acting[k].now ELSE @]]
           /\ Becomes(k, Idle)
           /\ UNCHANGED <<secrets, auths, spent, OtherConnVars>>

-------------------------------------------------------------------------------
\* Pausing and disconnecting.
setConnectionPausedAction(k, who, c, pause) ==
    /\ Begins(k, who)
    /\ Live(c)
    /\ conns' = [conns EXCEPT ![c].status = IF pause THEN "paused" ELSE "active"]
    /\ UNCHANGED <<scene, secrets, auths, acting, hooks, remote, cursors, clock, crashes, spent>>

LiveHooks == {h \in HookIds : hooks[h] # NoRow /\ hooks[h].status # "deleted"}
deleteAtStore(h) == remote' = [remote EXCEPT ![h] = NoRow]

disconnectConnectionAction(k, who, c) ==
    /\ Begins(k, who)
    /\ Exists(c)
    /\ Becomes(k, [stage |-> "unhook", conn |-> c,
                   rows |-> IF conns[c].provider = "woocommerce" THEN LiveHooks ELSE {}])
    /\ UNCHANGED <<scene, conns, secrets, auths, hooks, remote, cursors, clock, crashes, spent>>

\* Each registration is taken from the store, which may fail, and given up here.
remove(k, deleted) ==
    /\ Stage(k, "unhook") /\ acting[k].rows # {}
    /\ \E h \in acting[k].rows :
          /\ IF deleted /\ hooks[h].external # 0
               THEN deleteAtStore(hooks[h].external) ELSE UNCHANGED remote
          /\ hooks' = [hooks EXCEPT ![h].status = "deleted", ![h].secret = FALSE]
          /\ Becomes(k, [acting[k] EXCEPT !.rows = @ \ {h}])
    /\ UNCHANGED <<scene, conns, secrets, auths, cursors, clock, crashes, begun, spent>>

\* The credentials there are now are listed and retired one by one; then the cursors go and
\* the row is disconnected.
disconnect(k) ==
    LET c == acting[k].conn
    IN  \/ /\ Stage(k, "unhook") /\ acting[k].rows = {}
           /\ Becomes(k, [stage |-> "discard", conn |-> c,
                          types |-> {t \in connectionSecretTypes : secrets[c][t] # NoSecret}])
           /\ UNCHANGED <<conns, secrets, auths, spent, OtherConnVars>>
        \/ /\ Stage(k, "discard")
           /\ \E t \in acting[k].types :
                 retire(c, t) /\ Becomes(k, [acting[k] EXCEPT !.types = @ \ {t}])
           /\ UNCHANGED <<conns, auths, spent, OtherConnVars>>
        \/ /\ Stage(k, "discard") /\ acting[k].types = {}
           /\ cursors' = [s \in DOMAIN cursors |-> 0]
           /\ conns' = [conns EXCEPT ![c].status = "disconnected"]
           /\ Becomes(k, Idle)
           /\ UNCHANGED <<scene, secrets, auths, hooks, remote, clock, crashes, begun, spent>>

\* A request dies between two statements.
Crash(k) ==
    /\ ~Stage(k, "idle")
    /\ crashes < MaxCrashes
    /\ crashes' = crashes + 1
    /\ Becomes(k, Idle)
    /\ UNCHANGED <<scene, conns, secrets, auths, hooks, remote, cursors, clock, begun, spent>>

-------------------------------------------------------------------------------
EbayStep ==
    /\ scene \in {"ebay", "tokens"}
    /\ \/ \E k \in Callers, who \in Managers : \E c \in {0} \cup {d \in ConnIds : Exists(d)} :
             connectEbayAction(k, who, c)
       \/ \E k \in Callers, a \in AuthIds : consume(k, a, "ebay")
       \/ \E k \in Callers, account \in Accounts, g \in Grants : completeEbay(k, account, g)
       \/ \E k \in Callers : spend(k) \/ completeConnection(k) \/ storeTokens(k)

TokenStep ==
    /\ scene = "tokens"
    /\ \/ \E k \in Callers, c \in ConnIds, force \in BOOLEAN : accessToken(k, c, force)
       \/ \E k \in Callers, answer \in {"tokens", "access_only", "invalid_grant", "failed"} : exchange(k, answer)
       \/ \E k \in Callers : lockRefresh(k) \/ pauseForRevocation(k)
       \/ \E c \in ConnIds : TokenLapses(c)

StoreStep ==
    /\ scene = "store"
    /\ \/ \E k \in Callers, who \in Managers, account \in Accounts, c \in {0} \cup ConnIds :
             connectStoreAction(k, who, account, c)
       \/ \E k \in Callers, who \in Managers, account \in Accounts : connectStoreManuallyAction(k, who, account)
       \/ \E k \in Callers, a \in AuthIds : consume(k, a, "woocommerce")
       \/ \E k \in Callers, p \in {"read", "read_write"} : completeStore(k, p)
       \/ \E k \in Callers : spend(k) \/ adopt(k)
       \/ clock < MaxClock /\ clock' = clock + 1
          /\ UNCHANGED <<scene, conns, secrets, auths, acting, hooks, remote, cursors, crashes, begun, spent>>

\* Both kinds of connection.
ConnStep ==
    /\ scene \in {"ebay", "tokens", "store"}
    /\ \/ \E a \in AuthIds : AuthorizationExpires(a) \/ pruneExpired(a)
       \/ \E k \in Callers, who \in Managers, c \in ConnIds :
             \/ disconnectConnectionAction(k, who, c)
             \/ \E pause \in BOOLEAN : setConnectionPausedAction(k, who, c, pause)
       \/ \E k \in Callers : disconnect(k) \/ Crash(k)

\* Behaviours about one connection begin where it is connected.
SecretsOf == [ebay |-> {"ebay_access_token", "ebay_refresh_token"},
              woocommerce |-> {"woocommerce_consumer_key", "woocommerce_consumer_secret"}]

ConnInit ==
    /\ scene \in Scenes
    /\ conns = [c \in ConnIds |-> IF c = 1 /\ scene \in DOMAIN Connected THEN Connected[scene] ELSE NoRow]
    /\ secrets = [c \in ConnIds |-> [t \in connectionSecretTypes |->
                    IF conns[c] # NoRow /\ conns[c].connected /\ t \in SecretsOf[conns[c].provider]
                      THEN Secret(conns[c].account, "sign_in") ELSE NoSecret]]
    /\ auths = [a \in AuthIds |-> IF a = 1 /\ scene = "tokens"
                  THEN [provider |-> "ebay", conn |-> 0, status |-> "consumed", expired |-> FALSE] ELSE NoRow]
    /\ acting = [k \in Callers |-> Idle]
    /\ hooks = [h \in HookIds |-> NoRow] /\ remote = [h \in HookIds |-> NoRow]
    /\ cursors = [s \in {"catalog"} |-> 0]
    /\ clock = 1 /\ crashes = 0 /\ begun = 0
    /\ spent = [a \in AuthIds |-> 0]

ConnNext == EbayStep \/ TokenStep \/ StoreStep \/ ConnStep

-------------------------------------------------------------------------------
\* A state is exchanged for at most one sign-in, however many callbacks carry it at once
\* (consume reads the row and spends it by a second, conditional statement).
AuthorizationSpentOnce == \A a \in AuthIds : spent[a] <= 1

\* A refresh nobody forced never replaces a token that another refresh just stored: those
\* who waited for the lock look again (accessToken's second check, under the lock).
RefreshIsShared ==
    [][\A k \in Callers :
          Stage(k, "store_access") /\ acting[k].by = "refresh" /\ acting'[k] # acting[k]
            /\ crashes' = crashes
          => LET old == secrets[acting[k].conn]["ebay_access_token"]
             IN  ~(old # NoSecret /\ old.usable /\ old.by = "refresh")]_connVars

================================================================================
