--------------------------- MODULE EbayNotifications ---------------------------
(***************************************************************************)
(* eBay's notifications (packages/integrations/src/ebay/notifications):    *)
(* account deletions and the erasure they ask for, notifications recorded  *)
(* for the connections they concern, the destination registered with eBay, *)
(* the topics a connection is subscribed to, and the keys and application  *)
(* tokens these are verified and called with.                              *)
(***************************************************************************)
EXTENDS Connections, Sequences

CONSTANTS
    Businesses,   \* businesses that may hold orders of the buyer to be erased
    Notices,      \* notifications of the deletion of that buyer's account
    MaxReceived,  \* bound on deliveries of a deletion, retries, and checks of the destination, for each scene
    Topics,       \* topics eBay offers: [id, enabled, scope, json]
    KeyIds,       \* eBay's public keys
    maxCached     \* keys the reader keeps

VARIABLES
    holding,      \* businesses with provider_orders that name the buyer
    requests,     \* marketplace_deletion_requests
    outcomes,     \* marketplace_deletion_outcomes, of each request and business
    asked,        \* businesses that held orders of the buyer when the request was first taken
                  \* up and have imported none since
    told,         \* requests that some answer called completed
    received,     \* how many of these there were
    noted,        \* webhook_deliveries of eBay: [conn, notice]
    destination,  \* notification_destinations, the row of the environment
    atEbay,       \* destinations at eBay
    topicRows,    \* provider_notification_topics of connection 1
    subs,         \* its subscriptions at eBay: [here, enabled]
    appToken,     \* the application token cached: "none", "fetching" or "usable"
    keyCache      \* public keys cached, oldest first: [id, lapsed]

noteVars == <<holding, requests, outcomes, asked, told, received, noted, destination, atEbay,
              topicRows, subs, appToken, keyCache>>
ErasureVars == <<holding, requests, outcomes, asked, told, received>>
DestinationVars == <<destination, atEbay>>
TopicVars == <<topicRows, subs>>
ConnFrame == <<scene, conns, secrets, auths, hooks, remote, cursors, clock, begun, spent>>

marketplaceDeletionRequests ==
    [verified : BOOLEAN, status : {"rejected", "processing", "completed", "partially_failed"}]
marketplaceDeletionOutcomes == {"none", "completed", "nothing_to_erase", "failed"}
notificationDestinations ==
    [endpoint : {"here", "elsewhere"}, external : 0..2, fingerprint : {"none", "t1", "t2"},
     status : {"pending", "enabled", "disabled", "failed"}]
providerNotificationTopics == {"none", "subscribed", "unavailable", "failed"}

-------------------------------------------------------------------------------
\* The application token.  One request fetches it, and those who ask meanwhile wait for
\* its answer.
applicationToken(k, answer) ==
    /\ Stage(k, "app_token")
    /\ \/ answer = "none" /\ appToken = "usable"
          /\ Becomes(k, acting[k].then) /\ UNCHANGED appToken
       \/ answer = "none" /\ appToken = "none"
          /\ appToken' = "fetching" /\ Becomes(k, [acting[k] EXCEPT !.stage = "app_fetch"])
       \/ answer = "none" /\ appToken = "fetching"
          /\ Becomes(k, [acting[k] EXCEPT !.stage = "app_wait"]) /\ UNCHANGED appToken
    /\ UNCHANGED <<ConnFrame, crashes, ErasureVars, noted, DestinationVars, TopicVars, keyCache>>

createApplicationTokenReader(k, answer) ==
    /\ Stage(k, "app_fetch") /\ answer \in {"ok", "failed"}
    /\ appToken' = IF answer = "ok" THEN "usable" ELSE "none"
    /\ acting' = [j \in Callers |-> IF j = k \/ Stage(j, "app_wait")
                                      THEN IF answer = "ok" THEN acting[j].then ELSE Idle
                                      ELSE acting[j]]
    /\ UNCHANGED <<ConnFrame, crashes, ErasureVars, noted, DestinationVars, TopicVars, keyCache>>

TokenExpires ==
    /\ appToken = "usable"
    /\ appToken' = "none"
    /\ UNCHANGED <<ConnFrame, crashes, acting, ErasureVars, noted, DestinationVars, TopicVars, keyCache>>

-------------------------------------------------------------------------------
\* Verifying a notification.  A header is missing, malformed, or names a key and was signed
\* with it or not.
Headers == {[kind |-> "missing"], [kind |-> "malformed"]}
             \cup [kind : {"signed"}, id : KeyIds, sound : BOOLEAN, supported : BOOLEAN]

parseSignatureHeader(header) == header.kind = "signed"
parsePublicKeyResponse(answer) == answer = "key"

\* A key fetched anew goes in its old place, if that was not the one dropped for room.
Cached(cache, id) ==
    LET room == IF Len(cache) >= maxCached THEN Tail(cache) ELSE cache
        new == [id |-> id, lapsed |-> FALSE]
    IN  IF \E i \in DOMAIN room : room[i].id = id
          THEN [i \in DOMAIN room |-> IF room[i].id = id THEN new ELSE room[i]]
          ELSE Append(room, new)

\* A key in the cache answers for six hours; any other is read from eBay.
createPublicKeyReader(id, answer) ==
    LET hit == \E i \in DOMAIN keyCache : keyCache[i].id = id /\ ~keyCache[i].lapsed
    IN  IF hit \/ ~parsePublicKeyResponse(answer) THEN [known |-> hit, cache |-> keyCache]
        ELSE [known |-> TRUE, cache |-> Cached(keyCache, id)]

createSignatureVerifier(header, answer) ==
    IF ~parseSignatureHeader(header) THEN [verified |-> FALSE, cache |-> keyCache]
    ELSE LET key == createPublicKeyReader(header.id, answer)
         IN  [verified |-> key.known /\ header.supported /\ header.sound, cache |-> key.cache]

KeyLapses(i) ==
    /\ ~keyCache[i].lapsed
    /\ keyCache' = [keyCache EXCEPT ![i].lapsed = TRUE]
    /\ UNCHANGED <<ConnFrame, crashes, acting, ErasureVars, noted, DestinationVars, TopicVars, appToken>>

\* A notification about a seller is recorded for each connection of that seller, a
\* disconnected one too, once.
createNotificationIntake(k, header, answer, notice, seller) ==
    /\ Stage(k, "idle")
    /\ LET check == createSignatureVerifier(header, answer)
           owners == {c \in ConnIds : Exists(c) /\ conns[c].provider = "ebay" /\ conns[c].account = seller}
       IN  /\ keyCache' = check.cache
           /\ Becomes(k, IF check.verified /\ owners # {}
                           THEN [stage |-> "note", left |-> owners, notice |-> notice] ELSE Idle)
    /\ UNCHANGED <<ConnFrame, crashes, ErasureVars, noted, DestinationVars, TopicVars, appToken>>

RecordNotification(k) ==
    /\ Stage(k, "note")
    /\ \E c \in acting[k].left :
          /\ noted' = noted \cup {[conn |-> c, notice |-> acting[k].notice]}
          /\ Becomes(k, IF acting[k].left = {c} THEN Idle ELSE [acting[k] EXCEPT !.left = @ \ {c}])
    /\ UNCHANGED <<ConnFrame, crashes, ErasureVars, DestinationVars, TopicVars, appToken, keyCache>>

-------------------------------------------------------------------------------
\* Erasing a buyer.
ErasureFrame == <<ConnFrame, noted, DestinationVars, TopicVars, appToken, keyCache>>

\* The body is read before its signature is checked; one that names no notification or no
\* buyer ends here.
readDeletionNotification(k, n, verified) ==
    /\ Stage(k, "idle") /\ received < MaxReceived[scene]
    /\ received' = received + 1
    /\ Becomes(k, [stage |-> "request", n |-> n, verified |-> verified])
    /\ UNCHANGED <<ErasureFrame, crashes, holding, requests, outcomes, asked, told>>

\* The row is inserted, once for a notification.
receiveDeletion(k) ==
    /\ Stage(k, "request")
    /\ LET n == acting[k].n
           new == requests[n] = NoRow
       IN  /\ requests' = IF ~new THEN requests
                          ELSE [requests EXCEPT ![n] =
                                  [verified |-> acting[k].verified,
                                   status |-> IF acting[k].verified THEN "processing" ELSE "rejected"]]
           /\ asked' = IF new /\ acting[k].verified THEN [asked EXCEPT ![n] = holding] ELSE asked
           /\ Becomes(k, IF ~acting[k].verified THEN Idle
                         ELSE [stage |-> IF new THEN "holders" ELSE "again", n |-> n])
    /\ UNCHANGED <<ErasureFrame, crashes, holding, outcomes, told, received>>

\* A notification there is a row of: one that was rejected is taken up, by a second
\* statement; any other is answered, as completed unless it failed in part.
receiveAgain(k) ==
    \/ /\ Stage(k, "again")
       /\ LET n == acting[k].n
          IN  IF ~requests[n].verified
                THEN Becomes(k, [stage |-> "reopen", n |-> n]) /\ UNCHANGED told
                ELSE /\ told' = IF requests[n].status = "partially_failed" THEN told ELSE told \cup {n}
                     /\ Becomes(k, Idle)
       /\ UNCHANGED <<ErasureFrame, crashes, holding, requests, outcomes, asked, received>>
    \/ /\ Stage(k, "reopen")
       /\ LET n == acting[k].n
          IN  /\ requests' = [requests EXCEPT ![n] = [verified |-> TRUE, status |-> "processing"]]
              /\ asked' = IF requests[n].verified THEN asked ELSE [asked EXCEPT ![n] = holding]
              /\ Becomes(k, [stage |-> "holders", n |-> n])
       /\ UNCHANGED <<ErasureFrame, crashes, holding, outcomes, told, received>>

retry(k, n) ==
    /\ Stage(k, "idle") /\ received < MaxReceived[scene]
    /\ requests[n] # NoRow /\ requests[n].verified
    /\ received' = received + 1
    /\ Becomes(k, [stage |-> "retry_holders", n |-> n])
    /\ UNCHANGED <<ErasureFrame, crashes, holding, requests, outcomes, asked, told>>

\* Who holds orders of the buyer is read first; a retry adds the businesses that failed.
erase(k) ==
    /\ acting[k].stage \in {"holders", "retry_holders"}
    /\ LET n == acting[k].n
           outstanding == IF Stage(k, "retry_holders")
                            THEN {b \in Businesses : outcomes[n][b] = "failed"} ELSE {}
       IN  Becomes(k, [stage |-> "erasing", n |-> n, left |-> holding \cup outstanding, failures |-> 0])
    /\ UNCHANGED <<ErasureFrame, crashes, holding, requests, outcomes, asked, told, received>>

eraseForBusiness_Swallowed(k, b, ok) ==
    /\ Stage(k, "erasing") /\ b \in acting[k].left
    /\ holding' = IF ok THEN holding \ {b} ELSE holding
    /\ Becomes(k, [stage |-> "outcome", n |-> acting[k].n, left |-> acting[k].left \ {b}, b |-> b,
                   failures |-> acting[k].failures, as |-> IF ok THEN "completed" ELSE "failed"])
    /\ UNCHANGED <<ErasureFrame, crashes, requests, outcomes, asked, told, received>>

\* One transaction to a business; if it fails the rest go on.
eraseForBusiness(k, b, ok) ==
    /\ Stage(k, "erasing") /\ b \in acting[k].left
    /\ IF ok THEN /\ holding' = holding \ {b}
                  /\ Becomes(k, [stage |-> "outcome", n |-> acting[k].n, left |-> acting[k].left \ {b}, b |-> b,
                                 failures |-> acting[k].failures,
                                 as |-> IF b \in holding THEN "completed" ELSE "nothing_to_erase"])
             ELSE /\ UNCHANGED holding
                  /\ Becomes(k, [stage |-> "outcome", n |-> acting[k].n, left |-> acting[k].left \ {b}, b |-> b,
                                 failures |-> acting[k].failures + 1, as |-> "failed"])
    /\ UNCHANGED <<ErasureFrame, crashes, requests, outcomes, asked, told, received>>

recordOutcome(k) ==
    /\ Stage(k, "outcome")
    /\ outcomes' = [outcomes EXCEPT ![acting[k].n][acting[k].b] = acting[k].as]
    /\ Becomes(k, [stage |-> "erasing", n |-> acting[k].n, left |-> acting[k].left, failures |-> acting[k].failures])
    /\ UNCHANGED <<ErasureFrame, crashes, holding, requests, asked, told, received>>

finishErasure(k) ==
    /\ Stage(k, "erasing") /\ acting[k].left = {}
    /\ LET n == acting[k].n
           status == IF acting[k].failures > 0 THEN "partially_failed" ELSE "completed"
       IN  /\ requests' = [requests EXCEPT ![n].status = status]
           /\ told' = IF status = "completed" THEN told \cup {n} ELSE told
    /\ Becomes(k, Idle)
    /\ UNCHANGED <<ErasureFrame, crashes, holding, outcomes, asked, received>>

\* An import brings an order of the buyer, whom nothing remembers to have been erased.
OrderImported(b) ==
    /\ b \notin holding
    /\ holding' = holding \cup {b}
    /\ asked' = [n \in Notices |-> asked[n] \ {b}]
    /\ UNCHANGED <<ErasureFrame, crashes, acting, requests, outcomes, told, received>>

-------------------------------------------------------------------------------
\* The destination.  What is asked for is an endpoint and a verification token.
DestinationFrame == <<ConnFrame, crashes, ErasureVars, noted, TopicVars, keyCache>>
isDeliverable(endpoint) == endpoint # "local"
isUsableVerificationToken(token) == token # "short"

ensure(k, endpoint, token) ==
    /\ Stage(k, "idle") /\ received < MaxReceived[scene]
    /\ received' = received + 1
    /\ isDeliverable(endpoint) /\ isUsableVerificationToken(token)
    /\ Becomes(k, [stage |-> "app_token",
                   then |-> [stage |-> "destination", endpoint |-> endpoint, token |-> token]])
    /\ UNCHANGED <<ConnFrame, crashes, holding, requests, outcomes, asked, told, noted, TopicVars, keyCache,
                   DestinationVars, appToken>>

\* Where one is registered it is read, and left, put right or made anew.  What is to be
\* stored goes by the row read here, whatever another request stores meanwhile.
readDestination(k, answered) ==
    /\ Stage(k, "destination")
    /\ LET id == IF destination = NoRow THEN 0 ELSE destination.external
           there == id # 0 /\ atEbay[id] # NoRow
           right == /\ there /\ atEbay[id].endpoint = acting[k].endpoint /\ atEbay[id].enabled
                    /\ destination.endpoint = acting[k].endpoint
                    /\ destination.fingerprint = acting[k].token
       IN  Becomes(k,
             IF id # 0 /\ ~answered THEN [stage |-> "store", row |-> destination]
             ELSE IF right THEN [stage |-> "store", row |-> [destination EXCEPT !.status = "enabled"]]
             ELSE [stage |-> IF there THEN "put" ELSE "post", was |-> destination,
                   endpoint |-> acting[k].endpoint, token |-> acting[k].token])
    /\ UNCHANGED <<DestinationFrame, DestinationVars, appToken>>

\* What is stored after putting one right, and after making one.
Registered(doing, id) ==
    [endpoint |-> doing.endpoint, external |-> id, fingerprint |-> doing.token, status |-> "enabled"]
Updated(doing, answer) ==
    IF answer \in {"ok", "no_id"} THEN Registered(doing, doing.was.external)
    ELSE [doing.was EXCEPT !.status = "disabled", !.fingerprint = "none"]
Created(doing, id, answer) ==
    IF answer = "ok" THEN Registered(doing, id)
    ELSE [endpoint |-> doing.endpoint, external |-> 0, fingerprint |-> "none",
          status |-> IF answer \in {"lost", "unreached"} THEN "pending" ELSE "failed"]

\* eBay takes the request, answering or not, or refuses it, as it does where the one to be
\* put right is gone; the answer to a new one may lack the identifier.
writeDestination(k, answer) ==
    /\ acting[k].stage \in {"put", "post"} /\ answer # "none"
    /\ LET taken == answer \in {"ok", "no_id", "lost"}
           wanted == [endpoint |-> acting[k].endpoint, token |-> acting[k].token, enabled |-> TRUE]
       IN  \E i \in IF Stage(k, "put") THEN {acting[k].was.external} ELSE DOMAIN atEbay :
             /\ taken => (atEbay[i] = NoRow) = Stage(k, "post")
             /\ atEbay' = IF taken THEN [atEbay EXCEPT ![i] = wanted] ELSE atEbay
             /\ Becomes(k, [stage |-> "store", row |-> IF Stage(k, "put") THEN Updated(acting[k], answer)
                                                       ELSE Created(acting[k], i, answer)])
    /\ UNCHANGED <<DestinationFrame, destination, appToken>>

store(k) ==
    /\ Stage(k, "store")
    /\ destination' = acting[k].row
    /\ Becomes(k, Idle)
    /\ UNCHANGED <<DestinationFrame, atEbay, appToken>>

\* eBay disables a destination that does not answer, or somebody deletes it.
DestinationChanges(i) ==
    /\ atEbay[i] # NoRow /\ atEbay[i].enabled
    /\ atEbay' \in {[atEbay EXCEPT ![i].enabled = FALSE], [atEbay EXCEPT ![i] = NoRow]}
    /\ UNCHANGED <<DestinationFrame, acting, destination, appToken>>

-------------------------------------------------------------------------------
\* Topics.  eBay names a topic; the words in the name tell what it is about.
TopicFrame == <<ConnFrame, crashes, ErasureVars, noted, DestinationVars, keyCache>>
TOPIC_FAMILIES == {"revocation", "catalog", "orders"}
classifyTopic(id) ==
    CASE id = "ACCOUNT_DELETION" -> "account_deletion"
      [] id = "AUTHORIZATION_REVOCATION" -> "revocation"
      [] id = "ORDER_CONFIRMATION" -> "orders"
      [] id = "ITEM_AVAILABILITY" -> "catalog"
      [] OTHER -> "none"

reconcileTopics(k) ==
    /\ Stage(k, "idle")
    /\ Exists(1) /\ destination # NoRow /\ destination.external # 0
    /\ usableAccessToken(1)
    /\ Becomes(k, [stage |-> "app_token", then |-> [stage |-> "discover"]])
    /\ UNCHANGED <<TopicFrame, TopicVars, appToken>>

discoverTopics(k, answered) ==
    /\ Stage(k, "discover")
    /\ Becomes(k, IF ~answered THEN Idle
                  ELSE [stage |-> "subscriptions",
                        topics |-> {t \in Topics : classifyTopic(t.id) \in TOPIC_FAMILIES}])
    /\ UNCHANGED <<TopicFrame, TopicVars, appToken>>

\* Subscriptions that deliver to another destination are not ours.
readSubscriptions(k, answered) ==
    /\ Stage(k, "subscriptions")
    /\ Becomes(k, IF ~answered THEN Idle
                  ELSE [stage |-> "settle", left |-> acting[k].topics, result |-> topicRows,
                        existing |-> [t \in Topics |-> IF subs[t] # NoRow /\ subs[t].here
                                                         THEN subs[t] ELSE NoRow]])
    /\ UNCHANGED <<TopicFrame, TopicVars, appToken>>

Offered(t) == t.enabled /\ t.scope \in conns[1].scopes \cup {""} /\ t.json
Settled(k, t, result) ==
    Becomes(k, [stage |-> "settle", left |-> acting[k].left \ {t}, existing |-> acting[k].existing,
                result |-> [acting[k].result EXCEPT ![t] = result]])
Working(k, doing, t) ==
    Becomes(k, [stage |-> doing, topic |-> t, left |-> acting[k].left, existing |-> acting[k].existing,
                result |-> acting[k].result])

\* A topic at a time: not offered, subscribed already, or to be created and enabled.
settleTopic(k, t) ==
    /\ Stage(k, "settle") /\ t \in acting[k].left
    /\ \/ ~Offered(t) /\ Settled(k, t, "unavailable")
       \/ Offered(t) /\ acting[k].existing[t] # NoRow /\ acting[k].existing[t].enabled
          /\ Settled(k, t, "subscribed")
       \/ Offered(t) /\ acting[k].existing[t] # NoRow /\ ~acting[k].existing[t].enabled
          /\ Working(k, "enable", t)
       \/ Offered(t) /\ acting[k].existing[t] = NoRow
          /\ Working(k, "create", t)
    /\ UNCHANGED <<TopicFrame, TopicVars, appToken>>

createSubscription(k, answer) ==
    /\ Stage(k, "create") /\ answer # "none"
    /\ subs' = IF answer = "refused" THEN subs
               ELSE [subs EXCEPT ![acting[k].topic] = [here |-> TRUE, enabled |-> TRUE]]
    /\ IF answer = "ok" THEN Working(k, "enable", acting[k].topic) ELSE Settled(k, acting[k].topic, "failed")
    /\ UNCHANGED <<TopicFrame, topicRows, appToken>>

enableSubscription(k, ok) ==
    /\ Stage(k, "enable")
    /\ subs' = IF ok /\ subs[acting[k].topic] # NoRow THEN [subs EXCEPT ![acting[k].topic].enabled = TRUE] ELSE subs
    /\ Settled(k, acting[k].topic, IF ok THEN "subscribed" ELSE "failed")
    /\ UNCHANGED <<TopicFrame, topicRows, appToken>>

recordTopics(k) ==
    /\ Stage(k, "settle") /\ acting[k].left = {}
    /\ topicRows' = [t \in Topics |-> IF acting[k].result[t] # "none" THEN acting[k].result[t] ELSE topicRows[t]]
    /\ Becomes(k, Idle)
    /\ UNCHANGED <<TopicFrame, subs, appToken>>

\* The seller or eBay disables a subscription.
SubscriptionChanges(t) ==
    /\ subs[t] # NoRow /\ subs[t].enabled
    /\ subs' = [subs EXCEPT ![t].enabled = FALSE]
    /\ UNCHANGED <<TopicFrame, acting, topicRows, appToken>>

NoteCrash(k) ==
    /\ acting[k].stage \notin {"app_fetch", "app_wait"}
    /\ Crash(k)
    /\ UNCHANGED noteVars

-------------------------------------------------------------------------------
NoteInit ==
    /\ holding \in IF scene = "erasure" THEN {Businesses} ELSE {{}}
    /\ requests = [n \in Notices |-> NoRow]
    /\ outcomes = [n \in Notices |-> [b \in Businesses |-> "none"]]
    /\ asked = [n \in Notices |-> {}] /\ told = {} /\ received = 0
    /\ noted = {}
    /\ destination = IF scene = "topics"
                       THEN [endpoint |-> "here", external |-> 1, fingerprint |-> "t1", status |-> "enabled"] ELSE NoRow
    /\ atEbay = [i \in 1..2 |-> NoRow]
    /\ topicRows = [t \in Topics |-> "none"]
    /\ subs \in IF scene = "topics" THEN [Topics -> {NoRow, [here |-> FALSE, enabled |-> TRUE]}]
                ELSE {[t \in Topics |-> NoRow]}
    /\ appToken = "none" /\ keyCache = <<>>

ErasureStep ==
    /\ scene = "erasure"
    /\ \/ \E k \in Callers, n \in Notices, v \in BOOLEAN : readDeletionNotification(k, n, v)
       \/ \E k \in Callers : receiveDeletion(k) \/ receiveAgain(k) \/ erase(k) \/ recordOutcome(k) \/ finishErasure(k)
       \/ \E k \in Callers, n \in Notices : retry(k, n)
       \/ \E k \in Callers, b \in Businesses, ok \in BOOLEAN : eraseForBusiness(k, b, ok)
       \/ \E b \in Businesses : OrderImported(b)

IntakeStep ==
    /\ scene = "intake"
    /\ \/ \E k \in Callers, h \in Headers, answer \in {"key", "failed"}, n \in Notices, seller \in {"s1", "s2"} :
             createNotificationIntake(k, h, answer, n, seller)
       \/ \E k \in Callers : RecordNotification(k)
       \/ \E i \in DOMAIN keyCache : KeyLapses(i)

TokenStepOf == \/ \E k \in Callers : applicationToken(k, "none")
               \/ \E k \in Callers, answer \in {"ok", "failed"} : createApplicationTokenReader(k, answer)
               \/ TokenExpires

DestinationStep ==
    /\ scene = "destination"
    /\ \/ TokenStepOf
       \/ \E k \in Callers, e \in {"here", "elsewhere", "local"}, t \in {"t1", "t2", "short"} : ensure(k, e, t)
       \/ \E k \in Callers, ok \in BOOLEAN : readDestination(k, ok)
       \/ \E k \in Callers, answer \in {"ok", "no_id", "lost", "refused", "unreached"} : writeDestination(k, answer)
       \/ \E k \in Callers : store(k)
       \/ \E i \in DOMAIN atEbay : DestinationChanges(i)

TopicStep ==
    /\ scene = "topics"
    /\ \/ TokenStepOf
       \/ \E k \in Callers : reconcileTopics(k) \/ recordTopics(k)
       \/ \E k \in Callers, ok \in BOOLEAN :
             discoverTopics(k, ok) \/ readSubscriptions(k, ok) \/ enableSubscription(k, ok)
       \/ \E k \in Callers, answer \in {"ok", "lost", "refused"} : createSubscription(k, answer)
       \/ \E k \in Callers, t \in Topics : settleTopic(k, t)
       \/ \E t \in Topics : SubscriptionChanges(t)

NoteNext ==
    \/ ErasureStep \/ IntakeStep \/ DestinationStep \/ TopicStep
    \/ scene \in {"erasure", "destination", "topics", "intake"} /\ \E k \in Callers : NoteCrash(k)

-------------------------------------------------------------------------------
\* A deletion request is recorded as completed only when every business that held orders of
\* the buyer has erased them, whatever failed on the way (erase counts the failures).
RecordedErasureIsTrue ==
    \A n \in Notices : requests[n] # NoRow /\ requests[n].status = "completed" => asked[n] \cap holding = {}

\* eBay is told that a deletion is complete only when it is (the header of deletion.ts).
CompletedMeansErased == \A n \in told : asked[n] \cap holding = {}

================================================================================
