-------------------------------- MODULE Webhooks --------------------------------
(***************************************************************************)
(* A store's webhook registrations and the deliveries they bring           *)
(* (packages/integrations/src/woocommerce/webhooks), for one store and one *)
(* topic: registering, repairing and rotating from the connections page,   *)
(* verifying and recording deliveries at the public route, and promoting a *)
(* replacement once a delivery verified against it.  Requests take no lock, *)
(* so they overlap one another; deliveries come when they like.            *)
(***************************************************************************)
EXTENDS Connections

CONSTANTS
    Events,       \* events of the store
    MaxTampered   \* bound on changes made to registrations at the store

VARIABLES
    deliveries,   \* webhook_deliveries: [key, event]
    tampered,     \* changes made to registrations at the store
    excused,      \* whether the store's answer to a registration was lost or the store is being disconnected
    overlapped    \* whether a request began while another was changing registrations

hookVars == <<deliveries, tampered, excused, overlapped>>

\* Identifiers begin at one: zero stands for none.
ASSUME WebhooksAssumption == HookIds \subseteq Nat \ {0}

webhookDeliveries == [key : {<<e>> : e \in Events}, event : Events]

\* The topic's rows, in use or not; a registration at the store carries the row's secret.
Ours == {h \in HookIds : hooks[h] # NoRow}
NextHook == {h \in HookIds : hooks[h] = NoRow /\ \A g \in HookIds : g < h => hooks[g] # NoRow}
Delivering(h) == remote[h] # NoRow /\ remote[h].active /\ remote[h].here
OtherHookVars == <<scene, conns, secrets, auths, cursors, clock, begun, spent>>

\* open needs the store's key, which the connection has.
open == secrets[1]["woocommerce_consumer_key"] # NoSecret

\* At most one row is active (provider_webhooks_one_active_topic): a write that would make it
\* two fails, and so does the request.
OneActive(rows) == \A g, h \in HookIds : rows[g].status = "active" /\ rows[h].status = "active" => g = h
Saves(rows) == hooks' = IF OneActive(rows) THEN rows ELSE hooks

\* Nothing keeps a request that changes registrations from another.
ChangingStages == {"listed", "gone", "settle_deleted", "insert", "put_secret", "post", "settle",
                   "repair", "repaired"}
Overlaps(k) == \E j \in Callers \ {k} : acting[j].stage \in ChangingStages
BeginsToChange(k, who) ==
    /\ Begins(k, who)
    /\ open
    /\ overlapped' = (overlapped \/ Overlaps(k))
    /\ UNCHANGED <<deliveries, tampered, excused>>

-------------------------------------------------------------------------------
\* Registering.

\* The store lists its webhooks, or the reconciliation ends; the rows are read after.
reconcile(k, who) ==
    /\ BeginsToChange(k, who)
    /\ Becomes(k, [stage |-> "listed", listed |-> {h \in HookIds : remote[h] # NoRow},
                   fine |-> {h \in HookIds : Delivering(h)}])
    /\ UNCHANGED <<scene, conns, secrets, auths, hooks, remote, cursors, clock, crashes, spent>>

\* The first row of the topic that is not deleted is the one looked at, whichever the
\* database returns first.
reconcileTopic(k) ==
    /\ Stage(k, "listed")
    /\ LET live == {h \in Ours : hooks[h].status # "deleted"}
           known(h) == hooks[h].external # 0 /\ hooks[h].external \in acting[k].listed
       IN  \/ live = {} /\ Becomes(k, [stage |-> "insert", replaces |-> 0])
           \/ \E mine \in live :
                 Becomes(k, IF ~known(mine) THEN [stage |-> "gone", hook |-> mine]
                            ELSE IF mine \in acting[k].fine THEN Idle
                            ELSE [stage |-> "repair", hook |-> mine])
    /\ UNCHANGED <<hookVars, OtherHookVars, hooks, remote, crashes>>

\* A row the store did not list is given up first, then its secret.
retireHook(k) ==
    \/ /\ Stage(k, "gone")
       /\ hooks' = [hooks EXCEPT ![acting[k].hook].status = "deleted"]
       /\ Becomes(k, [stage |-> "settle_deleted", hook |-> acting[k].hook])
       /\ UNCHANGED <<hookVars, OtherHookVars, remote, crashes>>
    \/ /\ Stage(k, "settle_deleted")
       /\ hooks' = [hooks EXCEPT ![acting[k].hook].secret = FALSE]
       /\ Becomes(k, [stage |-> "insert", replaces |-> 0])
       /\ UNCHANGED <<hookVars, OtherHookVars, remote, crashes>>

rotate_InPlace(k, who) ==
    /\ BeginsToChange(k, who)
    /\ \E h \in Ours :
          /\ hooks[h].status = "active" /\ hooks[h].external # 0
          /\ ~ \E g \in Ours : hooks[g].replaces = h /\ hooks[g].status = "replacing"
          /\ hooks' = [hooks EXCEPT ![h].secret = FALSE]
          /\ Becomes(k, [stage |-> "insert", replaces |-> h])
    /\ UNCHANGED <<scene, conns, secrets, auths, remote, cursors, clock, crashes, spent>>

\* A replacement is registered beside each active registration that has none coming.
rotate(k, who) ==
    /\ BeginsToChange(k, who)
    /\ \E h \in Ours :
          /\ hooks[h].status = "active" /\ hooks[h].external # 0
          /\ ~ \E g \in Ours : hooks[g].replaces = h /\ hooks[g].status = "replacing"
          /\ Becomes(k, [stage |-> "insert", replaces |-> h])
    /\ UNCHANGED <<scene, conns, secrets, auths, hooks, remote, cursors, clock, crashes, spent>>

\* The row, its secret, the registration at the store and what became of it: four steps.
createHook(k, answer) ==
    \/ /\ Stage(k, "insert") /\ answer = "none"
       /\ \E h \in NextHook :
             /\ hooks' = [hooks EXCEPT ![h] = [topic |-> "order.updated", external |-> 0, secret |-> FALSE,
                            status |-> IF acting[k].replaces = 0 THEN "pending" ELSE "replacing",
                            replaces |-> acting[k].replaces]]
             /\ Becomes(k, [stage |-> "put_secret", hook |-> h])
       /\ UNCHANGED <<hookVars, OtherHookVars, remote, crashes>>
    \/ /\ Stage(k, "put_secret") /\ answer = "none"
       /\ hooks' = [hooks EXCEPT ![acting[k].hook].secret = TRUE]
       /\ Becomes(k, [acting[k] EXCEPT !.stage = "post"])
       /\ UNCHANGED <<hookVars, OtherHookVars, remote, crashes>>
    \/ /\ Stage(k, "post") /\ answer # "none"
       /\ remote' = IF answer = "refused" THEN remote
                    ELSE [remote EXCEPT ![acting[k].hook] = [active |-> TRUE, here |-> TRUE, byHand |-> FALSE]]
       /\ excused' = (excused \/ answer = "lost")
       /\ Becomes(k, [stage |-> "settle", hook |-> acting[k].hook, ok |-> answer = "created"])
       /\ UNCHANGED <<deliveries, tampered, overlapped, OtherHookVars, hooks, crashes>>
    \/ /\ Stage(k, "settle") /\ answer = "none"
       /\ LET h == acting[k].hook
          IN  Saves([hooks EXCEPT ![h].external = IF acting[k].ok THEN h ELSE @,
                                  ![h].status = IF ~acting[k].ok THEN "failed"
                                                ELSE IF hooks[h].replaces = 0 THEN "active" ELSE "replacing"])
       /\ Becomes(k, Idle)
       /\ UNCHANGED <<hookVars, OtherHookVars, remote, crashes>>

\* A registration the store disabled or somebody pointed elsewhere is put right at the
\* store, and the row says whether it was.
repair(k, ok) ==
    \/ /\ Stage(k, "repair")
       /\ LET done == ok /\ remote[acting[k].hook] # NoRow
          IN  /\ remote' = IF done THEN [remote EXCEPT ![acting[k].hook].active = TRUE, ![acting[k].hook].here = TRUE]
                           ELSE remote
              /\ Becomes(k, [acting[k] EXCEPT !.stage = IF done THEN "repaired" ELSE "refused"])
       /\ UNCHANGED <<hookVars, OtherHookVars, hooks, crashes>>
    \/ /\ acting[k].stage \in {"repaired", "refused"} /\ ok
       /\ Saves([hooks EXCEPT ![acting[k].hook].status = IF Stage(k, "repaired") THEN "active" ELSE "paused"])
       /\ Becomes(k, Idle)
       /\ UNCHANGED <<hookVars, OtherHookVars, remote, crashes>>

\* A registration that somebody makes at the store by hand, with a secret from here.
prepareManual ==
    /\ \A h \in Ours : remote[h] # NoRow => ~remote[h].byHand
    /\ \E h \in NextHook :
          /\ hooks' = [hooks EXCEPT ![h] = [topic |-> "order.updated", status |-> "pending", external |-> 0,
                                            secret |-> TRUE, replaces |-> 0]]
          /\ remote' = [remote EXCEPT ![h] = [active |-> TRUE, here |-> TRUE, byHand |-> TRUE]]
    /\ UNCHANGED <<hookVars, scene, conns, secrets, auths, acting, cursors, clock, begun, spent, crashes>>

\* The store disables, redirects or deletes a registration.
StoreChanges(h) ==
    /\ tampered < MaxTampered
    /\ remote[h] # NoRow
    /\ tampered' = tampered + 1
    /\ remote' \in {[remote EXCEPT ![h].active = FALSE], [remote EXCEPT ![h].here = FALSE],
                    [remote EXCEPT ![h] = NoRow]}
    /\ UNCHANGED <<deliveries, excused, overlapped, OtherHookVars, acting, hooks, crashes>>

-------------------------------------------------------------------------------
\* Deliveries.
verifiableSecrets ==
    {h \in Ours : hooks[h].status \in {"active", "replacing", "pending"} /\ hooks[h].secret}

\* A body signed with the secret of h verifies if that secret is one to be tried.
verifyWebhookSignature(h) == h \in verifiableSecrets

\* The topic, the resource and the body, which two registrations deliver alike.
dedupeKey(e, h) == <<e>>

\* The store delivers an event by the registration of h, perhaps again.  A body that is
\* too large or no JSON, of another store or topic, is refused like one that does not
\* verify; the rest is recorded once.
receive(k, h, e) ==
    /\ Stage(k, "idle")
    /\ Delivering(h)
    /\ verifyWebhookSignature(h)
    /\ deliveries' = IF \E d \in deliveries : d.key = dedupeKey(e, h) THEN deliveries
                     ELSE deliveries \cup {[key |-> dedupeKey(e, h), event |-> e]}
    /\ Becomes(k, [stage |-> "observe", hook |-> h])
    /\ UNCHANGED <<tampered, excused, overlapped, OtherHookVars, hooks, remote, crashes>>

\* A delivery by a replacement deletes what it replaces at the store, then here.
observe(k, deleted) ==
    \/ /\ Stage(k, "observe")
       /\ LET h == acting[k].hook
              old == hooks[h].replaces
          IN  IF hooks[h].status = "replacing"
                THEN /\ Becomes(k, [stage |-> "promote", hook |-> h])
                     /\ remote' = IF old # 0 /\ hooks[old].external # 0 /\ deleted
                                    THEN [remote EXCEPT ![hooks[old].external] = NoRow] ELSE remote
                ELSE Becomes(k, Idle) /\ UNCHANGED remote
       /\ UNCHANGED <<hookVars, OtherHookVars, hooks, crashes>>
    \/ /\ Stage(k, "promote") /\ deleted
       /\ LET h == acting[k].hook
              old == hooks[h].replaces
              rows == [g \in HookIds |-> IF g = old THEN [hooks[g] EXCEPT !.status = "deleted"]
                                         ELSE IF g = h THEN [hooks[g] EXCEPT !.status = "active"]
                                         ELSE hooks[g]]
          IN  /\ Saves(rows)
              /\ Becomes(k, IF old = 0 \/ ~OneActive(rows) THEN Idle ELSE [stage |-> "retire_old", hook |-> old])
       /\ UNCHANGED <<hookVars, OtherHookVars, remote, crashes>>
    \/ /\ Stage(k, "retire_old") /\ deleted
       /\ hooks' = [hooks EXCEPT ![acting[k].hook].secret = FALSE]
       /\ Becomes(k, Idle)
       /\ UNCHANGED <<hookVars, OtherHookVars, remote, crashes>>

\* A request that dies loses the answer it was waiting for.
HookCrash(k) ==
    /\ Crash(k)
    /\ excused' = (excused \/ acting[k].stage \in {"post", "settle"})
    /\ UNCHANGED <<deliveries, tampered, overlapped>>

HookDisconnect(k, who) ==
    /\ disconnectConnectionAction(k, who, 1)
    /\ excused' = TRUE
    /\ UNCHANGED <<deliveries, tampered, overlapped>>

-------------------------------------------------------------------------------
HookInit == deliveries = {} /\ tampered = 0 /\ excused = FALSE /\ overlapped = FALSE

HookNext ==
    /\ scene = "webhooks"
    /\ \/ \E k \in Callers, who \in Managers : reconcile(k, who) \/ rotate(k, who)
       \/ \E k \in Callers : reconcileTopic(k) \/ retireHook(k) \/ HookCrash(k)
       \/ \E k \in Callers, answer \in {"none", "created", "lost", "refused"} : createHook(k, answer)
       \/ \E k \in Callers, ok \in BOOLEAN : repair(k, ok) \/ observe(k, ok)
       \/ prepareManual
       \/ \E h \in HookIds : StoreChanges(h)
       \/ \E k \in Callers, h \in HookIds, e \in Events : receive(k, h, e)
       \/ \E k \in Callers, who \in Managers : HookDisconnect(k, who)
       \/ \E k \in Callers, deleted \in BOOLEAN : remove(k, deleted) /\ UNCHANGED hookVars
       \/ \E k \in Callers : disconnect(k) /\ UNCHANGED hookVars

-------------------------------------------------------------------------------
\* A registration made here that a delivery would arrive and verify by.
Heard == \E h \in Ours : Delivering(h) /\ ~remote[h].byHand /\ verifyWebhookSignature(h)

\* Once a registration brings the topic's events here, rotations, reconciliations and
\* deliveries never leave a moment in which none does, unless somebody changes them at the
\* store, the store's answer to a registration is lost, the store is being disconnected, or
\* two requests that change registrations overlap, which the code does not keep them from
\* (the overlap of a rotation, rotate and observe; reconcile reads the rows after the list).
OverlapNeverSilences ==
    [][Heard => Heard' \/ tampered' > 0 \/ excused' \/ overlapped']_<<connVars, hookVars>>

================================================================================
