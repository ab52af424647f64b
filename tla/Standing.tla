-------------------------------- MODULE Standing --------------------------------
(***************************************************************************)
(* What is known of a connection's standing: the checks of its readiness   *)
(* (readiness.ts of packages/integrations, ebay and woocommerce), its      *)
(* health and circuit, and the allowances the provider reported; and the   *)
(* HTTP client that every call goes through (packages/providers/src/http). *)
(***************************************************************************)
EXTENDS Connections, Sequences, TLC

CONSTANTS
    CIRCUIT_THRESHOLD,  \* failures in a row that open the circuit
    MaxFailures,        \* bound on failures in a row
    QuotaLimits,        \* allowances a provider may report, in calls
    MaxUsed,            \* bound on calls counted in a window
    MaxRedirects        \* redirects the client follows

VARIABLES
    checks,      \* connection_readiness_checks of connection 1: a function of check names
    available,   \* the capabilities last reported
    health,      \* connection_health of connection 1
    quotas,      \* provider_quota_windows: one that eBay reports, one that is counted here
    shown,       \* the report of health last shown
    hop          \* a call of the HTTP client

standVars == <<checks, available, health, quotas, shown, hop>>
StandFrame == <<scene, conns, secrets, auths, hooks, remote, cursors, clock, begun, spent, crashes>>

connectionReadinessChecks == {"pass", "warn", "fail", "unknown"}
connectionHealth == [failures : 0..MaxFailures, cooling : BOOLEAN, status : {"healthy", "degraded", "failing", "unknown"}]
providerQuotaWindows == [open : BOOLEAN, limit : QuotaLimits \cup {0 - 1}, used : 0..MaxUsed]

-------------------------------------------------------------------------------
\* Readiness.  A check is a question to the provider: its answer, a refusal, or silence.
Answers == {"good", "bad", "refused", "odd", "silent"}

identityCheck(status) ==
    CASE status = "disconnected" -> "fail" [] status = "active" -> "pass" [] OTHER -> "warn"
scopeCheck(granted) ==
    IF granted = {} THEN "fail"
    ELSE IF \A k \in {"import_catalog", "import_orders", "import_policies", "identify_seller"} : supports(granted, k)
      THEN "pass" ELSE "warn"

marketplaceCheck(a) == CASE a \in {"silent", "odd"} -> "unknown" [] a = "good" -> "pass" [] OTHER -> "warn"
businessPolicyCheck(a) == CASE a \in {"silent", "odd"} -> "unknown" [] a = "good" -> "pass" [] OTHER -> "warn"
inventoryLocationCheck(a) == CASE a \in {"silent", "odd"} -> "unknown" [] a = "good" -> "pass" [] OTHER -> "fail"
outOfStockCheck(a) == CASE a \in {"silent", "odd", "refused"} -> "unknown" [] a = "good" -> "pass" [] OTHER -> "warn"

credentialCheck(a) == CASE a \in {"silent", "odd"} -> "unknown" [] a = "refused" -> "fail" [] OTHER -> "pass"
stockManagementCheck(a) == CASE a = "good" -> "pass" [] a = "bad" -> "fail" [] OTHER -> "unknown"
webhookCheck(a) == CASE a = "good" -> "pass" [] a \in {"refused", "bad"} -> "warn" [] OTHER -> "unknown"
permissionCheck(permissions) ==
    IF capabilitiesFor(permissions) = DOMAIN CAPABILITY_PERMISSIONS THEN "pass" ELSE "warn"
grantedPermissions(c) == IF "read_write" \in conns[c].scopes THEN "read_write" ELSE "read"

\* Reached if every question was answered; not at all if none was.
reachabilityFrom(results) ==
    LET silent == {q \in DOMAIN results : results[q] = "unknown"}
    IN  IF silent = {} THEN "pass" ELSE IF silent = DOMAIN results THEN "fail" ELSE "warn"

EBAY_CAPABILITY_CHECKS ==
    [import_catalog |-> {"identity", "api_reachable"}, import_orders |-> {"identity", "api_reachable"},
     import_policies |-> {"identity", "api_reachable"},
     write_quantities |-> {"identity", "api_reachable", "inventory_locations", "out_of_stock_control"},
     publish_listings |-> {"identity", "api_reachable", "business_policies", "inventory_locations"}]

CAPABILITY_CHECKS ==
    [import_catalog |-> {"identity", "api_reachable", "credentials"},
     import_orders |-> {"identity", "api_reachable", "credentials"},
     import_refunds |-> {"identity", "api_reachable", "credentials"},
     manage_webhooks |-> {"identity", "api_reachable", "credentials", "webhooks"},
     write_quantities |-> {"identity", "api_reachable", "credentials", "stock_management"},
     publish_products |-> {"identity", "api_reachable", "credentials"},
     change_prices |-> {"identity", "api_reachable", "credentials"}]

\* A capability is available if it was granted and no check it needs failed or is unknown.
summarizeChecks(results, requirements, granted) ==
    {k \in DOMAIN requirements :
       /\ k \in granted
       /\ \A q \in requirements[k] : q \in DOMAIN results /\ results[q] \in {"pass", "warn"}}

summarize(c, results) ==
    LET grantable == {k \in DOMAIN EBAY_CAPABILITY_CHECKS :
                        k \in DOMAIN CAPABILITY_SCOPES => supports(conns[c].scopes, k)}
    IN  summarizeChecks(results, EBAY_CAPABILITY_CHECKS, grantable)

summarizeStore(c, results) ==
    summarizeChecks(results, CAPABILITY_CHECKS, capabilitiesFor(grantedPermissions(c)))

\* The row, the grant and the credential are read and the questions asked, one assessment
\* at a time here.
AssessesAlone(k) == Stage(k, "idle") /\ Exists(1) /\ \A j \in Callers : ~Stage(j, "checked")
EbayQuestions == {"marketplace", "business_policies", "inventory_locations", "out_of_stock_control"}
StoreQuestions == {"credentials", "stock_management", "webhooks"}
\* All answered well but one, or none answered.
SomeAnswers(questions) ==
    {[q \in questions |-> IF q = odd THEN a ELSE "good"] : odd \in questions, a \in Answers}
      \cup {[q \in questions |-> "silent"]}
Silent(questions) == [q \in questions |-> "unknown"]

createEbayReadiness(k, answers) ==
    /\ AssessesAlone(k) /\ conns[1].provider = "ebay"
    /\ LET asked == [marketplace |-> marketplaceCheck(answers["marketplace"]),
                     business_policies |-> businessPolicyCheck(answers["business_policies"]),
                     inventory_locations |-> inventoryLocationCheck(answers["inventory_locations"]),
                     out_of_stock_control |-> outOfStockCheck(answers["out_of_stock_control"])]
           known == [identity |-> identityCheck(conns[1].status), scopes |-> scopeCheck(conns[1].scopes)]
       IN  Becomes(k, [stage |-> "checked",
                       results |-> known @@
                         IF usableAccessToken(1) THEN asked @@ [api_reachable |-> reachabilityFrom(asked)]
                         ELSE Silent(EbayQuestions \cup {"api_reachable"})])
    /\ UNCHANGED <<StandFrame, standVars>>

createWooReadiness(k, answers) ==
    /\ AssessesAlone(k) /\ conns[1].provider = "woocommerce"
    /\ LET key == secrets[1]["woocommerce_consumer_key"] # NoSecret
           accepted == credentialCheck(answers["credentials"])
           asked == [credentials |-> accepted] @@
                    IF accepted = "pass"
                      THEN [stock_management |-> stockManagementCheck(answers["stock_management"]),
                            webhooks |-> webhookCheck(answers["webhooks"])]
                      ELSE Silent({"stock_management", "webhooks"})
           known == [identity |-> identityCheck(conns[1].status),
                     permissions |-> permissionCheck(grantedPermissions(1))]
       IN  Becomes(k, [stage |-> "checked",
                       results |-> known @@
                         IF key THEN asked @@ [api_reachable |-> reachabilityFrom(asked)]
                         ELSE Silent(StoreQuestions \cup {"api_reachable"})])
    /\ UNCHANGED <<StandFrame, standVars>>

\* The checks replace the ones recorded, by one transaction.
recordChecks(k) ==
    /\ Stage(k, "checked")
    /\ checks' = acting[k].results
    /\ available' = IF conns[1].provider = "ebay" THEN summarize(1, checks') ELSE summarizeStore(1, checks')
    /\ Becomes(k, Idle)
    /\ UNCHANGED <<StandFrame, health, quotas, shown, hop>>

\* The page reads the checks recorded, with the grant there is now.
readRecordedChecks ==
    /\ checks # <<>>
    /\ available' = IF conns[1].provider = "ebay" THEN summarize(1, checks) ELSE summarizeStore(1, checks)
    /\ UNCHANGED <<StandFrame, acting, checks, health, quotas, shown, hop>>

-------------------------------------------------------------------------------
\* Health.
recordHealth(failed) ==
    /\ failed => health.failures < MaxFailures
    /\ health' = IF failed THEN [failures |-> health.failures + 1, cooling |-> TRUE, status |-> "failing"]
                 ELSE [failures |-> 0, cooling |-> FALSE, status |-> "healthy"]
    /\ UNCHANGED <<StandFrame, acting, checks, available, quotas, shown, hop>>

CoolDown ==
    /\ health.cooling
    /\ health' = [health EXCEPT !.cooling = FALSE]
    /\ UNCHANGED <<StandFrame, acting, checks, available, quotas, shown, hop>>

circuitStateOf(h) ==
    IF h.failures < CIRCUIT_THRESHOLD THEN "closed" ELSE IF h.cooling THEN "open" ELSE "half_open"

\* Allowances.  Ceilings are parts of the allowance, in percent.
CEILINGS == [background |-> 70, normal |-> 85, critical |-> 95]
NoLimit == 0 - 1

pressureFor(w) ==
    IF w.limit = NoLimit THEN "unknown"
    ELSE IF w.used * 100 >= CEILINGS.critical * w.limit THEN "critical"
    ELSE IF w.used * 100 >= CEILINGS.normal * w.limit THEN "high"
    ELSE IF w.used * 100 >= CEILINGS.background * w.limit THEN "warning"
    ELSE "normal"

verdictFor(w, priority) ==
    \/ w.limit = NoLimit
    \/ w.limit > 0 /\ w.used * 100 < CEILINGS[priority] * w.limit

Ladder == [normal |-> 0, warning |-> 1, high |-> 2, critical |-> 3]
worstPressure ==
    LET known == {pressureFor(quotas[i]) : i \in {j \in DOMAIN quotas : quotas[j].open}} \ {"unknown"}
    IN  IF known = {} THEN "unknown" ELSE CHOOSE p \in known : \A q \in known : Ladder[q] <= Ladder[p]

\* Topics with no registration that works are found by polling.
unregisteredTopics ==
    /\ \E h \in HookIds : hooks[h] # NoRow /\ hooks[h].status \in {"pending", "paused", "failed"}
    /\ ~ \E h \in HookIds : hooks[h] # NoRow /\ hooks[h].status \in {"active", "replacing"}

decide(status, circuit, failures, pressure, polling) ==
    IF status \in {"disconnected", "paused"} \/ circuit = "open" THEN "failing"
    ELSE IF status = "pending" THEN "unknown"
    ELSE IF circuit = "half_open" \/ pressure \in {"critical", "high"} \/ polling \/ failures > 0
    THEN "degraded" ELSE "healthy"

\* The page assesses from what it read and writes the verdict over whatever was recorded
\* meanwhile.
createConnectionHealth(k) ==
    \/ /\ Stage(k, "idle") /\ Exists(1)
       /\ Becomes(k, [stage |-> "assessed", failures |-> health.failures,
                      verdict |-> decide(conns[1].status, circuitStateOf(health), health.failures,
                                         worstPressure, unregisteredTopics)])
       /\ UNCHANGED <<StandFrame, standVars>>
    \/ /\ Stage(k, "assessed")
       /\ health' = [health EXCEPT !.status = acting[k].verdict]
       /\ shown' = acting[k].verdict
       /\ Becomes(k, Idle)
       /\ UNCHANGED <<StandFrame, checks, available, quotas, hop>>

\* An observation replaces what a window said; a call counted here adds to it.
upsert(w, limit, used, increment) ==
    quotas' = [quotas EXCEPT ![w] = [open |-> TRUE, limit |-> IF limit = NoLimit THEN @.limit ELSE limit,
                                     used |-> IF increment THEN @.used + used ELSE used]]

readEbayRateLimits(limit, remaining) ==
    /\ upsert("reported", limit, IF remaining > limit THEN 0 ELSE limit - remaining, FALSE)
    /\ UNCHANGED <<StandFrame, acting, checks, available, health, shown, hop>>

consumeQuota ==
    /\ quotas["counted"].used < MaxUsed
    /\ upsert("counted", NoLimit, 1, TRUE)
    /\ UNCHANGED <<StandFrame, acting, checks, available, health, shown, hop>>

WindowEnds(w) ==
    /\ quotas[w].open
    /\ quotas' = [quotas EXCEPT ![w] = [open |-> FALSE, limit |-> NoLimit, used |-> 0]]
    /\ UNCHANGED <<StandFrame, acting, checks, available, health, shown, hop>>

\* The window with the largest known part spent decides; the first, where none is known.
Fraction(w) == IF w.limit \in {NoLimit, 0} THEN 0 - 1 ELSE (w.used * 100) \div w.limit
createQuotaLedger(priority) ==
    LET open == {i \in DOMAIN quotas : quotas[i].open}
    IN  open = {} \/ \E i \in open : /\ \A j \in open : Fraction(quotas[j]) <= Fraction(quotas[i])
                                     /\ verdictFor(quotas[i], priority)

-------------------------------------------------------------------------------
\* The HTTP client.  Each address a call goes to, by a redirect too, is checked against the
\* policy, by its name and by what it resolves to.
Hosts == [name : {"allowed", "refused"}, resolves : {"public", "private", "nothing"}]

pickAddress(host) == host.resolves = "public"

createHttpClient(host, method, answer) ==
    \/ /\ hop.state = "idle"
       /\ hop' = [state |-> "send", host |-> host, method |-> method, hops |-> 0]
    \/ /\ hop.state = "send"
       /\ hop' = IF hop.host.name = "refused" \/ ~pickAddress(hop.host) THEN [state |-> "blocked"]
                 ELSE [hop EXCEPT !.state = "sent"]
    \/ /\ hop.state = "sent"
       /\ hop' = IF answer \in {"ok", "timeout", "transport", "too_large"} THEN [state |-> answer]
                 ELSE IF hop.hops = MaxRedirects THEN [state |-> "too_many_redirects"]
                 ELSE [state |-> "send", host |-> host, hops |-> hop.hops + 1,
                       method |-> IF answer \in {"see_other", "found"} THEN "GET" ELSE hop.method]

HopStep ==
    /\ scene = "hops"
    /\ \E host \in Hosts, method \in {"GET", "POST"},
          answer \in {"ok", "timeout", "transport", "too_large", "see_other", "found", "temporary"} :
          createHttpClient(host, method, answer)
    /\ UNCHANGED <<StandFrame, acting, checks, available, health, quotas, shown>>

-------------------------------------------------------------------------------
StandInit ==
    /\ checks = <<>> /\ available = {} /\ shown = "unknown"
    /\ health = [failures |-> 0, cooling |-> FALSE, status |-> "unknown"]
    /\ quotas = [w \in {"reported", "counted"} |-> [open |-> FALSE, limit |-> NoLimit, used |-> 0]]
    /\ hop = [state |-> "idle"]

ReadyStep ==
    /\ scene \in {"ready_ebay", "ready_store"}
    /\ \/ \E k \in Callers, answers \in SomeAnswers(EbayQuestions) : createEbayReadiness(k, answers)
       \/ \E k \in Callers, answers \in SomeAnswers(StoreQuestions) : createWooReadiness(k, answers)
       \/ \E k \in Callers : recordChecks(k)
       \/ readRecordedChecks
       \/ TokenLapses(1) /\ UNCHANGED standVars
       \/ \E k \in Callers, who \in Managers :
             \/ disconnectConnectionAction(k, who, 1) /\ UNCHANGED standVars
             \/ \E pause \in BOOLEAN : setConnectionPausedAction(k, who, 1, pause) /\ UNCHANGED standVars
       \/ \E k \in Callers : disconnect(k) /\ UNCHANGED standVars

HealthStep ==
    /\ scene = "health"
    /\ \/ \E failed \in BOOLEAN : recordHealth(failed)
       \/ CoolDown
       \/ \E k \in Callers : createConnectionHealth(k)
       \/ \E limit \in QuotaLimits, remaining \in QuotaLimits : readEbayRateLimits(limit, remaining)
       \/ consumeQuota
       \/ \E w \in DOMAIN quotas : WindowEnds(w)

StandNext == ReadyStep \/ HealthStep \/ HopStep

-------------------------------------------------------------------------------
\* The tightest live window decides: work is allowed only if every open window allows it
\* (check, quota.ts).
TightestWindowDecides ==
    \A p \in DOMAIN CEILINGS : createQuotaLedger(p) =>
       \A i \in DOMAIN quotas : quotas[i].open => verdictFor(quotas[i], p)

================================================================================
