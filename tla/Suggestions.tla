------------------------------ MODULE Suggestions ------------------------------
(***************************************************************************)
(* Asking a model for words (packages/ai): the one endpoint a business     *)
(* configures, tests and switches on, and the suggestions its members ask  *)
(* for within a monthly budget.  Asking and testing leave the database for *)
(* the endpoint and come back to it, while others reconfigure or remove    *)
(* the endpoint or spend the same budget.                                  *)
(***************************************************************************)
EXTENDS ReviewGate, Sequences

CONSTANTS
    Askers,       \* requests under way at once
    Addresses,    \* endpoints that can be configured; "private" is one nobody may reach
    RequestCap,   \* monthlyRequestCap
    Answers,      \* what an endpoint may say: [shape, text, entries]
    MaxAsked,     \* bound on the suggestions recorded
    MaxProviders  \* bound on the rows of ai_providers

ASSUME AiAssumption == IsFiniteSet(Askers) /\ Askers # {} /\ RequestCap \in Nat

VARIABLES
    provider,     \* ai_providers: one row per business at most
    aiKey,        \* whether ai_provider_secrets holds a key that is not retired
    suggestions,  \* ai_suggestions, in the order they were recorded
    asking,       \* what each request is doing
    generation,   \* how many rows ai_providers has held, one after the other
    month         \* the budget's month

aiVars == <<provider, aiKey, suggestions, asking, generation, month>>

NoProvider == [id |-> 0]
aiProviders == [id : 1..MaxProviders, kind : {"ollama", "openai_compatible"}, address : Addresses,
                enabled : BOOLEAN, status : {"unchecked", "ready", "failing"}, images : BOOLEAN]
aiSuggestions == [status : {"succeeded", "malformed", "refused", "failed"}, month : 1..2,
                  images : BOOLEAN, payload : SUBSET UNION {a.entries : a \in Answers},
                  applied : BOOLEAN]

PERMISSION_FOR == [draft_fields |-> "create_drafts", kit_recipe |-> "propose_kit_recipes",
                   mapping_candidates |-> "propose_mappings"]

-------------------------------------------------------------------------------
\* What is taken from an answer.  An answer is text, a list or an object; an object has a
\* title or not and a list of entries, each with a usable name or not, a name that means a
\* protected fact (a price, a SKU...) or not, and a quantity.
isProtectedFieldName(entry) == entry.protected

specifics(entries) == {e \in entries : e.named /\ ~isProtectedFieldName(e)}

draftFields(answer) ==
    [valid |-> answer.text \/ specifics(answer.entries) # {}, payload |-> specifics(answer.entries)]

kitRecipe(answer) ==
    LET kept == {e \in answer.entries : e.named /\ e.quantity \in 1..1000}
    IN  [valid |-> kept # {}, payload |-> kept]

mappingCandidates(answer) ==
    LET kept == {e \in answer.entries : e.named}
    IN  [valid |-> kept # {}, payload |-> kept]

parseSuggestion(kind, answer) ==
    CASE answer.shape # "object"     -> [valid |-> FALSE, payload |-> {}]
      [] kind = "draft_fields"       -> draftFields(answer)
      [] kind = "kit_recipe"         -> kitRecipe(answer)
      [] kind = "mapping_candidates" -> mappingCandidates(answer)

\* Images travel when the request, the business and the endpoint's kind all allow it, and
\* only with the subject of a draft.
supportsImages(kind) == kind = "openai_compatible"
buildRequest(kind, wanted, row) ==
    [images |-> wanted /\ row.images /\ supportsImages(row.kind) /\ kind = "draft_fields"]

-------------------------------------------------------------------------------
\* The endpoint.
validateIntegrationUrl(address) == address # "private"

usableProvider == provider # NoProvider /\ provider.enabled /\ provider.status = "ready"

MayManage(who) == authorize(who.subject, "manage_ai", AnyTarget)

\* Replacing the row's settings leaves the switch where it was.
configureProvider(who, kind, address, images, withKey) ==
    /\ MayManage(who) /\ who.recent
    /\ validateIntegrationUrl(address)
    /\ provider = NoProvider => generation < MaxProviders
    /\ generation' = IF provider = NoProvider THEN generation + 1 ELSE generation
    /\ provider' = [id |-> generation',
                    kind |-> kind, address |-> address, status |-> "unchecked", images |-> images,
                    enabled |-> IF provider = NoProvider THEN FALSE ELSE provider.enabled]
    /\ aiKey' = (withKey \/ aiKey)
    /\ UNCHANGED <<suggestions, asking, month>>

setProviderEnabled(who, on) ==
    /\ MayManage(who)
    /\ provider # NoProvider
    /\ on => provider.status = "ready"
    /\ provider' = [provider EXCEPT !.enabled = on]
    /\ UNCHANGED <<aiKey, suggestions, asking, generation, month>>

\* The key is retired and the row deleted by two statements; the suggestions stay.
removeProvider(a, who) ==
    /\ asking[a] = Idle
    /\ MayManage(who)
    /\ provider # NoProvider
    /\ aiKey' = FALSE
    /\ asking' = [asking EXCEPT ![a] = [stage |-> "removing", id |-> provider.id]]
    /\ UNCHANGED <<provider, suggestions, generation, month>>

ProviderDeleted(a) ==
    /\ asking[a] # Idle /\ asking[a].stage = "removing"
    /\ provider' = IF provider.id = asking[a].id THEN NoProvider ELSE provider
    /\ asking' = [asking EXCEPT ![a] = Idle]
    /\ UNCHANGED <<aiKey, suggestions, generation, month>>

\* The row is read, the endpoint asked, and the row marked with the answer: whatever the
\* row says by then.
testProvider(a, who) ==
    /\ asking[a] = Idle
    /\ MayManage(who)
    /\ provider # NoProvider
    /\ asking' = [asking EXCEPT ![a] = [stage |-> "testing", id |-> provider.id]]
    /\ UNCHANGED <<provider, aiKey, suggestions, generation, month>>

EndpointTested(a, answered) ==
    /\ asking[a] # Idle /\ asking[a].stage = "testing"
    /\ provider' = IF provider.id # asking[a].id THEN provider
                   ELSE IF answered THEN [provider EXCEPT !.status = "ready"]
                   ELSE [provider EXCEPT !.status = "failing", !.enabled = FALSE]
    /\ asking' = [asking EXCEPT ![a] = Idle]
    /\ UNCHANGED <<aiKey, suggestions, generation, month>>

-------------------------------------------------------------------------------
\* The budget: the requests of the month that were not refused.
Counted(m) == {i \in DOMAIN suggestions : suggestions[i].month = m /\ suggestions[i].status # "refused"}
readUsage(m) == Cardinality(Counted(m))

assessBudget_OffByOne(usage) == usage <= RequestCap

assessBudget(usage) == usage < RequestCap

recordRow(status, m, images, payload) ==
    suggestions' = Append(suggestions, [status |-> status, month |-> m, images |-> images,
                                        payload |-> payload, applied |-> FALSE])

\* Permission, switch, address and budget, in that order; a refusal is recorded too.
suggest(a, who, kind, wanted) ==
    /\ asking[a] = Idle
    /\ Len(suggestions) < MaxAsked
    /\ IF /\ authorize(who.subject, PERMISSION_FOR[kind], AnyTarget)
          /\ usableProvider
          /\ validateIntegrationUrl(provider.address)
          /\ assessBudget(readUsage(month))
         THEN /\ asking' = [asking EXCEPT ![a] = [stage |-> "asked", id |-> provider.id,
                                  kind |-> kind, month |-> month,
                                  images |-> buildRequest(kind, wanted, provider).images]]
              /\ UNCHANGED suggestions
         ELSE /\ recordRow("refused", month, FALSE, {})
              /\ UNCHANGED asking
    /\ UNCHANGED <<provider, aiKey, generation, month>>

\* The adapter is made from the row as it is now; without the row it raises, and the row
\* of a suggestion refers to it.
adapterFor(a) ==
    /\ asking[a] # Idle /\ asking[a].stage = "asked"
    /\ asking' = IF provider.id = asking[a].id
                   THEN [asking EXCEPT ![a].stage = "calling"] ELSE [asking EXCEPT ![a] = Idle]
    /\ UNCHANGED <<provider, aiKey, suggestions, generation, month>>

\* A call that failed, and an answer, are recorded in the month the request began.
Answered(a, ok, answer) ==
    /\ asking[a] # Idle /\ asking[a].stage = "calling"
    /\ LET taken == parseSuggestion(asking[a].kind, answer)
       IN  IF provider.id # asking[a].id THEN UNCHANGED suggestions
           ELSE recordRow(IF ~ok THEN "failed" ELSE IF taken.valid THEN "succeeded" ELSE "malformed",
                          asking[a].month, asking[a].images, IF ok /\ taken.valid THEN taken.payload ELSE {})
    /\ asking' = [asking EXCEPT ![a] = Idle]
    /\ UNCHANGED <<provider, aiKey, generation, month>>

\* Only a suggestion that succeeded is applied, by the operation it became.
markSuggestionApplied(i) ==
    /\ suggestions[i].status = "succeeded"
    /\ suggestions' = [suggestions EXCEPT ![i].applied = TRUE]
    /\ UNCHANGED <<provider, aiKey, asking, generation, month>>

NewMonth ==
    /\ month = 1
    /\ month' = 2
    /\ UNCHANGED <<provider, aiKey, suggestions, asking, generation>>

-------------------------------------------------------------------------------
AiInit ==
    /\ provider = NoProvider /\ aiKey = FALSE
    /\ suggestions = <<>>
    /\ asking = [a \in Askers |-> Idle]
    /\ generation = 0 /\ month = 1

AiNext ==
    /\ "suggestions" \in features
    /\ \/ \E who \in Confirmers :
             \/ \E k \in {"ollama", "openai_compatible"}, d \in Addresses :
                   configureProvider(who, k, d, TRUE, k = "openai_compatible")
             \/ \E on \in BOOLEAN : setProviderEnabled(who, on)
             \/ \E a \in Askers : removeProvider(a, who) \/ testProvider(a, who)
             \/ \E a \in Askers, k \in features \cap DOMAIN PERMISSION_FOR, b \in BOOLEAN : suggest(a, who, k, b)
       \/ \E a \in Askers : adapterFor(a) \/ ProviderDeleted(a)
       \/ \E a \in Askers, answered \in BOOLEAN : EndpointTested(a, answered)
       \/ \E a \in Askers, answer \in Answers : Answered(a, TRUE, answer) \/ Answered(a, FALSE, answer)
       \/ \E i \in DOMAIN suggestions : markSuggestionApplied(i)
       \/ NewMonth
    /\ UNCHANGED gateVars

-------------------------------------------------------------------------------
\* However many requests are under way at once, a month's budget is passed by at most those
\* that had looked at it before it was spent (suggest reads the usage, leaves for the
\* endpoint and records what it spent when it comes back).
BudgetOverrunIsBounded == \A m \in 1..2 : readUsage(m) <= RequestCap + Cardinality(Askers) - 1

===============================================================================
