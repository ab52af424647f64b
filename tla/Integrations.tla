----------------------------- MODULE Integrations -----------------------------
(***************************************************************************)
(* The integrations of a business (packages/integrations) together: its    *)
(* connections, and over the same rows, credentials and callers the        *)
(* imports, the webhooks of a store, eBay's notifications and the standing *)
(* of a connection.  A step of one leaves what the others keep alone.      *)
(***************************************************************************)
EXTENDS Imports, Webhooks, EbayNotifications, Standing

integrationVars == <<connVars, importVars, hookVars, noteVars, standVars>>

IntegrationsInit == ConnInit /\ ImportInit /\ HookInit /\ NoteInit /\ StandInit

IntegrationsNext ==
    \/ ConnNext /\ UNCHANGED <<importVars, hookVars, noteVars, standVars>>
    \/ ImportNext /\ UNCHANGED <<hookVars, noteVars, standVars>>
    \/ HookNext /\ UNCHANGED <<importVars, noteVars, standVars>>
    \/ NoteNext /\ UNCHANGED <<importVars, hookVars, standVars>>
    \/ StandNext /\ UNCHANGED <<importVars, hookVars, noteVars>>

IntegrationsSpec == IntegrationsInit /\ [][IntegrationsNext]_integrationVars

================================================================================
