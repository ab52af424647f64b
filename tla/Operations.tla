------------------------------ MODULE Operations ------------------------------
(***************************************************************************)
(* Everything that is done through the review gate, and the suggestions    *)
(* drafts begin with: listings, shipments and suggestions share the rows   *)
(* of reviewed_operations and the executors, and nothing else.             *)
(***************************************************************************)
EXTENDS Listings, Shipping, Suggestions

channelVars == <<channel, mirrored, outOfBand>>
operationVars == <<gateVars, channelVars, parcelVars, aiVars>>

OperationsInit == ListingsInit /\ ShippingInit /\ AiInit

OperationsNext ==
    \/ ListingsNext /\ UNCHANGED <<parcelVars, aiVars>>
    \/ ParcelNext /\ UNCHANGED <<channelVars, aiVars>>
    \/ AiNext /\ UNCHANGED <<channelVars, parcelVars>>

OperationsSpec == OperationsInit /\ [][OperationsNext]_operationVars

===============================================================================
