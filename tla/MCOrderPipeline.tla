--------------------------- MODULE MCOrderPipeline ---------------------------
(* One order; its lines are decided independently, so one line is enough. *)
EXTENDS OrderPipeline

=============================================================================
