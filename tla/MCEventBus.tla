----------------------------- MODULE MCEventBus -----------------------------
(* EventBus with a short queue and few boxes, for TLC. *)
EXTENDS EventBus
=============================================================================
