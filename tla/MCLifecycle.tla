----------------------------- MODULE MCLifecycle -----------------------------
(* Two listeners, and more connections than permits.                       *)
EXTENDS Lifecycle
=============================================================================
