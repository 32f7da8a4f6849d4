----------------------------- MODULE MCLifecycle -----------------------------
(* Lifecycle on small instances. *)
EXTENDS Lifecycle

CONSTANTS d0, d1, d2, t1, t2
=============================================================================
