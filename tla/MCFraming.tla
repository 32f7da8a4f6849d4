------------------------------ MODULE MCFraming ------------------------------
(* Framing on small instances: messages of one byte and of two. *)
EXTENDS Framing, TLC

CONSTANTS short, long, req

Sizes == short :> 1 @@ long :> 2 @@ req :> 1
=============================================================================
