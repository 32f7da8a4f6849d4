----------------------------- MODULE MCEventLoop -----------------------------
(* EventLoop on small instances. *)
EXTENDS EventLoop, TLC

CONSTANTS f1, f2, c1, c2

Cpp == f1 :> ".cpp"
=============================================================================
