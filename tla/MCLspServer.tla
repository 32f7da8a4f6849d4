----------------------------- MODULE MCLspServer -----------------------------
(* LspServer on small instances.  The times are scaled down: the window of the breaker    *)
(* outlasts the shortest backoff, so two crashes can and need not fall into one window.   *)
EXTENDS LspServer, TLC

CONSTANTS f1, f2, r1, r2

OneAction  == r1 :> f1
SameFile   == r1 :> f1 @@ r2 :> f1

\* Sound for invariants over SameFile: both actions ask about the same file.
Interchangeable == Permutations({r1, r2})
=============================================================================
