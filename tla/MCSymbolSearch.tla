---------------------------- MODULE MCSymbolSearch ----------------------------
(* SymbolSearch on small instances: a query that matches a C++ function as a token and
   inside its name, and a Python class inside its name or its documentation; with q2, a
   query without a token. *)
EXTENDS SymbolSearch, TLC

CONSTANTS q1, q2, fun, cls

Kind   == fun :> "function" @@ cls :> "class"
Lang   == fun :> "cpp" @@ cls :> "python"
Token  == q1 :> {fun} @@ q2 :> {}
Inside == q1 :> {fun, cls} @@ q2 :> {cls}
Doc    == q1 :> {cls} @@ q2 :> {fun}
=============================================================================
