------------------------------ MODULE MCQueries ------------------------------
(* Queries on a small instance: a function f of the file a that moves down a line, and a class
   g of the file b whose body calls f twice, and the file imports a, or that calls h outside the
   project, on a line where a class k calls f.  Nobody calls g and k, so that they are classes
   saves questions that no answer would follow. *)
EXTENDS Queries, TLC

CONSTANTS a, b

Fun(name, from, to) == [name |-> name, kind |-> "function", from |-> from, to |-> to]
Class(name, from, to) == [Fun(name, from, to) EXCEPT !.kind = "class"]
Call(line, caller, callee, to) == [line |-> line, caller |-> caller, callee |-> callee, to |-> to]
Text(symbols, calls, imports) ==
  [symbols |-> symbols, calls |-> calls, imports |-> imports, indexed |-> TRUE]

Texts ==
  a :> {Text({Fun("f", 1, 2)}, {}, {}), Text({Fun("f", 2, 3)}, {}, {})} @@
  b :> {Text({Class("g", 2, 4)}, {Call(3, "g", "f", a), Call(4, "g", "f", a)}, {[line |-> 1, to |-> a]}),
        Text({Class("g", 2, 4), Class("k", 4, 4)}, {Call(4, "g", "h", None), Call(4, "k", "f", a)}, {})}
=============================================================================
