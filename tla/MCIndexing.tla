----------------------------- MODULE MCIndexing -----------------------------
(* Instances of Indexing for TLC: one or two files and two contents. *)
EXTENDS Indexing, TLC

CONSTANTS f1, f2, old, new

Interchangeable == Permutations({f1, f2}) \cup Permutations({old, new})
=============================================================================
