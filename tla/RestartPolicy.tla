---------------------------- MODULE RestartPolicy ----------------------------
(***************************************************************************)
(* What LspManager promises about restarting a language server, without    *)
(* processes, requests or callbacks: a failure is answered by a restart    *)
(* after a backoff that doubles up to a cap, until the failures of the     *)
(* recent window reach a limit; then the server stays down                 *)
(* (src/lsp/lsp_manager.h:82-85, tests/test_lsp_manager.cpp:119-187).      *)
(*                                                                         *)
(* The window is stated here as the set of recent failures; LspServer is   *)
(* shown to implement it with the deque the code keeps.                    *)
(***************************************************************************)
EXTENDS Integers, Sequences, FiniteSets

CONSTANTS Limit, Window, BackoffCap

VARIABLES
  phase,     \* "down" before the first start, "up", "backoff" or "open"
  failures,  \* ages of the failures that were recent at the last failure
  attempts,  \* restarts scheduled so far
  wait       \* time left before the next restart

vars == <<phase, failures, attempts, wait>>

\* The newest failures, as many as are recent.
Recent(ages) ==
  LET count == Cardinality({i \in DOMAIN ages : ages[i] <= Window})
  IN SubSeq(ages, Len(ages) - count + 1, Len(ages))

Backoff(n) == IF 2^n \in 1 .. BackoffCap THEN 2^n ELSE BackoffCap

Init == phase = "down" /\ failures = <<>> /\ attempts = 0 /\ wait = 0

Start ==
  /\ \/ phase = "down"
     \/ phase = "backoff" /\ wait = 0
  /\ phase' = "up"
  /\ UNCHANGED <<failures, attempts, wait>>

Fail ==
  /\ phase = "up"
  /\ failures' = Append(Recent(failures), 0)
  /\ \/ /\ Len(failures') >= Limit
        /\ phase' = "open"
        /\ UNCHANGED <<attempts, wait>>
     \/ /\ Len(failures') < Limit
        /\ phase' = "backoff"
        /\ wait' = Backoff(attempts)
        /\ attempts' = attempts + 1

SecondPasses ==
  /\ failures' = [i \in DOMAIN failures |-> IF failures[i] > Window THEN failures[i]
                                            ELSE failures[i] + 1]
  /\ wait' = IF wait = 0 THEN 0 ELSE wait - 1
  /\ UNCHANGED <<phase, attempts>>

Next == Start \/ Fail \/ SecondPasses

Spec == Init /\ [][Next]_vars
=============================================================================
