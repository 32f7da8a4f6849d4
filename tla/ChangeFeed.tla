----------------------------- MODULE ChangeFeed -----------------------------
(***************************************************************************)
(* What the event loop promises to the analysis of files, without threads, *)
(* queues, pipes or timers (src/daemon/coordinator.cpp, run): a start      *)
(* visits every file; after that, a file that is reported to have changed  *)
(* is dirty until a batch takes it, and is in the batch until its analysis *)
(* begins.  A change that is reported while an analysis runs is no less a  *)
(* change, though that analysis may have seen it.                          *)
(*                                                                         *)
(* EventLoop is shown to implement it; Indexing takes its changes from it. *)
(***************************************************************************)
CONSTANTS
  Files,
  Contents,  \* what a change may leave in a file
  Scanned,   \* the files that the scan visits
  Watched    \* the files whose changes are reported

VARIABLES
  disk, exists,
  replaced,  \* files whose last change was a rename onto them, which is not reported
  phase,     \* "down", "scan" or "loop"
  dirty,     \* files whose change was reported and not taken yet
  toScan,    \* files the scan has yet to visit
  todo       \* files of the batch

world == <<disk, exists, replaced>>
vars  == <<world, phase, dirty, toScan, todo>>

Init ==
  /\ disk \in [Files -> Contents] /\ exists \in SUBSET Files /\ replaced = {}
  /\ phase = "down" /\ dirty = {} /\ toScan = {} /\ todo = {}

Start ==
  /\ phase = "down" /\ phase' = "scan"
  /\ toScan' = exists \cap Scanned
  /\ UNCHANGED <<world, dirty, todo>>

ScanFile(f) ==
  /\ phase = "scan" /\ f \in toScan
  /\ toScan' = toScan \ {f}
  /\ UNCHANGED <<world, phase, dirty, todo>>

ScanDone ==
  /\ phase = "scan" /\ toScan = {}
  /\ phase' = "loop"
  /\ UNCHANGED <<world, dirty, toScan, todo>>

\* A batch, once the last is worked off.  A file in it may have changed more than once, and some of
\* the reports be still on their way: then it is dirty as before.
FlushReady ==
  /\ phase = "loop" /\ todo = {}
  /\ todo' \in SUBSET dirty
  /\ \E again \in SUBSET todo' : dirty' = (dirty \ todo') \cup again
  /\ UNCHANGED <<world, phase, toScan>>

Reindex(f) ==
  /\ phase = "loop" /\ f \in todo
  /\ todo' = todo \ {f}
  /\ UNCHANGED <<world, phase, dirty, toScan>>

\* Stopped, crashed or idle: the next start scans again.
Stop ==
  /\ phase # "down" /\ phase' = "down"
  /\ dirty' = {} /\ toScan' = {} /\ todo' = {}
  /\ UNCHANGED world

Change(f, c) ==
  /\ disk' = [disk EXCEPT ![f] = c]
  /\ UNCHANGED <<phase, toScan, todo>>

Reported(f) ==
  /\ dirty' = IF phase # "down" /\ f \in Watched THEN dirty \cup {f} ELSE dirty
  /\ replaced' = replaced \ {f}

Write(f, c)  == Change(f, c) /\ exists' = exists \cup {f} /\ Reported(f)
Delete(f, c) == Change(f, c) /\ exists' = exists \ {f} /\ Reported(f)

Rename(f, c) ==
  /\ Change(f, c)
  /\ exists' = exists \cup {f} /\ replaced' = replaced \cup {f}
  /\ UNCHANGED dirty

Next ==
  \/ Start \/ ScanDone \/ FlushReady \/ Stop
  \/ \E f \in Files : ScanFile(f) \/ Reindex(f)
  \/ \E f \in Files, c \in Contents : Write(f, c) \/ Delete(f, c) \/ Rename(f, c)

Spec == Init /\ [][Next]_vars
=============================================================================
