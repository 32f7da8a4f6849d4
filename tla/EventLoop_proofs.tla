--------------------------- MODULE EventLoop_proofs ---------------------------
(***************************************************************************)
(* The safety properties of EventLoop hold for every set of files and      *)
(* clients and every value of the bounds.                                  *)
(*                                                                         *)
(* NoLostWakeup is inductive as it stands, given the types.                *)
(* EveryChangeTracked is not: a change is noticed only because the watcher *)
(* runs whenever the loop does (WatchedInLoop), and a batch never          *)
(* overwrites an unfinished one (OneBatch).                                *)
(***************************************************************************)
EXTENDS EventLoop, TLAPS

\* The watcher thread runs from the initial scan until shutdown has joined it.
WatchedInLoop == pc \notin {"down", "start", "cleanup"} => watching

\* Ready paths are left over only while they are being indexed, or by a crash.
OneBatch == todo # {} => pc \in {"index", "down"}

Inv == TypeOK /\ WatchedInLoop /\ OneBatch /\ NoLostWakeup /\ EveryChangeTracked

-----------------------------------------------------------------------------
(* The types *)

LEMMA TypeInit == Init => TypeOK
<1> SUFFICES ASSUME Init PROVE TypeOK
  OBVIOUS
<1>1. FlagsOK
  BY DEF Init, FlagsOK
<1>2. notices \in Seq(Notices) /\ eventQueue \in Seq(Files) /\ backlog \in Seq(Clients)
  BY DEF Init
<1> QED BY <1>1, <1>2, EventLoopAssumption
        DEF EventLoopAssumption, Init, TypeOK, Pcs, Untouched

LEMMA FlagsNext == FlagsOK /\ [Next]_vars => FlagsOK'
<1> SUFFICES ASSUME FlagsOK, [Next]_vars PROVE FlagsOK'
  OBVIOUS
<1> USE DEF FlagsOK, feed, stop
<1>1. CASE WatcherStep
  BY <1>1 DEF WatcherStep, HandleFileAction, WakeUp
<1>2. CASE MainStep
  <2>1. CASE \/ StartWatcher \/ ScanDone \/ CheckStop \/ DrainPipe \/ NotWoken
             \/ ProcessFileEvents \/ FlushReady
    BY <2>1 DEF StartWatcher, ScanDone, CheckStop, DrainPipe, NotWoken, ProcessFileEvents,
                FlushReady
  <2>2. CASE \/ ReceiveEof \/ ReceiveQuery \/ ReceiveStop \/ NotifyWakeup
             \/ IndexDone \/ CheckIdle \/ StopWatcher \/ Cleanup
    BY <2>2 DEF ReceiveEof, ReceiveQuery, ReceiveStop, NotifyWakeup, IndexDone, CheckIdle,
                StopWatcher, Cleanup
  <2>3. CASE \E f \in Files : ScanFile(f) \/ Reindex(f)
    BY <2>3 DEF ScanFile, Reindex
  <2>4. CASE Poll
    <3>1. wakeReady' \in BOOLEAN
      BY <2>4 DEF Poll
    <3> QED BY <2>4, <3>1 DEF Poll
  <2> QED BY <1>2, <2>1, <2>2, <2>3, <2>4 DEF MainStep
<1>3. CASE EnvironmentStep
  BY <1>3 DEF EnvironmentStep, Start, Crash, Signal, TimePasses, FileChanges, ClientConnects,
              ClientSends, ClientLeaves
<1>4. CASE UNCHANGED vars
  BY <1>4 DEF vars
<1> QED BY <1>1, <1>2, <1>3, <1>4 DEF Next

LEMMA HeadTail ==
  ASSUME NEW S, NEW s \in Seq(S), s # <<>>
  PROVE  Head(s) \in S /\ Tail(s) \in Seq(S)
OBVIOUS

LEMMA AtMostAppended ==
  ASSUME NEW S, NEW s \in Seq(S), NEW e \in S, NEW t, t = s \/ t = Append(s, e)
  PROVE  t \in Seq(S)
OBVIOUS

LEMMA TypeWatcher == TypeOK /\ WatcherStep => TypeOK'
<1> SUFFICES ASSUME TypeOK, WatcherStep PROVE TypeOK'
  OBVIOUS
<1>f. FlagsOK'
  BY FlagsNext DEF TypeOK, Next
<1>1. CASE HandleFileAction
  <2>1. Head(notices) \in Notices /\ Tail(notices) \in Seq(Notices)
    BY <1>1, HeadTail DEF HandleFileAction, TypeOK
  <2>2. Head(notices).file \in Files
    BY <2>1 DEF Notices
  <2>3. eventQueue' = eventQueue \/ eventQueue' = Append(eventQueue, Head(notices).file)
    BY <1>1 DEF HandleFileAction
  <2>4. eventQueue' \in Seq(Files)
    BY <2>2, <2>3, AtMostAppended DEF TypeOK
  <2>5. watcher' \in {"idle", "wakeup"}
    BY <1>1 DEF HandleFileAction, TypeOK
  <2> QED BY <1>f, <1>1, <2>1, <2>4, <2>5
          DEF HandleFileAction, TypeOK, world, ipc, work, stop
<1>2. CASE WakeUp
  BY <1>f, <1>2, EventLoopAssumption
     DEF WakeUp, TypeOK, EventLoopAssumption, world, ipc, work, stop
<1> QED BY <1>1, <1>2 DEF WatcherStep

LEMMA TypeMain == TypeOK /\ MainStep => TypeOK'
<1> SUFFICES ASSUME TypeOK, MainStep PROVE TypeOK'
  OBVIOUS
<1>f. FlagsOK'
  BY FlagsNext DEF TypeOK, Next
<1> USE <1>f, EventLoopAssumption DEF EventLoopAssumption, TypeOK, Goto, world, feed, ipc,
                                      work, stop
<1>1. CASE StartWatcher
  BY <1>1 DEF StartWatcher, Pcs
<1>2. CASE ScanDone
  BY <1>2 DEF ScanDone, Pcs
<1>3. CASE CheckStop \/ CheckIdle \/ NotWoken
  BY <1>3 DEF CheckStop, CheckIdle, NotWoken, Pcs
<1>4. CASE Poll
  <2>1. CASE backlog = <<>>
    BY <1>4, <2>1 DEF Poll, Pcs
  <2>2. CASE backlog # <<>>
    <3>1. Head(backlog) \in Clients /\ Tail(backlog) \in Seq(Clients)
      BY <2>2, HeadTail DEF TypeOK
    <3> QED BY <1>4, <2>2, <3>1 DEF Poll, Pcs
  <2> QED BY <2>1, <2>2
<1>5. CASE ReceiveEof \/ ReceiveQuery
  <2>1. client' = [client EXCEPT ![serving] = "out"] /\ serving' = None
    BY <1>5 DEF ReceiveEof, ReceiveQuery, HangUp
  <2>2. client' \in [Clients -> {"out", "connected", "query", "stop", "left"}]
    BY <2>1
  <2> QED BY <1>5, <2>1, <2>2 DEF ReceiveEof, ReceiveQuery, Pcs
<1>6. CASE ReceiveStop
  BY <1>6 DEF ReceiveStop, Pcs
<1>7. CASE NotifyWakeup
  BY <1>7 DEF NotifyWakeup, HangUp, Pcs
<1>8. CASE DrainPipe
  BY <1>8 DEF DrainPipe, Pcs
<1>9. CASE ProcessFileEvents
  BY <1>9 DEF ProcessFileEvents, Pcs, Untouched
<1>10. CASE FlushReady
  BY <1>10 DEF FlushReady, Pcs, Untouched
<1>11. CASE IndexDone
  BY <1>11 DEF IndexDone, Pcs
<1>12. CASE StopWatcher
  BY <1>12 DEF StopWatcher, Pcs
<1>13. CASE Cleanup
  BY <1>13 DEF Cleanup, Disconnected, Pcs
<1>14. ASSUME NEW f \in Files, ScanFile(f) \/ Reindex(f)
       PROVE  TypeOK'
  BY <1>14 DEF ScanFile, Reindex, Analyse
<1> QED BY <1>1, <1>2, <1>3, <1>4, <1>5, <1>6, <1>7, <1>8, <1>9, <1>10, <1>11, <1>12, <1>13,
           <1>14 DEF MainStep

LEMMA TypeEnvironment == TypeOK /\ EnvironmentStep => TypeOK'
<1> SUFFICES ASSUME TypeOK, EnvironmentStep PROVE TypeOK'
  OBVIOUS
<1>f. FlagsOK'
  BY FlagsNext DEF TypeOK, Next
<1> USE <1>f, EventLoopAssumption DEF EventLoopAssumption, TypeOK, Goto, world, feed, ipc,
                                      work, stop
<1>1. CASE Start
  BY <1>1 DEF Start, Pcs, Untouched
<1>2. CASE Crash
  BY <1>2 DEF Crash, Disconnected, Pcs
<1>3. CASE Signal
  BY <1>3 DEF Signal, Pcs
<1>4. CASE TimePasses
  BY <1>4 DEF TimePasses, Untouched
<1>5. ASSUME NEW f \in Files, NEW action \in FileActions, FileChanges(f, action)
      PROVE  TypeOK'
  <2>1. [file |-> f, action |-> action] \in Notices
    BY DEF Notices
  <2>2. notices' = notices \/ notices' = Append(notices, [file |-> f, action |-> action])
    BY <1>5 DEF FileChanges
  <2>3. notices' \in Seq(Notices)
    BY <2>1, <2>2, AtMostAppended
  <2> QED BY <1>5, <2>3 DEF FileChanges
<1>6. ASSUME NEW c \in Clients, ClientConnects(c)
      PROVE  TypeOK'
  BY <1>6 DEF ClientConnects
<1>7. ASSUME NEW c \in Clients, ClientSends(c) \/ ClientLeaves(c)
      PROVE  TypeOK'
  BY <1>7 DEF ClientSends, ClientLeaves
<1> QED BY <1>1, <1>2, <1>3, <1>4, <1>5, <1>6, <1>7 DEF EnvironmentStep

LEMMA TypeNext == TypeOK /\ [Next]_vars => TypeOK'
<1> SUFFICES ASSUME TypeOK, [Next]_vars PROVE TypeOK'
  OBVIOUS
<1>1. CASE UNCHANGED vars
  BY <1>1 DEF TypeOK, FlagsOK, vars, world, feed, ipc, work, stop
<1> QED BY <1>1, TypeWatcher, TypeMain, TypeEnvironment DEF Next

\* Every variable keeps its type.
THEOREM TypeCorrect == Spec => []TypeOK
BY TypeInit, TypeNext, PTL DEF Spec

-----------------------------------------------------------------------------
(* No wakeup is lost *)

LEMMA NoLostWakeupNext == TypeOK /\ NoLostWakeup /\ [Next]_vars => NoLostWakeup'
<1> SUFFICES ASSUME TypeOK, NoLostWakeup, [Next]_vars PROVE NoLostWakeup'
  OBVIOUS
<1> USE DEF NoLostWakeup, Goto, feed
<1>1. CASE WatcherStep
  <2>1. CASE HandleFileAction
    BY <2>1 DEF HandleFileAction
  <2>2. CASE WakeUp
    BY <2>2, EventLoopAssumption DEF WakeUp, TypeOK, EventLoopAssumption
  <2> QED BY <1>1, <2>1, <2>2 DEF WatcherStep
<1>2. CASE MainStep
  <2>1. CASE \/ StartWatcher \/ ScanDone \/ CheckStop \/ Poll \/ NotWoken \/ FlushReady
             \/ IndexDone \/ CheckIdle \/ StopWatcher \/ Cleanup
    BY <2>1 DEF StartWatcher, ScanDone, CheckStop, Poll, NotWoken, FlushReady, IndexDone,
                CheckIdle, StopWatcher, Cleanup
  <2>2. CASE ReceiveEof \/ ReceiveQuery \/ ReceiveStop
    BY <2>2 DEF ReceiveEof, ReceiveQuery, ReceiveStop
  <2>3. CASE NotifyWakeup
    BY <2>3, EventLoopAssumption DEF NotifyWakeup, TypeOK, EventLoopAssumption
  <2>4. CASE DrainPipe
    BY <2>4 DEF DrainPipe
  <2>5. CASE ProcessFileEvents
    BY <2>5 DEF ProcessFileEvents
  <2>6. CASE \E f \in Files : ScanFile(f) \/ Reindex(f)
    BY <2>6 DEF ScanFile, Reindex
  <2> QED BY <1>2, <2>1, <2>2, <2>3, <2>4, <2>5, <2>6 DEF MainStep
<1>3. CASE EnvironmentStep
  BY <1>3 DEF EnvironmentStep, Start, Crash, Signal, TimePasses, FileChanges, ClientConnects,
              ClientSends, ClientLeaves
<1>4. CASE UNCHANGED vars
  BY <1>4 DEF vars
<1> QED BY <1>1, <1>2, <1>3, <1>4 DEF Next

\* The main thread never sleeps on a queue that nobody will wake it for.
THEOREM WakeupsNotLost == Spec => []NoLostWakeup
<1>1. Init => NoLostWakeup
  BY DEF Init, NoLostWakeup
<1> QED BY <1>1, TypeCorrect, NoLostWakeupNext, PTL DEF Spec

-----------------------------------------------------------------------------
(* No change is lost *)

LEMMA WatchedInLoopNext == TypeOK /\ WatchedInLoop /\ [Next]_vars => WatchedInLoop'
<1> SUFFICES ASSUME TypeOK, WatchedInLoop, [Next]_vars PROVE WatchedInLoop'
  OBVIOUS
<1> USE DEF WatchedInLoop, Goto, feed
<1>1. CASE WatcherStep
  BY <1>1 DEF WatcherStep, HandleFileAction, WakeUp
<1>2. CASE MainStep
  <2>1. CASE \/ StartWatcher \/ ScanDone \/ CheckStop \/ Poll \/ NotWoken \/ DrainPipe
             \/ ProcessFileEvents \/ FlushReady
    BY <2>1 DEF StartWatcher, ScanDone, CheckStop, Poll, NotWoken, DrainPipe,
                ProcessFileEvents, FlushReady
  <2>2. CASE \/ ReceiveEof \/ ReceiveQuery \/ ReceiveStop \/ NotifyWakeup
             \/ IndexDone \/ CheckIdle \/ StopWatcher \/ Cleanup
    BY <2>2 DEF ReceiveEof, ReceiveQuery, ReceiveStop, NotifyWakeup, IndexDone, CheckIdle,
                StopWatcher, Cleanup
  <2>3. CASE \E f \in Files : ScanFile(f) \/ Reindex(f)
    BY <2>3 DEF ScanFile, Reindex
  <2> QED BY <1>2, <2>1, <2>2, <2>3 DEF MainStep
<1>3. CASE EnvironmentStep
  BY <1>3 DEF EnvironmentStep, Start, Crash, Signal, TimePasses, FileChanges, ClientConnects,
              ClientSends, ClientLeaves
<1>4. CASE UNCHANGED vars
  BY <1>4 DEF vars
<1> QED BY <1>1, <1>2, <1>3, <1>4 DEF Next

LEMMA OneBatchNext == TypeOK /\ OneBatch /\ [Next]_vars => OneBatch'
<1> SUFFICES ASSUME TypeOK, OneBatch, [Next]_vars PROVE OneBatch'
  OBVIOUS
<1> USE DEF OneBatch, Goto, work
<1>1. CASE WatcherStep
  BY <1>1 DEF WatcherStep, HandleFileAction, WakeUp
<1>2. CASE MainStep
  <2>1. CASE \/ StartWatcher \/ ScanDone \/ CheckStop \/ Poll \/ NotWoken \/ DrainPipe
             \/ ProcessFileEvents \/ FlushReady
    BY <2>1 DEF StartWatcher, ScanDone, CheckStop, Poll, NotWoken, DrainPipe,
                ProcessFileEvents, FlushReady
  <2>2. CASE \/ ReceiveEof \/ ReceiveQuery \/ ReceiveStop \/ NotifyWakeup
             \/ IndexDone \/ CheckIdle \/ StopWatcher \/ Cleanup
    BY <2>2 DEF ReceiveEof, ReceiveQuery, ReceiveStop, NotifyWakeup, IndexDone, CheckIdle,
                StopWatcher, Cleanup
  <2>3. CASE \E f \in Files : ScanFile(f) \/ Reindex(f)
    BY <2>3 DEF ScanFile, Reindex
  <2> QED BY <1>2, <2>1, <2>2, <2>3 DEF MainStep
<1>3. CASE EnvironmentStep
  BY <1>3 DEF EnvironmentStep, Start, Crash, Signal, TimePasses, FileChanges, ClientConnects,
              ClientSends, ClientLeaves
<1>4. CASE UNCHANGED vars
  BY <1>4 DEF vars
<1> QED BY <1>1, <1>2, <1>3, <1>4 DEF Next

\* What EveryChangeTracked says of one file.
Tracked(f) == Pending(f) \/ f \in replaced \/ Stopping \/ pc = "start"

Behind(f) == f \in exists \cap Watched /\ analysed[f] # disk[f]

\* What leaves the head of the notices was the head.
LEMMA NoticedTail ==
  ASSUME TypeOK, notices # <<>>, notices' = Tail(notices), NEW f \in Files, Noticed(f)
  PROVE  \/ Noticed(f)'
         \/ /\ Head(notices).file = f
            /\ Head(notices).action \in {"Add", "Modified", "Delete"}
<1>1. notices \in Seq(Notices)
  BY DEF TypeOK
<1>2. PICK i \in DOMAIN notices :
        notices[i].file = f /\ notices[i].action \in {"Add", "Modified", "Delete"}
  BY DEF Noticed
<1>3. CASE i = 1
  BY <1>1, <1>2, <1>3
<1>4. CASE i # 1
  <2>1. i - 1 \in DOMAIN Tail(notices) /\ Tail(notices)[i - 1] = notices[i]
    BY <1>1, <1>4
  <2> QED BY <1>2, <2>1 DEF Noticed
<1> QED BY <1>3, <1>4

LEMMA NoticedAppend ==
  ASSUME TypeOK, NEW n, notices' = Append(notices, n), NEW f \in Files
  PROVE  /\ Noticed(f) => Noticed(f)'
         /\ n.file = f /\ n.action \in {"Add", "Modified", "Delete"} => Noticed(f)'
<1>1. notices \in Seq(Notices)
  BY DEF TypeOK
<1>2. /\ DOMAIN notices' = 1 .. Len(notices) + 1
      /\ \A i \in 1 .. Len(notices) : notices'[i] = notices[i]
      /\ notices'[Len(notices) + 1] = n
      /\ DOMAIN notices = 1 .. Len(notices) /\ Len(notices) \in Nat
  BY <1>1
<1> QED BY <1>2 DEF Noticed

LEMMA QueuedAppend ==
  ASSUME TypeOK, NEW n, eventQueue' = Append(eventQueue, n), NEW f \in Files
  PROVE  (Queued(f) => Queued(f)') /\ (n = f => Queued(f)')
<1>1. eventQueue \in Seq(Files)
  BY DEF TypeOK
<1>2. /\ DOMAIN eventQueue' = 1 .. Len(eventQueue) + 1
      /\ \A i \in 1 .. Len(eventQueue) : eventQueue'[i] = eventQueue[i]
      /\ eventQueue'[Len(eventQueue) + 1] = n
      /\ DOMAIN eventQueue = 1 .. Len(eventQueue) /\ Len(eventQueue) \in Nat
  BY <1>1
<1> QED BY <1>2 DEF Queued

LEMMA TrackedByWatcher ==
  ASSUME TypeOK, EveryChangeTracked, WatcherStep
  PROVE  EveryChangeTracked'
<1> SUFFICES ASSUME NEW f \in Files, Behind(f)' PROVE Tracked(f)'
  BY DEF EveryChangeTracked, Tracked, Behind, Watched
<1>1. f \in Watched /\ Behind(f) /\ UNCHANGED <<exists, disk, analysed>>
  BY DEF Behind, WatcherStep, HandleFileAction, WakeUp, world, work, Watched
<1>2. Tracked(f)
  BY <1>1 DEF EveryChangeTracked, Tracked, Behind
<1>3. CASE WakeUp
  BY <1>2, <1>3 DEF WakeUp, Tracked, Pending, Noticed, Queued, Stopping, world, work
<1>4. CASE HandleFileAction
  <2>1. UNCHANGED <<replaced, toScan, todo, debounce, pc>>
    BY <1>4 DEF HandleFileAction, world, work
  <2>2. notices # <<>> /\ notices' = Tail(notices)
    BY <1>4 DEF HandleFileAction
  <2>3. Queued(f) => Queued(f)'
    BY <1>4, QueuedAppend DEF HandleFileAction, Queued
  <2>4. ASSUME Noticed(f) PROVE Noticed(f)' \/ Queued(f)'
    <3>1. CASE /\ Head(notices).file = f
               /\ Head(notices).action \in {"Add", "Modified", "Delete"}
      BY <1>1, <1>4, <3>1, QueuedAppend DEF HandleFileAction
    <3> QED BY <2>2, <2>4, <3>1, NoticedTail
  <2> QED BY <1>2, <2>1, <2>3, <2>4 DEF Tracked, Pending, Stopping
<1> QED BY <1>3, <1>4 DEF WatcherStep

LEMMA TrackedByMain ==
  ASSUME TypeOK, OneBatch, EveryChangeTracked, MainStep
  PROVE  EveryChangeTracked'
<1> SUFFICES ASSUME NEW f \in Files, Behind(f)' PROVE Tracked(f)'
  BY DEF EveryChangeTracked, Tracked, Behind, Watched
<1> USE DEF Goto, world, feed, work
<1>1. ASSUME NEW g \in Files, ScanFile(g) \/ Reindex(g)
      PROVE  Tracked(f)'
  <2>1. f # g /\ Behind(f)
    BY <1>1 DEF ScanFile, Reindex, Analyse, Behind, Watched, TypeOK
  <2>2. Tracked(f)
    BY <2>1 DEF EveryChangeTracked, Tracked, Behind
  <2> QED BY <1>1, <2>1, <2>2
          DEF ScanFile, Reindex, Tracked, Pending, Noticed, Queued, Stopping
<1>2. CASE StartWatcher
  BY <1>2 DEF StartWatcher, Tracked, Pending, Behind, Watched, Scanned, kScanExtensions
<1>3. CASE StopWatcher \/ Cleanup
  BY <1>3 DEF StopWatcher, Cleanup, Tracked, Stopping
<1>4. CASE \/ ScanDone \/ CheckStop \/ Poll \/ DrainPipe \/ NotWoken \/ IndexDone
           \/ CheckIdle \/ ReceiveEof \/ ReceiveQuery \/ ReceiveStop \/ NotifyWakeup
  <2>1. /\ UNCHANGED <<exists, disk, analysed, replaced, notices, eventQueue, debounce, toScan,
                       todo>>
        /\ pc \notin {"start", "shutdown", "cleanup", "down"}
    BY <1>4 DEF ScanDone, CheckStop, Poll, DrainPipe, NotWoken, IndexDone, CheckIdle,
                ReceiveEof, ReceiveQuery, ReceiveStop, NotifyWakeup
  <2>2. Tracked(f)
    BY <2>1 DEF EveryChangeTracked, Tracked, Behind, Watched
  <2> QED BY <2>1, <2>2 DEF Tracked, Pending, Noticed, Queued, Stopping
<1>5. CASE ProcessFileEvents
  <2>1. Tracked(f)
    BY <1>5 DEF ProcessFileEvents, EveryChangeTracked, Tracked, Behind, Watched
  <2>2. Queued(f) \/ debounce[f] # Untouched => debounce'[f] # Untouched
    BY <1>5 DEF ProcessFileEvents, Untouched
  <2> QED BY <1>5, <2>1, <2>2 DEF ProcessFileEvents, Tracked, Pending, Noticed, Stopping
<1>6. CASE FlushReady
  <2>1. Tracked(f) /\ todo = {}
    BY <1>6 DEF FlushReady, EveryChangeTracked, Tracked, Behind, Watched, OneBatch
  <2>2. debounce[f] # Untouched => debounce'[f] # Untouched \/ f \in todo'
    BY <1>6 DEF FlushReady
  <2> QED BY <1>6, <2>1, <2>2 DEF FlushReady, Tracked, Pending, Noticed, Queued, Stopping
<1> QED BY <1>1, <1>2, <1>3, <1>4, <1>5, <1>6 DEF MainStep

LEMMA TrackedByEnvironment ==
  ASSUME TypeOK, WatchedInLoop, EveryChangeTracked, EnvironmentStep
  PROVE  EveryChangeTracked'
<1> SUFFICES ASSUME NEW f \in Files, Behind(f)' PROVE Tracked(f)'
  BY DEF EveryChangeTracked, Tracked, Behind, Watched
<1> USE DEF Goto, feed, work
<1>1. CASE Start \/ Crash
  BY <1>1 DEF Start, Crash, Tracked, Stopping
<1>2. CASE \/ Signal \/ TimePasses
           \/ \E c \in Clients : ClientConnects(c) \/ ClientSends(c) \/ ClientLeaves(c)
  <2>1. /\ UNCHANGED <<exists, disk, analysed, replaced, notices, eventQueue, toScan, todo>>
        /\ pc' = pc \/ pc = "poll"
    BY <1>2 DEF Signal, TimePasses, ClientConnects, ClientSends, ClientLeaves, world
  <2>2. Tracked(f)
    BY <2>1 DEF EveryChangeTracked, Tracked, Behind, Watched
  <2>3. debounce[f] # Untouched => debounce'[f] # Untouched
    BY <1>2, EventLoopAssumption
       DEF Signal, TimePasses, ClientConnects, ClientSends, ClientLeaves, Untouched, TypeOK,
           EventLoopAssumption
  <2> QED BY <2>1, <2>2, <2>3 DEF Tracked, Pending, Noticed, Queued, Stopping
<1>3. ASSUME NEW g \in Files, NEW action \in FileActions, FileChanges(g, action)
      PROVE  Tracked(f)'
  <2>1. UNCHANGED <<analysed, eventQueue, debounce, toScan, todo, pc>>
    BY <1>3 DEF FileChanges
  <2>2. CASE ~watching
    BY <2>1, <2>2 DEF WatchedInLoop, Tracked, Stopping
  <2>3. CASE watching
    <3>1. notices' = Append(notices, [file |-> g, action |-> action])
      BY <1>3, <2>3 DEF FileChanges
    <3>2. CASE f = g
      <4>1. CASE action = "Moved"
        BY <1>3, <3>2, <4>1 DEF FileChanges, Tracked
      <4>2. CASE action # "Moved"
        BY <3>1, <3>2, <4>2, NoticedAppend, EventLoopAssumption
           DEF EventLoopAssumption, Tracked, Pending
      <4> QED BY <4>1, <4>2
    <3>3. CASE f # g
      <4>1. Behind(f) /\ (f \in replaced => f \in replaced')
        BY <1>3, <2>1, <3>3 DEF FileChanges, Behind, Watched, TypeOK
      <4>2. Tracked(f)
        BY <4>1 DEF EveryChangeTracked, Tracked, Behind
      <4> QED BY <2>1, <3>1, <4>1, <4>2, NoticedAppend
              DEF Tracked, Pending, Queued, Stopping
    <3> QED BY <3>2, <3>3
  <2> QED BY <2>2, <2>3, TypeOK DEF TypeOK, FlagsOK
<1> QED BY <1>1, <1>2, <1>3 DEF EnvironmentStep

LEMMA InvNext == Inv /\ [Next]_vars => Inv'
<1> SUFFICES ASSUME Inv, [Next]_vars PROVE Inv'
  OBVIOUS
<1>1. TypeOK' /\ WatchedInLoop' /\ OneBatch' /\ NoLostWakeup'
  BY TypeNext, WatchedInLoopNext, OneBatchNext, NoLostWakeupNext DEF Inv
<1>2. EveryChangeTracked'
  <2>1. CASE UNCHANGED vars
    BY <2>1 DEF Inv, EveryChangeTracked, Pending, Noticed, Queued, Stopping, vars, world, feed,
                work
  <2> QED BY <2>1, TrackedByWatcher, TrackedByMain, TrackedByEnvironment DEF Inv, Next
<1> QED BY <1>1, <1>2 DEF Inv

\* A file the index is behind on is always on its way to it, for every number of files,
\* clients and changes: the scan, the watcher, the queue, the debouncer and the batch hand it
\* on without a gap.
THEOREM ChangesTracked == Spec => []EveryChangeTracked
<1>1. Init => Inv
  BY TypeInit DEF Init, Inv, WatchedInLoop, OneBatch, NoLostWakeup, EveryChangeTracked, Stopping
<1>2. Inv => EveryChangeTracked
  BY DEF Inv
<1> QED BY <1>1, <1>2, InvNext, PTL DEF Spec

-----------------------------------------------------------------------------
(* The loop implements ChangeFeed *)

\* The watcher is off before and after the loop, a start finds nothing left of the last run, and
\* no other path than a watched one is queued or touched.
Fresh ==
  /\ pc \in {"down", "start", "cleanup"} => ~watching
  /\ pc = "start" =>
       /\ notices = <<>> /\ eventQueue = <<>> /\ todo = {}
       /\ \A f \in Files : debounce[f] = Untouched
  /\ \A f \in Files : Queued(f) \/ debounce[f] # Untouched => f \in Watched

LEMMA FreshNext == Inv /\ Fresh /\ [Next]_vars => Fresh'
<1> SUFFICES ASSUME Inv, Fresh, [Next]_vars PROVE Fresh'
  OBVIOUS
<1> USE DEF Goto, world, feed, work, ipc, stop
<1>t. TypeOK /\ Watched' = Watched
  BY DEF Inv, Watched
<1>1. CASE HandleFileAction
  <2>1. UNCHANGED <<pc, watching, todo, debounce>> /\ pc # "start" /\ watching
    BY <1>1 DEF HandleFileAction, Fresh
  <2>2. \A f \in Files : Queued(f)' => Queued(f) \/ f \in Watched
    <3>1. CASE eventQueue' = eventQueue
      BY <3>1 DEF Queued
    <3>2. CASE eventQueue' # eventQueue
      <4>1. PICK g \in Watched : eventQueue' = Append(eventQueue, g)
        BY <1>1, <3>2 DEF HandleFileAction
      <4>2. eventQueue \in Seq(Files)
        BY <1>t DEF TypeOK
      <4> QED BY <4>1, <4>2 DEF Queued
    <3> QED BY <3>1, <3>2
  <2> QED BY <1>t, <2>1, <2>2 DEF Fresh
<1>2. CASE WakeUp
  BY <1>t, <1>2 DEF WakeUp, Fresh, Queued
<1>3. CASE \/ ScanDone \/ CheckStop \/ Poll \/ ReceiveEof \/ ReceiveQuery \/ ReceiveStop \/ NotifyWakeup
           \/ DrainPipe \/ NotWoken \/ IndexDone \/ CheckIdle
  <2>1. /\ UNCHANGED <<notices, watching, eventQueue, debounce, todo>>
        /\ pc' \notin {"down", "start", "cleanup"}
    BY <1>3 DEF ScanDone, CheckStop, Poll, ReceiveEof, ReceiveQuery, ReceiveStop, NotifyWakeup,
                DrainPipe, NotWoken, IndexDone, CheckIdle
  <2> QED BY <1>t, <2>1 DEF Fresh, Queued
<1>4. CASE StartWatcher \/ StopWatcher \/ Cleanup
  BY <1>t, <1>4 DEF StartWatcher, StopWatcher, Cleanup, Fresh, Queued
<1>5. CASE ProcessFileEvents
  <2>1. \A f \in Files : ~Queued(f)' /\ (debounce'[f] # Untouched => Queued(f) \/ debounce[f] # Untouched)
    BY <1>5 DEF ProcessFileEvents, Queued
  <2> QED BY <1>t, <1>5, <2>1 DEF ProcessFileEvents, Fresh
<1>6. CASE FlushReady
  <2>1. \A f \in Files : debounce'[f] # Untouched => debounce[f] # Untouched
    BY <1>6 DEF FlushReady
  <2>2. \A f \in Files : Queued(f)' => Queued(f)
    BY <1>6 DEF FlushReady, Queued
  <2>3. UNCHANGED watching /\ pc' \in {"idle", "index"}
    BY <1>6 DEF FlushReady
  <2> QED BY <1>t, <2>1, <2>2, <2>3 DEF Fresh
<1>7. ASSUME NEW f \in Files, ScanFile(f) \/ Reindex(f)
      PROVE  Fresh'
  BY <1>t, <1>7 DEF ScanFile, Reindex, Fresh, Queued
<1>8. CASE Start
  BY <1>t, <1>8 DEF Start, Fresh, Queued
<1>9. CASE Crash \/ Signal
  BY <1>t, <1>9 DEF Crash, Signal, Fresh, Queued
<1>10. CASE TimePasses
  <2>1. \A f \in Files : debounce'[f] # Untouched => debounce[f] # Untouched
    BY <1>10, EventLoopAssumption DEF TimePasses, Untouched, EventLoopAssumption
  <2>2. UNCHANGED <<pc, watching, notices, eventQueue, todo>>
    BY <1>10 DEF TimePasses
  <2> QED BY <1>t, <2>1, <2>2 DEF Fresh, Queued
<1>11. ASSUME NEW f \in Files, NEW action \in FileActions, FileChanges(f, action)
       PROVE  Fresh'
  BY <1>t, <1>11 DEF FileChanges, Fresh, Queued
<1>12. ASSUME NEW c \in Clients, ClientConnects(c) \/ ClientSends(c) \/ ClientLeaves(c)
       PROVE  Fresh'
  BY <1>t, <1>12 DEF ClientConnects, ClientSends, ClientLeaves, Fresh, Queued
<1>13. CASE UNCHANGED vars
  BY <1>t, <1>13 DEF vars, Fresh, Queued
<1> QED BY <1>1, <1>2, <1>3, <1>4, <1>5, <1>6, <1>7, <1>8, <1>9, <1>10, <1>11, <1>12, <1>13
        DEF Next, WatcherStep, MainStep, EnvironmentStep

\* A step that moves nothing between the stages and stays in its phase.
LEMMA FeedStutters ==
  ASSUME UNCHANGED <<world, toScan, todo>>, InLoop' = InLoop, pc' = "scan" <=> pc = "scan",
         InLoop => \A f \in Files : Reported(f)' <=> Reported(f)
  PROVE  UNCHANGED Feed!vars
<1>1. InLoop => {f \in Files : Reported(f)}' = {f \in Files : Reported(f)}
  OBVIOUS
<1> QED BY <1>1 DEF Feed!vars, Feed!world, world

LEMMA FeedByWatcher ==
  ASSUME Inv, Fresh, WatcherStep
  PROVE  [Feed!Next]_(Feed!vars)
<1>t. TypeOK /\ Watched' = Watched
  BY DEF Inv, Watched
<1>1. UNCHANGED <<world, toScan, todo, pc, debounce>>
  BY DEF WatcherStep, HandleFileAction, WakeUp, world, work
<1>2. InLoop' = InLoop
  BY <1>1 DEF InLoop, Stopping
<1>3. ASSUME NEW f \in Files PROVE Reported(f)' <=> Reported(f)
  <2>1. CASE WakeUp
    BY <1>t, <1>1, <2>1 DEF WakeUp, Reported, Noticed, Queued
  <2>2. CASE HandleFileAction
    <3>1. notices \in Seq(Notices) /\ notices # <<>> /\ notices' = Tail(notices) /\ eventQueue \in Seq(Files)
      BY <1>t, <2>2 DEF HandleFileAction, TypeOK
    <3> DEFINE kept == Head(notices).action \in {"Add", "Modified", "Delete"} /\ Head(notices).file \in Watched
               head == Head(notices).file = f /\ Head(notices).action \in {"Add", "Modified", "Delete"}
    <3>2. Noticed(f) <=> head \/ Noticed(f)'
      <4>1. Noticed(f)' => Noticed(f)
        <5> SUFFICES ASSUME NEW i \in DOMAIN Tail(notices), Tail(notices)[i].file = f,
                            Tail(notices)[i].action \in {"Add", "Modified", "Delete"}
                     PROVE  Noticed(f)
          BY <3>1 DEF Noticed
        <5>1. i + 1 \in DOMAIN notices /\ notices[i + 1] = Tail(notices)[i]
          BY <3>1
        <5> QED BY <5>1 DEF Noticed
      <4>2. head => Noticed(f)
        <5>1. 1 \in DOMAIN notices /\ notices[1] = Head(notices)
          BY <3>1
        <5> QED BY <5>1 DEF Noticed
      <4> QED BY <1>t, <3>1, <4>1, <4>2, NoticedTail
    <3>3. Queued(f)' <=> Queued(f) \/ (kept /\ head)
      <4>1. CASE kept
        <5>1. eventQueue' = Append(eventQueue, Head(notices).file)
          BY <2>2, <4>1 DEF HandleFileAction
        <5>2. Queued(f)' <=> Queued(f) \/ Head(notices).file = f
          <6>1. PICK g : g = Head(notices).file
            OBVIOUS
          <6>2. eventQueue' = Append(eventQueue, g)
            BY <5>1, <6>1
          <6>3. /\ DOMAIN eventQueue' = 1 .. Len(eventQueue) + 1
                /\ \A i \in 1 .. Len(eventQueue) : eventQueue'[i] = eventQueue[i]
                /\ eventQueue'[Len(eventQueue) + 1] = g
                /\ DOMAIN eventQueue = 1 .. Len(eventQueue) /\ Len(eventQueue) \in Nat
            BY <3>1, <6>2
          <6> QED BY <6>1, <6>3 DEF Queued
        <5> QED BY <4>1, <5>2
      <4>2. CASE ~kept
        <5>1. eventQueue' = eventQueue
          BY <2>2, <4>2 DEF HandleFileAction, feed
        <5> QED BY <4>2, <5>1 DEF Queued
      <4> QED BY <4>1, <4>2
    <3> QED BY <1>t, <1>1, <3>2, <3>3 DEF Reported
  <2> QED BY <2>1, <2>2 DEF WatcherStep
<1> QED BY <1>1, <1>2, <1>3, FeedStutters

LEMMA FeedByMain ==
  ASSUME Inv, Fresh, MainStep
  PROVE  [Feed!Next]_(Feed!vars)
<1> USE DEF Goto, world, feed, work, ipc, stop
<1>t. TypeOK /\ OneBatch /\ Watched' = Watched
  BY DEF Inv, Watched
<1>1. CASE StartWatcher
  <2>1. ~InLoop /\ InLoop' /\ pc' = "scan" /\ todo' = {} /\ toScan' = exists \cap Scanned /\ UNCHANGED world
    BY <1>1 DEF StartWatcher, InLoop, Stopping, Fresh
  <2>2. \A f \in Files : ~Reported(f)'
    BY <1>1 DEF StartWatcher, Fresh, Reported, Noticed, Queued
  <2>3. Feed!Start
    BY <2>1, <2>2 DEF Feed!Start, Feed!world
  <2> QED BY <2>3 DEF Feed!Next
<1>2. CASE ScanDone
  <2>1. InLoop /\ InLoop' /\ pc = "scan" /\ pc' = "top" /\ toScan = {} /\ UNCHANGED <<world, toScan, todo>>
    BY <1>2 DEF ScanDone, InLoop, Stopping
  <2>2. \A f \in Files : Reported(f)' <=> Reported(f)
    BY <1>t, <1>2 DEF ScanDone, Reported, Noticed, Queued
  <2>3. {f \in Files : Reported(f)}' = {f \in Files : Reported(f)}
    BY <2>2
  <2>4. Feed!ScanDone
    BY <2>1, <2>3 DEF Feed!ScanDone, Feed!world
  <2> QED BY <2>4 DEF Feed!Next
<1>3. CASE CheckStop \/ CheckIdle
  <2>1. InLoop /\ pc # "scan" /\ pc' # "scan" /\ pc' # "start" /\ UNCHANGED <<world, feed, toScan, todo, debounce>>
    BY <1>3 DEF CheckStop, CheckIdle, InLoop, Stopping
  <2>2. CASE InLoop'
    <3>1. \A f \in Files : Reported(f)' <=> Reported(f)
      BY <1>t, <2>1 DEF Reported, Noticed, Queued
    <3> QED BY <2>1, <2>2, <3>1, FeedStutters
  <2>3. CASE ~InLoop'
    <3>1. Feed!Stop
      BY <2>1, <2>3 DEF Feed!Stop, Feed!world
    <3> QED BY <3>1 DEF Feed!Next
  <2> QED BY <2>2, <2>3
<1>4. CASE \/ Poll \/ ReceiveEof \/ ReceiveQuery \/ ReceiveStop \/ NotifyWakeup
           \/ DrainPipe \/ NotWoken \/ IndexDone
  <2>1. /\ InLoop /\ InLoop' /\ pc # "scan" /\ pc' # "scan"
        /\ UNCHANGED <<world, notices, eventQueue, debounce, toScan, todo>>
    BY <1>4 DEF Poll, ReceiveEof, ReceiveQuery, ReceiveStop, NotifyWakeup, DrainPipe, NotWoken, IndexDone,
                InLoop, Stopping
  <2>2. \A f \in Files : Reported(f)' <=> Reported(f)
    BY <1>t, <2>1 DEF Reported, Noticed, Queued
  <2> QED BY <2>1, <2>2, FeedStutters
<1>5. CASE ProcessFileEvents
  <2>1. InLoop /\ InLoop' /\ pc # "scan" /\ pc' # "scan" /\ UNCHANGED <<world, notices, toScan, todo>>
    BY <1>5 DEF ProcessFileEvents, InLoop, Stopping
  <2>2. \A f \in Files : ~Queued(f)' /\ (debounce'[f] # Untouched <=> Queued(f) \/ debounce[f] # Untouched)
    BY <1>5 DEF ProcessFileEvents, Queued, Untouched
  <2>3. \A f \in Files : Reported(f)' <=> Reported(f)
    BY <1>t, <2>1, <2>2 DEF Reported, Noticed
  <2> QED BY <2>1, <2>3, FeedStutters
<1>6. CASE FlushReady
  <2>1. /\ InLoop /\ InLoop' /\ pc # "scan" /\ pc' # "scan" /\ todo = {}
        /\ UNCHANGED <<world, notices, eventQueue, toScan>>
    BY <1>t, <1>6 DEF FlushReady, InLoop, Stopping, OneBatch
  <2>2. \A f \in Files : /\ f \in todo' => debounce[f] # Untouched /\ debounce'[f] = Untouched
                         /\ f \notin todo' => debounce'[f] = debounce[f]
    BY <1>6 DEF FlushReady
  <2>3. todo' \subseteq Files
    BY <1>6 DEF FlushReady
  <2> DEFINE dirty == {f \in Files : Reported(f)}
             again == {f \in todo' : Reported(f)'}
  <2>4. todo' \subseteq dirty
    BY <2>2, <2>3 DEF Reported, Fresh
  <2>5. \A f \in Files : /\ Reported(f)' => Reported(f)
                         /\ Reported(f) /\ f \notin todo' => Reported(f)'
    BY <1>t, <2>1, <2>2 DEF Reported, Noticed, Queued, Fresh
  <2>6. {f \in Files : Reported(f)}' = (dirty \ todo') \cup again
    BY <2>3, <2>5
  <2>7. again \in SUBSET todo'
    OBVIOUS
  <2> HIDE DEF again
  <2>8. \E a \in SUBSET todo' : {f \in Files : Reported(f)}' = (dirty \ todo') \cup a
    BY <2>6, <2>7
  <2>9. Feed!FlushReady
    BY <2>1, <2>4, <2>8 DEF Feed!FlushReady, Feed!world
  <2> QED BY <2>9 DEF Feed!Next
<1>7. ASSUME NEW f \in Files, ScanFile(f)
      PROVE  [Feed!Next]_(Feed!vars)
  <2>1. /\ InLoop /\ InLoop' /\ pc = "scan" /\ pc' = "scan" /\ f \in toScan /\ toScan' = toScan \ {f}
        /\ UNCHANGED <<world, notices, eventQueue, debounce, todo>>
    BY <1>7 DEF ScanFile, InLoop, Stopping
  <2>2. \A g \in Files : Reported(g)' <=> Reported(g)
    BY <1>t, <2>1 DEF Reported, Noticed, Queued
  <2>3. {g \in Files : Reported(g)}' = {g \in Files : Reported(g)}
    BY <2>2
  <2>4. Feed!ScanFile(f)
    BY <2>1, <2>3 DEF Feed!ScanFile, Feed!world
  <2> QED BY <2>4 DEF Feed!Next
<1>8. ASSUME NEW f \in Files, Reindex(f)
      PROVE  [Feed!Next]_(Feed!vars)
  <2>1. /\ InLoop /\ InLoop' /\ pc = "index" /\ pc' = "index" /\ f \in todo /\ todo' = todo \ {f}
        /\ UNCHANGED <<world, notices, eventQueue, debounce, toScan>>
    BY <1>8 DEF Reindex, InLoop, Stopping
  <2>2. \A g \in Files : Reported(g)' <=> Reported(g)
    BY <1>t, <2>1 DEF Reported, Noticed, Queued
  <2>3. {g \in Files : Reported(g)}' = {g \in Files : Reported(g)}
    BY <2>2
  <2>4. Feed!Reindex(f)
    BY <2>1, <2>3 DEF Feed!Reindex, Feed!world
  <2> QED BY <2>4 DEF Feed!Next
<1>9. CASE StopWatcher \/ Cleanup
  <2>1. ~InLoop /\ ~InLoop' /\ pc # "scan" /\ pc' # "scan" /\ UNCHANGED <<world, toScan, todo>>
    BY <1>9 DEF StopWatcher, Cleanup, InLoop, Stopping
  <2> QED BY <2>1 DEF Feed!vars, Feed!world
<1> QED BY <1>1, <1>2, <1>3, <1>4, <1>5, <1>6, <1>7, <1>8, <1>9 DEF MainStep

LEMMA FeedByEnvironment ==
  ASSUME Inv, Fresh, EnvironmentStep
  PROVE  [Feed!Next]_(Feed!vars)
<1> USE DEF Goto, feed, work, ipc, stop
<1>t. TypeOK /\ WatchedInLoop /\ Watched' = Watched
  BY DEF Inv, Watched
<1>1. CASE Start
  <2>1. ~InLoop /\ ~InLoop' /\ UNCHANGED world
    BY <1>1 DEF Start, InLoop, Stopping
  <2> QED BY <2>1 DEF Feed!vars, Feed!world, world
<1>2. CASE Crash
  <2>1. ~InLoop' /\ UNCHANGED world
    BY <1>2 DEF Crash, InLoop, Stopping
  <2>2. CASE InLoop
    <3>1. Feed!Stop
      BY <2>1, <2>2 DEF Feed!Stop, Feed!world, world
    <3> QED BY <3>1 DEF Feed!Next
  <2>3. CASE ~InLoop
    BY <2>1, <2>3 DEF Feed!vars, Feed!world, world
  <2> QED BY <2>2, <2>3
<1>3. CASE Signal \/ TimePasses \/ \E c \in Clients : ClientConnects(c) \/ ClientSends(c) \/ ClientLeaves(c)
  <2>1. /\ UNCHANGED <<world, notices, eventQueue, toScan, todo>>
        /\ pc' = pc \/ (pc = "poll" /\ pc' = "top")
    BY <1>3 DEF Signal, TimePasses, ClientConnects, ClientSends, ClientLeaves, world
  <2>2. \A f \in Files : debounce'[f] # Untouched <=> debounce[f] # Untouched
    BY <1>t, <1>3, EventLoopAssumption
       DEF Signal, TimePasses, ClientConnects, ClientSends, ClientLeaves, Untouched, TypeOK,
           EventLoopAssumption
  <2>3. InLoop' = InLoop /\ (pc' = "scan" <=> pc = "scan")
    BY <2>1 DEF InLoop, Stopping
  <2>4. \A f \in Files : Reported(f)' <=> Reported(f)
    BY <1>t, <2>1, <2>2 DEF Reported, Noticed, Queued
  <2> QED BY <2>1, <2>3, <2>4, FeedStutters
<1>4. ASSUME NEW f \in Files, NEW action \in FileActions, FileChanges(f, action)
      PROVE  [Feed!Next]_(Feed!vars)
  <2> DEFINE c == disk[f] + 1
             dirty == IF InLoop THEN {g \in Files : Reported(g)} ELSE {}
             counted == action \in {"Add", "Modified", "Delete"}
  <2>1. UNCHANGED <<pc, eventQueue, debounce, toScan, todo>> /\ InLoop' = InLoop
    BY <1>4 DEF FileChanges, InLoop, Stopping
  <2>2. c \in 0 .. MaxEdits /\ disk' = [disk EXCEPT ![f] = c]
    BY <1>t, <1>4, EventLoopAssumption DEF FileChanges, TypeOK, EventLoopAssumption
  <2>3. /\ exists' = IF action = "Delete" THEN exists \ {f} ELSE exists \cup {f}
        /\ replaced' = IF action = "Moved" THEN replaced \cup {f} ELSE replaced \ {f}
    BY <1>4 DEF FileChanges
  <2>4. counted <=> action # "Moved"
    BY EventLoopAssumption DEF EventLoopAssumption
  <2>5. dirty' = IF InLoop /\ f \in Watched /\ counted THEN dirty \cup {f} ELSE dirty
    <3>1. CASE ~InLoop
      BY <2>1, <3>1
    <3>2. CASE InLoop
      <4>1. watching
        BY <1>t, <3>2 DEF WatchedInLoop, InLoop, Stopping
      <4>2. PICK n : n = [file |-> f, action |-> action]
        OBVIOUS
      <4>3. notices' = Append(notices, n) /\ n.file = f /\ n.action = action
        BY <1>4, <4>1, <4>2 DEF FileChanges
      <4>4. /\ DOMAIN notices' = 1 .. Len(notices) + 1
            /\ \A i \in 1 .. Len(notices) : notices'[i] = notices[i]
            /\ notices'[Len(notices) + 1] = n
            /\ DOMAIN notices = 1 .. Len(notices) /\ Len(notices) \in Nat
        <5>1. notices \in Seq(Notices)
          BY <1>t DEF TypeOK
        <5> QED BY <4>3, <5>1
      <4>5. \A g \in Files : Noticed(g)' <=> Noticed(g) \/ (g = f /\ counted)
        BY <4>3, <4>4 DEF Noticed
      <4>6. \A g \in Files : Reported(g)' <=> Reported(g) \/ (g = f /\ counted /\ f \in Watched)
        BY <1>t, <2>1, <4>5 DEF Reported, Queued
      <4> QED BY <2>1, <3>2, <4>6
    <3> QED BY <3>1, <3>2
  <2> HIDE DEF c, dirty, counted
  <2>6. CASE action = "Moved"
    <3>1. Feed!Rename(f, c)
      BY <2>1, <2>2, <2>3, <2>4, <2>5, <2>6 DEF Feed!Rename, Feed!Change, dirty
    <3> QED BY <2>2, <3>1 DEF Feed!Next
  <2>7. CASE action = "Delete"
    <3>1. Feed!Delete(f, c)
      BY <2>1, <2>2, <2>3, <2>4, <2>5, <2>7 DEF Feed!Delete, Feed!Change, Feed!Reported, dirty
    <3> QED BY <2>2, <3>1 DEF Feed!Next
  <2>8. CASE action \notin {"Moved", "Delete"}
    <3>1. Feed!Write(f, c)
      BY <2>1, <2>2, <2>3, <2>4, <2>5, <2>8 DEF Feed!Write, Feed!Change, Feed!Reported, dirty
    <3> QED BY <2>2, <3>1 DEF Feed!Next
  <2> QED BY <2>6, <2>7, <2>8
<1> QED BY <1>1, <1>2, <1>3, <1>4 DEF EnvironmentStep

\* No reported change is taken back: for every number of files, clients and changes each is followed by
\* an analysis that begins after it, or by the end of the loop, so that Indexing may take its changes
\* from ChangeFeed.
THEOREM FeedImplemented == Spec => ImplementsFeed
<1>1. Init => Inv /\ Fresh
  <2>1. Init => Inv
    BY TypeInit DEF Init, Inv, WatchedInLoop, OneBatch, NoLostWakeup, EveryChangeTracked, Stopping
  <2>2. Init => Fresh
    BY DEF Init, Fresh, Queued
  <2> QED BY <2>1, <2>2
<1>2. Init => Feed!Init
  BY EventLoopAssumption DEF Init, Feed!Init, InLoop, Stopping, EventLoopAssumption
<1>3. Inv /\ Fresh /\ [Next]_vars => [Feed!Next]_(Feed!vars)
  <2> SUFFICES ASSUME Inv, Fresh, [Next]_vars PROVE [Feed!Next]_(Feed!vars)
    OBVIOUS
  <2>1. CASE UNCHANGED vars
    BY <2>1 DEF vars, world, feed, work, Feed!vars, Feed!world, InLoop, Stopping, Reported, Noticed, Queued,
                Watched
  <2> QED BY <2>1, FeedByWatcher, FeedByMain, FeedByEnvironment DEF Next
<1> QED BY <1>1, <1>2, <1>3, InvNext, FreshNext, PTL DEF Spec, ImplementsFeed, Feed!Spec

=============================================================================
