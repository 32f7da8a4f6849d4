------------------------------ MODULE EventLoop ------------------------------
(***************************************************************************)
(* The daemon's event loop and the thread that feeds it: Coordinator::run  *)
(* (src/daemon/coordinator.cpp), the listener that efsw calls on a thread  *)
(* of its own (src/watcher/file_watcher.cpp), the Debouncer and the IPC    *)
(* server.  The two threads share event_queue_ (under a mutex) and the     *)
(* wakeup pipe; everything else belongs to the main thread.                *)
(*                                                                         *)
(* pc says where the main thread is: between the read of a flag, a poll, a *)
(* read of a client or of the pipe and the code that follows it, the other *)
(* thread, the clients and the file system move.  What a re-index writes   *)
(* to the database, and the language servers, are left to other modules.   *)
(***************************************************************************)
EXTENDS Integers, Sequences

CONSTANTS
  Files,         \* source files of the project
  ExtensionOf,   \* the extension of each file
  FileActions,   \* what may happen to a file: the actions efsw reports
  Clients,       \* processes that connect to the socket
  Window,        \* Debouncer::window_
  IdleTimeout,   \* Coordinator::idle_timeout_
  PipeCapacity,  \* bytes the wakeup pipe holds before a write blocks
  Signals,       \* SIGTERM and SIGINT that may arrive
  MaxEdits,      \* bound: changes to each file
  MaxStarts      \* bound: times the daemon is started

None == "none"

ASSUME EventLoopAssumption ==
  /\ FileActions \subseteq {"Add", "Modified", "Delete", "Moved"}
  /\ None \notin Clients
  /\ Window \in Nat /\ IdleTimeout \in Nat \ {0}
  /\ PipeCapacity \in Nat \ {0}
  /\ Signals \in Nat /\ MaxEdits \in Nat /\ MaxStarts \in Nat

VARIABLES
  disk,           \* how often each file has changed
  exists,         \* the files that are there
  replaced,       \* history: files whose last change was a rename onto them
  notices,        \* what the kernel has for efsw, oldest first
  watching,       \* the watcher thread runs
  watcher,        \* that thread: "idle", or in on_wakeup_ after on_event_
  eventQueue,     \* event_queue_
  pipe,           \* bytes in the wakeup pipe
  pc,             \* the main thread
  wakeReady,      \* fds[1].revents of the last poll
  backlog,        \* connections the kernel holds for accept
  client,         \* what each client is doing, or the request it has written
  serving,        \* the client whose request is being read or answered
  debounce,       \* Debouncer::pending_: time since the last touch, or Untouched
  toScan,         \* files the initial scan has yet to visit
  todo,           \* ready paths still to be re-indexed
  analysed,       \* the version of each file that analyze_file saw last
  idleAge,        \* time since last_activity_
  stopRequested,  \* stop_requested_
  gStop,          \* g_stop
  starts,         \* times the daemon has been started
  signals         \* signals delivered so far

world == <<disk, exists, replaced>>
feed  == <<notices, watching, watcher, eventQueue>>
ipc   == <<backlog, client, serving>>
work  == <<debounce, toScan, todo, analysed, idleAge>>
stop  == <<stopRequested, gStop, starts, signals>>
vars  == <<world, feed, pipe, pc, wakeReady, ipc, work, stop>>

Untouched == -1
Notices == [file : Files, action : FileActions]
Pcs == {"down", "start", "scan", "top", "poll", "recv", "notify", "wake", "swap", "flush",
        "index", "idle", "shutdown", "cleanup"}

\* The loop is over; what it has not done yet it will not do.
Stopping  == pc \in {"shutdown", "cleanup", "down"}
Listening == pc # "down"

Init ==
  /\ disk = [f \in Files |-> 0] /\ exists \in SUBSET Files /\ replaced = {}
  /\ notices = <<>> /\ watching = FALSE /\ watcher = "idle" /\ eventQueue = <<>>
  /\ pipe = 0 /\ pc = "down" /\ wakeReady = FALSE
  /\ backlog = <<>> /\ client = [c \in Clients |-> "out"] /\ serving = None
  /\ debounce = [f \in Files |-> Untouched]
  /\ toScan = {} /\ todo = {} /\ analysed = [f \in Files |-> -1] /\ idleAge = 0
  /\ stopRequested = FALSE /\ gStop = FALSE /\ starts = 0 /\ signals = 0

-----------------------------------------------------------------------------
(* The watcher thread *)

\* FileWatcher: the extensions whose events are kept.
kSourceExtensions ==
  {".cpp", ".h", ".py", ".js", ".ts", ".java", ".kt", ".swift", ".m", ".rs", ".c", ".cc",
   ".cxx", ".hpp", ".tsx", ".jsx", ".rb", ".rake", ".gemspec", ".ru", ".lua"}

\* Coordinator: the extensions the initial scan visits.
kScanExtensions == kSourceExtensions \cup {".go"}

Scanned == {f \in Files : ExtensionOf[f] \in kScanExtensions}
Watched == {f \in Files : ExtensionOf[f] \in kSourceExtensions}

\* handleFileAction up to on_event_: the path is pushed under the mutex.  A rename, or a
\* file of another extension, is dropped.
HandleFileAction ==
  LET notice == Head(notices)
  IN /\ notices # <<>> /\ watcher = "idle" /\ watching
     /\ notices' = Tail(notices)
     /\ IF notice.action \in {"Add", "Modified", "Delete"} /\ notice.file \in Watched
        THEN /\ eventQueue' = Append(eventQueue, notice.file)
             /\ watcher' = "wakeup"
        ELSE UNCHANGED <<eventQueue, watcher>>
     /\ UNCHANGED <<world, watching, pipe, pc, wakeReady, ipc, work, stop>>

\* on_wakeup_: one byte into the pipe.  The write end blocks while the pipe is full.
WakeUp ==
  /\ watcher = "wakeup" /\ watching /\ pipe < PipeCapacity
  /\ pipe' = pipe + 1
  /\ watcher' = "idle"
  /\ UNCHANGED <<world, notices, watching, eventQueue, pc, wakeReady, ipc, work, stop>>

-----------------------------------------------------------------------------
(* The main thread: start and initial scan *)

Goto(label) == pc' = label

\* A new process binds the socket; the memory of the last one is gone.
Start ==
  /\ pc = "down" /\ starts < MaxStarts
  /\ starts' = starts + 1
  /\ Goto("start")
  /\ notices' = <<>> /\ watcher' = "idle" /\ eventQueue' = <<>> /\ pipe' = 0
  /\ wakeReady' = FALSE
  /\ debounce' = [f \in Files |-> Untouched] /\ toScan' = {} /\ todo' = {}
  /\ idleAge' = 0 /\ stopRequested' = FALSE /\ gStop' = FALSE
  /\ UNCHANGED <<world, watching, ipc, analysed, signals>>

\* Mutant of StartWatcher: the list of files is made before the watch, and kept from the
\* previous run when there was one.
StartWatcherScanOnce ==
  /\ pc = "start" /\ Goto("scan")
  /\ watching' = TRUE
  /\ toScan' = {f \in exists \cap Scanned : analysed[f] = -1}
  /\ UNCHANGED <<world, notices, watcher, eventQueue, pipe, wakeReady, ipc, debounce, todo,
                 analysed, idleAge, stop>>

\* file_watcher_.start comes before the scan, so a change made during it is noticed.
StartWatcher ==
  /\ pc = "start"
  /\ Goto("scan")
  /\ watching' = TRUE
  /\ toScan' = exists \cap Scanned
  /\ UNCHANGED <<world, notices, watcher, eventQueue, pipe, wakeReady, ipc, debounce, todo,
                 analysed, idleAge, stop>>

\* analyze_file reads the file as it is now.
Analyse(f) == analysed' = [analysed EXCEPT ![f] = disk[f]]

ScanFile(f) ==
  /\ pc = "scan" /\ f \in toScan
  /\ toScan' = toScan \ {f}
  /\ Analyse(f)
  /\ UNCHANGED <<world, feed, pipe, pc, wakeReady, ipc, debounce, todo, idleAge, stop>>

ScanDone ==
  /\ pc = "scan" /\ toScan = {}
  /\ Goto("top")
  /\ idleAge' = 0
  /\ UNCHANGED <<world, feed, pipe, wakeReady, ipc, debounce, toScan, todo, analysed, stop>>

-----------------------------------------------------------------------------
(* The main thread: one turn of the loop *)

CheckStop ==
  /\ pc = "top"
  /\ Goto(IF stopRequested \/ gStop THEN "shutdown" ELSE "poll")
  /\ UNCHANGED <<world, feed, pipe, wakeReady, ipc, work, stop>>

\* poll returns with what is ready, or because its timeout (the debouncer's, five seconds
\* at most) is over; then the first waiting client, if any, is accepted.
Poll ==
  /\ pc = "poll"
  /\ wakeReady' = (pipe > 0)
  /\ IF backlog = <<>>
     THEN /\ Goto("wake")
          /\ UNCHANGED <<backlog, serving>>
     ELSE /\ Goto("recv")
          /\ serving' = Head(backlog)
          /\ backlog' = Tail(backlog)
  /\ UNCHANGED <<world, feed, pipe, client, work, stop>>

\* The client is done with, and serving with it.
HangUp ==
  /\ client' = [client EXCEPT ![serving] = "out"]
  /\ serving' = None

\* Mutant of ReceiveEof: only an error ends the read, not the end of the stream.
ReceiveEofIgnored ==
  /\ pc = "recv" /\ client[serving] = "left"
  /\ UNCHANGED vars

\* recv_message meets the end of the stream: no request, no answer.
ReceiveEof ==
  /\ pc = "recv" /\ client[serving] = "left"
  /\ Goto("wake")
  /\ HangUp
  /\ idleAge' = 0
  /\ UNCHANGED <<world, feed, pipe, wakeReady, backlog, debounce, toScan, todo, analysed,
                 stop>>

\* Mutant of ReceiveQuery: the read goes on after the end of the line, to that of the stream.
ReceiveQueryUntilEof ==
  /\ pc = "recv" /\ client[serving] = "query"
  /\ UNCHANGED vars

\* recv_message blocks until the line is there, without a timeout; SA_RESTART restarts the
\* read when a signal arrives.  A query is dispatched and answered at once.
ReceiveQuery ==
  /\ pc = "recv" /\ client[serving] = "query"
  /\ Goto("wake")
  /\ HangUp
  /\ idleAge' = 0
  /\ UNCHANGED <<world, feed, pipe, wakeReady, backlog, debounce, toScan, todo, analysed,
                 stop>>

\* "stop": request_stop sets the flag ...
ReceiveStop ==
  /\ pc = "recv" /\ client[serving] = "stop"
  /\ Goto("notify")
  /\ stopRequested' = TRUE
  /\ UNCHANGED <<world, feed, pipe, wakeReady, ipc, work, gStop, starts, signals>>

\* ... writes to the pipe this very thread drains, and then the client is answered.
NotifyWakeup ==
  /\ pc = "notify" /\ pipe < PipeCapacity
  /\ pipe' = pipe + 1
  /\ Goto("wake")
  /\ HangUp
  /\ idleAge' = 0
  /\ UNCHANGED <<world, feed, wakeReady, backlog, debounce, toScan, todo, analysed, stop>>

\* The pipe is read until it is empty.
DrainPipe ==
  /\ pc = "wake" /\ wakeReady
  /\ Goto("swap")
  /\ pipe' = 0
  /\ UNCHANGED <<world, feed, wakeReady, ipc, work, stop>>

NotWoken ==
  /\ pc = "wake" /\ ~wakeReady
  /\ Goto("flush")
  /\ UNCHANGED <<world, feed, pipe, wakeReady, ipc, work, stop>>

Queued(f) == \E i \in DOMAIN eventQueue : eventQueue[i] = f

\* Mutant of ProcessFileEvents: one event is taken, not all of them.
ProcessFileEventsOne ==
  /\ pc = "swap" /\ Goto("flush")
  /\ eventQueue' = IF eventQueue = <<>> THEN <<>> ELSE Tail(eventQueue)
  /\ debounce' = [f \in Files |-> IF eventQueue # <<>> /\ f = Head(eventQueue)
                                  THEN 0 ELSE debounce[f]]
  /\ UNCHANGED <<world, notices, watching, watcher, pipe, wakeReady, ipc, toScan, todo,
                 analysed, idleAge, stop>>

\* The queue is swapped out under the mutex; every path in it is touched.
ProcessFileEvents ==
  /\ pc = "swap"
  /\ Goto("flush")
  /\ eventQueue' = <<>>
  /\ debounce' = [f \in Files |-> IF Queued(f) THEN 0 ELSE debounce[f]]
  /\ UNCHANGED <<world, notices, watching, watcher, pipe, wakeReady, ipc, toScan, todo,
                 analysed, idleAge, stop>>

\* Mutant of FlushReady: pending_ is emptied, ready or not.
FlushReadyAll ==
  /\ pc = "flush"
  /\ todo' = {f \in Files : debounce[f] >= Window}
  /\ debounce' = [f \in Files |-> Untouched]
  /\ Goto(IF todo' = {} THEN "idle" ELSE "index")
  /\ UNCHANGED <<world, feed, pipe, wakeReady, ipc, toScan, analysed, idleAge, stop>>

\* The paths that have been quiet for the window leave the debouncer.
FlushReady ==
  /\ pc = "flush"
  /\ todo' = {f \in Files : debounce[f] # Untouched /\ debounce[f] >= Window}
  /\ debounce' = [f \in Files |-> IF f \in todo' THEN Untouched ELSE debounce[f]]
  /\ Goto(IF todo' = {} THEN "idle" ELSE "index")
  /\ UNCHANGED <<world, feed, pipe, wakeReady, ipc, toScan, analysed, idleAge, stop>>

\* A failed analysis is logged and not retried.
Reindex(f) ==
  /\ pc = "index" /\ f \in todo
  /\ todo' = todo \ {f}
  /\ Analyse(f)
  /\ UNCHANGED <<world, feed, pipe, pc, wakeReady, ipc, debounce, toScan, idleAge, stop>>

IndexDone ==
  /\ pc = "index" /\ todo = {}
  /\ Goto("idle")
  /\ idleAge' = 0
  /\ UNCHANGED <<world, feed, pipe, wakeReady, ipc, debounce, toScan, todo, analysed, stop>>

\* Only clients and re-indexed batches count as activity; a touched path does not.
CheckIdle ==
  /\ pc = "idle"
  /\ Goto(IF idleAge >= IdleTimeout THEN "shutdown" ELSE "top")
  /\ UNCHANGED <<world, feed, pipe, wakeReady, ipc, work, stop>>

-----------------------------------------------------------------------------
(* The main thread: shutdown *)

\* file_watcher_.stop joins the watcher thread, so its callback must return first.
StopWatcher ==
  /\ pc = "shutdown" /\ watcher = "idle"
  /\ Goto("cleanup")
  /\ watching' = FALSE /\ notices' = <<>>
  /\ UNCHANGED <<world, watcher, eventQueue, pipe, wakeReady, ipc, work, stop>>

\* The kernel drops the connections of a listening socket that is closed.
Disconnected == [c \in Clients |-> "out"]

\* ipc_server_.cleanup, the last status and the removal of the pid file.
Cleanup ==
  /\ pc = "cleanup"
  /\ Goto("down")
  /\ backlog' = <<>> /\ client' = Disconnected
  /\ UNCHANGED <<world, feed, pipe, wakeReady, serving, work, stop>>

-----------------------------------------------------------------------------
(* Environment: the file system, the clients, signals and time *)

FileChanges(f, action) ==
  /\ disk[f] < MaxEdits
  /\ action = "Add" <=> f \notin exists
  /\ disk' = [disk EXCEPT ![f] = @ + 1]
  /\ exists' = IF action = "Delete" THEN exists \ {f} ELSE exists \cup {f}
  /\ replaced' = IF action = "Moved" THEN replaced \cup {f} ELSE replaced \ {f}
  /\ notices' = IF watching THEN Append(notices, [file |-> f, action |-> action]) ELSE notices
  /\ UNCHANGED <<watching, watcher, eventQueue, pipe, pc, wakeReady, ipc, work, stop>>

ClientConnects(c) ==
  /\ Listening /\ client[c] = "out"
  /\ client' = [client EXCEPT ![c] = "connected"]
  /\ backlog' = Append(backlog, c)
  /\ UNCHANGED <<world, feed, pipe, pc, wakeReady, serving, work, stop>>

ClientSends(c) ==
  /\ client[c] = "connected"
  /\ \E request \in {"query", "stop"} : client' = [client EXCEPT ![c] = request]
  /\ UNCHANGED <<world, feed, pipe, pc, wakeReady, backlog, serving, work, stop>>

\* A probe for a live daemon closes its connection without a request.
ClientLeaves(c) ==
  /\ client[c] = "connected"
  /\ client' = [client EXCEPT ![c] = "left"]
  /\ UNCHANGED <<world, feed, pipe, pc, wakeReady, backlog, serving, work, stop>>

\* The handler sets g_stop; a poll is interrupted, a blocked read or write is not.
Signal ==
  /\ Listening /\ signals < Signals
  /\ signals' = signals + 1
  /\ gStop' = TRUE
  /\ pc' = IF pc = "poll" THEN "top" ELSE pc
  /\ UNCHANGED <<world, feed, pipe, wakeReady, ipc, work, stopRequested, starts>>

Crash ==
  /\ pc # "down" /\ starts < MaxStarts
  /\ Goto("down")
  /\ watching' = FALSE
  /\ backlog' = <<>> /\ client' = Disconnected /\ serving' = None
  /\ UNCHANGED <<world, notices, watcher, eventQueue, pipe, wakeReady, work, stop>>

\* A unit of time.  An age is counted until it reaches what it is compared with.
TimePasses ==
  /\ debounce' = [f \in Files |-> IF debounce[f] \in 0 .. Window - 1 THEN debounce[f] + 1
                                                                    ELSE debounce[f]]
  /\ idleAge' = IF idleAge < IdleTimeout THEN idleAge + 1 ELSE idleAge
  /\ UNCHANGED <<world, feed, pipe, pc, wakeReady, ipc, toScan, todo, analysed, stop>>

-----------------------------------------------------------------------------
WatcherStep == HandleFileAction \/ WakeUp

MainStep ==
  \/ StartWatcher \/ ScanDone \/ CheckStop \/ Poll
  \/ ReceiveEof \/ ReceiveQuery \/ ReceiveStop \/ NotifyWakeup
  \/ DrainPipe \/ NotWoken \/ ProcessFileEvents
  \/ FlushReady \/ IndexDone \/ CheckIdle \/ StopWatcher \/ Cleanup
  \/ \E f \in Files : ScanFile(f)
  \/ \E f \in Files : Reindex(f)

EnvironmentStep ==
  \/ Start \/ Crash \/ Signal \/ TimePasses
  \/ \E f \in Files, action \in FileActions : FileChanges(f, action)
  \/ \E c \in Clients : ClientConnects(c)
  \/ \E c \in Clients : ClientSends(c)
  \/ \E c \in Clients : ClientLeaves(c)

Next == MainStep \/ WatcherStep \/ EnvironmentStep

Spec == Init /\ [][Next]_vars

\* Both threads run when they can, poll comes back within five seconds, time passes.
Fairness == WF_vars(MainStep) /\ WF_vars(WatcherStep) /\ WF_vars(TimePasses)

FairSpec == Spec /\ Fairness

\* Clients write their request or close, as DaemonClient and the probe of bind_or_die do.
PoliteSpec ==
  FairSpec /\ \A c \in Clients : WF_vars(ClientSends(c) \/ ClientLeaves(c))

-----------------------------------------------------------------------------
(* Properties *)

FlagsOK ==
  watching \in BOOLEAN /\ wakeReady \in BOOLEAN /\ stopRequested \in BOOLEAN /\ gStop \in BOOLEAN

\* The types of the variables; a client is being served exactly while its request is read or
\* a stop request is carried out (coordinator.cpp:277-300).
TypeOK ==
  /\ FlagsOK
  /\ disk \in [Files -> 0 .. MaxEdits] /\ exists \subseteq Files /\ replaced \subseteq Files
  /\ notices \in Seq(Notices)
  /\ watcher \in {"idle", "wakeup"} /\ eventQueue \in Seq(Files)
  /\ pipe \in 0 .. PipeCapacity /\ pc \in Pcs
  /\ backlog \in Seq(Clients)
  /\ serving \in (IF pc \in {"recv", "notify"} THEN Clients ELSE {None})
  /\ client \in [Clients -> {"out", "connected", "query", "stop", "left"}]
  /\ debounce \in [Files -> {Untouched} \cup 0 .. Window]
  /\ toScan \subseteq Files /\ todo \subseteq Files
  /\ analysed \in [Files -> {-1} \cup 0 .. MaxEdits]
  /\ idleAge \in 0 .. IdleTimeout
  /\ starts \in 0 .. MaxStarts /\ signals \in 0 .. Signals

\* The main thread never sleeps in poll on a queue that nobody will wake it for: the byte is
\* in the pipe, or about to be written, or the queue about to be swapped out, although the
\* pipe is drained and the queue swapped in two steps (coordinator.cpp:303-310, 465-476).
NoLostWakeup ==
  eventQueue # <<>> =>
    pipe > 0 \/ watcher = "wakeup" \/ pc = "swap" \/ pc = "down"

Noticed(f) ==
  \E i \in DOMAIN notices :
    notices[i].file = f /\ notices[i].action \in {"Add", "Modified", "Delete"}

Pending(f) ==
  \/ f \in toScan \/ Noticed(f) \/ Queued(f)
  \/ debounce[f] # Untouched \/ f \in todo

\* A file whose content was never analysed is on its way through the kernel, the queue, the
\* debouncer or the current batch, unless it was changed by a rename (efsw's Moved, which is
\* ignored) or the loop is over; nothing falls between the initial scan and the watcher, or
\* between two of these stages, or is lost by a crash
\* (coordinator.cpp:149-201, 303-361; file_watcher.cpp:30-76).
EveryChangeTracked ==
  \A f \in exists \cap Watched :
    analysed[f] # disk[f] =>
      Pending(f) \/ f \in replaced \/ Stopping \/ pc = "start"

InLoop == pc # "start" /\ ~Stopping

\* A reported change that no batch has taken is anywhere between the kernel and the debouncer.
Reported(f) == f \in Watched /\ (Noticed(f) \/ Queued(f) \/ debounce[f] # Untouched)

\* What ChangeFeed sees of the loop: one that is over takes nothing any more.
Feed == INSTANCE ChangeFeed WITH
  Contents <- 0 .. MaxEdits,
  phase <- IF ~InLoop THEN "down" ELSE IF pc = "scan" THEN "scan" ELSE "loop",
  dirty <- IF InLoop THEN {f \in Files : Reported(f)} ELSE {},
  toScan <- IF InLoop THEN toScan ELSE {},
  todo <- IF InLoop THEN todo ELSE {}

\* Each reported change is followed by an analysis that begins after it, or by the end of the loop,
\* also if the analysis that runs when it is reported has seen it: Indexing builds on this
\* (coordinator.cpp:149-201, 303-361; file_watcher.cpp:30-76; debouncer.cpp:9-27).
ImplementsFeed == Feed!Spec

\* A change reaches the index, however it falls into the debounce window, a batch, a client's
\* request or a restart of the daemon, unless the loop ends first.
ChangesAreIndexed ==
  \A f \in Watched :
    (f \in exists /\ analysed[f] # disk[f] /\ pc # "down") ~>
      f \notin exists \/ analysed[f] = disk[f] \/ f \in replaced \/ Stopping

\* A stop request or a signal ends the daemon (coordinator.h:71).
StopHonoured == (stopRequested \/ gStop) ~> pc = "down"

\* A client that has sent its request is answered, unless the daemon goes down first.
ClientsAnswered ==
  \A c \in Clients : client[c] \in {"query", "stop"} ~> client[c] = "out"

=============================================================================
