------------------------------ MODULE LspServer ------------------------------
(***************************************************************************)
(* One language server as the daemon sees it: the ServerEntry that         *)
(* LspManager keeps for a language (src/lsp/lsp_manager.cpp), the          *)
(* LspTransport inside it (src/lsp/lsp_transport.cpp) and the child        *)
(* process of LspProcess (src/lsp/lsp_process.cpp), which is environment.  *)
(*                                                                         *)
(* The event loop is one thread.  A call that fires callbacks (poll_read,  *)
(* check_timeouts) is split into one step per callback; control records    *)
(* where the thread is, so only the environment moves in between.          *)
(*                                                                         *)
(* Time is kept as ages and countdowns, never as an absolute clock, so the *)
(* state space is finite for any number of ticks.                          *)
(***************************************************************************)
EXTENDS Integers, Sequences, FiniteSets

CONSTANTS
  Requests,            \* resolver actions given to send_when_ready
  Files,               \* source files those actions ask about
  FileOf,              \* the file each action opens before it asks
  Unreadable,          \* files that cannot be opened when their turn comes
  MaxCrashesInWindow,  \* kMaxCrashesInWindow
  CrashWindow,         \* kCrashWindow
  BackoffMax,          \* kBackoffMax
  Timeout,             \* LspTransport::timeout_
  ProjectChecks,       \* outcomes of the check made once the handshake is complete
  Faults,              \* what the environment may do wrong
  MaxSpawns            \* bound: processes spawned in one behaviour

ASSUME LspServerAssumption ==
  /\ FileOf \in [Requests -> Files] /\ Unreadable \subseteq Files
  /\ MaxCrashesInWindow \in Nat \ {0}
  /\ CrashWindow \in Nat
  /\ BackoffMax \in Nat \ {0}
  /\ Timeout \in Nat
  /\ ProjectChecks \subseteq {"found", "no_compile_db", "probe"}
  /\ Faults \subseteq {"die", "init_error", "probe_error"}
  /\ MaxSpawns \in Nat \ {0}

VARIABLES
  state,            \* ServerEntry::state; kIndexing is never assigned
  detected,         \* ServerEntry::detected
  crashTimes,       \* ages of ServerEntry::crash_times, oldest first
  restartCount,     \* ServerEntry::restart_count
  restartAfter,     \* time left until ServerEntry::restart_after
  pendingRequests,  \* ServerEntry::pending_requests
  openedUris,       \* ServerEntry::opened_uris
  sent,             \* every request ever sent; next_id_ is Len(sent) + 1
  pending,          \* keys of LspTransport::pending_
  writeQueue,       \* LspTransport::write_queue_
  stdout,           \* replies in the stdout pipe of the current process
  buffer,           \* complete messages that poll_read still has to handle
  expired,          \* ids that check_timeouts still has to fire
  control,          \* where the event-loop thread is
  session,          \* number of successful spawns: the process pid_ names
  alive,            \* sessions whose process is running
  received,         \* frames the current process has read, in order
  replied,          \* ids the current process has answered
  outcome           \* history: what became of each resolver action

entry     == <<state, detected, crashTimes, restartCount, restartAfter,
               pendingRequests, openedUris>>
transport == <<sent, pending, writeQueue>>
process   == <<stdout, session, alive, received, replied>>
thread    == <<buffer, expired, control>>
vars      == <<entry, transport, process, thread, outcome>>

States   == {"NotStarted", "Starting", "Ready", "Unavailable", "Degraded"}
Kinds    == {"initialize", "definition", "probe"}
None     == "none"
Frames   == [kind : {"initialize", "initialized", "didOpen", "definition", "probe"},
             id : Nat, session : Nat, arg : Requests \cup Files \cup {None}]
Messages == [id : Nat, ok : BOOLEAN]
Ages     == 0 .. Timeout + 1
SentRecs == [kind : Kinds, session : Nat, arg : Requests \cup {None},
             age : Ages, fired : Nat]

Running  == state \in {"Starting", "Ready", "Degraded"}
AtLoop   == control = "loop"

Init ==
  /\ state = "NotStarted" /\ detected = FALSE
  /\ crashTimes = <<>> /\ restartCount = 0 /\ restartAfter = 0
  /\ pendingRequests = <<>> /\ openedUris = {}
  /\ sent = <<>> /\ pending = {} /\ writeQueue = <<>>
  /\ stdout = <<>> /\ session = 0 /\ alive = {} /\ received = <<>> /\ replied = {}
  /\ buffer = <<>> /\ expired = {} /\ control = "loop"
  /\ outcome = [r \in Requests |-> "idle"]

-----------------------------------------------------------------------------
(* LspTransport *)

Frame(kind, id, s, arg) == [kind |-> kind, id |-> id, session |-> s, arg |-> arg]

\* send_request of session s: take the next id, enqueue the frame (after those of prefix),
\* register the callback with a deadline Timeout away.
SendRequest(s, prefix, kind, arg) ==
  LET id == Len(sent) + 1
  IN /\ sent' = Append(sent, [kind |-> kind, session |-> s, arg |-> arg,
                              age |-> 0, fired |-> 0])
     /\ pending' = pending \cup {id}
     /\ writeQueue' = writeQueue \o prefix \o <<Frame(kind, id, s, arg)>>

\* Mutant of Fire: check_timeouts or poll_read forgets the erase.
FireKeepsEntry(id) ==
  /\ sent' = [sent EXCEPT ![id].fired = @ + 1, ![id].age = 0]
  /\ pending' = pending

\* A callback leaves pending_ as it fires.
Fire(id) ==
  /\ sent' = [sent EXCEPT ![id].fired = @ + 1, ![id].age = 0]
  /\ pending' = pending \ {id}

\* What the resolver learns when the callback of its request fires.
Report(id) ==
  outcome' = IF sent[id].kind = "definition"
             THEN [outcome EXCEPT ![sent[id].arg] = "answered"]
             ELSE outcome

-----------------------------------------------------------------------------
(* LspManager: crashes, the circuit breaker and restarts *)

\* Mutant of BackoffFor: no cap.
BackoffUncapped(n) == 2^n

\* 1 << restart_count seconds, capped.
BackoffFor(n) == IF 2^n \in 1 .. BackoffMax THEN 2^n ELSE BackoffMax

\* Mutant of Evict: >= for > in the age test.
EvictAtWindow(times) == SelectSeq(times, LAMBDA age : age < CrashWindow)

\* Drop the crashes older than the window from the front.
Evict(times) ==
  LET stale == {i \in DOMAIN times : \A j \in 1 .. i : times[j] > CrashWindow}
  IN SubSeq(times, Cardinality(stale) + 1, Len(times))

\* Mutant of HandleCrash: > for >= in the test of the breaker.
HandleCrashOneMore ==
  LET times == Evict(Append(crashTimes, 0))
      tripped == Len(times) > MaxCrashesInWindow
  IN /\ openedUris' = {} /\ pendingRequests' = <<>>
     /\ outcome' = [r \in Requests |-> IF outcome[r] = "queued" THEN "dropped"
                                                                ELSE outcome[r]]
     /\ crashTimes' = times
     /\ state' = IF tripped THEN "Unavailable" ELSE "NotStarted"
     /\ restartAfter' = IF tripped THEN restartAfter ELSE BackoffFor(restartCount)
     /\ restartCount' = IF tripped THEN restartCount ELSE restartCount + 1
     /\ UNCHANGED detected

\* handle_crash: record the crash, then trip the breaker or schedule a restart.  The
\* process is not touched, nor are the queue and the pending map of the transport.
HandleCrash ==
  LET times == Evict(Append(crashTimes, 0))
  IN /\ openedUris' = {}
     /\ pendingRequests' = <<>>
     /\ outcome' = [r \in Requests |-> IF outcome[r] = "queued" THEN "dropped"
                                                                ELSE outcome[r]]
     /\ crashTimes' = times
     /\ IF Len(times) >= MaxCrashesInWindow
        THEN /\ state' = "Unavailable"
             /\ UNCHANGED <<restartCount, restartAfter>>
        ELSE /\ state' = "NotStarted"
             /\ restartAfter' = BackoffFor(restartCount)
             /\ restartCount' = restartCount + 1
     /\ UNCHANGED detected

\* try_spawn when posix_spawn succeeds (its failure changes nothing): a new process with
\* new pipes, and the initialize request at the END of whatever the write queue holds.
TrySpawn ==
  /\ session < MaxSpawns
  /\ session' = session + 1
  /\ alive' = alive \cup {session + 1}
  /\ stdout' = <<>> /\ received' = <<>> /\ replied' = {}
  /\ state' = "Starting"
  /\ SendRequest(session + 1, <<>>, "initialize", None)
  /\ UNCHANGED <<detected, crashTimes, restartCount, restartAfter, pendingRequests,
                 openedUris, thread, outcome>>

\* set_detected_languages, called once after the initial scan.
SetDetectedLanguages(present) ==
  /\ AtLoop /\ session = 0
  /\ detected' = present
  /\ UNCHANGED <<state, crashTimes, restartCount, restartAfter, pendingRequests,
                 openedUris, transport, process, thread, outcome>>

\* ensure_server starts a server only the first time; restarts belong to tick.
EnsureServer ==
  /\ AtLoop /\ detected
  /\ state = "NotStarted" /\ restartCount = 0
  /\ TrySpawn

\* Mutant of TickCrashed: the crash check is made in every state.
TickCrashedAnyState ==
  /\ AtLoop /\ detected /\ session \notin alive /\ session > 0
  /\ stdout' = <<>>
  /\ HandleCrash
  /\ UNCHANGED <<transport, session, alive, received, replied, thread>>

\* tick, first half: waitpid(WNOHANG) finds the process gone (or already reaped), the
\* pipes are closed with what they hold, and the crash is charged.
TickCrashed ==
  /\ AtLoop /\ detected /\ Running
  /\ session \notin alive
  /\ stdout' = <<>>
  /\ HandleCrash
  /\ UNCHANGED <<transport, session, alive, received, replied, thread>>

\* Mutant of TickRestart: only the first restart.
TickRestartOnce ==
  /\ AtLoop /\ detected /\ state = "NotStarted"
  /\ restartCount = 1 /\ restartAfter = 0
  /\ TrySpawn

\* tick, second half: a restart whose backoff has elapsed.
TickRestart ==
  /\ AtLoop /\ detected
  /\ state = "NotStarted" /\ restartCount > 0
  /\ restartAfter = 0
  /\ TrySpawn

-----------------------------------------------------------------------------
(* LspManager: the gate for the resolvers and the answers of the server *)

\* Mutant of RunAction: openedUris is not updated.
RunActionReopens(r) ==
  /\ SendRequest(session, <<Frame("didOpen", 0, session, FileOf[r])>>, "definition", r)
  /\ outcome' = [outcome EXCEPT ![r] = "sent"]
  /\ UNCHANGED openedUris

\* The closure a resolver passes to send_when_ready: ensure_document_open (once per
\* session, and not for a file it cannot read), then the definition request whatever became
\* of that.  It runs in a state that has a transport.
RunAction(r) ==
  LET uris == {FileOf[r]} \ (openedUris \cup Unreadable)
      didOpen == IF uris = {} THEN <<>> ELSE <<Frame("didOpen", 0, session, FileOf[r])>>
  IN /\ openedUris' = openedUris \cup uris
     /\ SendRequest(session, didOpen, "definition", r)
     /\ outcome' = [outcome EXCEPT ![r] = "sent"]

\* send_when_ready in kReady or kDegraded: run the action now.
SendNow(r) ==
  /\ AtLoop /\ outcome[r] = "idle"
  /\ state \in {"Ready", "Degraded"}
  /\ RunAction(r)
  /\ UNCHANGED <<state, detected, crashTimes, restartCount, restartAfter,
                 pendingRequests, process, thread>>

\* Mutant of SendLater: any server that is not ready queues.
SendLaterAlways(r) ==
  /\ AtLoop /\ outcome[r] = "idle"
  /\ state \notin {"Ready", "Degraded"}
  /\ pendingRequests' = Append(pendingRequests, r)
  /\ outcome' = [outcome EXCEPT ![r] = "queued"]
  /\ UNCHANGED <<state, detected, crashTimes, restartCount, restartAfter, openedUris,
                 transport, process, thread>>

\* send_when_ready in kStarting: keep the action until the handshake is complete.
\* (In the other states it returns false and changes nothing.)
SendLater(r) ==
  /\ AtLoop /\ outcome[r] = "idle"
  /\ state = "Starting"
  /\ pendingRequests' = Append(pendingRequests, r)
  /\ outcome' = [outcome EXCEPT ![r] = "queued"]
  /\ UNCHANGED <<state, detected, crashTimes, restartCount, restartAfter, openedUris,
                 transport, process, thread>>

\* drain_writes: the first n frames fit in the stdin pipe and the process reads them.
\* Writing to a process that is gone fails and leaves the queue alone.
DrainWrites(n) ==
  /\ AtLoop /\ Running
  /\ session \in alive
  /\ received' = received \o SubSeq(writeQueue, 1, n)
  /\ writeQueue' = SubSeq(writeQueue, n + 1, Len(writeQueue))
  /\ UNCHANGED <<entry, sent, pending, stdout, session, alive, replied, thread, outcome>>

\* dispatch_read and poll_read: take the first n messages out of the pipe and start to
\* handle them.  append_pollfds polls the pipe only in the running states.
PollRead(n) ==
  /\ AtLoop /\ Running
  /\ buffer' = SubSeq(stdout, 1, n)
  /\ stdout' = SubSeq(stdout, n + 1, Len(stdout))
  /\ control' = "read"
  /\ UNCHANGED <<entry, transport, expired, session, alive, received, replied, outcome>>

\* Mutant of HandshakeDone: the initialized notification is forgotten.
HandshakeDoneSilently ==
  /\ state' = "Ready" /\ control' = "drain"
  /\ UNCHANGED <<detected, crashTimes, restartCount, restartAfter, pendingRequests,
                 openedUris, writeQueue, outcome>>

\* The initialize callback on success: "initialized" goes out, then the queued actions.
HandshakeDone ==
  /\ writeQueue' = Append(writeQueue, Frame("initialized", 0, session, None))
  /\ state' = "Ready"
  /\ control' = "drain"
  /\ UNCHANGED <<detected, crashTimes, restartCount, restartAfter, pendingRequests,
                 openedUris, outcome>>

\* The initialize callback.  Its only guard against a stale answer is the state.
InitializeCallback(ok) ==
  \/ /\ state # "Starting"
     /\ UNCHANGED <<entry, writeQueue, control, outcome>>
  \/ /\ state = "Starting" /\ ok
     /\ HandshakeDone
  \/ /\ state = "Starting" /\ ~ok
     /\ HandleCrash
     /\ UNCHANGED <<writeQueue, control>>

\* The callback of the workspace/symbol probe: no guard at all.
ProbeCallback(ok) ==
  /\ state' = IF ok THEN state ELSE "Degraded"
  /\ UNCHANGED <<detected, crashTimes, restartCount, restartAfter, pendingRequests,
                 openedUris, writeQueue, control, outcome>>

Callback(id, ok) ==
  /\ Fire(id)
  /\ CASE sent[id].kind = "initialize" -> InitializeCallback(ok)
       [] sent[id].kind = "probe"      -> ProbeCallback(ok)
       [] OTHER -> /\ Report(id)
                   /\ UNCHANGED <<entry, writeQueue, control>>

\* One turn of the loop in poll_read: a reply whose id is not pending is dropped.
HandleMessage ==
  /\ control = "read" /\ buffer # <<>>
  /\ buffer' = Tail(buffer)
  /\ IF Head(buffer).id \in pending
     THEN Callback(Head(buffer).id, Head(buffer).ok)
     ELSE UNCHANGED <<entry, transport, control, outcome>>
  /\ UNCHANGED <<expired, process>>

ReadDone ==
  /\ control = "read" /\ buffer = <<>>
  /\ control' = "loop"
  /\ UNCHANGED <<entry, transport, process, buffer, expired, outcome>>

\* The handshake callback drains pending_requests in order ...
RunQueued ==
  /\ control = "drain" /\ pendingRequests # <<>>
  /\ pendingRequests' = Tail(pendingRequests)
  /\ RunAction(Head(pendingRequests))
  /\ UNCHANGED <<state, detected, crashTimes, restartCount, restartAfter, process, thread>>

\* ... and then looks at the project: check_clangd_compile_db may degrade the server,
\* check_swift_package sends a probe, the other checks only log.
ProjectCheck(check) ==
  /\ control = "drain" /\ pendingRequests = <<>>
  /\ control' = "read"
  /\ state' = IF check = "no_compile_db" THEN "Degraded" ELSE state
  /\ IF check = "probe"
     THEN SendRequest(session, <<>>, "probe", None)
     ELSE UNCHANGED transport
  /\ UNCHANGED <<detected, crashTimes, restartCount, restartAfter, pendingRequests,
                 openedUris, process, buffer, expired, outcome>>

\* Mutant of CheckTimeouts: a server in its handshake is left out.
CheckTimeoutsWhenReady ==
  /\ AtLoop /\ state \in {"Ready", "Degraded"}
  /\ expired' = {id \in pending : sent[id].age > Timeout}
  /\ expired' # {}
  /\ control' = "expire"
  /\ UNCHANGED <<entry, transport, process, buffer, outcome>>

\* check_timeouts, run by the manager in the running states only: collect, then fire.
CheckTimeouts ==
  /\ AtLoop /\ Running
  /\ expired' = {id \in pending : sent[id].age > Timeout}
  /\ expired' # {}
  /\ control' = "expire"
  /\ UNCHANGED <<entry, transport, process, buffer, outcome>>

FireTimeout(id) ==
  /\ control = "expire" /\ id \in expired
  /\ expired' = expired \ {id}
  /\ Callback(id, FALSE)
  /\ UNCHANGED <<process, buffer>>

TimeoutsDone ==
  /\ control = "expire" /\ expired = {}
  /\ control' = "loop"
  /\ UNCHANGED <<entry, transport, process, buffer, expired, outcome>>

\* shutdown: SIGTERM and waitpid for the current process, in the running states only.
Shutdown ==
  /\ AtLoop
  /\ control' = "stopped"
  /\ alive' = IF Running THEN alive \ {session} ELSE alive
  /\ UNCHANGED <<entry, transport, stdout, session, received, replied, buffer, expired,
                 outcome>>

-----------------------------------------------------------------------------
(* Environment: the server process and time *)

MayFail(kind) ==
  \/ kind = "initialize" /\ "init_error" \in Faults
  \/ kind = "probe" /\ "probe_error" \in Faults

\* The current process answers a request it has read, in any order, at most once.
ServerReplies(id, ok) ==
  /\ session \in alive
  /\ \E i \in DOMAIN received : received[i].id = id
  /\ id > 0 /\ id \notin replied
  /\ ~ok => MayFail(sent[id].kind)
  /\ replied' = replied \cup {id}
  /\ stdout' = Append(stdout, [id |-> id, ok |-> ok])
  /\ UNCHANGED <<entry, transport, thread, session, alive, received, outcome>>

\* What it has already written stays readable until the pipe is closed.
ServerDies ==
  /\ "die" \in Faults
  /\ session \in alive
  /\ alive' = alive \ {session}
  /\ UNCHANGED <<entry, transport, thread, stdout, session, received, replied, outcome>>

\* A second passes.  Callbacks of one batch run within a second.
Saturated(age, max) == IF age < max THEN age + 1 ELSE age

SecondPasses ==
  /\ AtLoop
  /\ sent' = [id \in DOMAIN sent |->
                IF id \in pending
                THEN [sent[id] EXCEPT !.age = Saturated(@, Timeout + 1)]
                ELSE sent[id]]
  /\ crashTimes' = [i \in DOMAIN crashTimes |-> Saturated(crashTimes[i], CrashWindow + 1)]
  /\ restartAfter' = IF restartAfter > 0 THEN restartAfter - 1 ELSE 0
  /\ UNCHANGED <<state, detected, restartCount, pendingRequests, openedUris, pending,
                 writeQueue, process, thread, outcome>>

-----------------------------------------------------------------------------
Next ==
  \/ \E present \in BOOLEAN : SetDetectedLanguages(present)
  \/ EnsureServer
  \/ TickCrashed
  \/ TickRestart
  \/ \E r \in Requests : SendNow(r)
  \/ \E r \in Requests : SendLater(r)
  \/ \E n \in 1 .. Len(writeQueue) : DrainWrites(n)
  \/ \E n \in 1 .. Len(stdout) : PollRead(n)
  \/ HandleMessage
  \/ ReadDone
  \/ RunQueued
  \/ \E check \in ProjectChecks : ProjectCheck(check)
  \/ CheckTimeouts
  \/ \E id \in expired : FireTimeout(id)
  \/ TimeoutsDone
  \/ Shutdown
  \/ \E id \in DOMAIN sent, ok \in BOOLEAN : ServerReplies(id, ok)
  \/ ServerDies
  \/ SecondPasses

Spec == Init /\ [][Next]_vars

\* Each turn of the event loop reads, ticks and checks the timeouts (coordinator.cpp:312-320),
\* a callback batch runs to its end, and time passes.  Nothing is assumed of the server, of
\* the resolvers, or of how much drain_writes can write.
Fairness ==
  /\ WF_vars(HandleMessage) /\ WF_vars(ReadDone)
  /\ WF_vars(RunQueued)
  /\ WF_vars(\E check \in ProjectChecks : ProjectCheck(check))
  /\ WF_vars(CheckTimeouts) /\ WF_vars(\E id \in expired : FireTimeout(id))
  /\ WF_vars(TimeoutsDone)
  /\ WF_vars(TickCrashed) /\ WF_vars(TickRestart)
  /\ WF_vars(SecondPasses)

FairSpec == Spec /\ Fairness

-----------------------------------------------------------------------------
(* Properties *)

\* The types of the variables.
TypeOK ==
  /\ state \in States /\ detected \in BOOLEAN
  /\ crashTimes \in Seq(0 .. CrashWindow + 1)
  /\ restartCount \in Nat /\ restartAfter \in 0 .. BackoffMax
  /\ pendingRequests \in Seq(Requests) /\ openedUris \subseteq Files
  /\ sent \in Seq(SentRecs) /\ pending \subseteq DOMAIN sent
  /\ writeQueue \in Seq(Frames) /\ received \in Seq(Frames)
  /\ stdout \in Seq(Messages) /\ buffer \in Seq(Messages)
  /\ session \in Nat /\ alive \subseteq 1 .. session
  /\ replied \subseteq DOMAIN sent /\ expired \subseteq pending
  /\ control \in {"loop", "read", "drain", "expire", "stopped"}
  /\ outcome \in [Requests -> {"idle", "queued", "sent", "answered", "dropped"}]

\* A callback fires exactly once: by the answer or by the timeout, whichever the loop
\* handles first, and an id leaves pending_ only by firing (lsp_transport.cpp:77-142).
CallbackFiresOnce ==
  \A id \in DOMAIN sent : sent[id].fired = IF id \in pending THEN 0 ELSE 1

\* One crash is charged per process and one process started per crash: a dead process
\* found by tick, a failed handshake and a late timeout never add up to two charges
\* (lsp_manager.cpp:227-257, 277-338).
OneChargePerProcess ==
  session = restartCount + IF state = "NotStarted" THEN 0 ELSE 1

\* The breaker is open exactly when the window is full (lsp_manager.cpp:236-248).
BreakerMatchesWindow ==
  state = "Unavailable" <=> Len(crashTimes) >= MaxCrashesInWindow

\* What the current process has been sent and will be sent, in order.
Stream == received \o writeQueue

Precedes(i, kind) ==
  \E j \in 1 .. i - 1 : Stream[j].session = session /\ Stream[j].kind = kind

\* Of the frames made for the current process, "initialized" comes after "initialize" and
\* every other frame after "initialized" (lsp_manager.cpp:185-195).
HandshakeFirst ==
  \A i \in DOMAIN Stream :
    Stream[i].session = session =>
      \/ Stream[i].kind = "initialize"
      \/ Stream[i].kind = "initialized" /\ Precedes(i, "initialize")
      \/ Precedes(i, "initialized")

\* In its own session a readable file is opened before it is asked about, and only once, whether
\* the actions ran at once or waited in pending_requests (lsp_manager.cpp:683-724).
OpenedOnceBeforeAsked ==
  \A i \in DOMAIN Stream :
    (/\ Stream[i].session = session /\ Stream[i].kind = "definition"
     /\ FileOf[Stream[i].arg] \notin Unreadable) =>
      \E j \in 1 .. i - 1 :
        /\ Stream[j].session = session
        /\ Stream[j].kind = "didOpen" /\ Stream[j].arg = FileOf[Stream[i].arg]
        /\ \A k \in DOMAIN Stream \ {j} : Stream[k] # Stream[j]

\* An action accepted by send_when_ready is waiting for the handshake, or its request has
\* a registered callback, or its callback has fired, or a crash dropped it
\* (lsp_manager.cpp:227-231, 726-741).
AcceptedIsHeld ==
  \A r \in Requests :
    /\ outcome[r] = "queued" => /\ \E i \in DOMAIN pendingRequests : pendingRequests[i] = r
                                /\ state = "Starting" \/ control = "drain"
    /\ outcome[r] = "sent" =>
         \E id \in pending : sent[id].kind = "definition" /\ sent[id].arg = r

\* The manager implements RestartPolicy.
Policy == INSTANCE RestartPolicy WITH
  Limit <- MaxCrashesInWindow, Window <- CrashWindow, BackoffCap <- BackoffMax,
  phase <- CASE state = "Unavailable" -> "open"
             [] state = "NotStarted" -> IF restartCount = 0 THEN "down" ELSE "backoff"
             [] OTHER -> "up",
  failures <- crashTimes, attempts <- restartCount, wait <- restartAfter

\* Whatever the interleaving of deaths, failed handshakes and late timeouts, the server is
\* restarted, delayed and given up exactly as the policy says (lsp_manager.cpp:227-336).
ImplementsPolicy == Policy!Spec

\* The bound on processes is reached: the model cannot restart where the code would.
AtBound == session = MaxSpawns /\ state = "NotStarted"

\* A handshake ends, by an answer, a timeout or a crash (lsp_transport.cpp:120-142).
HandshakeEnds == state = "Starting" ~> state # "Starting" \/ control = "stopped"

\* An accepted action is answered or dropped, however often the server crashes, unless the
\* breaker opens first.
AcceptedIsResolved ==
  \A r \in Requests :
    outcome[r] \in {"queued", "sent"} ~>
      \/ outcome[r] \in {"answered", "dropped"}
      \/ state = "Unavailable" \/ AtBound \/ control = "stopped"

=============================================================================
