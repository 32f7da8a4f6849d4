------------------------------ MODULE Lifecycle ------------------------------
(***************************************************************************)
(* The life of the daemons of one project and the commands that start,     *)
(* stop and ask them: main (src/daemon/main.cpp), daemonize.cpp, the       *)
(* migrations, IpcServer::bind_or_die and cleanup, Coordinator::run and    *)
(* shutdown seen from outside, and the commands of src/cli/main.cpp,       *)
(* src/cli/init_cmd.cpp and src/mcp/main.cpp.                              *)
(*                                                                         *)
(* All of them share four files of .codetldr (the socket, daemon.pid,      *)
(* status.json and the database) and nothing locks them: a process acts on *)
(* what it saw a system call ago.  proc[p] says which system call the      *)
(* daemon p is about to make, cmd[c] where the command c is.               *)
(***************************************************************************)
EXTENDS Integers, FiniteSets

CONSTANTS
  Pids,          \* process ids that daemons get, each at most once
  Past,          \* the one of a daemon that was killed some time ago
  Commands,      \* terminals and MCP sessions, each running one command at a time
  Ops,           \* what they run: "start" (also init), "stop", "status"
  Latest,        \* the last version of kMigrations
  MaxCommands,   \* bound: commands that are run
  MaxCrashes,    \* bound: daemons that are killed
  MaxReuse       \* bound: process ids the system gives to another program

None == "none"

ASSUME LifecycleAssumption ==
  /\ None \notin Pids /\ Past \in Pids
  /\ Latest \in Nat \ {0}
  /\ Ops \subseteq {"start", "stop", "status"}
  /\ MaxCommands \in Nat /\ MaxCrashes \in Nat /\ MaxReuse \in Nat

VARIABLES
  sock,       \* the daemon whose bind made daemon.sock, or None
  pidfile,    \* what daemon.pid holds, or None
  status,     \* status.json: whether it says stopped, and of which daemon
  schema,     \* the last migration that is committed
  applied,    \* history: how often each migration has been committed
  proc,       \* what each daemon does next
  seen,       \* current_version, as each daemon read it
  listening,  \* daemons whose server_fd_ listens
  stop,       \* daemons that were told to stop: stop_requested_ or g_stop
  cmd,        \* each terminal: what it runs, where it is, whom it is connected to, the pid
              \* it has read
  heard,      \* history: who was listening when each daemon probed the socket
  raced,      \* history: two daemons have been at the socket file at once
  unclean,    \* history: daemons that ended without Coordinator::shutdown
  hit,        \* history: processes that are no daemon and got a SIGTERM
  left,       \* history: a daemon has left its loop
  overtaken,  \* history: pids that were given away while a stop was about to signal them
  commands, crashes, reused  \* counters for the bounds

files   == <<sock, pidfile, status>>
data    == <<schema, applied>>
memory  == <<seen, heard, stop>>
history == <<unclean, hit, left, overtaken>>
bounds  == <<commands, crashes, reused>>
vars    == <<files, data, memory, proc, listening, cmd, raced, history, bounds>>

Idle == [op |-> None, at |-> "idle", to |-> None, pid |-> None]

\* Database::open, which a daemon is not through with; "busy": it got an error, and still has
\* the file open.
Opening == {"open", "migrate", "busy"}

\* The system calls of a daemon from the look at the socket file to listen.
Binding == {"exists", "connect", "unlink", "bind", "listen"}
Running == {"scan", "loop"}
Leaving == {"shutdown", "unlinkOwn", "stopped", "unpid"}

\* kill(pid, 0): an unrelated process that got the pid counts as well.
IsProcessAlive(p) == proc[p] \notin {"unused", "dead"}

\* is_process_alive of the pid that start or stop has read, if it has read any.
ReadAlive(c) == cmd[c].pid # None /\ IsProcessAlive(cmd[c].pid)

\* connect succeeds: somebody listens on the file that is there.
Reachable == sock # None /\ sock \in listening

\* An old daemon may have left its files, and an old program its schema.
Init ==
  /\ sock \in {None, Past} /\ pidfile \in {None, Past}
  /\ status = IF sock = Past THEN [stopped |-> FALSE, pid |-> Past]
                            ELSE [stopped |-> TRUE, pid |-> None]
  /\ schema \in {0, Latest}
  /\ applied = [v \in 1..Latest |-> IF v <= schema THEN 1 ELSE 0]
  /\ proc = [p \in Pids |-> IF p = Past THEN "dead" ELSE "unused"] /\ seen = [p \in Pids |-> 0]
  /\ listening = {} /\ stop = {}
  /\ cmd = [c \in Commands |-> Idle]
  /\ heard = [p \in Pids |-> {}] /\ raced = FALSE
  /\ unclean = {Past} /\ hit = {} /\ left = FALSE /\ overtaken = {}
  /\ commands = 0 /\ crashes = 0 /\ reused = 0

-----------------------------------------------------------------------------
(* The daemon, from exec to listen *)

Goes(p, where) == proc' = [proc EXCEPT ![p] = where]

\* Clients of p read end-of-file.
HangUp(p) == cmd' = [c \in Commands |-> IF cmd[c].to = p THEN Idle ELSE cmd[c]]

\* What the process held in memory is gone.
Free(p) ==
  /\ seen' = [seen EXCEPT ![p] = 0]
  /\ heard' = [heard EXCEPT ![p] = {}]
  /\ stop' = stop \ {p}

\* The process ends where it is: the kernel closes its descriptors, its files stay.
Die(p) ==
  /\ Goes(p, "dead")
  /\ listening' = listening \ {p}
  /\ unclean' = unclean \cup {p}
  /\ HangUp(p) /\ Free(p)

\* Mutant: the versions that are there are not skipped.
OpenDatabaseRerun(p) ==
  /\ proc[p] = "open"
  /\ seen' = [seen EXCEPT ![p] = schema]
  /\ Goes(p, "migrate")
  /\ UNCHANGED <<files, data, heard, stop, listening, cmd, history, bounds>>

\* run_migrations reads the version outside the transactions that follow.
OpenDatabase(p) ==
  /\ proc[p] = "open"
  /\ seen' = [seen EXCEPT ![p] = schema]
  /\ Goes(p, IF schema = Latest THEN "daemonize" ELSE "migrate")
  /\ UNCHANGED <<files, data, heard, stop, listening, cmd, history, bounds>>

\* Mutant: no row of schema_version stops a second run of a migration.
MigrateUnversioned(p) ==
  LET version == seen[p] + 1
  IN /\ proc[p] = "migrate"
     /\ schema' = version
     /\ applied' = [applied EXCEPT ![version] = @ + 1]
     /\ seen' = [seen EXCEPT ![p] = version]
     /\ Goes(p, IF version = Latest THEN "daemonize" ELSE "migrate")
     /\ UNCHANGED <<files, heard, stop, listening, cmd, history, bounds>>

\* One version, its SQL and its row in one transaction.
Migrate(p) ==
  LET version == seen[p] + 1
  IN /\ proc[p] = "migrate" /\ schema < version
     /\ schema' = version
     /\ applied' = [applied EXCEPT ![version] = @ + 1]
     /\ seen' = [seen EXCEPT ![p] = version]
     /\ Goes(p, IF version = Latest THEN "daemonize" ELSE "migrate")
     /\ UNCHANGED <<files, heard, stop, listening, cmd, history, bounds>>

\* SQLITE_BUSY (no busy timeout is set) from the switch to WAL, from CREATE TABLE or from the
\* recovery of the log: another daemon is at it, or takes the lock to close the database.
\* While the schema is old, one that has failed may still hold its lock.
OpenFails(p) ==
  /\ proc[p] = "open"
  /\ \E q \in Pids \ {p} : \/ proc[q] \in {"open", "migrate", "unpid"}
                           \/ proc[q] = "busy" /\ schema < Latest
  /\ Goes(p, "busy")
  /\ UNCHANGED <<files, data, memory, listening, cmd, history, bounds>>

\* The row of a version that is there already, or the lock of another daemon, makes a
\* migration fail.
MigrationFails(p) ==
  /\ proc[p] = "migrate"
  /\ schema > seen[p] \/ \E q \in Pids \ {p} : proc[q] \in Opening
  /\ Goes(p, "busy")
  /\ UNCHANGED <<files, data, memory, listening, cmd, history, bounds>>

\* Database::open has thrown, and main returns 1.
GiveUp(p) ==
  /\ proc[p] = "busy"
  /\ Die(p)
  /\ UNCHANGED <<files, data, hit, left, overtaken, bounds>>

\* daemonize: the pid file is overwritten whatever it holds.  It is not when it cannot be
\* opened, nor with --foreground.
Daemonize(p) ==
  /\ proc[p] = "daemonize"
  /\ pidfile' \in {p, pidfile}
  /\ Goes(p, "register")
  /\ UNCHANGED <<sock, status, data, memory, listening, cmd, history, bounds>>

\* main finds the language servers (find_binary, popen), then run installs its handlers.
Register(p) ==
  /\ proc[p] = "register"
  /\ Goes(p, "exists")
  /\ UNCHANGED <<files, data, memory, listening, cmd, history, bounds>>

\* bind_or_die: is there a socket file?
ProbeExists(p) ==
  /\ proc[p] = "exists"
  /\ Goes(p, IF sock = None THEN "bind" ELSE "connect")
  /\ UNCHANGED <<files, data, memory, listening, cmd, history, bounds>>

\* A connection that is accepted means a live daemon: run throws and main returns 1,
\* without shutdown().
LiveDaemon(p) ==
  /\ proc[p] = "connect" /\ Reachable
  /\ Die(p)
  /\ UNCHANGED <<files, data, hit, left, overtaken, bounds>>

\* Mutant: the answer to the probe is not looked at.
StaleSocketAlways(p) ==
  /\ proc[p] = "connect"
  /\ heard' = [heard EXCEPT ![p] = listening]
  /\ Goes(p, "unlink")
  /\ UNCHANGED <<files, data, seen, stop, listening, cmd, history, bounds>>

\* Mutant: a socket file is enough to refuse.
StaleSocketRefused(p) ==
  /\ proc[p] = "connect" /\ ~Reachable
  /\ Die(p)
  /\ UNCHANGED <<files, data, hit, left, overtaken, bounds>>

StaleSocket(p) ==
  /\ proc[p] = "connect" /\ ~Reachable
  /\ heard' = [heard EXCEPT ![p] = listening]
  /\ Goes(p, "unlink")
  /\ UNCHANGED <<files, data, seen, stop, listening, cmd, history, bounds>>

\* After any error of the probe the file is removed, whoever made it since.
Unlink(p) ==
  /\ proc[p] = "unlink"
  /\ sock' = None
  /\ heard' = [heard EXCEPT ![p] = {}]
  /\ Goes(p, "bind")
  /\ UNCHANGED <<pidfile, status, data, seen, stop, listening, cmd, history, bounds>>

\* Mutant: the path is unlinked before it is bound.
BindOver(p) ==
  /\ proc[p] = "bind"
  /\ sock' = p
  /\ Goes(p, "listen")
  /\ UNCHANGED <<pidfile, status, data, memory, listening, cmd, history, bounds>>

Bind(p) ==
  /\ proc[p] = "bind" /\ sock = None
  /\ sock' = p
  /\ Goes(p, "listen")
  /\ UNCHANGED <<pidfile, status, data, memory, listening, cmd, history, bounds>>

\* EADDRINUSE.
BindFails(p) ==
  /\ proc[p] = "bind" /\ sock # None
  /\ Die(p)
  /\ UNCHANGED <<files, data, hit, left, overtaken, bounds>>

\* listen, then the watcher and the first write of status.json.
Listen(p) ==
  /\ proc[p] = "listen"
  /\ listening' = listening \cup {p}
  /\ status' = [stopped |-> FALSE, pid |-> p]
  /\ Goes(p, "scan")
  /\ UNCHANGED <<sock, pidfile, data, memory, cmd, history, bounds>>

-----------------------------------------------------------------------------
(* The daemon, from the scan to its end *)

\* Clients that connect during the scan wait for its end.
ScanDone(p) ==
  /\ proc[p] = "scan"
  /\ status' = [stopped |-> FALSE, pid |-> p]
  /\ Goes(p, "loop")
  /\ UNCHANGED <<sock, pidfile, data, memory, listening, cmd, history, bounds>>

\* One request, one answer, and the connection is closed: a second request on it, as
\* 'status --stats' makes, fails.  stop is flagged before it is answered.
Serve(p, c) ==
  /\ proc[p] = "loop" /\ cmd[c].to = p
  /\ stop' = IF cmd[c].op = "stop" THEN stop \cup {p} ELSE stop
  /\ cmd' = [cmd EXCEPT ![c] = Idle]
  /\ UNCHANGED <<files, data, seen, heard, proc, listening, history, bounds>>

\* The loop ends: a flag at its top, or the idle timeout, with nobody waiting.
LeaveLoop(p) ==
  /\ proc[p] = "loop"
  /\ p \in stop \/ \A c \in Commands : cmd[c].to # p
  /\ left' = TRUE
  /\ Goes(p, "shutdown")
  /\ UNCHANGED <<files, data, memory, listening, cmd, unclean, hit, overtaken, bounds>>

\* Mutant: clients in the backlog are left waiting.
CloseSocketOnly(p) ==
  /\ proc[p] = "shutdown"
  /\ listening' = listening \ {p}
  /\ Goes(p, "unlinkOwn")
  /\ UNCHANGED <<files, data, memory, cmd, history, bounds>>

\* IpcServer::cleanup closes server_fd_ ...
CloseSocket(p) ==
  /\ proc[p] = "shutdown"
  /\ listening' = listening \ {p}
  /\ HangUp(p)
  /\ Goes(p, "unlinkOwn")
  /\ UNCHANGED <<files, data, memory, history, bounds>>

\* ... and unlinks the path, whoever has bound it by now.
UnlinkOwn(p) ==
  /\ proc[p] = "unlinkOwn"
  /\ sock' = None
  /\ Goes(p, "stopped")
  /\ UNCHANGED <<pidfile, status, data, memory, listening, cmd, history, bounds>>

\* Mutant: the final status is not written.
WriteStoppedNot(p) ==
  /\ proc[p] = "stopped"
  /\ Goes(p, "unpid")
  /\ UNCHANGED <<sock, pidfile, status, data, memory, listening, cmd, history, bounds>>

WriteStopped(p) ==
  /\ proc[p] = "stopped"
  /\ status' = [stopped |-> TRUE, pid |-> p]
  /\ Goes(p, "unpid")
  /\ UNCHANGED <<sock, pidfile, data, memory, listening, cmd, history, bounds>>

\* Mutant: the pid file stays.
RemovePidfileNot(p) ==
  /\ proc[p] = "unpid"
  /\ Goes(p, "dead") /\ Free(p)
  /\ UNCHANGED <<pidfile, sock, status, data, listening, cmd, history, bounds>>

\* daemon.pid is removed, whoever wrote it.
RemovePidfile(p) ==
  /\ proc[p] = "unpid"
  /\ pidfile' = None
  /\ Goes(p, "dead") /\ Free(p)
  /\ UNCHANGED <<sock, status, data, listening, cmd, history, bounds>>

\* SIGTERM kills a process that has not installed its handlers, a stranger too, ...
Killed(p) ==
  /\ proc[p] \in {"foreign", "register"}
  /\ IF proc[p] = "foreign"
     THEN hit' = hit \cup {p} /\ UNCHANGED unclean
     ELSE unclean' = unclean \cup {p} /\ UNCHANGED hit
  /\ Goes(p, "dead") /\ Free(p)

\* ... and sets g_stop in the others, which look at it in their loop.
Flagged(p) ==
  /\ proc[p] \in Binding \cup Running \cup Leaving
  /\ stop' = stop \cup {p}
  /\ UNCHANGED <<seen, heard, proc, hit, unclean>>

-----------------------------------------------------------------------------
(* The commands *)

Step(c, where) == cmd' = [cmd EXCEPT ![c].at = where]
Finish(c) == cmd' = [cmd EXCEPT ![c] = Idle]

RunCommand(c, op) ==
  /\ cmd[c] = Idle /\ commands < MaxCommands
  /\ cmd' = [cmd EXCEPT ![c] = [op |-> op, at |-> IF op = "start" THEN "read" ELSE "connect",
                                to |-> None, pid |-> None]]
  /\ commands' = commands + 1
  /\ UNCHANGED <<files, data, memory, proc, listening, history, crashes, reused>>

\* read_pidfile, of start, init and stop.
ReadPidfile(c) ==
  /\ cmd[c].at = "read"
  /\ cmd' = [cmd EXCEPT ![c].at = "check", ![c].pid = pidfile]
  /\ UNCHANGED <<files, data, memory, proc, listening, history, bounds>>

\* start and init: "already running" when that pid is alive ...
AlreadyRunning(c) ==
  /\ cmd[c].at = "check" /\ cmd[c].op = "start" /\ ReadAlive(c)
  /\ Finish(c)
  /\ UNCHANGED <<files, data, memory, proc, listening, history, bounds>>

\* ... otherwise fork and exec codetldr-daemon, and poll for the socket file.
Launch(c) ==
  /\ cmd[c].at = "check" /\ cmd[c].op = "start" /\ ~ReadAlive(c)
  /\ \E p \in Pids : proc[p] = "unused"
  /\ Goes(CHOOSE p \in Pids : proc[p] = "unused", "open")  \* which one does not matter
  /\ cmd' = [cmd EXCEPT ![c].at = "poll", ![c].pid = None]
  /\ UNCHANGED <<files, data, memory, listening, history, bounds>>

ForkFails(c) ==
  /\ cmd[c].at = "check" /\ cmd[c].op = "start" /\ ~ReadAlive(c)
  /\ \A p \in Pids : proc[p] # "unused"
  /\ Finish(c)
  /\ UNCHANGED <<files, data, memory, proc, listening, history, bounds>>

\* The file is enough, even one that a dead daemon left; after three seconds start fails.
PollSocket(c) ==
  /\ cmd[c].at = "poll"
  /\ IF sock # None THEN Step(c, "connect") ELSE Finish(c)
  /\ UNCHANGED <<files, data, memory, proc, listening, history, bounds>>

\* DaemonClient::connect and call; the answer has no timeout.
Connect(c) ==
  /\ cmd[c].at = "connect" /\ Reachable
  /\ cmd' = [cmd EXCEPT ![c].at = "wait", ![c].to = sock]
  /\ UNCHANGED <<files, data, memory, proc, listening, history, bounds>>

\* Without a daemon to connect to, start prints the pid of its child, status what
\* status.json holds, and stop turns to the pid file.
NotConnected(c) ==
  /\ cmd[c].at = "connect" /\ ~Reachable
  /\ IF cmd[c].op = "stop" THEN Step(c, "read") ELSE Finish(c)
  /\ UNCHANGED <<files, data, memory, proc, listening, history, bounds>>

\* stop: the pid that it has read is alive, or it says "Daemon not running" ...
CheckRecorded(c) ==
  /\ cmd[c].at = "check" /\ cmd[c].op = "stop"
  /\ IF ReadAlive(c) THEN Step(c, "kill") ELSE Finish(c)
  /\ UNCHANGED <<files, data, memory, proc, listening, history, bounds>>

\* ... and SIGTERM goes to whoever has that pid by now (ESRCH when nobody has).
KillRecorded(c) ==
  /\ cmd[c].at = "kill"
  /\ IF ReadAlive(c) THEN Killed(cmd[c].pid) \/ Flagged(cmd[c].pid)
     ELSE UNCHANGED <<memory, proc, hit, unclean>>
  /\ Finish(c)
  /\ UNCHANGED <<files, data, listening, left, overtaken, bounds>>

-----------------------------------------------------------------------------
(* The system *)

Crash(p) ==
  /\ IsProcessAlive(p) /\ proc[p] # "foreign" /\ crashes < MaxCrashes
  /\ Die(p)
  /\ crashes' = crashes + 1
  /\ UNCHANGED <<files, data, hit, left, overtaken, commands, reused>>

\* The pid of a process that has ended goes to a program that is no daemon.
Reuse(p) ==
  /\ proc[p] = "dead" /\ reused < MaxReuse
  /\ Goes(p, "foreign")
  /\ reused' = reused + 1
  /\ overtaken' = IF \E c \in Commands : cmd[c].op = "stop" /\ cmd[c].pid = p
                  THEN overtaken \cup {p} ELSE overtaken
  /\ UNCHANGED <<files, data, memory, listening, cmd, unclean, hit, left, commands, crashes>>

\* Two daemons look at the socket file or remove it, each on what it saw before.
AtSocket(p) == proc[p] \in Binding \cup {"unlinkOwn"}
Overlap == \E p, q \in Pids : p # q /\ AtSocket(p) /\ AtSocket(q)

Daemon(p) ==
  \/ OpenDatabase(p) \/ OpenFails(p) \/ Migrate(p) \/ MigrationFails(p) \/ GiveUp(p)
  \/ Daemonize(p) \/ Register(p)
  \/ ProbeExists(p) \/ LiveDaemon(p) \/ StaleSocket(p) \/ Unlink(p)
  \/ Bind(p) \/ BindFails(p) \/ Listen(p)
  \/ ScanDone(p) \/ (\E c \in Commands : Serve(p, c))
  \/ CloseSocket(p) \/ UnlinkOwn(p) \/ WriteStopped(p) \/ RemovePidfile(p)

Command(c) ==
  \/ ReadPidfile(c) \/ AlreadyRunning(c) \/ Launch(c) \/ ForkFails(c) \/ PollSocket(c)
  \/ Connect(c) \/ NotConnected(c) \/ CheckRecorded(c) \/ KillRecorded(c)

Watch == raced' = (raced \/ Overlap')

Next ==
  /\ \/ \E p \in Pids : Daemon(p) \/ LeaveLoop(p) \/ Crash(p) \/ Reuse(p)
     \/ \E c \in Commands : Command(c) \/ \E op \in Ops : RunCommand(c, op)
  /\ Watch

Spec == Init /\ [][Next]_vars

\* Processes run; a daemon that was told to stop leaves its loop, one that is idle may.
FairSpec ==
  /\ Spec
  /\ \A p \in Pids : WF_vars((Daemon(p) \/ (LeaveLoop(p) /\ p \in stop)) /\ Watch)
  /\ \A c \in Commands : WF_vars(Command(c) /\ Watch)

-----------------------------------------------------------------------------
(* Properties *)

\* Every variable has its type.
TypeOK ==
  /\ sock \in Pids \cup {None} /\ pidfile \in Pids \cup {None}
  /\ status \in [stopped : BOOLEAN, pid : Pids \cup {None}]
  /\ schema \in 0..Latest /\ applied \in [1..Latest -> Nat] /\ seen \in [Pids -> 0..Latest]
  /\ proc \in [Pids -> {"unused", "dead", "foreign", "daemonize", "register"}
                        \cup Opening \cup Binding \cup Running \cup Leaving]
  /\ listening \subseteq Pids /\ stop \subseteq Pids
  /\ cmd \in [Commands -> [op : Ops \cup {None}, to : Pids \cup {None}, pid : Pids \cup {None},
                           at : {"idle", "read", "check", "poll", "connect", "kill", "wait"}]]
  /\ heard \in [Pids -> SUBSET Pids] /\ raced \in BOOLEAN
  /\ unclean \subseteq Pids /\ hit \subseteq Pids /\ left \in BOOLEAN /\ overtaken \subseteq Pids
  /\ commands \in Nat /\ crashes \in Nat /\ reused \in Nat

\* Migrations: daemons that open a database together apply every version once, in order,
\* and whoever gets past the database finds all of them (migrations.cpp, database.cpp).
SchemaOnce ==
  /\ \A v \in 1..Latest : applied[v] = IF v <= schema THEN 1 ELSE 0
  /\ \A p \in Pids : proc[p] \in {"daemonize", "register"} \cup Binding \cup Running \cup Leaving
                       => schema = Latest

\* The socket: a daemon that listens can be reached, so there is one of them, unless two
\* have been at the socket file at once (bind_or_die, cleanup).
ReachableUnlessRaced == \A p \in listening : raced \/ sock = p

\* The pid file: stop sends SIGTERM to a stranger only under a pid whose daemon ended
\* without a shutdown, or that the system gave away between the stop's read_pidfile and its
\* kill: who shuts down leaves no pid for a stop that begins later (start and stop of
\* cli/main.cpp, shutdown of the coordinator).
OnlyLostPidsAreHit == hit \subseteq unclean \cup overtaken

\* status.json, which 'codetldr status' prints when it cannot connect: it says something
\* else than "stopped" only of a daemon that runs or was killed.
StatusTellsStop ==
  ~status.stopped => \/ status.pid \in unclean
                     \/ proc[status.pid] \in Running \cup {"shutdown", "unlinkOwn", "stopped"}

\* bind_or_die: the file of a daemon that listens goes away by the hand of one that shuts
\* down, or of one that had probed before the listen, never after a probe that it answered.
ProbeProtects ==
  [][\A p \in listening :
       sock = p /\ sock' # p =>
         \E q \in Pids : /\ proc'[q] # proc[q]
                         /\ proc[q] = "unlinkOwn" \/ (proc[q] = "unlink" /\ p \notin heard[q])]_vars

\* No command hangs: health_check and stop have no timeout, but whoever holds the
\* connection answers it or closes it.
CommandsEnd == \A c \in Commands : (cmd[c] # Idle) ~> (cmd[c] = Idle)

\* However many starts race, over stale files and an old database, one daemon comes to be
\* reachable, unless one is killed or told to stop or idles out meanwhile, or two open a
\* database of an old schema at once, where their locks and the version rows can end both.
StartGivesDaemon ==
  \A p \in Pids : (proc[p] = "open") ~> \/ Reachable \/ left \/ crashes > 0
                                        \/ \E c \in Commands : cmd[c].at = "kill"
                                        \/ /\ schema < Latest
                                           /\ \E q, r \in Pids : /\ q # r
                                                                 /\ proc[q] \in Opening
                                                                 /\ proc[r] \in Opening

=============================================================================
