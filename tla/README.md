# CodeTLDR in TLA+

A verification development for the CodeTLDR daemon: TLA+ models of the parts of
`src/src/` that hold state and interleave, model-checked with TLC on small instances, and
theorems about them checked by TLAPS for every value of the constants. Paths below are
relative to `src/src/` unless they begin with `src/`.

## The system

`codetldr-daemon` indexes a source tree into SQLite, keeps the index current as files
change, answers queries over a Unix socket and asks language servers for definitions.

| Component (code) | State it keeps | Operations | What makes it correct |
|---|---|---|---|
| **Event loop** `daemon/coordinator.cpp` | `event_queue_` (mutex), wakeup pipe, `stop_requested_`, `g_stop`, `last_activity_`, cold-start queues | `run` (scan, then poll / read / drain / re-index / idle check), `notify_wakeup`, `request_stop`, `shutdown` | no wakeup or change lost; changes reach the index; stop is honoured |
| **File watcher and debouncer** `watcher/file_watcher.cpp`, `watcher/debouncer.cpp` | efsw's thread; path → last touch | `handleFileAction`, `start`, `stop`; `touch`, `flush_ready` | every relevant change is queued; a change is delivered once quiet |
| **IPC server and client** `daemon/ipc_server.cpp`, `daemon_client.cpp` | listening socket, socket file, connections | `bind_or_die`, `accept_client`, `recv_message`, `send_message`, `cleanup`; `connect`, `call` | a daemon that listens can be reached; a client is answered or hung up on |
| **Request router** `daemon/request_router.cpp` | `lsp_symbol_cache_` | `dispatch`: some twenty methods, mostly queries | a cached answer is recent; an answer of a server hides no call it says nothing about |
| **LSP server management** `lsp/lsp_manager.cpp`, `lsp_process.cpp` | per language: state, crash window, backoff, queued actions, open documents | `ensure_server`, `try_spawn`, `handle_crash`, `tick`, `send_when_ready`, `ensure_document_open`, project checks, `shutdown` | handshake before requests; every crash charged once; breaker and backoff as documented |
| **LSP transport** `lsp/lsp_transport.cpp` | next id, pending callbacks with deadlines, write queue | `send_request`, `drain_writes`, `poll_read`, `check_timeouts` | a callback fires once: answer or timeout |
| **LSP framing** `lsp/lsp_framing.cpp` | receive buffer, header/body state | `feed`, `try_parse`, `encode` | the messages come out as they went in, however the stream is cut |
| **Analysis pipeline** `analysis/pipeline.cpp` | `files`, `symbols`, `calls`, `cfg_nodes`, `dfg_edges`, `symbols_fts` rows of one file | `analyze_file` | rows of one file belong to one version of it; the stored hash names that version |
| **LSP resolvers** `lsp/lsp_call_graph_resolver.cpp`, `lsp_dependency_resolver.cpp`, `lsp_call_hierarchy_resolver.cpp` | rows in `lsp_definitions`, `lsp_references`, `lsp_call_hierarchy_callers`, `lsp_dependencies` | `resolve_*` and the callbacks they register | rows of the last resolution, true of the text that was asked about |
| **Daemon lifecycle** `daemon/main.cpp`, `daemonize.cpp`, `status.cpp`, `cli/main.cpp`, `cli/init_cmd.cpp`, `mcp/main.cpp` | pid file, socket file, status file | start, daemonize, probe, stop | a start gives a daemon; a probe that is answered protects the socket; the signal of `stop` hits daemons |
| **Storage, migrations** `storage/*.cpp` | `schema_version`, the schema | `run_migrations` | each version applied once, in order, resumed after a crash |
| **Extraction** `analysis/tree_sitter/*.cpp` | none | symbols, calls, CFG and DFG of a syntax tree | a row is shown under a symbol that is around it; depth is nesting |
| **Search and context** `query/*.cpp` | none | full text, vector and hybrid search, context | filters hold in every fallback |
| **Ignore filter** `watcher/ignore_filter.cpp` | patterns | `should_ignore` | (pure) |
| **Embedding** `embedding/*.cpp` | chunk and vector tables | worker stub, model download | (not started by the daemon) |
| **Command line tools** `cli/*_cmd.cpp` | none | one-shot commands | (I/O) |

### How they interact

* The daemon has two threads. efsw calls `handleFileAction` on its own; it pushes a path
  under `event_mutex_` and writes a byte to the wakeup pipe. All else (IPC, language
  servers, SQLite) runs on the main thread, in `Coordinator::run`.
* One turn of the loop: test the stop flags; `poll`; serve at most one client, start to
  end, with blocking reads; drain the pipe, swap the queue, touch the debouncer; read the
  language servers, `tick`, `check_timeouts`; drain the cold-start queues; re-index what
  the debouncer releases; test the idle timeout.
* The resolvers hand closures to `send_when_ready`. A closure waits for the handshake,
  then sends a request, whose callback writes rows when the answer comes.
* Clients are other processes (CLI, MCP server) and so are the language servers. Both may
  stop at any moment; signals and crashes may hit the daemon.

### What is hard

Blocking calls on the one thread that does everything; the two-step hand-over between
pipe and queue; changes that arrive during the scan, a batch or the shutdown; answers and
timeouts of a session that has already been replaced; bytes of a session that has; what
survives `handle_crash`; rows that a scan keeps beside those it replaces; the order of eviction, count, state and backoff; a deletion made
when a request goes out and an insertion made when its answer comes in; a file that is read
twice; four files shared by processes that act on what they saw a system call ago; a cache
that is filled by answers to earlier calls; answers about a text that has changed. PROJECT.json
lists each of them under "hazards", at its line, with the properties that would catch it.

## The modules

| Module | Models |
|---|---|
| `LspServer` | one language server: `ServerEntry`, its `LspTransport`, the process behind it |
| `RestartPolicy` | abstract: failures, backoff and breaker, with no processes or callbacks |
| `Framing` | the byte streams to and from one language server, across processes |
| `EventLoop` | the main thread, the watcher thread, the debouncer, clients, signals, crashes, restarts |
| `ChangeFeed` | abstract: which files are to be analysed, with no queues, threads or timers |
| `Indexing` | `analyze_file`, the scan and re-index code around it, the resolvers and their rows |
| `Extraction` | which rows `analyze_file` stores for a text, and the symbols they are shown under |
| `Queries` | what is asked of a server about a text, the rows its answers give, and the queries over them |
| `SymbolSearch` | `search_symbols` and `search_text`, the cache, and the answers that fill it |
| `Lifecycle` | daemons, terminals, the files they share, the migrations |
| `*_proofs` | theorems about each of the above; those on `RestartPolicy` and `ChangeFeed` are in `LspServer_proofs` and `EventLoop_proofs` |
| `MC*` | model values and data for TLC |

The modules cut the program at its interfaces. `EventLoop` delivers changes to an analysis that
is one step there; `Indexing` opens that step and takes its changes from `ChangeFeed`, which
`EventLoop` implements;
`Extraction` opens the rows that are one value in `Indexing`. `LspServer` gates and answers
requests with whole frames; `Framing` opens the frames; `Indexing` reduces the gate to `gate`
and sets of held requests, and adds what the requests are for; `Queries` says which requests and
rows those are, over starts, cold starts and re-indexings that do not fail halfway. `Lifecycle` looks at `EventLoop` from
outside: a daemon is a process that binds a socket, scans, serves and leaves.

### LspServer

Variables are the fields of `ServerEntry` and `LspTransport`, plus the process:
`session` numbers the successful spawns and stands for `pid_`, `alive` holds the processes
still running (more than one, since a failed handshake does not kill), `stdout` is the
pipe back, `received` what the current process has read.

* *One thread.* `poll_read` and `check_timeouts` fire callbacks one after another;
  `control` says whether the thread is at the loop, in a batch of messages, in the
  drain of `pending_requests` or in a batch of timeouts. Only the environment moves in
  between.
* *Times* are ages (of crashes and requests) and a countdown (of the backoff), advanced
  by `SecondPasses`, saturated one past what they are compared with.
* *The order of the calls is free.* `lsp_transport.h` states the contract of the driver
  (`drain_writes` when writable, `poll_read` when readable, `check_timeouts` periodically),
  and the tests drive the manager in any order. The daemon's loop calls
  `dispatch_read`, `tick` and `check_timeouts`; nothing in it calls `ensure_server` or
  `drain_writes`, which the tests do. The model is of the manager under its contract, and
  so covers the daemon's loop as well.
* *Messages* carry an id, whether they succeeded, the session they were made for and the
  action or file they are about. Frames are written and read whole.
* Actions that change nothing in the code are not actions here: a spawn that fails, a
  `send_when_ready` that is refused. `kIndexing` is never assigned by the code.
* The server may answer in any order, fail the handshake or the probe, or die
  (`Faults`). `ProjectChecks` gives what the check after the handshake finds: nothing
  to do, no compile database (`kDegraded`), or a probe to send. `Unreadable` files
  are asked about without being opened, as in `ensure_document_open`.

### RestartPolicy

States the restart rules of `lsp_manager.h:82-85`: of the failures, as many of the newest are kept
as are recent, where the code keeps a deque and evicts stale ones from its front. `ImplementsPolicy` in `LspServer` is the
refinement, with the mapping in `Policy`.

### EventLoop

`pc` is where the main thread stands between two reads of something that others write.
Each action is one stretch of `run`; `HandleFileAction` and `WakeUp` are the two halves
of the watcher's callback. The analysis of a file is one step, that records the version it
saw. A file has a version (`disk`) that every change increments; `notices` is what the
kernel has queued for efsw. Clients connect, write a query or a stop, or close; one that
has been answered may connect again without bound. `Crash` drops the process at any point;
`Start` brings up a new one with empty memory, and `analysed` (the database) stays.
`replaced` is a history variable: efsw reports a rename onto a file as `Moved`, which
`handleFileAction` ignores.

### ChangeFeed

What stays of the loop when one only asks which files it is to analyse: a phase (down, scan or
loop), the files that the scan has left, those with a report that no batch has taken (`dirty`) and those
of the batch (`todo`). It stands between two modules. `EventLoop` implements it (`Feed`, `ImplementsFeed`):
`dirty` are there the files with a notice in the kernel, a path in the queue or an entry in the debouncer, while the
loop runs. `Indexing` is built on it: each of its actions that moves one of these sets, or a file, is
one of `ChangeFeed` joined to what the code does besides. A file may be in the batch and be dirty again,
with a second report of the same change or one of a later change.

### Indexing

It is about the files that the scan visits and the watcher looks at, and about changes other than renames:
`Feed` says so in its substitutions. A content stands for the rows it gives (`symbols[f]`) and for its hash (`files[f]`). `pc`
follows one file through `analyze_file`, with a step for the read, one for the second read that
gives the stored hash, and one for the transaction, so that a write, a failure or a crash may
fall between any two. `Failures` names the steps that may fail: the hash (stored as NULL), the
upsert, the parse or transaction. `Resolve` is the code all resolvers share: delete the rows of
the file, read what to ask, send. It asks one question per table (`definitions` also stands for
`lsp_references`, whose code is the same; `callers` takes two requests; `dependencies` reads the
file a third time and falls back on the parser's rows when it is refused). The gate moves and
requests are answered only at the top of a turn (`pc = "lsp"`), where the loop reads the
servers; then comes one file of the cold-start queue, then the batch. As in the code, the
deletion is made whether or not the requests are accepted.

### Framing

A frame is seven or eight bytes: the two halves of `Content-Length: `, the number, the two
`\r\n`, the body. Two halves of the name are what it takes to tell a header that is cut inside the
name from one that is cut after it; the number is one byte, so a length that is cut between two
digits is not told from one that is cut before them (both give a wrong length or an exception).
`control` is the daemon between the `extract()` calls of one `poll_read`; `Throws` is an
exception that nothing between `poll_read` and `main` catches. A read takes any part of what
is in the pipe. Pipes to the server are blocking, so a write is cut only by the death of its
reader. `stdin` is what the process got.

### Extraction

The text is the sequence of its nodes, grown one by one, so that TLC visits every tree of up to
`MaxNodes` nodes; the place of a node in the sequence stands for its first byte (`start`), but a function
or a declaration may begin with the struct that is its type, as `struct S f(..)` and `struct S x = {..};`
do, and then both have the one first byte (`StartsIn`). The extractor,
the pipeline's table from names to ids and the three queries that read the rows are translated one
operator each. Of definitions with one first byte and one name one is kept (`OnceEach`,
`extractor.cpp:306-317`). No name is empty: the extractor drops such captures (`extractor.cpp:272`, `:406`).
Symbols that begin on one line may be sorted in any order (`std::sort` is not
stable). Rows are tied to the last symbol of a name (`pipeline.cpp:171`) and `find_symbol` takes one, by
`LIMIT 1` on the index of the names the first that was inserted (`FindSymbol`).

### Queries

A content is the rows the parser gives (`Contents`). There are four ways to new rows:

* `Reindex` is an analysis in the loop with its resolutions: the rows of the servers are deleted, and
  everything is asked again.
* `ReindexOnly` is one without them: the hash could not be read, or the file was written between the two
  reads of it, so that the stored hash is the one of before. The content is new, the rows of the servers
  stay.
* `DaemonStarts` is the scan. It calls `analyze_file` without resolvers (`coordinator.cpp:161-201`), and
  the id of the file stays (`pipeline.cpp:66-79`), so the rows of the servers stay there too, beside new
  symbols. Questions that were open are lost with the process.
* `DrainColdStart` is one file of the cold-start queue: its rows are deleted and everything is asked again,
  also what has been asked since the start and is not answered yet.

`unresolved` is the set of files whose content no resolver has seen: from `ReindexOnly`, or from the scan
until the cold start comes to the file. As long as a file is in it, kept rows may hide its new calls.

`Resolve` asks for the calls and functions that are stored and for the imports that are on the disk then.
Of the questions about imports any may be refused, and leave the text of the import as its row. An
answer is about some contents of the files (`view`), and true of them: the server has the text it was
given by `didOpen` or the one on the disk, and either may be ahead of the rows or behind them. Whether a
session dies, and whether its questions are then answered by the next or time out, needs no action: a
question is answered at some time, about some texts, or never (`NoAnswer`).

A question carries whether it is of the last resolution of its file (`current`), and a row whether its
question was not (`late`) and for which files the answer was about the text that is stored now (`seen`):
these are history, and let the properties say what an answer was about. Questions and rows are sets: two
imports on one line, which the program asks about twice, are ruled out by `QueriesAssumption`.

### SymbolSearch

`Fts`, `Like` and `InDoc` say what a query matches; the order of ranks is left out. `flights` are
the requests that a miss sends or queues, for each language whose server is not down. Items and
entries have an age, advanced by `TimePasses`, which no request outlives by more than its timeout.
`reply` is the answer of the step, if it gives one.

### Lifecycle

`proc[p]` is the system call that the daemon `p` makes next, from `open` to the removal of the pid
file; `cmd[c]` is where a command stands and to whom it is connected, and which
pid it has read. The three calls of `stop` without a socket, `read_pidfile`, `is_process_alive` and `kill`
(`cli/main.cpp:291-293`), are three actions, and so are those of `start`; the pid may go to another
program in between. Opening the database may fail at the pragma, at `CREATE TABLE` or at a migration while
another daemon has the lock (`OpenFails`, `MigrationFails`), and the daemon then ends (`GiveUp`). `start` also stands for
`init`, `status` for any query. A pid is used once by a daemon and may then go to a program that is
none (`Reuse`). `OpenFails` needs another daemon that is opening or closing the database: those are the
ones that take a lock that a reader of the schema does not get past. An idle daemon may leave its loop; one that was told to stop must. `raced`,
`unclean`, `overtaken`, `heard` and `left` are history variables that the properties' exceptions name.

## The runs

| Run | Shows |
|---|---|
| `lsp_server` | safety, refinement of `RestartPolicy` and liveness of one server through deaths, failed handshakes, timeouts and restarts |
| `lsp_probe` | two actions on the same file and the `sourcekit-lsp` probe: documents are opened once per session and before they are asked about |
| `framing` | messages and frames over cut streams and two processes |
| `framing_session` | (violated) half a frame of a dead server swallows or breaks the messages of the next |
| `event_loop` | safety and liveness of the loop with changes, a client, a signal, a crash and a restart |
| `event_loop_silent_client` | (violated) a connected client that writes nothing blocks stop, signals and idle timeout |
| `indexing` | safety and liveness of the index through writes during an analysis, failed steps, and crashes of the daemon and of the server |
| `extraction` | every text of up to four nodes, with nested and repeated definitions and those that begin with a struct |
| `queries` | two files that change, a start with its scan and cold start, and a server that answers, or does not, between any two questions |
| `symbol_search` | two queries, two servers, a cache of two seconds |
| `lifecycle` | safety: three daemons (one dead from the start), two terminals, four commands, a kill, a pid that is used again |
| `lifecycle_live` | liveness: three commands that start and stop at once |

### Properties of LspServer

* `CallbackFiresOnce`: by the answer or by the timeout, and an id leaves the pending map
  only by firing.
* `OneChargePerProcess`: a dead process, a failed handshake and a late timeout of one
  process never count as two crashes, and no crash goes uncounted.
* `BreakerMatchesWindow`, `ImplementsPolicy`: the breaker is open exactly when the window is
  full, and backoffs and restarts follow `RestartPolicy`.
* `HandshakeFirst`, `OpenedOnceBeforeAsked`: order of the frames made for one session. With
  probes, `HandshakeFirst` does not hold of the model, and no run covers them: the probe's callback (`lsp_manager.cpp:659`) sets the
  state without the guard of the initialize callback, so a probe of an earlier session opens
  the gate during the next handshake. `lsp_server` has the checks that send no probe.
* `AcceptedIsHeld`, `HandshakeEnds`, `AcceptedIsResolved`: what `send_when_ready` accepted
  is always somewhere, and ends.

### Properties of Framing

* `InOrderUnlessTorn`: in a session that begins with an empty buffer, the messages come out
  complete and in order, nothing that was read is held back, and nothing throws.
* `FramesUnlessBegun`: a process gets whole frames, unless the one before it died inside a frame.
* `EverySessionInOrder` is `InOrderUnlessTorn` without its exception, as the comment at
  `lsp_manager.cpp:229` has it, and is violated.

### Properties of EventLoop

* `NoLostWakeup`: a nonempty queue has a byte in the pipe, or one about to be written, or
  is about to be swapped. The drain of the pipe and the swap of the queue are two steps;
  in the other order this fails.
* `EveryChangeTracked`: a watched file whose content was never analysed is in the scan, a
  notice, the queue, the debouncer or the batch, unless its last change was a rename or
  the loop is over. Renames onto a file (efsw's `Moved`, the way many editors save) are not
  looked at by `handleFileAction`.
* `ImplementsFeed`: kernel, queue, pipe, debouncer and batch, moved by two threads, do no more than
  `ChangeFeed`. A batch takes only files that were reported, drops no report of another, and a report
  that arrives meanwhile is not taken with it; only the end of the loop forgets any.
* `ChangesAreIndexed`, `StopHonoured`, `ClientsAnswered`: liveness. `StopHonoured` is violated
  when a client connects and writes nothing.

### Properties of Indexing

* `BehindIsTracked`: rows that are behind their file are known to be: the file waits or is in
  hand, or its last analysis failed. This is what allows `EventLoop` to treat an analysis as
  one step.
* `HashNamesSymbols`: at rest, the stored hash is that of the rows. A shortcut that skipped
  the transaction for an unchanged hash would break it; it holds because `analyze_file`
  always rewrites the rows.
* `ResolvedUnlessTorn`: the servers have been asked about the rows that are there, or the
  cold-start queue will; except after a change between read and hash, or a failed analysis,
  which leave the new hash behind: such a file is not asked about until it changes again.
* `LastResolutionUnlessOverlap`: rows and held requests belong to the last resolution, if it
  did not begin while an earlier one was held: the rows of both would then stay.
* `ColdStartDrains`: the cold-start queue is worked off whatever is re-indexed meanwhile, once
  every server is ready or given up.

### Properties of Extraction

* `ShownIsInside`: rows are tied by name, to the first symbol that contains their first byte and to the last
  one of that name, and the queries take the first of a name; yet what is shown under a
  name is inside a symbol of that name or begins with one, and what is inside a symbol is shown under the
  first around it. The exceptions are how the code is: a method's calls are shown under its class; a
  declaration that begins with a struct is shown under the struct, though not inside it; and of two
  definitions of one name in a file, the rows of both are tied to the last and the query takes the
  first, so that nothing of either is shown.
* `DepthFollowsNesting`: the depth of a control flow row is given by the construct of its symbol
  directly around it: one more, the same for an else, and two more inside an else, which counts with its if.

### Properties of Queries

* `CalleesShown`, `CallersShown`: the three queries show a call unless a row hides it, and each
  such row is named: an answer to a question of an earlier resolution; one about another text of either
  file; a row of a file in `unresolved`; or, for callees, one about another call on the lines of the
  same symbol. The last is no rare case: one
  answered call of a function hides all its unanswered ones. The other call need not be one of the
  symbol itself: rows are found by line, and a line may belong to two symbols, so an answer for one
  hides the calls of both. A row in `unresolved` hides the calls of a new content until the cold-start
  queue comes to the file; where the hash was NULL or that of before, until the next change that the
  resolvers see, or the next start. The queue is drained only once all servers are ready or given up
  (`ColdStartDrains` of `Indexing`).
* `DependenciesTrue`: imports that are listed are there, once, unless an answer came for an earlier
  resolution or is about another text. Documents are opened once per session and no `didChange` is sent, so
  from the second change of a file on, its answers may be about an older text. That an import is listed
  twice is what the cold start makes likely: it asks again about a content that was asked about by the
  loop, and both answers are inserted. One of them is `late`.

### Properties of SymbolSearch

* `FallbackHonoursFilters`: full text and both fallbacks honour kind and limit. An answer from the
  cache does not: entries are kept by query alone.
* `OnceUnlessDoubled`: an entry holds a symbol twice only if the query was sent again while the
  servers were answering it.
* `ServedIsRecent`: an item is served at most the time to live and two timeouts (handshake, request)
  after it was received, however late answers renew its entry.

### Properties of Lifecycle

* `SchemaOnce`: daemons that open a database together apply each version once. One of them may die of
  the other's lock or row, and with no busy timeout so may both.
* `ReachableUnlessRaced`, `ProbeProtects`: a daemon that listens owns the socket file, unless two daemons
  were between probe and listen, or one of them before its unlink, at once; a probe that was answered
  never leads to an unlink. `bind_or_die` closes neither race; two daemons may then run, one of
  them out of reach until it idles out.
* `OnlyLostPidsAreHit`: the SIGTERM of `stop` hits a stranger only under the pid of a daemon that ended
  without `shutdown`, or under one that was given away between the `read_pidfile` of this stop and its
  `kill`. A daemon that shuts down cleanly leaves no pid to a stop that begins later; to one that has
  read it, it does.
* `StatusTellsStop`: `status.json` says something else than "stopped" only of a daemon that runs or was
  killed.
* `CommandsEnd`, `StartGivesDaemon`: liveness. Clients wait without a timeout, so a daemon that leaves
  must hang up; a start over stale files and an old database gives a daemon, with the exceptions named
  in the property.

### Bounds

* `LspServer`: three processes let a crash happen in the first session, a second one fill
  the window of 2, and, with the window of one second, an old crash leave it before the next,
  so that a third session is reached; two is the smallest backoff cap that
  tells a doubled backoff from a capped one. `Timeout = 1` allows answers before, at and
  after the deadline. One action is enough for the properties of requests of different
  sessions; `lsp_probe` has two, on one file, for those about the order of two. States at
  the bound of spawns are exempted by name (`AtBound`).
* `EventLoop`: two changes allow one during the analysis of the other; two starts allow one
  crash and what it leaves behind; window 1 and idle timeout 2 let either end first. A
  pipe of three bytes holds what this instance can write (two events, one stop), as 64 KiB do in
  practice; past that, the watcher's callback blocks, and so does a stop. A file
  that changes for ever is never quiet and never re-indexed, so the liveness
  properties are about files that change `MaxEdits` times.

* `Indexing`: one file, since files share nothing but the turn of the loop; two contents, so
  that a content may come back; two writes, which may tear an analysis and then be followed by
  a real change; a batch with a file that stays dirty counts as one of the two, as the write would that
  makes it dirty again; two starts. Two tables with the two special cases; the plain one does
  less. Resolutions are bounded by the writes and starts.
* `Framing`: messages of one byte and of two, so that a body may be cut; two frames a session, so that
  one read may hold the end of one and the start of the next; two processes.
* `Extraction`: four nodes allow a function in a class with a call in it, an if in it with an else, a
  declaration that begins with a class with a call in it, or
  two functions of one name with a call in each; two names, one of them also called. The theorems
  need no such bound.
* `Queries`: the scan of the first daemon may have stored any contents, so that one re-indexing is a change
  before, during or after the cold start, and the only one that leaves questions of an earlier
  resolution open or rows that no resolver has seen; one more start is a scan that keeps rows, and after a
  start nothing differs from what a further one would find. One question of an earlier resolution may be
  open when a file is resolved (`MaxLate`), since one late answer is all that an exception needs; more
  only multiply the states. A caller that moves, two calls of a
  function by one caller, a call that leaves the project, an import that comes and goes, a line that two
  symbols share. The theorems need none of the three bounds.
* `SymbolSearch`: a time to live of two and a timeout of one let an answer come before the expiry of its
  entry, at it and after; three requests let two calls be in flight with a slow server each; with one
  as the limit, every match beyond it is cut. One query has no token.
* `Lifecycle`: two daemons race, the third is the dead one whose files are left; two versions, so that
  a crash or another daemon may come between; four commands are two starts and a stop and a start; one
  kill and one reused pid, which is enough for one stop to hit it, whether the pid was lost or given away
  under its hands. For liveness, no kill (the property would exempt it) and three commands.

### Fairness

* `LspServer!Fairness`: a turn of the loop ticks and checks timeouts
  (`coordinator.cpp:312-320`), a batch of callbacks runs to its end, and time passes.
  Nothing is assumed of the server process, of `drain_writes` or of `poll_read`.
* `EventLoop!Fairness`: both threads run when they can and time passes. `poll` has a
  timeout of at most five seconds, so it always comes back. A step that blocks (a read of
  a silent client, a write to a full pipe) is disabled, and fairness says nothing of it.
  `PoliteSpec` adds that a connected client writes or closes, as `DaemonClient::call` and
  the probe in `bind_or_die` do; `FairSpec`, without it, gives the counterexample of
  `event_loop_silent_client`.
* `Indexing!FairSpec`: the main thread goes on; nothing about the server. `ColdStartDrains`
  assumes in its premise that the servers settle.
* `Lifecycle!FairSpec`: processes run, commands too; a daemon that was told to stop leaves its loop,
  one that is idle may.

## The proofs

Each `*_proofs` module extends the module it is about and proves its theorems for any values of
the constants; the only assumption is the `...Assumption` of that module, except where a theorem
names another. No invariant that matters is inductive as it stands: each speaks of a state at rest,
and needs to be told what is true on the way.

### EventLoop_proofs

`TypeCorrect`, `WakeupsNotLost` and `ChangesTracked`, for any number of files, clients, signals and
starts, and any capacity and windows. The inductive invariant is

    Inv == TypeOK /\ WatchedInLoop /\ OneBatch /\ NoLostWakeup /\ EveryChangeTracked

A change makes a file unanalysed without touching the queue, and is only tracked if the watcher is
on, so `WatchedInLoop` says that it is from the start of the scan to the shutdown. A new
batch replaces `todo`, which would drop the rest of the last one, so `OneBatch` says that
`todo` is empty except while it is worked off. The proof has one lemma for each invariant
and one step for each action; lemmas about sequences (`HeadTail`, `AtMostAppended`) say what
an append and a tail do to the set of elements, and `PendingUnchanged` covers the steps that
leave the stages of a change alone.

`FeedImplemented`: `EventLoop` implements `ChangeFeed`. The one fact it needs beyond `Inv` is `Fresh`: a
loop that has not reached its scan has an empty queue and debouncer and no batch, and the watcher is off,
so the step that starts it is a start of the feed; and what is in the queue or the debouncer is watched.
`FeedByWatcher`, `FeedByMain` and `FeedByEnvironment` map each step to one of `ChangeFeed` or to none
(`FeedStutters`); where a report only moves on, `Reported` does not change, and a batch takes files out of
`Reported` only if no other report of them is on its way.

### Indexing_proofs

`TypeCorrect`, `BehindTracked`, `HashNames`, `Resolved` and `RowsOfLast`, for any files, contents,
tables and failures, and any number of writes and starts. `LastResolutionUnlessOverlap` is inductive
with the types. The others are about files at rest, so `Inv` adds what the variables in hand say of
the file that is analysed: what was read is what the file holds, or its change was noticed
(`ReadIsCurrent`); the rows are those of what was read (`RowsInHand`); the stored hash is the one
computed (`HashInHand`), of the content read unless the file is torn (`HandNamed`); the old hash is
that of rows that were asked about (`HandOld`), and so are the new rows if the new hash is the same
(`HandAsked`). `TornNamed` is what a file brings to its next analysis, `ScanPlace` the control.

### LspServer_proofs

`TypeCorrect` and `FiredOnce` hold for every configuration. `ChargedOnce`, `BreakerTrue`,
`AcceptedHeld`, `HandshakeOrder` and `PolicyImplemented` have the hypothesis
`"probe" \notin ProjectChecks`: it is the languages without a probe, all but Swift, that the code
keeps these promises for, as the properties of LspServer above explain.

* `Managed` joins what the manager keeps: no probe was sent, and the drain after the handshake finds
  the server ready (`DrainReady`), without which a project check would charge or open something.
* `HandshakeOrder`: `Established` says what the state tells about the frames (a server that is ready
  has been sent `initialized`, none is of a later session), and `StreamGrows` is the one lemma that
  all that send frames use.
* `OpenedBeforeAsked` holds with the probe too. `Documents` says of all frames written for a session, and
  of those that wait in the queue, that each document is opened once, and before it is asked about; and that
  the set `openedUris` is, while a process runs, that of the files whose `didOpen` was queued for it.
* `PolicyImplemented` is the refinement: every step is a start, a failure, a second or a stutter of
  `RestartPolicy`. Its core is `EvictIsRecent`: since the deque is sorted (`Sorted`), its stale
  crashes are a prefix, and what remains are the newest, as many as are recent.

### Lifecycle_proofs

`TypeCorrect`, `AppliedOnce`, `Reached`, `StrangersAreSafe`, `StatusTrue` and `ProbeHonoured`, for any
number of daemons, terminals, versions and commands. `Inv` adds:

* `SeenBehind`: a daemon that migrates has versions left and found none that is not there, for
  `AppliedOnce`.
* `LostPid`, `HeldPid`: a pid in the file that is no daemon's any more is one of a daemon that did not
  shut down, and a pid that a stop has read and that is a stranger's is such a one or was given away
  since: the exceptions of `StrangersAreSafe`. The second is inductive because the pid is noted when it is
  given away (`overtaken`), and what is read from the file after that is covered by the first.
* `ListenersServe`, `SocketHeld`: who listens is on its way through the loop, and holds the socket
  file unless a race took it.
* `HeardPast`, `HeardAway`: whom a daemon heard in its probe has bound before, and a file that is there
  when it unlinks is not theirs.

### SymbolSearch_proofs

`FiltersHonoured`, `RepeatedOnlyIfDoubled` and `ServedRecently`, for any symbols, queries, servers, time
to live and timeout. `Inv` adds what the flights and the cache hold between two requests:

* `OneEach`: a query that was not sent again has one flight for each language, no item of its entry is
  of a language whose flight is still out, and no symbol is there twice.
* `Held`: a request waits only while its server is starting. This bounds what a request can wait, and so:
* `Recent`: an item of an entry that may still be served is at most two timeouts older than the entry,
  since an item is at most one timeout older than the age of a flight of its query that was sent, and not
  older than one that waits. `ServedRecently` is this at the moment of a reply.
* The lemmas of its first section say what removing, appending and cutting do to the elements of a
  sequence and to their number.

### Queries_proofs

`CalleesNotLost`, `CallersNotLost` and `DependenciesAreTrue`, for any contents and any number of
re-indexings, starts and late questions, from

    Inv == TypeOK /\ Asked /\ Answered /\ AllCalls /\ OneRow

The properties are about rows and texts; what links them are the questions. A question of the last
resolution of a file that has been resolved is about something on its line of the stored content
(`Asked`), and so is its row (`Answered`): this is where `unresolved` comes in, since a scan changes the
content under both. The calls of one answer are inserted together, so a row that the server gave with both
texts in view stands for all of them (`AllCalls`). An import has a question of the last resolution or a row
of one, never both and never two (`OneRow`). `ReindexStep` and `DrainStep` rest on one lemma about
`Resolve` (`ResolveStep`), and those that change a content without it on one about what ages
(`AgedAll`): the rows of a file whose content has changed lose it from `seen`, and what is said of the others stays
true.

### Framing_proofs

`FramesWhole` and `DeliveredInOrder`, for any messages of any width, any number of processes and
any way of cutting the streams.

* `Writing`: what a process got is whole frames and the part of one that the queue's head says was
  written, until a process dies in one.
* `Tidy`: while a session is clean, the frames of the messages not yet delivered lie end to end in
  what is in the buffer, the pipe and the writer's hands, in this order. `Laid` gives the place of each
  frame instead of a recursive parse of the bytes, so that a read that moves bytes from the pipe to the
  buffer changes nothing in it, and a frame that the parser takes is the first.

### Extraction_proofs

`ShownInside` and `DepthIsNesting`, for texts with any number of nodes. `Inv` says that the nodes are a
tree in the order of the text (`Tree`), that each symbol spans what is inside of its node and what starts
where it starts (`Listed`), and that each row is tied to the symbol, and has the depth, that the operators
`SymbolOf` and `DepthOf` give of its node (`Tied`, `Deep`). `Nesting` and `Parent` are the two facts about
trees on which all rests: of two nodes around a node one is inside of the other, and the nearest is the
parent. `StartProps` says which nodes share a first byte, and `SpanIs` that the interval test of the
code then finds what is inside and what starts there.
For `ShownInside`, a row is tied to the last symbol of a name (`IdOfIs`) and a query takes the first
(`FindSymbolIs`): the two are one symbol exactly when the name is defined once.
For the depth, no symbol starts where a construct starts (`AroundControl`); so a construct around a node is
in the same symbol exactly when it comes after the symbol's start
(`SameOwner`), which is how the code tells, and the constructs around a node are the nearest of them
and those around that (`LevelStep`). That an else has its statement around it in its own symbol
(`ElseIn`) is what keeps the `depth > 0` of the code from mattering.

### Only model-checked

Liveness, since fairness and ENABLED are out of the prover's reach: `HandshakeEnds`,
`AcceptedIsResolved`, `ChangesAreIndexed`, `StopHonoured`, `ClientsAnswered`, `ColdStartDrains`,
`CommandsEnd`, `StartGivesDaemon`. And the two counterexamples. Every safety property that a run
checks is a theorem, and so are the types of `EventLoop`, which no run checks; those of `LspServer`
that exclude the probe are listed above.

## Plan

Done, in this order: `LspServer` with `RestartPolicy`, `EventLoop`, `Indexing` with the loop's
hand-over to it, `Lifecycle`, then the data that these carry (`SymbolSearch`, `Queries`, `Framing`,
`Extraction`), the theorems about all of them, and `ChangeFeed` between `EventLoop` and `Indexing`.

Left: a gate between `LspServer` and `Indexing` like `ChangeFeed`; the context builder with its token budget; the ignore filter as a
pure function against a reference definition.

## Not modelled

* *Embedding*: the worker is a stub that nothing starts, so no chunk or vector is ever written and the
  vector and hybrid searches have nothing to search.
* *Context*: `build_context` formats what `find_symbol`, callers and callees return, and cuts it to a token
  budget; the calls are in `Queries`, the text is not. `get_file_summary` lists rows (its `diff_aware`
  answer is always empty).
* *Per-language data*: the language registry, the parser and the tree-sitter queries. `Extraction` starts
  from the captures.
* *The ignore filter* is a set of patterns over paths; `EventLoop` has `Watched` files. The scanner visits
  `.go` files, which the watcher does not look at.
* *Several languages at once*: they share only the map from descriptors to languages. `register_language`,
  `status_json`, `doctor`, `search`, `model` and logging are left out.
* `status --stats` makes two calls on one connection, of which the daemon answers one; `Lifecycle` has
  commands of one call.
* *The width of the backoff*: `1L << restart_count` with a count that is never reset is undefined from 64
  restarts on, of a server that survives longer than the window each time. `BackoffFor` allows any value
  out of range and caps it; 64 sessions are past what TLC reaches.
* *What `ensure_document_open` sends*: a document is opened once per session and never changed
  (no `didChange`), so a server answers for the text it was first given. `Queries` does not say which text
  that is: an answer may be about any.
* *What outlives a process in the transport* is in `LspServer` and, as bytes, in `Framing`. `SymbolSearch`
  ends the requests of a server with it, where the program leaves them to the next process or to the
  timeout: a request that is answered later, but within the timeout, is one of a slow server there.
  `Framing` starts a process when the former has been reaped; after a failed handshake the program
  starts one while the former still runs, and its streams are then those of the new one all the same.
* *Two imports on one line* are asked about twice by the program, with one position; `Queries` gives each import
  a line of its own.
* *A deleted file keeps its rows*: `analyze_file` returns early, and nothing removes them. `Indexing` and
  `Queries` have no property that would say otherwise.
* *A file that changes for ever* restarts the window of the debouncer and is never ready; the liveness
  properties are about files that change a bounded number of times.
