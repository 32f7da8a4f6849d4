------------------------------- MODULE Indexing -------------------------------
(***************************************************************************)
(* How a changed file becomes rows in the database: analyze_file           *)
(* (src/analysis/pipeline.cpp), the code of Coordinator::run that scans,   *)
(* re-indexes and decides whether language servers are asked               *)
(* (src/daemon/coordinator.cpp), and the resolvers that delete rows when   *)
(* they ask and insert rows when they are answered (src/lsp/lsp_*.cpp).    *)
(*                                                                         *)
(* The changes come from ChangeFeed, which EventLoop implements: each      *)
(* action that takes one or makes one is a step of it.  LspServer delivers *)
(* the answers; here one language server is reduced to the gate that       *)
(* send_when_ready looks at.  The rows of a content are stood for by that  *)
(* content, and a hash by the content it was computed from.                *)
(***************************************************************************)
EXTENDS Integers

CONSTANTS
  Files,     \* source files that are scanned and watched
  Contents,  \* what a file may contain
  Tables,    \* the resolvers that are set, by the table each writes
  Failures,  \* the steps of analyze_file that may fail
  MaxEdits,  \* bound: writes to files, and batches with a file that stays dirty
  MaxStarts  \* bound: times the daemon is started

NoRow    == "no row"  \* the table has no row for the file
NullHash == "null"    \* the row is there, its content_hash is NULL
None     == "none"

ASSUME IndexingAssumption ==
  /\ {NoRow, NullHash, None} \cap Contents = {} /\ None \notin Files
  /\ Tables \subseteq {"definitions", "callers", "dependencies"}
  /\ Failures \subseteq {"hash", "upsert", "commit"}
  /\ MaxEdits \in Nat /\ MaxStarts \in Nat

VARIABLES
  disk,      \* the content of each file
  exists,    \* the files that are there
  dirty,     \* files whose change was reported and not taken yet
  pc,        \* the main thread
  scanning,  \* the initial scan is not over
  toScan,    \* files the initial scan has yet to visit
  todo,      \* ready paths still to be re-indexed
  file,      \* the file being analysed
  oldHash,   \* its content_hash before the analysis
  content,   \* what analyze_file has read
  hash,      \* what it has hashed
  files,     \* content_hash in the files table
  symbols,   \* the content that the symbols, calls, cfg and dfg rows come from
  failed,    \* history: "last" if the last analysis failed, "before" if an earlier one did
  torn,      \* history: files whose stored hash was seen to be that of other rows: they
             \* changed between the read and the hash, or the last daemon got no further
  cold,      \* files of cold_start_queues_
  gate,      \* the language server as send_when_ready sees it
  queued,    \* requests in its pending_requests
  inFlight,  \* requests whose callback has not fired
  runs,      \* resolutions of each file so far
  overlap,   \* history: files whose last resolution began while an earlier one was held
  asked,     \* history: the content whose rows the last resolution of this daemon read
  rows,      \* rows of each table and file, by the resolution that inserted them
  edits, starts

disks    == <<disk, exists, edits>>
analysis == <<file, oldHash, content, hash>>
index    == <<files, symbols>>
history  == <<failed, torn>>
lsp      == <<cold, gate, queued, inFlight, runs, overlap, asked, rows>>
place    == <<pc, scanning, toScan, todo>>
vars     == <<disks, dirty, place, analysis, index, history, lsp, starts>>

\* NotStarted without a chance of a start (undetected, or the breaker is open) is "none".
Gates    == {"none", "down", "starting", "ready"}
Pcs      == {"down", "scan", "lsp", "flush", "index", "read", "hash", "commit", "resolve"}
Requests == [file : Files, table : Tables, run : Nat, step : {1, 2}]
Rows     == [run : Nat, by : {"server", "parser"}]

Goto(label) == pc' = label

\* The changes of these files, none of them a rename, which would not be reported.
Feed == INSTANCE ChangeFeed WITH
  Scanned <- Files, Watched <- Files, replaced <- {},
  phase <- IF pc = "down" THEN "down" ELSE IF scanning THEN "scan" ELSE "loop"

Init ==
  /\ disk \in [Files -> Contents] /\ exists \in SUBSET Files /\ dirty = {}
  /\ pc = "down" /\ scanning = FALSE /\ toScan = {} /\ todo = {}
  /\ file = None /\ oldHash = NoRow /\ content = None /\ hash = NullHash
  /\ files = [f \in Files |-> NoRow] /\ symbols = [f \in Files |-> None]
  /\ failed = [f \in Files |-> "no"] /\ torn = {}
  /\ cold = {} /\ gate = "none" /\ queued = {} /\ inFlight = {}
  /\ runs = [f \in Files |-> 0] /\ overlap = {} /\ asked = [f \in Files |-> None]
  /\ rows = [t \in Tables |-> [f \in Files |-> {}]]
  /\ edits = 0 /\ starts = 0

-----------------------------------------------------------------------------
(* The resolvers *)

\* Requests that may still insert a row.
Held == queued \cup inFlight

\* send_when_ready: sent at once, kept until the handshake is complete, or refused.
Send(requests) ==
  /\ inFlight' = IF gate = "ready" THEN inFlight \cup requests ELSE inFlight
  /\ queued' = IF gate = "starting" THEN queued \cup requests ELSE queued

\* What a resolver reads to find out what to ask: the calls and symbols of the database, or,
\* for the dependencies, the file once more.
Asks(f, table) ==
  IF table = "dependencies" THEN f \in exists ELSE symbols[f] # None

\* Mutant of Resolve: the stale rows are left to the new answers.
ResolveKeepsRows(f) ==
  LET run == runs[f] + 1
  IN /\ runs' = [runs EXCEPT ![f] = run]
     /\ overlap' = IF \E r \in Held : r.file = f THEN overlap \cup {f} ELSE overlap \ {f}
     /\ asked' = [asked EXCEPT ![f] = symbols[f]]
     /\ UNCHANGED rows
     /\ Send({[file |-> f, table |-> t, run |-> run, step |-> 1]
                : t \in {t \in Tables : Asks(f, t)}})

\* resolve_file, resolve_dependencies and resolve_incoming_callers: the rows of the file are
\* deleted now, whether or not its requests are then accepted.  Only refused dependencies are
\* replaced, by what the parser says of them.
Resolve(f) ==
  LET run == runs[f] + 1
      tables == {t \in Tables : Asks(f, t)}
      fallback == tables \cap IF gate \in {"none", "down"} THEN {"dependencies"} ELSE {}
  IN /\ runs' = [runs EXCEPT ![f] = run]
     /\ overlap' = IF \E r \in Held : r.file = f THEN overlap \cup {f} ELSE overlap \ {f}
     /\ asked' = [asked EXCEPT ![f] = symbols[f]]
     /\ rows' = [t \in Tables |-> [rows[t] EXCEPT ![f] =
                   IF t \in fallback THEN {[run |-> run, by |-> "parser"]} ELSE {}]]
     /\ Send({[file |-> f, table |-> t, run |-> run, step |-> 1] : t \in tables})

\* The row of an answer.
Insert(request) ==
  rows' = [rows EXCEPT ![request.table][request.file] =
             @ \cup {[run |-> request.run, by |-> "server"]}]

\* A request is answered.  The callers take two steps, the second through the gate again;
\* the other answers insert their rows.
Answer(request) ==
  /\ pc = "lsp" /\ gate \in {"starting", "ready"} /\ request \in inFlight
  /\ LET rest == inFlight \ {request}
         next == [request EXCEPT !.step = 2]
     IN IF request.table = "callers" /\ request.step = 1
        THEN /\ inFlight' = IF gate = "ready" THEN rest \cup {next} ELSE rest
             /\ queued' = IF gate = "starting" THEN queued \cup {next} ELSE queued
             /\ UNCHANGED rows
        ELSE /\ inFlight' = rest
             /\ Insert(request)
             /\ UNCHANGED queued
  /\ UNCHANGED <<disks, dirty, place, analysis, index, history, cold, gate, runs,
                 overlap, asked, starts>>

\* A request times out, or its answer is an error or empty: nothing is inserted.
Unanswered(request) ==
  /\ pc = "lsp" /\ gate \in {"starting", "ready"} /\ request \in inFlight
  /\ inFlight' = inFlight \ {request}
  /\ UNCHANGED <<disks, dirty, place, analysis, index, history, cold, gate, queued,
                 runs, overlap, asked, rows, starts>>

-----------------------------------------------------------------------------
(* The gate, as LspServer moves it: on the main thread, between two re-indexed batches *)

ServerStarts ==
  /\ pc = "lsp" /\ gate = "down"
  /\ gate' = "starting"
  /\ UNCHANGED <<disks, dirty, place, analysis, index, history, cold, queued,
                 inFlight, runs, overlap, asked, rows, starts>>

HandshakeDone ==
  /\ pc = "lsp" /\ gate = "starting"
  /\ gate' = "ready"
  /\ inFlight' = inFlight \cup queued /\ queued' = {}
  /\ UNCHANGED <<disks, dirty, place, analysis, index, history, cold, runs, overlap, asked,
                 rows, starts>>

\* handle_crash drops the queued requests; those in flight stay in the pending map.
ServerCrashes ==
  /\ pc = "lsp" /\ gate \in {"starting", "ready"}
  /\ gate' \in {"down", "none"}
  /\ queued' = {}
  /\ UNCHANGED <<disks, dirty, place, analysis, index, history, cold, inFlight,
                 runs, overlap, asked, rows, starts>>

-----------------------------------------------------------------------------
(* analyze_file *)

\* analyze_file is left: by its end, by an early return or by an exception.
Leave(label) ==
  /\ Goto(label)
  /\ file' = None /\ oldHash' = NoRow /\ content' = None /\ hash' = NullHash

Return == IF scanning THEN "scan" ELSE "index"

Fail(f) == failed' = [failed EXCEPT ![f] = "last"]

\* The file is read ...
ReadContent ==
  /\ pc = "read"
  /\ IF file \in exists
     THEN /\ Goto("hash")
          /\ content' = disk[file]
          /\ UNCHANGED <<file, oldHash, hash, failed>>
     ELSE /\ Leave(Return)
          /\ Fail(file)
  /\ UNCHANGED <<disks, dirty, scanning, toScan, todo, index, torn, lsp, starts>>

\* Mutant of StoreHash: the coordinator reads the old hash after analyze_file.
StoreHashTooSoon ==
  /\ pc = "hash" /\ Goto("commit")
  /\ \E h \in {disk[file]} :
       /\ hash' = h /\ oldHash' = h
       /\ files' = [files EXCEPT ![file] = h]
       /\ torn' = IF h # content THEN torn \cup {file} ELSE torn
  /\ UNCHANGED <<disks, dirty, scanning, toScan, todo, file, content, symbols, failed, lsp,
                 starts>>

\* ... then read again to be hashed, and the hash is stored before the parse and outside of
\* the transaction.  A file that is gone, or a failed sha256, gives NULL.
StoreHash ==
  /\ pc = "hash"
  /\ Goto("commit")
  /\ \E h \in (IF file \in exists THEN {disk[file]} ELSE {NullHash})
             \cup (IF "hash" \in Failures THEN {NullHash} ELSE {}) :
       /\ hash' = h
       /\ files' = [files EXCEPT ![file] = h]
       /\ torn' = IF h \notin {content, NullHash} THEN torn \cup {file} ELSE torn
  /\ UNCHANGED <<disks, dirty, scanning, toScan, todo, file, oldHash, content, symbols, failed,
                 lsp, starts>>

StoreFails ==
  /\ pc = "hash" /\ "upsert" \in Failures
  /\ Leave(Return)
  /\ Fail(file)
  /\ UNCHANGED <<disks, dirty, scanning, toScan, todo, index, torn, lsp, starts>>

\* Mutant of Commit: nothing to do when the hash is the old one.
CommitIfChanged ==
  /\ pc = "commit"
  /\ symbols' = IF hash = oldHash THEN symbols ELSE [symbols EXCEPT ![file] = content]
  /\ failed' = [failed EXCEPT ![file] = IF @ = "no" THEN "no" ELSE "before"]
  /\ IF scanning
     THEN Leave("scan")
     ELSE Goto("resolve") /\ UNCHANGED analysis
  /\ UNCHANGED <<disks, dirty, scanning, toScan, todo, files, torn, lsp, starts>>

\* One transaction deletes the rows of the file and inserts those of what was read.
Commit ==
  /\ pc = "commit"
  /\ symbols' = [symbols EXCEPT ![file] = content]
  /\ failed' = [failed EXCEPT ![file] = IF @ = "no" THEN "no" ELSE "before"]
  /\ IF scanning
     THEN Leave("scan")
     ELSE Goto("resolve") /\ UNCHANGED analysis
  /\ UNCHANGED <<disks, dirty, scanning, toScan, todo, files, torn, lsp, starts>>

\* The parse fails, or the transaction is rolled back.
CommitFails ==
  /\ pc = "commit" /\ "commit" \in Failures
  /\ Leave(Return)
  /\ Fail(file)
  /\ UNCHANGED <<disks, dirty, scanning, toScan, todo, index, torn, lsp, starts>>

-----------------------------------------------------------------------------
(* Coordinator::run *)

\* Mutant of Start: a file that has a row is not scanned.
StartSkipsIndexed ==
  /\ pc = "down" /\ starts < MaxStarts /\ starts' = starts + 1
  /\ Goto("scan") /\ scanning' = TRUE
  /\ toScan' = {f \in exists : files[f] = NoRow}
  /\ UNCHANGED <<disks, dirty, todo, analysis, index, history, lsp>>

\* The daemon is started: its memory is empty and every file is to be scanned.
Start ==
  /\ pc = "down" /\ starts < MaxStarts
  /\ starts' = starts + 1
  /\ Goto("scan") /\ scanning' = TRUE
  /\ Feed!Start
  /\ UNCHANGED <<edits, analysis, index, history, lsp>>

ScanFile(f) ==
  /\ pc = "scan" /\ Goto("read") /\ UNCHANGED scanning
  /\ Feed!ScanFile(f)
  /\ file' = f
  /\ UNCHANGED <<edits, oldHash, content, hash, index, history, lsp, starts>>

\* The scan is over: the server is detected or not, and every file that has a row waits for
\* its first resolution.
ScanDone ==
  /\ pc = "scan" /\ Goto("lsp") /\ scanning' = FALSE
  /\ Feed!ScanDone
  /\ gate' \in {"none", "down"}
  /\ cold' = {f \in Files : files[f] # NoRow}
  /\ torn' = {f \in Files : files[f] \in Contents /\ files[f] # symbols[f]}
  /\ UNCHANGED <<edits, analysis, index, failed, queued, inFlight, runs, overlap, asked, rows,
                 starts>>

\* all_backends_ready: a server that will not come is not waited for.
AllBackendsReady == gate \in {"none", "ready"}

\* Mutant of DrainColdStart: only a server that runs will do.
DrainColdStartWhenUp ==
  /\ pc = "lsp" /\ Goto("flush")
  /\ \/ /\ gate = "ready" /\ cold # {}
        /\ \E f \in cold : cold' = cold \ {f} /\ Resolve(f)
     \/ /\ gate # "ready" \/ cold = {}
        /\ UNCHANGED <<cold, queued, inFlight, runs, overlap, asked, rows>>
  /\ UNCHANGED <<disks, dirty, scanning, toScan, todo, analysis, index, history, gate, starts>>

\* Each turn of the loop resolves one file of the cold-start queue, once it may.
DrainColdStart ==
  /\ pc = "lsp"
  /\ Goto("flush")
  /\ \/ /\ AllBackendsReady
        /\ \E f \in cold : cold' = cold \ {f} /\ Resolve(f)
     \/ /\ ~AllBackendsReady \/ cold = {}
        /\ UNCHANGED <<cold, queued, inFlight, runs, overlap, asked, rows>>
  /\ UNCHANGED <<disks, dirty, scanning, toScan, todo, analysis, index, history, gate, starts>>

\* Mutant of FlushReady: what is not ready yet is forgotten.
FlushReadyAll ==
  /\ pc = "flush" /\ Goto("index")
  /\ todo' \in SUBSET dirty /\ dirty' = {}
  /\ UNCHANGED <<disks, scanning, toScan, analysis, index, history, lsp, starts>>

\* The changes that have been quiet for long enough make a batch.
FlushReady ==
  /\ pc = "flush" /\ Goto("index") /\ UNCHANGED scanning
  /\ Feed!FlushReady
  /\ edits' = IF dirty' \cap todo' = {} THEN edits ELSE edits + 1
  /\ edits' <= MaxEdits
  /\ UNCHANGED <<analysis, index, history, lsp, starts>>

\* The stored hash is read before analyze_file overwrites it.
Reindex(f) ==
  /\ pc = "index" /\ Goto("read") /\ UNCHANGED scanning
  /\ Feed!Reindex(f)
  /\ file' = f /\ oldHash' = files[f]
  /\ UNCHANGED <<edits, content, hash, index, history, lsp, starts>>

\* Mutant of ResolveIfChanged: the file is left in hand.
ResolveAndStay ==
  /\ pc = "resolve" /\ Goto("index")
  /\ Resolve(file)
  /\ UNCHANGED <<disks, dirty, scanning, toScan, todo, analysis, index, history, cold, gate,
                 starts>>

\* The servers are asked again if the hash has changed, or there was none.
ResolveIfChanged ==
  /\ pc = "resolve"
  /\ Leave("index")
  /\ IF hash # NullHash /\ oldHash # hash
     THEN /\ Resolve(file)
          /\ failed' = [failed EXCEPT ![file] = "no"]
          /\ torn' = IF hash = content THEN torn \ {file} ELSE torn
     ELSE UNCHANGED <<history, queued, inFlight, runs, overlap, asked, rows>>
  /\ UNCHANGED <<disks, dirty, scanning, toScan, todo, index, cold, gate, starts>>

IndexDone ==
  /\ pc = "index" /\ todo = {}
  /\ Goto("lsp")
  /\ UNCHANGED <<disks, dirty, scanning, toScan, todo, analysis, index, history, lsp, starts>>

-----------------------------------------------------------------------------
(* Environment *)

\* A write, which may leave the content as it is; the watcher runs while the daemon does.
Write(f, c) ==
  /\ edits < MaxEdits
  /\ edits' = edits + 1
  /\ UNCHANGED <<pc, scanning>> /\ Feed!Write(f, c)
  /\ UNCHANGED <<analysis, index, history, lsp, starts>>

Delete(f) ==
  /\ edits < MaxEdits /\ f \in exists
  /\ edits' = edits + 1
  /\ UNCHANGED <<pc, scanning>> /\ Feed!Delete(f, disk[f])
  /\ UNCHANGED <<analysis, index, history, lsp, starts>>

\* The daemon dies, or is stopped, anywhere; the database keeps what is committed.
Crash ==
  /\ Leave("down") /\ scanning' = FALSE
  /\ Feed!Stop
  /\ failed' = [f \in Files |-> "no"] /\ torn' = {}
  /\ cold' = {} /\ gate' = "none" /\ queued' = {} /\ inFlight' = {}
  /\ asked' = [f \in Files |-> None]
  /\ UNCHANGED <<edits, index, runs, overlap, rows, starts>>

-----------------------------------------------------------------------------
MainStep ==
  \/ ReadContent \/ StoreHash \/ StoreFails \/ Commit \/ CommitFails
  \/ ScanDone \/ DrainColdStart \/ FlushReady \/ ResolveIfChanged \/ IndexDone
  \/ \E f \in toScan : ScanFile(f)
  \/ \E f \in todo : Reindex(f)

ServerStep ==
  \/ ServerStarts \/ HandshakeDone \/ ServerCrashes
  \/ \E request \in inFlight : Answer(request)
  \/ \E request \in inFlight : Unanswered(request)

EnvironmentStep ==
  \/ Start \/ Crash
  \/ \E f \in Files, c \in Contents : Write(f, c)
  \/ \E f \in Files : Delete(f)

Next == MainStep \/ ServerStep \/ EnvironmentStep

Spec == Init /\ [][Next]_vars

\* The loop goes on; nothing is assumed of the server or of the file system.
FairSpec == Spec /\ WF_vars(MainStep)

-----------------------------------------------------------------------------
(* Properties *)

\* The types of the variables; a file is in hand exactly while analyze_file and the code
\* that follows it work on one (coordinator.cpp:361-421).
TypeOK ==
  /\ disk \in [Files -> Contents] /\ exists \subseteq Files /\ dirty \subseteq Files
  /\ pc \in Pcs /\ scanning \in BOOLEAN /\ toScan \subseteq Files /\ todo \subseteq Files
  /\ file \in (IF pc \in {"read", "hash", "commit", "resolve"} THEN Files ELSE {None})
  /\ content \in (IF pc \in {"hash", "commit", "resolve"} THEN Contents ELSE {None})
  /\ oldHash \in Contents \cup {NoRow, NullHash} /\ hash \in Contents \cup {NullHash}
  /\ files \in [Files -> Contents \cup {NoRow, NullHash}]
  /\ symbols \in [Files -> Contents \cup {None}]
  /\ failed \in [Files -> {"no", "last", "before"}] /\ torn \subseteq Files
  /\ cold \subseteq Files /\ gate \in Gates
  /\ queued \subseteq Requests /\ inFlight \subseteq Requests
  /\ runs \in [Files -> Nat] /\ overlap \subseteq Files /\ asked \in [Files -> Contents \cup {None}]
  /\ rows \in [Tables -> [Files -> SUBSET Rows]]
  /\ edits \in 0 .. MaxEdits /\ starts \in 0 .. MaxStarts

\* A file on its way to analyze_file.
Waiting(f) == f \in dirty \cup todo \cup toScan

\* Rows that are behind their file are never taken for current: the file waits, or is in
\* hand with the content it has now, or its last analysis failed.  An analysis is not atomic,
\* so this rests on the change being noticed again (pipeline.cpp:20-31, 115-271).
BehindIsTracked ==
  \A f \in exists :
    (pc # "down" /\ symbols[f] # disk[f]) =>
      \/ Waiting(f) \/ failed[f] = "last"
      \/ file = f /\ (pc = "read" \/ content = disk[f])

\* Once a file is at rest its stored hash is that of the content its rows come from, although
\* the content is read twice and the hash is stored first (pipeline.cpp:29-31, 64-80).
HashNamesSymbols ==
  \A f \in exists :
    (pc # "down" /\ ~Waiting(f) /\ file # f /\ failed[f] # "last") =>
      files[f] \in {NullHash, symbols[f]}

\* The servers have been asked about the rows that are there, or will be when the cold-start
\* queue comes to the file, unless it changed between its read and its hash or an analysis
\* failed (coordinator.cpp:213-234, 322-349, 383-386).
ResolvedUnlessTorn ==
  \A f \in Files :
    (/\ pc # "down" /\ ~scanning /\ file # f
     /\ files[f] \in Contents /\ failed[f] = "no" /\ f \notin torn) =>
      asked[f] = symbols[f] \/ f \in cold

\* The rows of a file are those of its last resolution, if no request of an earlier one was
\* still held when it began: the deletion when the servers are asked, the insertion when they
\* answer, what a crash drops and what the next daemon finds add up
\* (lsp_call_graph_resolver.cpp:161-231, lsp_dependency_resolver.cpp:123-296).
LastResolutionUnlessOverlap ==
  \A f \in Files \ overlap :
    /\ \A t \in Tables : \A row \in rows[t][f] : row.run = runs[f]
    /\ \A request \in Held : request.file = f => request.run = runs[f]

\* The cold-start queue is worked off, once the servers are there to stay or will not come,
\* whatever is re-indexed in the meantime (coordinator.cpp:322-349).
ColdStartDrains == <>[](pc # "down" /\ AllBackendsReady) => <>[](cold = {})

=============================================================================
