------------------------------- MODULE Queries -------------------------------
(***************************************************************************)
(* What the request router (src/daemon/request_router.cpp) and the         *)
(* ContextBuilder (src/query/context_builder.cpp) answer about symbols,    *)
(* calls, callers and imports, over two kinds of rows: those that          *)
(* analyze_file stores with a content, and those that the resolvers of     *)
(* src/lsp insert one by one as a language server answers.  A query takes  *)
(* the rows of the server if there is one that matches, and those of the   *)
(* content otherwise, so an answer to one question hides what is known     *)
(* about another.                                                          *)
(*                                                                         *)
(* The rows of the server outlive the content they are about: the scan at  *)
(* the start of a daemon, and an analysis whose hash is not known, replace *)
(* the rows of a content and leave those of the server, until the next     *)
(* resolution of the file deletes them and asks again.                     *)
(*                                                                         *)
(* A server answers by the text it has: what didOpen sent it, once per     *)
(* session, or what is on disk for a file that was not opened.  Neither    *)
(* has to be what is stored, and neither is modelled: an answer may be     *)
(* about any contents of the files.  Whether a question is taken, and the  *)
(* sessions that it may outlive, are in LspServer, the deletion and the    *)
(* insertion of rows under failures in Indexing.                           *)
(***************************************************************************)
EXTENDS Integers, FiniteSets

CONSTANTS
  Files,
  Contents,     \* for each file, the contents it may have
  MaxReindex,   \* bound: re-indexings
  MaxStarts,    \* bound: starts of the daemon
  MaxLate       \* bound: open questions of earlier resolutions, when a file is resolved

None == "none"
NoText == [symbols |-> {}, calls |-> {}, imports |-> {}, indexed |-> FALSE]

\* A content is the rows it gives: symbols, calls with their outermost symbol and the file
\* that defines the callee, imports with the file they name, each on a line of its own.
ASSUME QueriesAssumption ==
  /\ None \notin Files
  /\ \A f \in Files : \A c \in Contents[f] :
       /\ c.symbols \subseteq [name : STRING, kind : STRING, from : Nat, to : Nat]
       /\ c.calls \subseteq [line : Nat, caller : STRING, callee : STRING, to : Files \cup {None}]
       /\ c.imports \subseteq [line : Nat, to : Files]
       /\ \A i, j \in c.imports : i.line = j.line => i = j
       /\ c.indexed
  /\ MaxReindex \in Nat /\ MaxStarts \in Nat /\ MaxLate \in Nat

VARIABLES
  stored,    \* the rows of analyze_file: the content of each file, NoText before the first
  rows,      \* lsp_definitions, lsp_references, lsp_call_hierarchy_callers, lsp_dependencies
  asked,     \* questions that a server has, or will have, and has not answered
  cold,      \* cold_start_queues_: files that the start of the daemon is to resolve
  unresolved,  \* history: files whose content no resolver has seen
  reindexed, starts   \* counters for the bounds

vars == <<stored, rows, asked, cold, unresolved, reindexed, starts>>

\* What a read of the disk may find, the scan, a resolver or the server.
AnyText == {NoText} \cup UNION {Contents[f] : f \in Files}
Scanned == {d \in [Files -> AnyText] : \A f \in Files : d[f] \in Contents[f] \cup {NoText}}
OnDisk  == {d \in Scanned : \A f \in Files : d[f].indexed}
Indexed(text) == {f \in Files : text[f].indexed}

\* The scan of the first daemon of the project is over.
Init ==
  /\ stored \in Scanned /\ rows = {} /\ asked = {}
  /\ cold = Indexed(stored) /\ unresolved = Indexed(stored)
  /\ reindexed = 0 /\ starts = 0

-----------------------------------------------------------------------------
(* The resolvers *)

Functions(text) == {s \in text.symbols : s.kind \in {"function", "method"}}

Question(kind, f, line, name) ==
  [kind |-> kind, file |-> f, line |-> line, name |-> name, current |-> TRUE]

\* resolve_file and resolve_incoming_callers ask about the rows of f ...
Questions(f, text) ==
  {Question("definition", f, c.line, c.callee) : c \in text.calls}
    \cup {Question(kind, f, s.from, s.name) :
            kind \in {"references", "prepare"}, s \in Functions(text)}

\* ... and resolve_dependencies about the imports of what is on disk.
ImportQuestions(f, disk) == {Question("import", f, i.line, None) : i \in disk.imports}

\* late: it came for an earlier resolution.  seen: otherwise, of the files it depends on, those
\* whose text was the stored one for whoever gave the answer.
Row(q, other, at, caller, seen) ==
  [kind |-> q.kind, file |-> q.file, line |-> q.line, name |-> q.name, other |-> other, at |-> at,
   caller |-> caller, late |-> ~q.current, seen |-> IF q.current THEN seen ELSE {}]

\* An import that send_when_ready refuses is kept as its text.
Unresolved(q, seen) == Row(q, None, 0, None, seen)

\* The rows of the server, after the content of f has changed from text.
Outdated(R, f) == {[r EXCEPT !.seen = @ \ {f}] : r \in R}

\* Mutant of Stale: the rows of the content before stay.
StaleKept(R, f) == {}

\* Each resolver deletes the rows of its table for f.
Stale(R, f) == {r \in R : r.file = f}

\* The three resolvers, on the rows of a content and on the rows R of the server: they delete
\* theirs and ask.  Questions of an earlier resolution stay, and so do their answers; one
\* that is refused, and is not about an import, is like one that is lost.
Resolve(f, text, R) ==
  /\ \E disk \in Contents[f] : \E refused \in SUBSET ImportQuestions(f, disk) :
       /\ asked' = {[q EXCEPT !.current = @ /\ q.file # f] : q \in asked}
                     \cup Questions(f, text) \cup (ImportQuestions(f, disk) \ refused)
       /\ rows' = (R \ Stale(R, f))
                    \cup {Unresolved(q, IF disk = text THEN {f} ELSE {}) : q \in refused}
  /\ unresolved' = unresolved \ {f}
  /\ Cardinality({q \in asked' : ~q.current}) <= MaxLate

\* The loop indexes f again: a hash that has changed, or that was not stored, makes the
\* resolvers run.
Reindex(f, text) ==
  /\ text \in Contents[f] /\ (text # stored[f] \/ f \in unresolved)
  /\ reindexed < MaxReindex
  /\ stored' = [stored EXCEPT ![f] = text]
  /\ Resolve(f, text, IF text # stored[f] THEN Outdated(rows, f) ELSE rows)
  /\ reindexed' = reindexed + 1
  /\ UNCHANGED <<cold, starts>>

\* The hash cannot be read, or is the one of before because the file was written between the
\* two reads of it: the resolvers do not run.
ReindexOnly(f, text) ==
  /\ text \in Contents[f] /\ text # stored[f] /\ reindexed < MaxReindex
  /\ stored' = [stored EXCEPT ![f] = text]
  /\ rows' = Outdated(rows, f)
  /\ unresolved' = unresolved \cup {f}
  /\ reindexed' = reindexed + 1
  /\ UNCHANGED <<asked, cold, starts>>

\* A daemon starts, with nothing asked: its scan analyses the files that have
\* changed, without resolvers, and every file that is indexed is queued for the cold start.
DaemonStarts(now) ==
  /\ starts < MaxStarts
  /\ \A f \in Files : now[f] = NoText => stored[f] = NoText
  /\ stored' = now
  /\ rows' = {[r EXCEPT !.seen = {f \in @ : now[f] = stored[f]}] : r \in rows}
  /\ unresolved' = unresolved \cup {f \in Files : now[f] # stored[f]}
  /\ cold' = Indexed(now)
  /\ asked' = {}
  /\ starts' = starts + 1
  /\ UNCHANGED reindexed

\* The loop resolves a file of the queue, whatever has been asked about it since.
DrainColdStart(f) ==
  /\ f \in cold
  /\ cold' = cold \ {f}
  /\ Resolve(f, stored[f], rows)
  /\ UNCHANGED <<stored, reindexed, starts>>

-----------------------------------------------------------------------------
(* The language server *)

\* view is what the server takes for the text of each file.
Seen(view) == {f \in Files : view[f] = stored[f]}

\* Where a call on the line leads.
Definitions(q, view) ==
  UNION {{<<c.to, s.from>> : s \in {t \in view[c.to].symbols : t.name = c.callee}}
         : c \in {k \in view[q.file].calls : k.line = q.line /\ k.to # None}}

\* The calls of the function that starts on the line.
Sites(q, view) ==
  UNION {{<<g, c>> : c \in {k \in view[g].calls :
                              /\ k.to = q.file
                              /\ \E s \in view[q.file].symbols : s.from = q.line /\ s.name = k.callee}}
         : g \in Files}

\* lookup_file_id: a file that is not indexed yet is NULL.
LinkImport(g) == IF stored[g].indexed THEN g ELSE None

\* The first location of an answer.
AnswerDefinition(q, view) ==
  /\ q.kind = "definition"
  /\ \E where \in Definitions(q, view) :
       rows' = rows \cup {Row(q, where[1], where[2], None, {})}
  /\ asked' = asked \ {q}

\* Mutant of AnswerReferences: the first location, as for a definition.
AnswerReferencesFirst(q, view) ==
  /\ q.kind = "references"
  /\ \E site \in Sites(q, view) :
       rows' = rows \cup {Row(q, site[1], site[2].line, None, Seen(view))}
  /\ asked' = asked \ {q}

\* All locations of an answer.
AnswerReferences(q, view) ==
  /\ q.kind = "references" /\ Sites(q, view) # {}
  /\ rows' = rows \cup {Row(q, site[1], site[2].line, None, Seen(view)) : site \in Sites(q, view)}
  /\ asked' = asked \ {q}

\* The item that prepareCallHierarchy gives is sent back with incomingCalls ...
AnswerPrepare(q, view) ==
  /\ q.kind = "prepare"
  /\ \E s \in view[q.file].symbols : s.from = q.line
  /\ asked' = (asked \ {q}) \cup {[q EXCEPT !.kind = "incoming"]}
  /\ UNCHANGED rows

\* ... which is answered with the callers and the ranges of their calls.
AnswerIncoming(q, view) ==
  /\ q.kind = "incoming" /\ Sites(q, view) # {}
  /\ rows' = rows \cup {Row(q, site[1], site[2].line, site[2].caller, Seen(view))
                          : site \in Sites(q, view)}
  /\ asked' = asked \ {q}

AnswerImport(q, view) ==
  /\ q.kind = "import"
  /\ \E i \in view[q.file].imports :
       i.line = q.line /\ rows' = rows \cup {Row(q, LinkImport(i.to), 0, None, {q.file} \cap Seen(view))}
  /\ asked' = asked \ {q}

Answer(q, view) ==
  /\ q \in asked
  /\ \/ AnswerDefinition(q, view) \/ AnswerReferences(q, view) \/ AnswerPrepare(q, view)
     \/ AnswerIncoming(q, view) \/ AnswerImport(q, view)
  /\ UNCHANGED <<stored, cold, unresolved, reindexed, starts>>

\* null, an empty array, an error or a timeout, after any number of deaths of the server.
NoAnswer(q) ==
  /\ q \in asked
  /\ asked' = asked \ {q}
  /\ UNCHANGED <<stored, rows, cold, unresolved, reindexed, starts>>

Next ==
  \/ \E f \in Files : \/ \E text \in Contents[f] : Reindex(f, text) \/ ReindexOnly(f, text)
                      \/ DrainColdStart(f)
  \/ \E now \in Scanned : DaemonStarts(now)
  \/ \E q \in asked : NoAnswer(q) \/ \E view \in OnDisk : Answer(q, view)

Spec == Init /\ [][Next]_vars

-----------------------------------------------------------------------------
(* The queries.  A symbol is the record of its row with its file. *)

\* find_symbol takes any one of those that have the name: LIMIT 1.
SymbolRows == UNION {{[file |-> f, sym |-> s] : s \in stored[f].symbols} : f \in Files}

\* get_callee_names, get_callees_with_location; get_caller_names, get_callers_with_location.
\* The rows of calls are tied to the last symbol of the name in the file (symbol_name_to_id).
LastOfName(x) == \A s \in stored[x.file].symbols : s.name = x.sym.name => s.from <= x.sym.from
CalleeCalls(x) == {c \in stored[x.file].calls : c.caller = x.sym.name /\ LastOfName(x)}
CallerCalls(x) ==
  UNION {{[file |-> f, call |-> c] : c \in {k \in stored[f].calls : k.callee = x.sym.name}}
         : f \in Files}

\* The symbol around a line, or 'unknown': LIMIT 1, any of these.
Enclosing(f, line) ==
  IF f \in Files /\ \E s \in stored[f].symbols : line \in s.from..s.to
  THEN {s.name : s \in {t \in stored[f].symbols : line \in t.from..t.to}}
  ELSE {"unknown"}

DefinitionRows(x) ==
  {r \in rows : r.kind = "definition" /\ r.file = x.file /\ r.line \in x.sym.from..x.sym.to}

CallerRows(kind, x) == {r \in rows : r.kind = kind /\ r.file = x.file /\ r.name = x.sym.name}

\* get_call_graph.
Callees(x) ==
  LET precise == DefinitionRows(x)
  IN IF precise # {} THEN {[name |-> r.name, file |-> r.other, line |-> r.at] : r \in precise}
     ELSE {[name |-> c.callee, file |-> x.file, line |-> c.line] : c \in CalleeCalls(x)}

Named(R) ==
  UNION {{[name |-> n, file |-> r.other, line |-> r.at] : n \in Enclosing(r.other, r.at)} : r \in R}

ByName(x) == {[name |-> c.call.caller, file |-> c.file, line |-> c.call.line] : c \in CallerCalls(x)}

Callers(x) ==
  LET precise == CallerRows("references", x)
  IN IF precise # {} THEN Named(precise) ELSE ByName(x)

\* get_incoming_callers: the call hierarchy, then the references, then the names of callers.
IncomingCallers(x) ==
  LET hierarchy  == CallerRows("incoming", x)
      references == CallerRows("references", x)
  IN IF hierarchy # {} THEN {[name |-> r.caller, file |-> r.other, line |-> r.at] : r \in hierarchy}
     ELSE IF references # {} THEN Named(references)
     ELSE {[name |-> e.name, file |-> None, line |-> 0] : e \in ByName(x)}

\* get_dependencies.
Imports(f)    == {<<r.line, r.other>> : r \in {s \in rows : s.kind = "import" /\ s.file = f}}
ImportedBy(f) == {r.file : r \in {s \in rows : s.kind = "import" /\ s.other = f}}

-----------------------------------------------------------------------------
(* Properties *)

\* get_call_graph hides a call of a function only behind an answer about another call on its
\* lines, be it of a function that shares one of them, behind an answer to a question of an
\* earlier resolution, or as long as the file is stored with a content that no resolver has
\* seen (request_router.cpp:380): the rows of the content before are still there then.
CalleesShown ==
  \A x \in SymbolRows : \A c \in CalleeCalls(x) :
    \/ x.file \in unresolved
    \/ \E e \in Callees(x) : e.name = c.callee
    \/ \E r \in DefinitionRows(x) :
         r.late \/ \E k \in stored[x.file].calls \ {c} : r.line = k.line /\ r.name = k.callee

\* A row that need not show a call of g to x: it answers a question of an earlier resolution of
\* the file of x or about a content of before, or was given about another text of one of the two
\* files.
Excused(r, x, g) == r.late \/ x.file \in unresolved \/ {g, x.file} \ r.seen # {}

\* get_call_graph and get_incoming_callers hide a call to a function only behind answers to
\* questions of an earlier resolution, that were given about another text, or as long as the
\* file of the function is stored with a content that no resolver has seen.
CallersShown ==
  \A x \in SymbolRows : \A g \in Files : \A c \in stored[g].calls :
    c.callee = x.sym.name /\ c.to = x.file =>
      /\ \/ \E e \in Callers(x) : e.file = g /\ e.line = c.line
         \/ \E r \in CallerRows("references", x) : Excused(r, x, g)
      /\ \/ \E e \in IncomingCallers(x) :
              (e.file = g /\ e.line = c.line) \/ (e.file = None /\ e.name = c.caller)
         \/ \E r \in CallerRows("references", x) \cup CallerRows("incoming", x) : Excused(r, x, g)

\* get_dependencies says that a file imports another only if it does, unless the answer was
\* given about another text of it, and lists no import twice, unless one of the two answers a
\* question of an earlier resolution, as the cold start leaves them behind.
DependenciesTrue ==
  \A r \in {s \in rows : s.kind = "import"} :
    \/ r.late \/ r.file \notin r.seen
    \/ /\ \E i \in stored[r.file].imports : i.line = r.line /\ r.other \in {i.to, None}
       /\ r.other # None => r.file \in ImportedBy(r.other)
       /\ \A s \in rows : s.kind = "import" /\ s.file = r.file /\ s.line = r.line => s.late \/ s = r
=============================================================================
