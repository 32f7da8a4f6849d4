---------------------------- MODULE SymbolSearch ----------------------------
(***************************************************************************)
(* search_symbols and search_text of the request router                    *)
(* (src/daemon/request_router.cpp) over the SearchEngine                   *)
(* (src/query/search_engine.cpp).  A search_symbols that misses the cache  *)
(* of workspace/symbol results asks three language servers and answers     *)
(* from the index; their answers come later, one by one, and are merged    *)
(* into the entry of the query, which later calls are served from for as   *)
(* long as it is fresh.                                                    *)
(*                                                                         *)
(* Which symbols a query matches is given: Fts by the tokens, Like by a    *)
(* substring of the name, InDoc by one of the documentation.               *)
(***************************************************************************)
EXTENDS Integers, Sequences, FiniteSets, SequencesExt, FiniteSetsExt

CONSTANTS
  Queries,
  Symbols,         \* the symbols in the database
  Langs,           \* the languages that are asked
  KindOf, LangOf,  \* of each symbol
  Fts, Like, InDoc,  \* for each query, the symbols it matches in each way
  Blank,           \* queries of which prepare_fts_query leaves nothing
  Kinds,           \* kinds asked for, NoKind among them
  Limits,          \* limits asked for
  Ttl,             \* kLspCacheTtlSeconds
  Timeout,         \* of a request, and of a handshake
  MaxFlights       \* bound: requests to language servers that are not answered

NoKind == ""
NoEntry == [age |-> -1, items |-> <<>>]
NoReply == [source |-> "none", kind |-> NoKind, limit |-> 0, found |-> {}, count |-> 0, oldest |-> 0]

ASSUME SymbolSearchAssumption ==
  /\ Langs \subseteq {"cpp", "python", "typescript"}
  /\ IsFiniteSet(Symbols) /\ KindOf \in [Symbols -> STRING] /\ LangOf \in [Symbols -> Langs]
  /\ \A Match \in {Fts, Like, InDoc} : Match \in [Queries -> SUBSET Symbols]
  /\ Blank \subseteq {q \in Queries : Fts[q] = {}}
  /\ Limits \subseteq Nat \ {0}
  /\ Ttl \in Nat \ {0} /\ Timeout \in Nat \ {0} /\ MaxFlights \in Nat

VARIABLES
  server,   \* the state of each language server
  flights,  \* workspace/symbol requests, held for a handshake or sent
  cache,    \* lsp_symbol_cache_: the age of its last batch, and the items
  doubled,  \* history: queries asked again while one of their requests was out
  reply     \* the answer that this step gives to a client, if it does

vars == <<server, flights, cache, doubled, reply>>

\* How old an item may be when it is served.
Horizon == Ttl - 1 + 2 * Timeout

Flight == [query : Queries, lang : Langs, sent : BOOLEAN, age : 0..Timeout]
Item   == [symbol : Symbols, age : 0..Horizon + 1]

Init ==
  /\ server = [l \in Langs |-> "down"]
  /\ flights = <<>> /\ cache = [q \in Queries |-> NoEntry] /\ doubled = {}
  /\ reply = NoReply

-----------------------------------------------------------------------------
(* SearchEngine *)

OfKind(S, kind) == {s \in S : kind = NoKind \/ KindOf[s] = kind}

\* LIMIT: which rows are kept is the rank's business.
Limited(S, limit) == IF Cardinality(S) <= limit THEN {S} ELSE kSubset(limit, S)

\* Mutant of Substring: one fallback for both cases.
SubstringOfAnyKind(q, kind) == Like[q]

\* The fallback when full text finds nothing: camel case that the tokenizer cannot split.
Substring(q, kind) == OfKind(Like[q], kind)

\* SearchEngine::search_symbols, what it may return.  Without a token the kind alone
\* selects; without a kind either, nothing does.
Matches(q, kind, limit) ==
  LET hits == IF q \in Blank THEN Symbols ELSE Fts[q]
      rows == OfKind(hits, kind)
  IN IF q \in Blank /\ kind = NoKind THEN {{}}
     ELSE Limited(IF rows # {} THEN rows ELSE Substring(q, kind), limit)

\* SearchEngine::search_text: then names and documentation.
TextMatches(q, limit) ==
  UNION {IF found # {} THEN {found} ELSE Limited((Like[q] \cup InDoc[q]), limit)
         : found \in Matches(q, NoKind, limit)}

-----------------------------------------------------------------------------
(* The router *)

IsCached(q) == cache[q] # NoEntry
IsFresh(q)  == IsCached(q) /\ cache[q].age < Ttl

\* send_when_ready for every language: at once, after the handshake, or not at all.
Dispatch(q) ==
  LET running == SetToSeq({l \in Langs : server[l] # "down"})
  IN [i \in 1..Len(running) |->
        [query |-> q, lang |-> running[i], sent |-> server[running[i]] = "ready", age |-> 0]]

AnswerFromIndex(found, kind, limit) ==
  reply' = [source |-> "fts5", kind |-> kind, limit |-> limit, found |-> found,
            count |-> Cardinality(found), oldest |-> 0]

\* The whole entry, whatever kind and limit say.
AnswerFromCache(q, kind, limit) ==
  LET items == cache[q].items
  IN reply' = [source |-> "workspace-symbol", kind |-> kind, limit |-> limit,
               found |-> {items[i].symbol : i \in DOMAIN items}, count |-> Len(items),
               oldest |-> Max({items[i].age : i \in DOMAIN items} \cup {0})]

\* Mutant of SearchHit: a hit renews the entry.
SearchHitSlides(q, kind, limit) ==
  /\ IsFresh(q)
  /\ AnswerFromCache(q, kind, limit)
  /\ cache' = [cache EXCEPT ![q].age = 0]
  /\ UNCHANGED <<server, flights, doubled>>

SearchHit(q, kind, limit) ==
  /\ IsFresh(q)
  /\ AnswerFromCache(q, kind, limit)
  /\ UNCHANGED <<server, flights, cache, doubled>>

\* Mutant of SearchMiss: a stale entry stays, and new answers join it.
SearchMissKeepsEntry(q, kind, limit) ==
  /\ ~IsFresh(q) /\ Len(flights \o Dispatch(q)) <= MaxFlights
  /\ flights' = flights \o Dispatch(q)
  /\ doubled' = IF \E i \in DOMAIN flights : flights[i].query = q THEN doubled \cup {q} ELSE doubled
  /\ \E found \in Matches(q, kind, limit) : AnswerFromIndex(found, kind, limit)
  /\ UNCHANGED <<server, cache>>

\* A stale entry is erased, the servers are asked (again), and the index answers.
SearchMiss(q, kind, limit) ==
  /\ ~IsFresh(q) /\ Len(flights \o Dispatch(q)) <= MaxFlights
  /\ cache' = [cache EXCEPT ![q] = NoEntry]
  /\ flights' = flights \o Dispatch(q)
  /\ doubled' = IF \E i \in DOMAIN flights : flights[i].query = q THEN doubled \cup {q} ELSE doubled
  /\ \E found \in Matches(q, kind, limit) : AnswerFromIndex(found, kind, limit)
  /\ UNCHANGED <<server>>

SearchText(q, limit) ==
  /\ \E found \in TextMatches(q, limit) : AnswerFromIndex(found, NoKind, limit)
  /\ UNCHANGED <<server, flights, cache, doubled>>

\* The callback: an answer that is an array, an empty one too, is appended to the entry,
\* which is made if there is none, and the entry is as young as this batch.
Receive(i, symbols) ==
  LET q     == flights[i].query
      batch == SetToSeq(symbols)
      items == [k \in 1..Len(batch) |-> [symbol |-> batch[k], age |-> 0]]
  IN /\ flights[i].sent
     /\ symbols \in SUBSET {s \in Fts[q] \cup Like[q] : LangOf[s] = flights[i].lang}
     /\ cache' = [cache EXCEPT ![q] = [age |-> 0, items |-> @.items \o items]]
     /\ flights' = RemoveAt(flights, i)
     /\ reply' = NoReply
     /\ UNCHANGED <<server, doubled>>

\* An error, null or a timeout: nothing is cached.
ReceiveNothing(i) ==
  /\ flights[i].sent
  /\ flights' = RemoveAt(flights, i)
  /\ reply' = NoReply
  /\ UNCHANGED <<server, cache, doubled>>

-----------------------------------------------------------------------------
(* The language servers and the clock *)

ServerStarts(l) ==
  /\ server[l] = "down"
  /\ server' = [server EXCEPT ![l] = "starting"]
  /\ reply' = NoReply
  /\ UNCHANGED <<flights, cache, doubled>>

\* What was held for the handshake is sent.
HandshakeDone(l) ==
  /\ server[l] = "starting"
  /\ server' = [server EXCEPT ![l] = "ready"]
  /\ flights' = [i \in DOMAIN flights |->
                   IF flights[i].lang = l THEN [flights[i] EXCEPT !.sent = TRUE, !.age = 0]
                                          ELSE flights[i]]
  /\ reply' = NoReply
  /\ UNCHANGED <<cache, doubled>>

\* Its requests end without an array.  In which order the others stand does not matter.
ServerDies(l) ==
  LET others == SetToSeq({i \in DOMAIN flights : flights[i].lang # l})
  IN /\ server[l] # "down"
     /\ server' = [server EXCEPT ![l] = "down"]
     /\ flights' = [k \in DOMAIN others |-> flights[others[k]]]
     /\ reply' = NoReply
     /\ UNCHANGED <<cache, doubled>>

\* A request and a handshake end within their timeouts.
TimePasses ==
  /\ \A i \in DOMAIN flights : flights[i].age < Timeout
  /\ flights' = [i \in DOMAIN flights |-> [flights[i] EXCEPT !.age = @ + 1]]
  /\ cache' = [q \in Queries |->
       IF ~IsCached(q) THEN NoEntry
       ELSE [age   |-> Min({Ttl, cache[q].age + 1}),
             items |-> [k \in DOMAIN cache[q].items |->
                          [cache[q].items[k] EXCEPT !.age = Min({Horizon + 1, @ + 1})]]]]
  /\ reply' = NoReply
  /\ UNCHANGED <<server, doubled>>

Next ==
  \/ \E q \in Queries, kind \in Kinds, limit \in Limits :
        SearchHit(q, kind, limit) \/ SearchMiss(q, kind, limit)
  \/ \E q \in Queries, limit \in Limits : SearchText(q, limit)
  \/ \E i \in DOMAIN flights :
        ReceiveNothing(i) \/ \E symbols \in SUBSET Symbols : Receive(i, symbols)
  \/ \E l \in Langs : ServerStarts(l) \/ HandshakeDone(l) \/ ServerDies(l)
  \/ TimePasses

Spec == Init /\ [][Next]_vars

-----------------------------------------------------------------------------
(* Properties *)

\* The index answers with what was asked for: the kind, in the fallback too, and no more
\* than the limit (test_query_rpc.cpp:183).
FallbackHonoursFilters ==
  reply.source = "fts5" => /\ \A s \in reply.found : reply.kind \in {NoKind, KindOf[s]}
                           /\ reply.count <= reply.limit

\* A symbol is in an entry twice only if the query was asked again before its servers had
\* answered: answers of before an expiry never meet those of after it.
OnceUnlessDoubled ==
  \A q \in Queries : q \in doubled \/ IsInjective([i \in DOMAIN cache[q].items |->
                                                     cache[q].items[i].symbol])

\* What the cache serves is not older than its time to live and the time that the last of
\* the answers to one question may take: a late answer renews an entry, a hit does not.
ServedIsRecent == reply.oldest <= Horizon
=============================================================================
