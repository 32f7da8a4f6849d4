------------------------- MODULE SymbolSearch_proofs -------------------------
(***************************************************************************)
(* What holds of SymbolSearch for every set of queries, symbols and        *)
(* languages, every time to live and timeout, and any number of requests:  *)
(* the types, that the index keeps to the kind and the limit, that an      *)
(* entry repeats a symbol only if its query was asked again too early, and *)
(* how old what is served can be.                                          *)
(***************************************************************************)
EXTENDS SymbolSearch, SequenceTheorems, FiniteSetTheorems, WellFoundedInduction, NaturalsInduction,
        TLAPS

-----------------------------------------------------------------------------
(* Sets and sequences *)

\* A finite set has an enumeration that repeats nothing.
LEMMA Enumerated ==
  ASSUME NEW S, IsFiniteSet(S)
  PROVE  /\ SetToSeq(S) \in Seq(S) /\ IsInjective(SetToSeq(S))
         /\ Len(SetToSeq(S)) = Cardinality(S) /\ DOMAIN SetToSeq(S) = 1 .. Cardinality(S)
<1> DEFINE n == Cardinality(S)
<1>1. n \in Nat /\ ExistsBijection(1 .. n, S) BY FS_CardinalityType
<1>2. PICK f : f \in Bijection(1 .. n, S) BY <1>1 DEF ExistsBijection
<1>3. f \in [1 .. n -> S] /\ IsInjective(f) BY <1>2 DEF Bijection, Injection, IsInjective
<1>4. SetToSeq(S) \in [1 .. n -> S] /\ IsInjective(SetToSeq(S)) BY <1>3 DEF SetToSeq
<1> QED BY <1>1, <1>4, SeqDef

\* What remains of a sequence when one element is removed.
LEMMA Removed ==
  ASSUME NEW S, NEW s \in Seq(S), NEW i \in DOMAIN s
  PROVE  /\ RemoveAt(s, i) \in Seq(S) /\ DOMAIN RemoveAt(s, i) = 1 .. Len(s) - 1
         /\ \A k \in 1 .. Len(s) - 1 : RemoveAt(s, i)[k] = IF k < i THEN s[k] ELSE s[k + 1]
<1> DEFINE n == Len(s)
           a == SubSeq(s, 1, i - 1)
           b == SubSeq(s, i + 1, n)
<1>1. n \in Nat /\ DOMAIN s = 1 .. n /\ i \in 1 .. n OBVIOUS
<1>2. \A k \in 1 .. n : s[k] \in S BY ElementOfSeq
<1> HIDE DEF n
<1>3. /\ a \in Seq(S) /\ Len(a) = i - 1
      /\ \A k \in 1 .. i - 1 : a[k] = s[k]
  <2>1. \A k \in 1 .. i - 1 : s[k] \in S BY <1>1, <1>2
  <2>2. i - 1 \in Int /\ 1 \in Int BY <1>1
  <2>3. /\ SubSeq(s, 1, i - 1) \in Seq(S)
        /\ Len(SubSeq(s, 1, i - 1)) = IF 1 <= i - 1 THEN i - 1 - 1 + 1 ELSE 0
        /\ \A k \in 1 .. i - 1 - 1 + 1 : SubSeq(s, 1, i - 1)[k] = s[1 + k - 1]
    BY <2>1, <2>2, SubSeqProperties
  <2> QED BY <2>3, <1>1
<1>4. /\ b \in Seq(S) /\ Len(b) = n - i
      /\ \A k \in 1 .. n - i : b[k] = s[k + i]
  <2>1. \A k \in i + 1 .. n : s[k] \in S BY <1>1, <1>2
  <2>2. i + 1 \in Int /\ n \in Int BY <1>1
  <2>3. /\ SubSeq(s, i + 1, n) \in Seq(S)
        /\ Len(SubSeq(s, i + 1, n)) = IF i + 1 <= n THEN n - (i + 1) + 1 ELSE 0
        /\ \A k \in 1 .. n - (i + 1) + 1 : SubSeq(s, i + 1, n)[k] = s[i + 1 + k - 1]
    BY <2>1, <2>2, SubSeqProperties
  <2> QED BY <2>3, <1>1
<1> DEFINE r == a \o b
<1> HIDE DEF a, b
<1>5. /\ r \in Seq(S) /\ Len(r) = n - 1
      /\ \A k \in 1 .. n - 1 : r[k] = IF k <= i - 1 THEN a[k] ELSE b[k - (i - 1)]
  <2>1. /\ a \o b \in Seq(S) /\ Len(a \o b) = Len(a) + Len(b)
        /\ \A k \in 1 .. Len(a) + Len(b) : (a \o b)[k] = IF k <= Len(a) THEN a[k] ELSE b[k - Len(a)]
    BY <1>3, <1>4, ConcatProperties
  <2>2. Len(a) + Len(b) = n - 1 BY <1>1, <1>3, <1>4
  <2> QED BY <2>1, <2>2, <1>3
<1> HIDE DEF r
<1>6. ASSUME NEW k \in 1 .. n - 1 PROVE r[k] = IF k < i THEN s[k] ELSE s[k + 1]
  <2>1. CASE k < i
    <3>1. k <= i - 1 /\ k \in 1 .. i - 1 BY <2>1, <1>1
    <3> QED BY <2>1, <3>1, <1>3, <1>5
  <2>2. CASE ~(k < i)
    <3>1. ~(k <= i - 1) /\ k - (i - 1) \in 1 .. n - i /\ k - (i - 1) + i = k + 1 BY <2>2, <1>1
    <3> QED BY <2>2, <3>1, <1>4, <1>5
  <2> QED BY <2>1, <2>2
<1>7. DOMAIN r = 1 .. n - 1 BY <1>5, LenProperties
<1>8. r = RemoveAt(s, i) BY DEF r, a, b, n, RemoveAt
<1> QED BY <1>5, <1>6, <1>7, <1>8 DEF n

\* The lesser of two.
LEMMA MinOfTwo ==
  ASSUME NEW a \in Int, NEW b \in Int
  PROVE  Min({a, b}) = IF a <= b THEN a ELSE b
<1> DEFINE m == IF a <= b THEN a ELSE b
<1>1. m \in {a, b} /\ \A y \in {a, b} : m <= y OBVIOUS
<1>2. \A x \in {a, b} : (\A y \in {a, b} : x <= y) => x = m OBVIOUS
<1> QED BY <1>1, <1>2 DEF Min

\* The greatest of some naturals is one of them.
LEMMA MaxIsOne ==
  ASSUME NEW b \in Nat, NEW S \in SUBSET (0 .. b), S # {}
  PROVE  Max(S) \in S
<1> DEFINE T == {b - x : x \in S}
<1>1. T \subseteq Nat /\ T # {}
  <2>1. \A x \in S : b - x \in Nat OBVIOUS
  <2> QED BY <2>1
<1>2. IsWellFoundedOn(OpToRel(<, Nat), Nat) BY NatLessThanWellFounded
<1>3. PICK t \in T : \A u \in T : ~(<<u, t>> \in OpToRel(<, Nat)) BY <1>1, <1>2, WFMin
<1>4. PICK x \in S : t = b - x BY <1>3
<1>5. \A y \in S : x >= y
  <2> TAKE y \in S
  <2>1. b - y \in T /\ b - y \in Nat OBVIOUS
  <2>2. ~(b - y < t) BY <1>1, <1>3, <2>1 DEF OpToRel
  <2> QED BY <2>2, <1>4
<1> QED BY <1>5 DEF Max

-----------------------------------------------------------------------------
(* Types *)

Entry == {NoEntry} \cup [age : 0 .. Ttl, items : Seq(Item)]

TypeOK ==
  /\ server \in [Langs -> {"down", "starting", "ready"}]
  /\ flights \in Seq(Flight)
  /\ cache \in [Queries -> Entry]
  /\ doubled \subseteq Queries

\* What an entry is made of.
LEMMA EntryProps ==
  ASSUME TypeOK, NEW q \in Queries
  PROVE  /\ cache[q].items \in Seq(Item) /\ cache[q].age \in -1 .. Ttl
         /\ ~IsCached(q) => cache[q].items = <<>> /\ cache[q].age = -1
         /\ IsCached(q) => cache[q].age \in 0 .. Ttl
         /\ \A k \in DOMAIN cache[q].items : cache[q].items[k] \in Item
<1>1. cache[q] \in Entry BY DEF TypeOK
<1>2. CASE cache[q] = NoEntry BY <1>2, SymbolSearchAssumption DEF SymbolSearchAssumption, NoEntry, IsCached
<1>3. CASE cache[q] # NoEntry
  <2>1. cache[q] \in [age : 0 .. Ttl, items : Seq(Item)] BY <1>1, <1>3 DEF Entry
  <2> QED BY <2>1, <1>3 DEF IsCached
<1> QED BY <1>2, <1>3

\* The requests that a question sends: one for each server that runs, no older than it.
LEMMA Dispatched ==
  ASSUME TypeOK, NEW q \in Queries
  PROVE  /\ Dispatch(q) \in Seq(Flight)
         /\ \A i \in DOMAIN Dispatch(q) : Dispatch(q)[i].query = q /\ Dispatch(q)[i].age = 0
         /\ \A i, j \in DOMAIN Dispatch(q) : Dispatch(q)[i].lang = Dispatch(q)[j].lang => i = j
         /\ \A i \in DOMAIN Dispatch(q) :
              server[Dispatch(q)[i].lang] = IF Dispatch(q)[i].sent THEN "ready" ELSE "starting"
<1> DEFINE up == {l \in Langs : server[l] # "down"}
           running == SetToSeq(up)
           D == [i \in 1 .. Len(running) |->
                   [query |-> q, lang |-> running[i], sent |-> server[running[i]] = "ready", age |-> 0]]
<1>1. IsFiniteSet(up)
  <2>1. IsFiniteSet({"cpp", "python"} \cup {"typescript"})
    <3>1. IsFiniteSet({"cpp"} \cup {"python"}) BY FS_Singleton, FS_AddElement
    <3>2. {"cpp"} \cup {"python"} = {"cpp", "python"} OBVIOUS
    <3> QED BY <3>1, <3>2, FS_AddElement
  <2>2. up \subseteq {"cpp", "python"} \cup {"typescript"}
    BY SymbolSearchAssumption DEF SymbolSearchAssumption
  <2> QED BY <2>1, <2>2, FS_Subset
<1>2. running \in Seq(up) /\ IsInjective(running) /\ DOMAIN running = 1 .. Len(running)
  BY <1>1, Enumerated
<1>3. Len(running) \in Nat BY <1>2
<1>4. \A i \in 1 .. Len(running) : running[i] \in Langs /\ server[running[i]] # "down"
  <2>1. \A i \in 1 .. Len(running) : running[i] \in up BY <1>2, ElementOfSeq
  <2> QED BY <2>1
<1>5. D = Dispatch(q) BY DEF Dispatch
<1> HIDE DEF running
<1>6. \A i \in 1 .. Len(running) : D[i] \in Flight
  BY <1>4, SymbolSearchAssumption DEF SymbolSearchAssumption, Flight
<1>7. D \in Seq(Flight)
  <2>1. D \in [1 .. Len(running) -> Flight] BY <1>6
  <2> QED BY <2>1, <1>3, SeqDef
<1>8. \A i \in DOMAIN D : D[i].query = q /\ D[i].age = 0 OBVIOUS
<1>9. \A i, j \in DOMAIN D : D[i].lang = D[j].lang => i = j BY <1>2 DEF IsInjective
<1>10. \A i \in DOMAIN D : server[D[i].lang] = IF D[i].sent THEN "ready" ELSE "starting"
  BY <1>4 DEF TypeOK
<1> QED BY <1>5, <1>7, <1>8, <1>9, <1>10

\* Where a request that is out comes from when more were sent.
LEMMA Joined ==
  ASSUME TypeOK, NEW q \in Queries, flights' = flights \o Dispatch(q)
  PROVE  /\ flights' \in Seq(Flight)
         /\ \A k \in DOMAIN flights' :
              \/ k \in DOMAIN flights /\ flights'[k] = flights[k]
              \/ /\ k \notin DOMAIN flights
                 /\ \E i \in DOMAIN Dispatch(q) : k = Len(flights) + i /\ flights'[k] = Dispatch(q)[i]
<1> DEFINE D == Dispatch(q)
           n == Len(flights)
           m == Len(D)
<1>1. D \in Seq(Flight) /\ flights \in Seq(Flight) BY Dispatched DEF TypeOK
<1>2. /\ n \in Nat /\ m \in Nat /\ DOMAIN flights = 1 .. n /\ DOMAIN D = 1 .. m BY <1>1
<1>3. /\ flights' \in Seq(Flight) /\ Len(flights') = n + m
      /\ \A k \in 1 .. n + m : flights'[k] = IF k <= n THEN flights[k] ELSE D[k - n]
  BY <1>1, ConcatProperties
<1>4. DOMAIN flights' = 1 .. n + m BY <1>3, LenProperties
<1> HIDE DEF D, n, m
<1>5. ASSUME NEW k \in 1 .. n + m
      PROVE  \/ k \in 1 .. n /\ flights'[k] = flights[k]
             \/ k \notin 1 .. n /\ \E i \in 1 .. m : k = n + i /\ flights'[k] = D[i]
  <2>1. CASE k <= n BY <2>1, <1>2, <1>3
  <2>2. CASE ~(k <= n)
    <3>1. k - n \in 1 .. m /\ k = n + (k - n) /\ k \notin 1 .. n BY <2>2, <1>2
    <3> QED BY <2>2, <3>1, <1>3
  <2> QED BY <2>1, <2>2
<1> QED BY <1>2, <1>3, <1>4, <1>5 DEF D, n, m

\* The items of an answer are new, and each is another symbol of the server's language.
Batch(symbols) ==
  [k \in 1 .. Len(SetToSeq(symbols)) |-> [symbol |-> SetToSeq(symbols)[k], age |-> 0]]

LEMMA BatchProps ==
  ASSUME NEW symbols \in SUBSET Symbols
  PROVE  /\ Batch(symbols) \in Seq(Item)
         /\ \A k \in DOMAIN Batch(symbols) :
              Batch(symbols)[k].symbol \in symbols /\ Batch(symbols)[k].age = 0
         /\ \A k, m \in DOMAIN Batch(symbols) :
              Batch(symbols)[k].symbol = Batch(symbols)[m].symbol => k = m
<1> DEFINE b == SetToSeq(symbols)
<1>1. IsFiniteSet(symbols) BY SymbolSearchAssumption, FS_Subset DEF SymbolSearchAssumption
<1>2. b \in Seq(symbols) /\ IsInjective(b) /\ DOMAIN b = 1 .. Len(b) BY <1>1, Enumerated
<1>3. Len(b) \in Nat /\ \A k \in 1 .. Len(b) : b[k] \in symbols BY <1>2, ElementOfSeq
<1>4. Batch(symbols) = [k \in 1 .. Len(b) |-> [symbol |-> b[k], age |-> 0]] BY DEF Batch
<1> HIDE DEF b
<1>5. 0 \in 0 .. Horizon + 1 BY SymbolSearchAssumption DEF SymbolSearchAssumption, Horizon
<1>6. Batch(symbols) \in [1 .. Len(b) -> Item] BY <1>3, <1>4, <1>5 DEF Item
<1>7. Batch(symbols) \in Seq(Item) BY <1>3, <1>6, SeqDef
<1> QED BY <1>2, <1>3, <1>4, <1>7 DEF IsInjective

\* What an answer does: the request is gone, the rest stay, and the entry has the batch behind
\* what it had.
LEMMA Received ==
  ASSUME TypeOK, NEW i \in DOMAIN flights, NEW symbols \in SUBSET Symbols, Receive(i, symbols)
  PROVE  LET q == flights[i].query
         IN  /\ q \in Queries /\ flights[i].sent
             /\ cache' = [cache EXCEPT ![q] = [age |-> 0, items |-> cache[q].items \o Batch(symbols)]]
             /\ cache[q].items \o Batch(symbols) \in Seq(Item)
             /\ \A s \in symbols : LangOf[s] = flights[i].lang
             /\ flights' = RemoveAt(flights, i)
<1>1. flights[i] \in Flight BY DEF TypeOK
<1>2. flights[i].query \in Queries BY <1>1 DEF Flight
<1>3. cache[flights[i].query].items \o Batch(symbols) \in Seq(Item)
  BY <1>2, EntryProps, BatchProps, ConcatProperties
<1>4. cache' = [cache EXCEPT ![flights[i].query] =
                  [age |-> 0, items |-> cache[flights[i].query].items \o Batch(symbols)]]
  BY <1>2 DEF Receive, Batch, TypeOK
<1> QED BY <1>2, <1>3, <1>4 DEF Receive

\* Which request each of the next state is, of those of this state, when none is added.
Carried(g) ==
  /\ g \in [DOMAIN flights' -> DOMAIN flights] /\ IsInjective(g)
  /\ \A k \in DOMAIN flights' : /\ flights'[k].query = flights[g[k]].query
                               /\ flights'[k].lang = flights[g[k]].lang

\* A request that ends leaves the others.
LEMMA Ended ==
  ASSUME TypeOK, NEW i \in DOMAIN flights, flights' = RemoveAt(flights, i)
  PROVE  /\ flights' \in Seq(Flight)
         /\ \E g : /\ Carried(g)
                  /\ \A k \in DOMAIN flights' : g[k] # i /\ flights'[k] = flights[g[k]]
<1> DEFINE n == Len(flights)
           g == [k \in 1 .. n - 1 |-> IF k < i THEN k ELSE k + 1]
<1>1. flights \in Seq(Flight) /\ n \in Nat /\ DOMAIN flights = 1 .. n BY DEF TypeOK
<1>2. /\ flights' \in Seq(Flight) /\ DOMAIN flights' = 1 .. n - 1
      /\ \A k \in 1 .. n - 1 : flights'[k] = IF k < i THEN flights[k] ELSE flights[k + 1]
  BY <1>1, Removed
<1> HIDE DEF n
<1>3. g \in [1 .. n - 1 -> 1 .. n] BY <1>1
<1>4. IsInjective(g)
  <2> SUFFICES ASSUME NEW a \in 1 .. n - 1, NEW b \in 1 .. n - 1, g[a] = g[b] PROVE a = b
    BY DEF IsInjective
  <2> QED BY <1>1
<1>5. \A k \in 1 .. n - 1 : g[k] # i /\ flights'[k] = flights[g[k]] BY <1>1, <1>2
<1> HIDE DEF g
<1>6. Carried(g) BY <1>1, <1>2, <1>3, <1>4, <1>5 DEF Carried
<1> QED BY <1>2, <1>5, <1>6

\* A server that dies takes its requests and leaves the others.
LEMMA Died ==
  ASSUME TypeOK, NEW l \in Langs, ServerDies(l)
  PROVE  /\ flights' \in Seq(Flight)
         /\ \E g : /\ Carried(g)
                  /\ \A k \in DOMAIN flights' :
                       flights'[k] = flights[g[k]] /\ flights'[k].lang # l
<1> DEFINE kept == {i \in DOMAIN flights : flights[i].lang # l}
           g == SetToSeq(kept)
<1>1. flights \in Seq(Flight) /\ DOMAIN flights = 1 .. Len(flights) /\ Len(flights) \in Nat
  BY DEF TypeOK
<1>2. IsFiniteSet(kept)
  <2>1. IsFiniteSet(1 .. Len(flights)) BY <1>1, FS_Interval
  <2>2. kept \in SUBSET (1 .. Len(flights)) BY <1>1
  <2> QED BY <2>1, <2>2, FS_Subset
<1>3. g \in Seq(kept) /\ IsInjective(g) BY <1>2, Enumerated
<1>4. flights' = [k \in DOMAIN g |-> flights[g[k]]] BY DEF ServerDies
<1> HIDE DEF g
<1>5. DOMAIN g = 1 .. Len(g) /\ Len(g) \in Nat BY <1>3
<1>6. \A k \in DOMAIN g : g[k] \in DOMAIN flights /\ flights[g[k]].lang # l BY <1>3
<1>7. \A k \in DOMAIN g : flights[g[k]] \in Flight BY <1>1, <1>6
<1>8. flights' \in [1 .. Len(g) -> Flight] BY <1>4, <1>5, <1>7
<1>9. flights' \in Seq(Flight) BY <1>5, <1>8, SeqDef
<1>10. g \in [DOMAIN g -> DOMAIN flights] BY <1>3, <1>5, <1>6
<1>11. Carried(g) BY <1>3, <1>4, <1>10 DEF Carried
<1> QED BY <1>4, <1>6, <1>9, <1>11

\* A change to every request, in place.
LEMMA InPlace ==
  ASSUME TypeOK, DOMAIN flights' = DOMAIN flights,
         \A k \in DOMAIN flights : /\ flights'[k].query = flights[k].query
                                 /\ flights'[k].lang = flights[k].lang
  PROVE  Carried([k \in DOMAIN flights |-> k])
BY DEF Carried, IsInjective

\* A second makes the entries and their items older, and nothing else.
LEMMA Aged ==
  ASSUME TypeOK, TimePasses, NEW q \in Queries
  PROVE  /\ cache'[q] \in Entry
         /\ DOMAIN cache'[q].items = DOMAIN cache[q].items
         /\ \A k \in DOMAIN cache[q].items :
              /\ cache'[q].items[k].symbol = cache[q].items[k].symbol
              /\ cache'[q].items[k].age = IF cache[q].items[k].age <= Horizon
                                         THEN cache[q].items[k].age + 1 ELSE Horizon + 1
         /\ IsCached(q) => cache'[q].age = IF cache[q].age < Ttl THEN cache[q].age + 1 ELSE Ttl
         /\ ~IsCached(q) => cache'[q] = NoEntry
<1>1. /\ cache[q].items \in Seq(Item) /\ cache[q].age \in -1 .. Ttl
      /\ ~IsCached(q) => cache[q].items = <<>>
      /\ IsCached(q) => cache[q].age \in 0 .. Ttl
      /\ \A k \in DOMAIN cache[q].items : cache[q].items[k] \in Item
  BY EntryProps
<1>2. Ttl \in Nat /\ Horizon \in Nat
  BY SymbolSearchAssumption DEF SymbolSearchAssumption, Horizon
<1>3. CASE ~IsCached(q)
  <2>1. cache'[q] = NoEntry BY <1>3 DEF TimePasses
  <2> QED BY <2>1, <1>1, <1>3 DEF Entry, NoEntry
<1>4. CASE IsCached(q)
  <2> DEFINE old == cache[q].items
             items == [k \in DOMAIN old |-> [old[k] EXCEPT !.age = Min({Horizon + 1, @ + 1})]]
  <2>1. cache'[q] = [age |-> Min({Ttl, cache[q].age + 1}), items |-> items]
    BY <1>4 DEF TimePasses
  <2>2. Min({Ttl, cache[q].age + 1}) = IF cache[q].age < Ttl THEN cache[q].age + 1 ELSE Ttl
    <3>1. cache[q].age \in 0 .. Ttl BY <1>1, <1>4
    <3> QED BY <3>1, <1>2, MinOfTwo
  <2>3. ASSUME NEW k \in DOMAIN old
        PROVE  Min({Horizon + 1, old[k].age + 1}) =
                 IF old[k].age <= Horizon THEN old[k].age + 1 ELSE Horizon + 1
    <3>1. old[k].age \in 0 .. Horizon + 1 BY <1>1 DEF Item
    <3> QED BY <3>1, <1>2, MinOfTwo
  <2>4. ASSUME NEW k \in DOMAIN old
        PROVE  /\ items[k] \in Item /\ items[k].symbol = old[k].symbol
               /\ items[k].age = IF old[k].age <= Horizon THEN old[k].age + 1 ELSE Horizon + 1
    <3>1. old[k] \in Item BY <1>1
    <3>2. items[k] = [old[k] EXCEPT !.age = Min({Horizon + 1, old[k].age + 1})] OBVIOUS
    <3> QED BY <3>1, <3>2, <2>3, <1>2 DEF Item
  <2>5. items \in Seq(Item)
    <3>1. DOMAIN old = 1 .. Len(old) /\ Len(old) \in Nat BY <1>1
    <3>2. items \in [1 .. Len(old) -> Item] BY <3>1, <2>4
    <3> HIDE DEF items, old
    <3> QED BY <3>1, <3>2, SeqDef
  <2> HIDE DEF items
  <2>6. DOMAIN items = DOMAIN old BY DEF items
  <2>7. cache'[q] \in [age : 0 .. Ttl, items : Seq(Item)] BY <1>1, <1>2, <1>4, <2>1, <2>2, <2>5
  <2> QED BY <1>4, <2>1, <2>2, <2>4, <2>6, <2>7 DEF Entry
<1> QED BY <1>3, <1>4

LEMMA TypeNext == TypeOK /\ [Next]_vars => TypeOK'
<1> SUFFICES ASSUME TypeOK, [Next]_vars PROVE TypeOK' OBVIOUS
<1>1. ASSUME NEW q \in Queries, NEW kind \in Kinds, NEW limit \in Limits, SearchHit(q, kind, limit)
      PROVE  TypeOK'
  BY <1>1 DEF SearchHit, TypeOK
<1>2. ASSUME NEW q \in Queries, NEW kind \in Kinds, NEW limit \in Limits, SearchMiss(q, kind, limit)
      PROVE  TypeOK'
  <2>1. flights' \in Seq(Flight) BY <1>2, Joined DEF SearchMiss
  <2>2. cache' \in [Queries -> Entry] BY <1>2 DEF SearchMiss, TypeOK, Entry
  <2> QED BY <1>2, <2>1, <2>2 DEF SearchMiss, TypeOK
<1>3. ASSUME NEW q \in Queries, NEW limit \in Limits, SearchText(q, limit) PROVE TypeOK'
  BY <1>3 DEF SearchText, TypeOK
<1>4. ASSUME NEW i \in DOMAIN flights, ReceiveNothing(i) PROVE TypeOK'
  BY <1>4, Ended DEF ReceiveNothing, TypeOK
<1>5. ASSUME NEW i \in DOMAIN flights, NEW symbols \in SUBSET Symbols, Receive(i, symbols)
      PROVE  TypeOK'
  <2> DEFINE e == [age |-> 0, items |-> cache[flights[i].query].items \o Batch(symbols)]
  <2>1. cache' = [cache EXCEPT ![flights[i].query] = e] /\ flights' = RemoveAt(flights, i)
    BY <1>5, Received
  <2>2. e \in Entry
    <3>1. cache[flights[i].query].items \o Batch(symbols) \in Seq(Item) BY <1>5, Received
    <3>2. 0 \in 0 .. Ttl BY SymbolSearchAssumption DEF SymbolSearchAssumption
    <3> QED BY <3>1, <3>2 DEF Entry
  <2> HIDE DEF e
  <2>3. cache' \in [Queries -> Entry] BY <2>1, <2>2 DEF TypeOK
  <2>4. flights' \in Seq(Flight) BY <2>1, Ended
  <2> QED BY <1>5, <2>3, <2>4 DEF Receive, TypeOK
<1>6. ASSUME NEW l \in Langs, ServerStarts(l) PROVE TypeOK'
  BY <1>6 DEF ServerStarts, TypeOK
<1>7. ASSUME NEW l \in Langs, HandshakeDone(l) PROVE TypeOK'
  <2>1. flights \in Seq(Flight) /\ DOMAIN flights = 1 .. Len(flights) /\ Len(flights) \in Nat
    BY DEF TypeOK
  <2>2. \A i \in DOMAIN flights : flights[i] \in Flight BY <2>1
  <2>3. 0 \in 0 .. Timeout BY SymbolSearchAssumption DEF SymbolSearchAssumption
  <2>4. flights' \in [1 .. Len(flights) -> Flight] BY <1>7, <2>1, <2>2, <2>3 DEF HandshakeDone, Flight
  <2>5. flights' \in Seq(Flight) BY <2>1, <2>4, SeqDef
  <2> QED BY <1>7, <2>5 DEF HandshakeDone, TypeOK
<1>8. ASSUME NEW l \in Langs, ServerDies(l) PROVE TypeOK'
  BY <1>8, Died DEF ServerDies, TypeOK
<1>9. CASE TimePasses
  <2>1. flights \in Seq(Flight) /\ DOMAIN flights = 1 .. Len(flights) /\ Len(flights) \in Nat
    BY DEF TypeOK
  <2>2. \A i \in DOMAIN flights : flights[i] \in Flight /\ flights[i].age < Timeout
    BY <1>9, <2>1 DEF TimePasses
  <2>3. Timeout \in Nat BY SymbolSearchAssumption DEF SymbolSearchAssumption
  <2>4. flights' \in [1 .. Len(flights) -> Flight]
    <3>1. flights' = [i \in 1 .. Len(flights) |-> [flights[i] EXCEPT !.age = flights[i].age + 1]]
      BY <1>9, <2>1 DEF TimePasses
    <3>2. ASSUME NEW i \in 1 .. Len(flights)
          PROVE  [flights[i] EXCEPT !.age = flights[i].age + 1] \in Flight
      <4>1. flights[i] \in Flight /\ flights[i].age < Timeout BY <2>1, <2>2
      <4>2. flights[i].age + 1 \in 0 .. Timeout BY <4>1, <2>3 DEF Flight
      <4> QED BY <4>1, <4>2 DEF Flight
    <3> QED BY <3>1, <3>2
  <2>5. flights' \in Seq(Flight) BY <2>1, <2>4, SeqDef
  <2>6. cache' \in [Queries -> Entry]
    <3>1. DOMAIN cache' = Queries /\ cache' = [q \in Queries |-> cache'[q]] BY <1>9 DEF TimePasses
    <3>2. \A q \in Queries : cache'[q] \in Entry BY <1>9, Aged
    <3> QED BY <3>1, <3>2
  <2> QED BY <1>9, <2>5, <2>6 DEF TimePasses, TypeOK
<1>10. CASE UNCHANGED vars BY <1>10 DEF vars, TypeOK
<1> QED BY <1>1, <1>2, <1>3, <1>4, <1>5, <1>6, <1>7, <1>8, <1>9, <1>10 DEF Next

-----------------------------------------------------------------------------
(* Repetition *)

\* Of a query that was never asked again too early, a language has at most one request out,
\* and nothing in the entry as long as it has one.
OneEach ==
  \A q \in Queries \ doubled :
    /\ \A i, j \in DOMAIN flights :
         /\ flights[i].query = q /\ flights[j].query = q
         /\ flights[i].lang = flights[j].lang
         => i = j
    /\ \A i \in DOMAIN flights, k \in DOMAIN cache[q].items :
         flights[i].query = q => LangOf[cache[q].items[k].symbol] # flights[i].lang
    /\ \A k, m \in DOMAIN cache[q].items :
         cache[q].items[k].symbol = cache[q].items[m].symbol => k = m

\* The entries hold the same symbols as before.
SameSymbols ==
  \A q \in Queries :
    /\ DOMAIN cache'[q].items = DOMAIN cache[q].items
    /\ \A k \in DOMAIN cache[q].items : cache'[q].items[k].symbol = cache[q].items[k].symbol

LEMMA OneEachKept ==
  ASSUME OneEach, UNCHANGED doubled, SameSymbols, NEW g, Carried(g)
  PROVE  OneEach'
<1> SUFFICES ASSUME NEW q \in Queries \ doubled
             PROVE  /\ \A i, j \in DOMAIN flights' :
                         /\ flights'[i].query = q /\ flights'[j].query = q
                         /\ flights'[i].lang = flights'[j].lang
                         => i = j
                    /\ \A i \in DOMAIN flights', k \in DOMAIN cache'[q].items :
                         flights'[i].query = q => LangOf[cache'[q].items[k].symbol] # flights'[i].lang
                    /\ \A k, m \in DOMAIN cache'[q].items :
                         cache'[q].items[k].symbol = cache'[q].items[m].symbol => k = m
  BY DEF OneEach
<1>1. ASSUME NEW i \in DOMAIN flights', NEW j \in DOMAIN flights',
             flights'[i].query = q, flights'[j].query = q, flights'[i].lang = flights'[j].lang
      PROVE  i = j
  <2>1. g[i] \in DOMAIN flights /\ g[j] \in DOMAIN flights BY DEF Carried
  <2>2. g[i] = g[j] BY <1>1, <2>1 DEF Carried, OneEach
  <2> QED BY <2>2 DEF Carried, IsInjective
<1>2. ASSUME NEW i \in DOMAIN flights', NEW k \in DOMAIN cache'[q].items, flights'[i].query = q
      PROVE  LangOf[cache'[q].items[k].symbol] # flights'[i].lang
  <2>1. g[i] \in DOMAIN flights /\ k \in DOMAIN cache[q].items BY DEF Carried, SameSymbols
  <2> QED BY <1>2, <2>1 DEF Carried, SameSymbols, OneEach
<1>3. ASSUME NEW k \in DOMAIN cache'[q].items, NEW m \in DOMAIN cache'[q].items,
             cache'[q].items[k].symbol = cache'[q].items[m].symbol
      PROVE  k = m
  <2>1. k \in DOMAIN cache[q].items /\ m \in DOMAIN cache[q].items BY DEF SameSymbols
  <2> QED BY <1>3, <2>1 DEF SameSymbols, OneEach
<1> QED BY <1>1, <1>2, <1>3

\* A question starts over: its entry is empty, and its requests are those it sends, unless there
\* were some, and then it is doubled.
LEMMA OneEachMiss ==
  ASSUME TypeOK, OneEach, NEW q \in Queries, NEW kind, NEW limit, SearchMiss(q, kind, limit)
  PROVE  OneEach'
<1>1. /\ cache' = [cache EXCEPT ![q] = NoEntry] /\ flights' = flights \o Dispatch(q)
      /\ doubled \subseteq doubled'
      /\ q \notin doubled' => \A i \in DOMAIN flights : flights[i].query # q
  BY DEF SearchMiss
<1>2. \A k \in DOMAIN flights' :
        \/ k \in DOMAIN flights /\ flights'[k] = flights[k]
        \/ /\ k \notin DOMAIN flights
           /\ \E i \in DOMAIN Dispatch(q) : k = Len(flights) + i /\ flights'[k] = Dispatch(q)[i]
  BY <1>1, Joined
<1>3. /\ \A i \in DOMAIN Dispatch(q) : Dispatch(q)[i].query = q
      /\ \A i, j \in DOMAIN Dispatch(q) : Dispatch(q)[i].lang = Dispatch(q)[j].lang => i = j
  BY Dispatched
<1> SUFFICES ASSUME NEW p \in Queries \ doubled'
             PROVE  /\ \A i, j \in DOMAIN flights' :
                         /\ flights'[i].query = p /\ flights'[j].query = p
                         /\ flights'[i].lang = flights'[j].lang
                         => i = j
                    /\ \A i \in DOMAIN flights', k \in DOMAIN cache'[p].items :
                         flights'[i].query = p => LangOf[cache'[p].items[k].symbol] # flights'[i].lang
                    /\ \A k, m \in DOMAIN cache'[p].items :
                         cache'[p].items[k].symbol = cache'[p].items[m].symbol => k = m
  BY DEF OneEach
<1>4. CASE p = q
  <2>1. DOMAIN cache'[p].items = {} BY <1>1, <1>4 DEF TypeOK, NoEntry
  <2>2. ASSUME NEW k \in DOMAIN flights', flights'[k].query = p
        PROVE  \E i \in DOMAIN Dispatch(q) : k = Len(flights) + i /\ flights'[k] = Dispatch(q)[i]
    BY <1>1, <1>2, <1>4, <2>2
  <2>3. ASSUME NEW i \in DOMAIN flights', NEW j \in DOMAIN flights',
               flights'[i].query = p, flights'[j].query = p, flights'[i].lang = flights'[j].lang
        PROVE  i = j
    <3>1. PICK a \in DOMAIN Dispatch(q) : i = Len(flights) + a /\ flights'[i] = Dispatch(q)[a]
      BY <2>2, <2>3
    <3>2. PICK b \in DOMAIN Dispatch(q) : j = Len(flights) + b /\ flights'[j] = Dispatch(q)[b]
      BY <2>2, <2>3
    <3>3. a = b BY <1>3, <2>3, <3>1, <3>2
    <3> QED BY <3>1, <3>2, <3>3
  <2> QED BY <2>1, <2>3
<1>5. CASE p # q
  <2>1. cache'[p] = cache[p] /\ p \in Queries \ doubled BY <1>1, <1>5 DEF TypeOK
  <2>2. \A k \in DOMAIN flights' :
          flights'[k].query = p => k \in DOMAIN flights /\ flights'[k] = flights[k]
    BY <1>2, <1>3, <1>5
  <2>3. /\ \A i, j \in DOMAIN flights :
            /\ flights[i].query = p /\ flights[j].query = p
            /\ flights[i].lang = flights[j].lang
            => i = j
        /\ \A i \in DOMAIN flights, k \in DOMAIN cache[p].items :
             flights[i].query = p => LangOf[cache[p].items[k].symbol] # flights[i].lang
        /\ \A k, m \in DOMAIN cache[p].items :
             cache[p].items[k].symbol = cache[p].items[m].symbol => k = m
    BY <2>1 DEF OneEach
  <2>4. ASSUME NEW i \in DOMAIN flights', NEW j \in DOMAIN flights',
               flights'[i].query = p, flights'[j].query = p, flights'[i].lang = flights'[j].lang
        PROVE  i = j
    BY <2>2, <2>3, <2>4
  <2>5. ASSUME NEW i \in DOMAIN flights', NEW k \in DOMAIN cache'[p].items, flights'[i].query = p
        PROVE  LangOf[cache'[p].items[k].symbol] # flights'[i].lang
    BY <2>1, <2>2, <2>3, <2>5
  <2> QED BY <2>1, <2>3, <2>4, <2>5
<1> QED BY <1>4, <1>5

\* Which symbol an entry has where, after an answer.
LEMMA BatchJoined ==
  ASSUME TypeOK, NEW q \in Queries, NEW symbols \in SUBSET Symbols
  PROVE  LET old == cache[q].items
             new == old \o Batch(symbols)
         IN  \A k \in DOMAIN new :
               \/ k \in DOMAIN old /\ new[k] = old[k]
               \/ \E b \in DOMAIN Batch(symbols) : k = Len(old) + b /\ new[k] = Batch(symbols)[b]
<1> DEFINE old == cache[q].items
           B == Batch(symbols)
           n == Len(old)
           m == Len(B)
<1>1. old \in Seq(Item) /\ B \in Seq(Item) BY EntryProps, BatchProps
<1> HIDE DEF B, old
<1>2. n \in Nat /\ m \in Nat /\ DOMAIN old = 1 .. n /\ DOMAIN B = 1 .. m BY <1>1
<1>3. /\ DOMAIN (old \o B) = 1 .. n + m
      /\ \A k \in 1 .. n + m : (old \o B)[k] = IF k <= n THEN old[k] ELSE B[k - n]
  BY <1>1, ConcatProperties, LenProperties
<1> DEFINE new == old \o B
<1> HIDE DEF n, m, new
<1>4. ASSUME NEW k \in 1 .. n + m
      PROVE  \/ k \in 1 .. n /\ new[k] = old[k]
             \/ \E b \in 1 .. m : k = n + b /\ new[k] = B[b]
  <2>1. CASE k <= n BY <2>1, <1>2, <1>3 DEF new
  <2>2. CASE ~(k <= n)
    <3>1. k - n \in 1 .. m /\ k = n + (k - n) BY <2>2, <1>2
    <3> QED BY <2>2, <3>1, <1>3 DEF new
  <2> QED BY <2>1, <2>2
<1> QED BY <1>2, <1>3, <1>4 DEF new, n, m, old, B

LEMMA OneEachReceive ==
  ASSUME TypeOK, OneEach, NEW i \in DOMAIN flights, NEW symbols \in SUBSET Symbols,
         Receive(i, symbols)
  PROVE  OneEach'
<1> DEFINE q == flights[i].query
           B == Batch(symbols)
           old == cache[q].items
           new == old \o B
<1>1. /\ q \in Queries
      /\ cache' = [cache EXCEPT ![q] = [age |-> 0, items |-> new]]
      /\ \A s \in symbols : LangOf[s] = flights[i].lang
      /\ flights' = RemoveAt(flights, i)
  BY Received
<1>2. UNCHANGED doubled BY DEF Receive
<1>3. PICK g : Carried(g) /\ \A k \in DOMAIN flights' : g[k] # i /\ flights'[k] = flights[g[k]]
  BY <1>1, Ended
<1>4. \A k \in DOMAIN new :
        \/ k \in DOMAIN old /\ new[k] = old[k]
        \/ \E b \in DOMAIN B : k = Len(old) + b /\ new[k] = B[b]
  BY <1>1, BatchJoined
<1>5. /\ \A k \in DOMAIN B : B[k].symbol \in symbols
      /\ \A k, m \in DOMAIN B : B[k].symbol = B[m].symbol => k = m
  BY BatchProps
<1> HIDE DEF B, new
<1> SUFFICES ASSUME NEW p \in Queries \ doubled
             PROVE  /\ \A j, k \in DOMAIN flights' :
                         /\ flights'[j].query = p /\ flights'[k].query = p
                         /\ flights'[j].lang = flights'[k].lang
                         => j = k
                    /\ \A j \in DOMAIN flights', k \in DOMAIN cache'[p].items :
                         flights'[j].query = p => LangOf[cache'[p].items[k].symbol] # flights'[j].lang
                    /\ \A k, m \in DOMAIN cache'[p].items :
                         cache'[p].items[k].symbol = cache'[p].items[m].symbol => k = m
  BY <1>2 DEF OneEach
<1>6. /\ \A j, k \in DOMAIN flights :
          /\ flights[j].query = p /\ flights[k].query = p
          /\ flights[j].lang = flights[k].lang
          => j = k
      /\ \A j \in DOMAIN flights, k \in DOMAIN cache[p].items :
           flights[j].query = p => LangOf[cache[p].items[k].symbol] # flights[j].lang
      /\ \A k, m \in DOMAIN cache[p].items :
           cache[p].items[k].symbol = cache[p].items[m].symbol => k = m
  BY DEF OneEach
<1>7. \A k \in DOMAIN flights' : /\ g[k] \in DOMAIN flights /\ g[k] # i
                               /\ flights'[k] = flights[g[k]]
  BY <1>3 DEF Carried
<1>8. ASSUME NEW j \in DOMAIN flights', NEW k \in DOMAIN flights',
             flights'[j].query = p, flights'[k].query = p, flights'[j].lang = flights'[k].lang
      PROVE  j = k
  <2>1. g[j] = g[k] BY <1>6, <1>7, <1>8
  <2> QED BY <2>1, <1>3 DEF Carried, IsInjective
<1>9. CASE p # q
  <2>1. cache'[p] = cache[p] BY <1>1, <1>9 DEF TypeOK
  <2>2. ASSUME NEW j \in DOMAIN flights', NEW k \in DOMAIN cache'[p].items, flights'[j].query = p
        PROVE  LangOf[cache'[p].items[k].symbol] # flights'[j].lang
    BY <2>1, <2>2, <1>6, <1>7
  <2> QED BY <2>1, <2>2, <1>6, <1>8
<1>10. CASE p = q
  <2>1. cache'[p].items = new BY <1>1, <1>10 DEF TypeOK
  <2>2. ASSUME NEW j \in DOMAIN flights', NEW k \in DOMAIN new, flights'[j].query = p
        PROVE  LangOf[new[k].symbol] # flights'[j].lang
    <3>1. flights[i].lang # flights'[j].lang BY <1>6, <1>7, <1>10, <2>2
    <3>2. CASE k \in DOMAIN old /\ new[k] = old[k] BY <2>2, <3>2, <1>6, <1>7, <1>10
    <3>3. CASE \E b \in DOMAIN B : new[k] = B[b] BY <3>1, <3>3, <1>1, <1>5
    <3> QED BY <3>2, <3>3, <1>4
  <2>3. \A k \in DOMAIN old : LangOf[old[k].symbol] # flights[i].lang BY <1>6, <1>10
  <2>4. \A b \in DOMAIN B : LangOf[B[b].symbol] = flights[i].lang BY <1>1, <1>5
  <2>5. ASSUME NEW k \in DOMAIN new, NEW m \in DOMAIN new, new[k].symbol = new[m].symbol
        PROVE  k = m
    <3>1. CASE k \in DOMAIN old /\ new[k] = old[k] /\ m \in DOMAIN old /\ new[m] = old[m]
      BY <3>1, <2>5, <1>6, <1>10
    <3>2. CASE \E b \in DOMAIN B : /\ k = Len(old) + b /\ new[k] = B[b]
                                 /\ \E c \in DOMAIN B : m = Len(old) + c /\ new[m] = B[c]
      BY <3>2, <2>5, <1>5
    <3>3. CASE \/ k \in DOMAIN old /\ new[k] = old[k] /\ \E c \in DOMAIN B : new[m] = B[c]
               \/ m \in DOMAIN old /\ new[m] = old[m] /\ \E c \in DOMAIN B : new[k] = B[c]
      BY <3>3, <2>3, <2>4, <2>5
    <3> QED BY <1>4, <3>1, <3>2, <3>3
  <2> QED BY <1>8, <2>1, <2>2, <2>5
<1> QED BY <1>9, <1>10

LEMMA OneEachNext == TypeOK /\ OneEach /\ [Next]_vars => OneEach'
<1> SUFFICES ASSUME TypeOK, OneEach, [Next]_vars PROVE OneEach' OBVIOUS
<1>1. ASSUME NEW q \in Queries, NEW kind \in Kinds, NEW limit \in Limits, SearchHit(q, kind, limit)
      PROVE  OneEach'
  BY <1>1 DEF SearchHit, OneEach
<1>2. ASSUME NEW q \in Queries, NEW kind \in Kinds, NEW limit \in Limits, SearchMiss(q, kind, limit)
      PROVE  OneEach'
  BY <1>2, OneEachMiss
<1>3. ASSUME NEW q \in Queries, NEW limit \in Limits, SearchText(q, limit) PROVE OneEach'
  BY <1>3 DEF SearchText, OneEach
<1>4. ASSUME NEW i \in DOMAIN flights, ReceiveNothing(i) PROVE OneEach'
  <2>1. PICK g : Carried(g) BY <1>4, Ended DEF ReceiveNothing
  <2>2. SameSymbols /\ UNCHANGED doubled BY <1>4 DEF ReceiveNothing, SameSymbols
  <2> QED BY <2>1, <2>2, OneEachKept
<1>5. ASSUME NEW i \in DOMAIN flights, NEW symbols \in SUBSET Symbols, Receive(i, symbols)
      PROVE  OneEach'
  BY <1>5, OneEachReceive
<1>6. ASSUME NEW l \in Langs, ServerStarts(l) PROVE OneEach'
  BY <1>6 DEF ServerStarts, OneEach
<1>7. ASSUME NEW l \in Langs, HandshakeDone(l) PROVE OneEach'
  <2>1. /\ DOMAIN flights' = DOMAIN flights
        /\ \A k \in DOMAIN flights : /\ flights'[k].query = flights[k].query
                                   /\ flights'[k].lang = flights[k].lang
    <3>1. \A k \in DOMAIN flights : flights[k] \in Flight BY DEF TypeOK
    <3> QED BY <1>7, <3>1 DEF HandshakeDone, Flight
  <2>2. SameSymbols /\ UNCHANGED doubled BY <1>7 DEF HandshakeDone, SameSymbols
  <2> QED BY <2>1, <2>2, InPlace, OneEachKept
<1>8. ASSUME NEW l \in Langs, ServerDies(l) PROVE OneEach'
  <2>1. PICK g : Carried(g) BY <1>8, Died
  <2>2. SameSymbols /\ UNCHANGED doubled BY <1>8 DEF ServerDies, SameSymbols
  <2> QED BY <2>1, <2>2, OneEachKept
<1>9. CASE TimePasses
  <2>1. /\ DOMAIN flights' = DOMAIN flights
        /\ \A k \in DOMAIN flights : /\ flights'[k].query = flights[k].query
                                   /\ flights'[k].lang = flights[k].lang
    <3>1. \A k \in DOMAIN flights : flights[k] \in Flight BY DEF TypeOK
    <3> QED BY <1>9, <3>1 DEF TimePasses, Flight
  <2>2. SameSymbols BY <1>9, Aged DEF SameSymbols
  <2>3. UNCHANGED doubled BY <1>9 DEF TimePasses
  <2> QED BY <2>1, <2>2, <2>3, InPlace, OneEachKept
<1>10. CASE UNCHANGED vars BY <1>10 DEF vars, OneEach
<1> QED BY <1>1, <1>2, <1>3, <1>4, <1>5, <1>6, <1>7, <1>8, <1>9, <1>10 DEF Next

-----------------------------------------------------------------------------
(* Age *)

\* A request is held exactly as long as its server is in the handshake.
Held ==
  \A i \in DOMAIN flights :
    server[flights[i].lang] = IF flights[i].sent THEN "ready" ELSE "starting"

LEMMA HeldNext == TypeOK /\ Held /\ [Next]_vars => Held'
<1> SUFFICES ASSUME TypeOK, Held, [Next]_vars PROVE Held' OBVIOUS
<1>0. \A i \in DOMAIN flights : flights[i] \in Flight BY DEF TypeOK
<1>k. ASSUME UNCHANGED server, NEW g \in [DOMAIN flights' -> DOMAIN flights],
             \A k \in DOMAIN flights' : flights'[k] = flights[g[k]]
      PROVE  Held'
  BY <1>k DEF Held
<1>1. ASSUME NEW q \in Queries, NEW kind \in Kinds, NEW limit \in Limits, SearchHit(q, kind, limit)
      PROVE  Held'
  BY <1>1 DEF SearchHit, Held
<1>2. ASSUME NEW q \in Queries, NEW kind \in Kinds, NEW limit \in Limits, SearchMiss(q, kind, limit)
      PROVE  Held'
  <2>1. \A k \in DOMAIN flights' :
          \/ k \in DOMAIN flights /\ flights'[k] = flights[k]
          \/ \E i \in DOMAIN Dispatch(q) : flights'[k] = Dispatch(q)[i]
    BY <1>2, Joined DEF SearchMiss
  <2>2. \A i \in DOMAIN Dispatch(q) :
          server[Dispatch(q)[i].lang] = IF Dispatch(q)[i].sent THEN "ready" ELSE "starting"
    BY Dispatched
  <2>3. UNCHANGED server BY <1>2 DEF SearchMiss
  <2> QED BY <2>1, <2>2, <2>3 DEF Held
<1>3. ASSUME NEW q \in Queries, NEW limit \in Limits, SearchText(q, limit) PROVE Held'
  BY <1>3 DEF SearchText, Held
<1>4. ASSUME NEW i \in DOMAIN flights, ReceiveNothing(i) PROVE Held'
  BY <1>4, <1>k, Ended DEF ReceiveNothing, Carried
<1>5. ASSUME NEW i \in DOMAIN flights, NEW symbols \in SUBSET Symbols, Receive(i, symbols)
      PROVE  Held'
  BY <1>5, <1>k, Ended DEF Receive, Carried
<1>6. ASSUME NEW l \in Langs, ServerStarts(l) PROVE Held'
  BY <1>6, <1>0 DEF ServerStarts, Held, TypeOK, Flight
<1>7. ASSUME NEW l \in Langs, HandshakeDone(l) PROVE Held'
  <2>1. server' = [server EXCEPT ![l] = "ready"] /\ DOMAIN flights' = DOMAIN flights
    BY <1>7 DEF HandshakeDone
  <2>2. ASSUME NEW i \in DOMAIN flights
        PROVE  server'[flights'[i].lang] = IF flights'[i].sent THEN "ready" ELSE "starting"
    <3>1. flights[i] \in Flight BY <1>0
    <3>2. CASE flights[i].lang = l
      <4>1. flights'[i] = [flights[i] EXCEPT !.sent = TRUE, !.age = 0]
        BY <1>7, <3>2 DEF HandshakeDone
      <4>2. flights'[i].lang = l /\ flights'[i].sent BY <3>1, <3>2, <4>1 DEF Flight
      <4> QED BY <2>1, <4>2 DEF TypeOK
    <3>3. CASE flights[i].lang # l
      <4>1. flights'[i] = flights[i] BY <1>7, <3>3 DEF HandshakeDone
      <4> QED BY <2>1, <3>1, <3>3, <4>1 DEF Held, TypeOK, Flight
    <3> QED BY <3>2, <3>3
  <2> QED BY <2>1, <2>2 DEF Held
<1>8. ASSUME NEW l \in Langs, ServerDies(l) PROVE Held'
  <2>1. PICK g : /\ Carried(g)
                 /\ \A k \in DOMAIN flights' :
                      flights'[k] = flights[g[k]] /\ flights'[k].lang # l
    BY <1>8, Died
  <2>2. server' = [server EXCEPT ![l] = "down"] BY <1>8 DEF ServerDies
  <2>3. \A k \in DOMAIN flights' : g[k] \in DOMAIN flights BY <2>1 DEF Carried
  <2> QED BY <2>1, <2>2, <2>3, <1>0 DEF Held, TypeOK, Flight
<1>9. CASE TimePasses
  <2>1. ASSUME NEW i \in DOMAIN flights
        PROVE  flights'[i].lang = flights[i].lang /\ flights'[i].sent = flights[i].sent
    <3>1. flights'[i] = [flights[i] EXCEPT !.age = flights[i].age + 1] BY <1>9 DEF TimePasses
    <3> QED BY <1>0, <3>1 DEF Flight
  <2>2. UNCHANGED server /\ DOMAIN flights' = DOMAIN flights BY <1>9 DEF TimePasses
  <2> QED BY <2>1, <2>2 DEF Held
<1>10. CASE UNCHANGED vars BY <1>10 DEF vars, Held
<1> QED BY <1>1, <1>2, <1>3, <1>4, <1>5, <1>6, <1>7, <1>8, <1>9, <1>10 DEF Next

\* What was asked at the same time as item, or later, and is still out: Timeout for the
\* handshake and Timeout for the answer bound how long the two lie apart.
NotBefore(item, flight) == item.age <= flight.age + IF flight.sent THEN Timeout ELSE 0

\* No item is older than the requests for its query that are still out, nor much older than its
\* entry while that is fresh.
Recent ==
  \A q \in Queries : \A k \in DOMAIN cache[q].items :
    /\ \A i \in DOMAIN flights : flights[i].query = q => NotBefore(cache[q].items[k], flights[i])
    /\ cache[q].age < Ttl => cache[q].items[k].age <= cache[q].age + 2 * Timeout

\* When requests only end, and the entries stay.
LEMMA RecentKept ==
  ASSUME Recent, UNCHANGED cache, NEW g \in [DOMAIN flights' -> DOMAIN flights],
         \A k \in DOMAIN flights' : flights'[k] = flights[g[k]]
  PROVE  Recent'
BY DEF Recent, NotBefore

LEMMA RecentMiss ==
  ASSUME TypeOK, Recent, NEW q \in Queries, NEW kind, NEW limit, SearchMiss(q, kind, limit)
  PROVE  Recent'
<1>1. cache' = [cache EXCEPT ![q] = NoEntry] /\ flights' = flights \o Dispatch(q)
  BY DEF SearchMiss
<1>2. \A k \in DOMAIN flights' :
        \/ k \in DOMAIN flights /\ flights'[k] = flights[k]
        \/ \E i \in DOMAIN Dispatch(q) : flights'[k] = Dispatch(q)[i]
  BY <1>1, Joined
<1>3. \A i \in DOMAIN Dispatch(q) : Dispatch(q)[i].query = q BY Dispatched
<1>4. ASSUME NEW p \in Queries, NEW k \in DOMAIN cache'[p].items
      PROVE  /\ \A i \in DOMAIN flights' :
                  flights'[i].query = p => NotBefore(cache'[p].items[k], flights'[i])
             /\ cache'[p].age < Ttl => cache'[p].items[k].age <= cache'[p].age + 2 * Timeout
  <2>1. p # q /\ cache'[p] = cache[p]
    <3>1. DOMAIN cache'[q].items = {} BY <1>1 DEF TypeOK, NoEntry
    <3> QED BY <1>1, <1>4, <3>1 DEF TypeOK
  <2>2. \A i \in DOMAIN flights' :
          flights'[i].query = p => i \in DOMAIN flights /\ flights'[i] = flights[i]
    BY <1>2, <1>3, <2>1
  <2> QED BY <1>4, <2>1, <2>2 DEF Recent
<1> QED BY <1>4 DEF Recent, NotBefore

LEMMA RecentReceive ==
  ASSUME TypeOK, Recent, NEW i \in DOMAIN flights, NEW symbols \in SUBSET Symbols,
         Receive(i, symbols)
  PROVE  Recent'
<1> DEFINE q == flights[i].query
           B == Batch(symbols)
           old == cache[q].items
           new == old \o B
<1>1. /\ q \in Queries /\ flights[i].sent
      /\ cache' = [cache EXCEPT ![q] = [age |-> 0, items |-> new]]
      /\ flights' = RemoveAt(flights, i)
  BY Received
<1>2. PICK g : Carried(g) /\ \A k \in DOMAIN flights' : g[k] # i /\ flights'[k] = flights[g[k]]
  BY <1>1, Ended
<1>3. \A k \in DOMAIN new :
        \/ k \in DOMAIN old /\ new[k] = old[k]
        \/ \E b \in DOMAIN B : new[k] = B[b]
  BY <1>1, BatchJoined
<1>4. \A b \in DOMAIN B : B[b].age = 0 BY BatchProps
<1>5. \A k \in DOMAIN flights' : g[k] \in DOMAIN flights /\ flights'[k] = flights[g[k]]
  BY <1>2 DEF Carried
<1>6. Ttl \in Nat /\ Timeout \in Nat BY SymbolSearchAssumption DEF SymbolSearchAssumption
<1>7. \A j \in DOMAIN flights : flights[j] \in Flight BY DEF TypeOK
<1>8. \A k \in DOMAIN old : old[k] \in Item BY <1>1, EntryProps
<1> HIDE DEF B, new
<1>9. ASSUME NEW p \in Queries, NEW k \in DOMAIN cache'[p].items
      PROVE  /\ \A j \in DOMAIN flights' :
                  flights'[j].query = p => NotBefore(cache'[p].items[k], flights'[j])
             /\ cache'[p].age < Ttl => cache'[p].items[k].age <= cache'[p].age + 2 * Timeout
  <2>1. CASE p # q
    <3>1. cache'[p] = cache[p] BY <1>1, <2>1 DEF TypeOK
    <3> QED BY <1>5, <1>9, <3>1 DEF Recent
  <2>2. CASE p = q
    <3>1. cache'[p].items = new /\ cache'[p].age = 0 BY <1>1, <2>2 DEF TypeOK
    <3>2. CASE k \in DOMAIN old /\ new[k] = old[k]
      <4>1. \A j \in DOMAIN flights : flights[j].query = q => NotBefore(old[k], flights[j])
        BY <1>1, <3>2 DEF Recent
      <4>2. old[k].age <= 2 * Timeout
        <5>1. NotBefore(old[k], flights[i]) BY <4>1
        <5>2. old[k].age <= flights[i].age + Timeout BY <5>1, <1>1 DEF NotBefore
        <5>3. flights[i].age \in 0 .. Timeout /\ old[k].age \in 0 .. Horizon + 1
          BY <1>7, <1>8, <3>2 DEF Flight, Item
        <5>4. Horizon \in Int BY <1>6 DEF Horizon
        <5> QED BY <5>2, <5>3, <5>4, <1>6
      <4> QED BY <4>1, <4>2, <3>1, <3>2, <2>2, <1>5, <1>6
    <3>3. CASE \E b \in DOMAIN B : new[k] = B[b]
      <4>1. new[k].age = 0 BY <3>3, <1>4
      <4>2. ASSUME NEW j \in DOMAIN flights' PROVE NotBefore(new[k], flights'[j])
        <5>1. flights'[j].age \in 0 .. Timeout BY <1>5, <1>7 DEF Flight
        <5> QED BY <5>1, <4>1, <1>6 DEF NotBefore
      <4> QED BY <4>1, <4>2, <3>1, <1>6
    <3> QED BY <1>3, <1>9, <3>1, <3>2, <3>3
  <2> QED BY <2>1, <2>2
<1> QED BY <1>9 DEF Recent, NotBefore

\* A handshake that ends restarts the clock of what was held for it.
LEMMA RecentHandshake ==
  ASSUME TypeOK, Held, Recent, NEW l \in Langs, HandshakeDone(l)
  PROVE  Recent'
<1>1. UNCHANGED cache /\ DOMAIN flights' = DOMAIN flights BY DEF HandshakeDone
<1>2. Ttl \in Nat /\ Timeout \in Nat BY SymbolSearchAssumption DEF SymbolSearchAssumption
<1>3. ASSUME NEW q \in Queries, NEW k \in DOMAIN cache[q].items, NEW i \in DOMAIN flights,
             flights'[i].query = q
      PROVE  NotBefore(cache[q].items[k], flights'[i])
  <2>1. flights[i] \in Flight /\ cache[q].items[k] \in Item BY EntryProps DEF TypeOK
  <2>2. CASE flights[i].lang = l
    <3>1. flights'[i] = [flights[i] EXCEPT !.sent = TRUE, !.age = 0] BY <2>2 DEF HandshakeDone
    <3>2. flights'[i].query = flights[i].query /\ flights'[i].sent /\ flights'[i].age = 0
      BY <2>1, <3>1 DEF Flight
    <3>3. NotBefore(cache[q].items[k], flights[i]) BY <1>3, <3>2 DEF Recent
    <3>4. ~flights[i].sent BY <2>2 DEF Held, HandshakeDone
    <3>5. cache[q].items[k].age <= flights[i].age BY <1>2, <2>1, <3>3, <3>4 DEF NotBefore, Flight
    <3>6. flights[i].age \in 0 .. Timeout BY <2>1 DEF Flight
    <3>7. cache[q].items[k].age \in Int BY <2>1, <1>2 DEF Item, Horizon
    <3> QED BY <1>2, <3>2, <3>5, <3>6, <3>7 DEF NotBefore
  <2>3. CASE flights[i].lang # l
    <3>1. flights'[i] = flights[i] BY <2>3 DEF HandshakeDone
    <3> QED BY <1>3, <3>1 DEF Recent
  <2> QED BY <2>2, <2>3
<1> QED BY <1>1, <1>3 DEF Recent, NotBefore

LEMMA RecentTime ==
  ASSUME TypeOK, Recent, TimePasses
  PROVE  Recent'
<1>1. Ttl \in Nat \ {0} /\ Timeout \in Nat \ {0} /\ Horizon = Ttl - 1 + 2 * Timeout
  BY SymbolSearchAssumption DEF SymbolSearchAssumption, Horizon
<1>2. ASSUME NEW q \in Queries, NEW k \in DOMAIN cache'[q].items
      PROVE  /\ \A i \in DOMAIN flights' :
                  flights'[i].query = q => NotBefore(cache'[q].items[k], flights'[i])
             /\ cache'[q].age < Ttl => cache'[q].items[k].age <= cache'[q].age + 2 * Timeout
  <2> DEFINE old == cache[q].items[k].age
             new == cache'[q].items[k].age
  <2>1. /\ k \in DOMAIN cache[q].items
        /\ new = IF old <= Horizon THEN old + 1 ELSE Horizon + 1
        /\ IsCached(q) => cache'[q].age = IF cache[q].age < Ttl THEN cache[q].age + 1 ELSE Ttl
    BY <1>2, Aged
  <2>2. cache[q].items[k] \in Item /\ IsCached(q) /\ cache[q].age \in 0 .. Ttl
    BY <2>1, EntryProps
  <2>3. old \in 0 .. Horizon + 1 BY <2>2 DEF Item
  <2>4. cache[q].age < Ttl => old <= cache[q].age + 2 * Timeout BY <2>1 DEF Recent
  <2> HIDE DEF old, new
  <2>5. new <= old + 1 /\ new \in Int BY <1>1, <2>1, <2>3
  <2>6. cache'[q].age < Ttl => new <= cache'[q].age + 2 * Timeout
    BY <1>1, <2>1, <2>2, <2>3, <2>4, <2>5
  <2>7. ASSUME NEW i \in DOMAIN flights', flights'[i].query = q
        PROVE  NotBefore(cache'[q].items[k], flights'[i])
    <3>1. i \in DOMAIN flights /\ flights[i] \in Flight BY <2>7 DEF TimePasses, TypeOK
    <3>2. flights'[i] = [flights[i] EXCEPT !.age = flights[i].age + 1] BY <3>1 DEF TimePasses
    <3>3. /\ flights'[i].query = flights[i].query /\ flights'[i].sent = flights[i].sent
          /\ flights'[i].age = flights[i].age + 1
      BY <3>1, <3>2 DEF Flight
    <3>4. NotBefore(cache[q].items[k], flights[i]) BY <2>1, <2>7, <3>1, <3>3 DEF Recent
    <3>5. old <= flights[i].age + IF flights[i].sent THEN Timeout ELSE 0
      BY <3>4 DEF NotBefore, old
    <3>6. flights[i].age \in 0 .. Timeout BY <3>1 DEF Flight
    <3>7. new <= flights[i].age + 1 + IF flights[i].sent THEN Timeout ELSE 0
      BY <1>1, <2>3, <2>5, <3>5, <3>6
    <3> QED BY <3>3, <3>7 DEF NotBefore, new
  <2> QED BY <2>6, <2>7 DEF new
<1> QED BY <1>2 DEF Recent, NotBefore

LEMMA RecentNext == TypeOK /\ Held /\ Recent /\ [Next]_vars => Recent'
<1> SUFFICES ASSUME TypeOK, Held, Recent, [Next]_vars PROVE Recent' OBVIOUS
<1>1. ASSUME NEW q \in Queries, NEW kind \in Kinds, NEW limit \in Limits, SearchHit(q, kind, limit)
      PROVE  Recent'
  BY <1>1 DEF SearchHit, Recent, NotBefore
<1>2. ASSUME NEW q \in Queries, NEW kind \in Kinds, NEW limit \in Limits, SearchMiss(q, kind, limit)
      PROVE  Recent'
  BY <1>2, RecentMiss
<1>3. ASSUME NEW q \in Queries, NEW limit \in Limits, SearchText(q, limit) PROVE Recent'
  BY <1>3 DEF SearchText, Recent, NotBefore
<1>4. ASSUME NEW i \in DOMAIN flights, ReceiveNothing(i) PROVE Recent'
  BY <1>4, Ended, RecentKept DEF ReceiveNothing, Carried
<1>5. ASSUME NEW i \in DOMAIN flights, NEW symbols \in SUBSET Symbols, Receive(i, symbols)
      PROVE  Recent'
  BY <1>5, RecentReceive
<1>6. ASSUME NEW l \in Langs, ServerStarts(l) PROVE Recent'
  BY <1>6 DEF ServerStarts, Recent, NotBefore
<1>7. ASSUME NEW l \in Langs, HandshakeDone(l) PROVE Recent'
  BY <1>7, RecentHandshake
<1>8. ASSUME NEW l \in Langs, ServerDies(l) PROVE Recent'
  <2>1. PICK g : Carried(g) /\ \A k \in DOMAIN flights' : flights'[k] = flights[g[k]]
    BY <1>8, Died
  <2> QED BY <1>8, <2>1, RecentKept DEF ServerDies, Carried
<1>9. CASE TimePasses BY <1>9, RecentTime
<1>10. CASE UNCHANGED vars BY <1>10 DEF vars, Recent, NotBefore
<1> QED BY <1>1, <1>2, <1>3, <1>4, <1>5, <1>6, <1>7, <1>8, <1>9, <1>10 DEF Next

-----------------------------------------------------------------------------
(* The answers *)

\* A limited answer is part of what was found and keeps to the limit.
LEMMA LimitedProps ==
  ASSUME NEW S \in SUBSET Symbols, NEW limit \in Limits, NEW found \in Limited(S, limit)
  PROVE  found \subseteq S /\ Cardinality(found) <= limit
<1>1. limit \in Nat BY SymbolSearchAssumption DEF SymbolSearchAssumption
<1>2. CASE Cardinality(S) <= limit BY <1>2 DEF Limited
<1>3. CASE ~(Cardinality(S) <= limit)
  <2>1. found \in kSubset(limit, S) BY <1>3 DEF Limited
  <2> QED BY <2>1, <1>1 DEF kSubset
<1> QED BY <1>2, <1>3

LEMMA MatchesProps ==
  ASSUME NEW q \in Queries, NEW kind, NEW limit \in Limits, NEW found \in Matches(q, kind, limit)
  PROVE  /\ \A s \in found : kind \in {NoKind, KindOf[s]}
         /\ Cardinality(found) <= limit
<1>1. CASE q \in Blank /\ kind = NoKind
  <2>1. found = {} BY <1>1 DEF Matches
  <2>2. Cardinality(found) = 0 BY <2>1, FS_EmptySet
  <2> QED BY <2>1, <2>2, SymbolSearchAssumption DEF SymbolSearchAssumption
<1>2. CASE ~(q \in Blank /\ kind = NoKind)
  <2>1. Fts[q] \subseteq Symbols /\ Like[q] \subseteq Symbols
    BY SymbolSearchAssumption DEF SymbolSearchAssumption
  <2>2. \E S \in SUBSET Symbols : found \in Limited(OfKind(S, kind), limit)
    BY <1>2, <2>1 DEF Matches, Substring
  <2>3. PICK S \in SUBSET Symbols : found \in Limited(OfKind(S, kind), limit) BY <2>2
  <2>4. OfKind(S, kind) \in SUBSET Symbols BY DEF OfKind
  <2>5. found \subseteq OfKind(S, kind) /\ Cardinality(found) <= limit BY <2>3, <2>4, LimitedProps
  <2> QED BY <2>5 DEF OfKind
<1> QED BY <1>1, <1>2

LEMMA TextMatchesProps ==
  ASSUME NEW q \in Queries, NEW limit \in Limits, NEW found \in TextMatches(q, limit)
  PROVE  Cardinality(found) <= limit
<1>1. PICK first \in Matches(q, NoKind, limit) :
        found \in IF first # {} THEN {first} ELSE Limited((Like[q] \cup InDoc[q]), limit)
  BY DEF TextMatches
<1>2. CASE first # {} BY <1>1, <1>2, MatchesProps
<1>3. CASE first = {}
  <2>1. Like[q] \cup InDoc[q] \in SUBSET Symbols
    BY SymbolSearchAssumption DEF SymbolSearchAssumption
  <2> QED BY <1>1, <1>3, <2>1, LimitedProps
<1> QED BY <1>2, <1>3

\* An entry that is served holds nothing older than the horizon.
LEMMA ServedProps ==
  ASSUME TypeOK, Recent, NEW q \in Queries, IsFresh(q)
  PROVE  LET items == cache[q].items
         IN  Max({items[i].age : i \in DOMAIN items} \cup {0}) <= Horizon
<1> DEFINE items == cache[q].items
           S == {items[i].age : i \in DOMAIN items} \cup {0}
<1>1. Ttl \in Nat \ {0} /\ Timeout \in Nat \ {0} /\ Horizon = Ttl - 1 + 2 * Timeout
  BY SymbolSearchAssumption DEF SymbolSearchAssumption, Horizon
<1>2. cache[q].age \in 0 .. Ttl /\ cache[q].age < Ttl BY EntryProps DEF IsFresh
<1>3. ASSUME NEW i \in DOMAIN items PROVE items[i].age \in 0 .. Horizon
  <2>1. items[i].age <= cache[q].age + 2 * Timeout BY <1>2 DEF Recent
  <2>2. items[i].age \in 0 .. Horizon + 1 BY EntryProps DEF Item
  <2> QED BY <2>1, <2>2, <1>1, <1>2
<1>4. S \in SUBSET (0 .. Horizon) /\ S # {} /\ Horizon \in Nat BY <1>1, <1>3
<1> HIDE DEF S
<1>5. Max(S) \in 0 .. Horizon BY <1>4, MaxIsOne
<1> QED BY <1>5, <1>1 DEF S

ReplyOK == FallbackHonoursFilters /\ ServedIsRecent

LEMMA ReplyNext == TypeOK /\ Recent /\ ReplyOK /\ [Next]_vars => ReplyOK'
<1> SUFFICES ASSUME TypeOK, Recent, ReplyOK, [Next]_vars PROVE ReplyOK' OBVIOUS
<1>0. 0 <= Horizon BY SymbolSearchAssumption DEF SymbolSearchAssumption, Horizon
<1>n. ASSUME reply' = NoReply PROVE ReplyOK'
  BY <1>n, <1>0 DEF ReplyOK, FallbackHonoursFilters, ServedIsRecent, NoReply
<1>f. ASSUME NEW found, NEW kind, NEW limit \in Limits, AnswerFromIndex(found, kind, limit),
             \A s \in found : kind \in {NoKind, KindOf[s]}, Cardinality(found) <= limit
      PROVE  ReplyOK'
  BY <1>f, <1>0 DEF AnswerFromIndex, ReplyOK, FallbackHonoursFilters, ServedIsRecent
<1>1. ASSUME NEW q \in Queries, NEW kind \in Kinds, NEW limit \in Limits, SearchHit(q, kind, limit)
      PROVE  ReplyOK'
  <2>1. IsFresh(q) /\ AnswerFromCache(q, kind, limit) BY <1>1 DEF SearchHit
  <2>2. /\ reply'.source = "workspace-symbol"
        /\ reply'.oldest = LET items == cache[q].items
                           IN  Max({items[i].age : i \in DOMAIN items} \cup {0})
    BY <2>1 DEF AnswerFromCache
  <2>3. reply'.oldest <= Horizon BY <2>1, <2>2, ServedProps
  <2> QED BY <2>2, <2>3 DEF ReplyOK, FallbackHonoursFilters, ServedIsRecent
<1>2. ASSUME NEW q \in Queries, NEW kind \in Kinds, NEW limit \in Limits, SearchMiss(q, kind, limit)
      PROVE  ReplyOK'
  <2>1. PICK found \in Matches(q, kind, limit) : AnswerFromIndex(found, kind, limit)
    BY <1>2 DEF SearchMiss
  <2> QED BY <2>1, <1>f, MatchesProps
<1>3. ASSUME NEW q \in Queries, NEW limit \in Limits, SearchText(q, limit) PROVE ReplyOK'
  <2>1. PICK found \in TextMatches(q, limit) : AnswerFromIndex(found, NoKind, limit)
    BY <1>3 DEF SearchText
  <2> QED BY <2>1, <1>f, TextMatchesProps
<1>4. ASSUME NEW i \in DOMAIN flights, ReceiveNothing(i) PROVE ReplyOK'
  BY <1>4, <1>n DEF ReceiveNothing
<1>5. ASSUME NEW i \in DOMAIN flights, NEW symbols \in SUBSET Symbols, Receive(i, symbols)
      PROVE  ReplyOK'
  BY <1>5, <1>n DEF Receive
<1>6. ASSUME NEW l \in Langs, ServerStarts(l) \/ HandshakeDone(l) \/ ServerDies(l) PROVE ReplyOK'
  BY <1>6, <1>n DEF ServerStarts, HandshakeDone, ServerDies
<1>7. CASE TimePasses BY <1>7, <1>n DEF TimePasses
<1>8. CASE UNCHANGED vars
  BY <1>8 DEF vars, ReplyOK, FallbackHonoursFilters, ServedIsRecent
<1> QED BY <1>1, <1>2, <1>3, <1>4, <1>5, <1>6, <1>7, <1>8 DEF Next

-----------------------------------------------------------------------------
(* Theorems *)

Inv == TypeOK /\ OneEach /\ Held /\ Recent /\ ReplyOK

\* Inv holds in every state.
THEOREM Invariant == Spec => []Inv
<1>1. Init => Inv
  <2> SUFFICES ASSUME Init PROVE Inv OBVIOUS
  <2> USE DEF Init
  <2>1. TypeOK BY EmptySeq DEF TypeOK, Entry
  <2>2. \A q \in Queries : DOMAIN cache[q].items = {} BY DEF NoEntry
  <2>3. DOMAIN flights = {} OBVIOUS
  <2>4. OneEach /\ Held /\ Recent BY <2>2, <2>3 DEF OneEach, Held, Recent
  <2>5. 0 <= Horizon BY SymbolSearchAssumption DEF SymbolSearchAssumption, Horizon
  <2>6. ReplyOK BY <2>5 DEF ReplyOK, FallbackHonoursFilters, ServedIsRecent, NoReply
  <2> QED BY <2>1, <2>4, <2>6 DEF Inv
<1>2. Inv /\ [Next]_vars => Inv' BY TypeNext, OneEachNext, HeldNext, RecentNext, ReplyNext DEF Inv
<1> QED BY <1>1, <1>2, PTL DEF Spec

\* Whatever the index finds, by token, by substring or in the documentation, is of the kind that
\* was asked for and within the limit.
THEOREM FiltersHonoured == Spec => []FallbackHonoursFilters
<1>1. Inv => FallbackHonoursFilters BY DEF Inv, ReplyOK
<1> QED BY <1>1, Invariant, PTL

\* However answers, deaths and expiries interleave, an entry repeats a symbol only if the query
\* was asked again while one of its requests was out.
THEOREM RepeatedOnlyIfDoubled == Spec => []OnceUnlessDoubled
<1>1. Inv => OnceUnlessDoubled BY DEF Inv, OneEach, OnceUnlessDoubled, IsInjective
<1> QED BY <1>1, Invariant, PTL

\* Nothing served is older than the time to live and twice the timeout, however often late
\* answers renewed its entry.
THEOREM ServedRecently == Spec => []ServedIsRecent
<1>1. Inv => ServedIsRecent BY DEF Inv, ReplyOK
<1> QED BY <1>1, Invariant, PTL
=============================================================================
