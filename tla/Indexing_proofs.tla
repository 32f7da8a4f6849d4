--------------------------- MODULE Indexing_proofs ---------------------------
(***************************************************************************)
(* What holds of Indexing for every set of files, contents, tables and     *)
(* failures and for every bound: that rows behind their file are known to  *)
(* be (BehindIsTracked), that a stored hash is that of the rows            *)
(* (HashNamesSymbols), that the servers were asked about the rows that are *)
(* there (ResolvedUnlessTorn), and that the rows of a file are those of    *)
(* its last resolution (LastResolutionUnlessOverlap).                      *)
(*                                                                         *)
(* None of the first three is inductive: each speaks of files at rest, and *)
(* an analysis spreads over four steps during which nothing is true of its *)
(* file but what the variables in hand say.  The strengthening Inv is      *)
(* therefore mostly about the file in hand.                                *)
(***************************************************************************)
EXTENDS Indexing, TLAPS

-----------------------------------------------------------------------------
(* The inductive invariant *)

\* Where the main thread is: the initial scan resolves nothing, and the batch is empty
\* outside of the re-indexing loop.
ScanPlace ==
  /\ scanning => pc \notin {"lsp", "flush", "index", "resolve"}
  /\ pc = "scan" => scanning
  /\ (scanning \/ pc \in {"down", "lsp", "flush"}) => todo = {}

\* What analyze_file has read is what the file contains, or its change is noticed.
ReadIsCurrent ==
  (pc \in {"hash", "commit", "resolve"} /\ content # disk[file]) => file \in dirty

\* After the transaction the rows of the file in hand are those of what was read.
RowsInHand == pc = "resolve" => symbols[file] = content

\* The stored hash of the file in hand is the one that was just computed.
HashInHand ==
  pc \in {"commit", "resolve"} =>
    files[file] = hash /\ (hash \in {NullHash, content} \/ file \in dirty)

\* A file at rest that is not torn has the hash of its rows.
TornNamed ==
  \A f \in Files :
    (/\ pc # "down" /\ ~scanning /\ file # f
     /\ files[f] \in Contents /\ failed[f] = "no" /\ f \notin torn) =>
      files[f] = symbols[f]

\* A file in hand is torn as soon as its hash is that of another content.
HandNamed == (pc \in {"commit", "resolve"} /\ file \notin torn) => hash \in {NullHash, content}

\* Before the transaction the old hash of a file that is not torn is that of rows the servers
\* have been asked about ...
HandOld ==
  (/\ ~scanning /\ pc \in {"read", "hash", "commit"}
   /\ oldHash \in Contents /\ failed[file] = "no" /\ file \notin torn) =>
    oldHash = symbols[file] /\ (asked[file] = symbols[file] \/ file \in cold)

\* ... and so, if the new hash is the old one, they need not be asked again.
HandAsked ==
  (/\ pc = "resolve" /\ hash = oldHash /\ hash \in Contents
   /\ failed[file] = "no" /\ file \notin torn) =>
    asked[file] = symbols[file] \/ file \in cold

Inv ==
  /\ TypeOK /\ ScanPlace
  /\ ReadIsCurrent /\ RowsInHand /\ HashInHand
  /\ HandNamed /\ TornNamed /\ HandOld /\ HandAsked
  /\ BehindIsTracked /\ HashNamesSymbols /\ ResolvedUnlessTorn
  /\ LastResolutionUnlessOverlap

-----------------------------------------------------------------------------
(* Types *)

\* The part of TypeOK that the resolvers write.
ResolverOK ==
  /\ queued \subseteq Requests /\ inFlight \subseteq Requests
  /\ runs \in [Files -> Nat] /\ overlap \subseteq Files
  /\ asked \in [Files -> Contents \cup {None}]
  /\ rows \in [Tables -> [Files -> SUBSET Rows]]

\* A resolution keeps the types of what the resolvers write.
LEMMA ResolveOK == ASSUME TypeOK, NEW f \in Files, Resolve(f) PROVE ResolverOK'
<1> DEFINE run == runs[f] + 1
           requests == {[file |-> f, table |-> t, run |-> run, step |-> 1]
                        : t \in {u \in Tables : Asks(f, u)}}
<1> USE DEF TypeOK
<1>1. run \in Nat OBVIOUS
<1>2. requests \subseteq Requests BY <1>1 DEF Requests
<1>3. queued' \subseteq Requests /\ inFlight' \subseteq Requests
  BY <1>2 DEF Resolve, Send
<1>4. /\ runs' \in [Files -> Nat] /\ overlap' \subseteq Files
      /\ asked' \in [Files -> Contents \cup {None}]
  BY <1>1 DEF Resolve
<1>5. rows' \in [Tables -> [Files -> SUBSET Rows]]
  <2>1. [run |-> run, by |-> "parser"] \in Rows BY <1>1 DEF Rows
  <2>2. \A t \in Tables : rows'[t] \in [Files -> SUBSET Rows]
    BY <2>1 DEF Resolve
  <2> QED BY <2>2 DEF Resolve
<1> QED BY <1>3, <1>4, <1>5 DEF ResolverOK

\* Every step keeps the types.
LEMMA TypeNext == TypeOK /\ [Next]_vars => TypeOK'
<1> SUFFICES ASSUME TypeOK, [Next]_vars PROVE TypeOK' OBVIOUS
<1>r. ResolverOK BY DEF TypeOK, ResolverOK
<1> USE IndexingAssumption DEF IndexingAssumption, TypeOK, Pcs, Gates, disks, analysis, index,
        history, lsp, place

<1>1. CASE ReadContent
  BY <1>1 DEF ReadContent, Goto, Leave, Return, Fail
<1>2. CASE StoreHash
  BY <1>2 DEF StoreHash, Goto
<1>3. CASE StoreFails
  BY <1>3 DEF StoreFails, Leave, Return, Fail, Goto
<1>4. CASE Commit
  BY <1>4 DEF Commit, Goto, Leave
<1>5. CASE CommitFails
  BY <1>5 DEF CommitFails, Leave, Goto, Return, Fail
<1>6. CASE ScanDone
  BY <1>6 DEF ScanDone, Feed!ScanDone, Feed!world, Goto
<1>7. CASE DrainColdStart
  <2>1. ResolverOK'
    BY <1>7, <1>r, ResolveOK DEF DrainColdStart, ResolverOK
  <2> QED BY <1>7, <2>1 DEF DrainColdStart, Goto, ResolverOK
<1>8. CASE FlushReady
  BY <1>8 DEF FlushReady, Feed!FlushReady, Feed!world, Goto
<1>9. CASE ResolveIfChanged
  <2>1. ResolverOK'
    BY <1>9, <1>r, ResolveOK DEF ResolveIfChanged, ResolverOK
  <2> QED BY <1>9, <2>1 DEF ResolveIfChanged, Leave, Goto, ResolverOK
<1>10. CASE IndexDone
  BY <1>10 DEF IndexDone, Goto
<1>11. ASSUME NEW f \in toScan, ScanFile(f) PROVE TypeOK'
  BY <1>11 DEF ScanFile, Feed!ScanFile, Feed!world, Goto
<1>12. ASSUME NEW f \in todo, Reindex(f) PROVE TypeOK'
  BY <1>12 DEF Reindex, Feed!Reindex, Feed!world, Goto
<1>13. CASE ServerStarts
  BY <1>13 DEF ServerStarts
<1>14. CASE HandshakeDone
  BY <1>14 DEF HandshakeDone
<1>15. CASE ServerCrashes
  BY <1>15 DEF ServerCrashes
<1>16. ASSUME NEW request \in inFlight, Answer(request) PROVE TypeOK'
  <2>1. request \in Requests /\ [request EXCEPT !.step = 2] \in Requests
    BY DEF Requests
  <2>2. /\ [run |-> request.run, by |-> "server"] \in Rows
        /\ request.table \in Tables /\ request.file \in Files
    BY <2>1 DEF Requests, Rows
  <2>3. rows' \in [Tables -> [Files -> SUBSET Rows]]
    <3> DEFINE row == [run |-> request.run, by |-> "server"]
    <3>1. CASE request.table = "callers" /\ request.step = 1
      BY <1>16, <3>1 DEF Answer
    <3>2. CASE ~(request.table = "callers" /\ request.step = 1)
      <4> DEFINE more == [rows[request.table] EXCEPT
                            ![request.file] = rows[request.table][request.file] \cup {row}]
      <4>1. rows[request.table] \in [Files -> SUBSET Rows] BY <2>2
      <4>2. more \in [Files -> SUBSET Rows]
        BY <4>1, <2>2
      <4>3. rows' = [rows EXCEPT ![request.table] = more]
        BY <1>16, <3>2, <2>2 DEF Answer, Insert
      <4> HIDE DEF row, more
      <4> QED BY <2>2, <4>2, <4>3
    <3> QED BY <3>1, <3>2
  <2>4. queued' \subseteq Requests /\ inFlight' \subseteq Requests
    BY <1>16, <2>1 DEF Answer
  <2> QED BY <1>16, <2>3, <2>4 DEF Answer
<1>17. ASSUME NEW request \in inFlight, Unanswered(request) PROVE TypeOK'
  BY <1>17 DEF Unanswered
<1>18. CASE Start
  BY <1>18 DEF Start, Feed!Start, Feed!world, Goto
<1>19. CASE Crash
  BY <1>19 DEF Crash, Feed!Stop, Feed!world, Leave, Goto
<1>20. ASSUME NEW f \in Files, NEW c \in Contents, Write(f, c) PROVE TypeOK'
  BY <1>20 DEF Write, Feed!Write, Feed!world, Feed!Change, Feed!Reported
<1>21. ASSUME NEW f \in Files, Delete(f) PROVE TypeOK'
  BY <1>21 DEF Delete, Feed!Delete, Feed!world, Feed!Change, Feed!Reported
<1>22. CASE UNCHANGED vars
  BY <1>22 DEF vars
<1> QED BY <1>1, <1>2, <1>3, <1>4, <1>5, <1>6, <1>7, <1>8, <1>9, <1>10, <1>11, <1>12, <1>13,
        <1>14, <1>15, <1>16, <1>17, <1>18, <1>19, <1>20, <1>21, <1>22 DEF Next, MainStep,
        ServerStep, EnvironmentStep

-----------------------------------------------------------------------------
(* The parts of the invariant, each kept by every step *)

\* The initial scan and the batch keep to their places in the loop.
LEMMA PlaceNext ==
  TypeOK /\ ScanPlace /\ [Next]_vars => ScanPlace'
<1> SUFFICES ASSUME TypeOK, ScanPlace, [Next]_vars PROVE ScanPlace' OBVIOUS
<1> USE IndexingAssumption DEF IndexingAssumption, TypeOK, Pcs, Gates, disks, analysis, index,
        history, lsp, place, ScanPlace
<1>1. CASE ReadContent
  BY <1>1 DEF ReadContent, Goto, Leave, Return, Fail
<1>2. CASE StoreHash
  BY <1>2 DEF StoreHash, Goto
<1>3. CASE StoreFails
  BY <1>3 DEF StoreFails, Leave, Return, Fail, Goto
<1>4. CASE Commit
  BY <1>4 DEF Commit, Goto, Leave
<1>5. CASE CommitFails
  BY <1>5 DEF CommitFails, Leave, Goto, Return, Fail
<1>6. CASE ScanDone
  BY <1>6 DEF ScanDone, Feed!ScanDone, Feed!world, Goto
<1>7. CASE DrainColdStart
  BY <1>7 DEF DrainColdStart, Goto, Leave, Resolve
<1>8. CASE FlushReady
  BY <1>8 DEF FlushReady, Feed!FlushReady, Feed!world, Goto
<1>9. CASE ResolveIfChanged
  BY <1>9 DEF ResolveIfChanged, Goto, Leave, Resolve
<1>10. CASE IndexDone
  BY <1>10 DEF IndexDone, Goto
<1>11. ASSUME NEW f \in toScan, ScanFile(f) PROVE ScanPlace'
  BY <1>11 DEF ScanFile, Feed!ScanFile, Feed!world, Goto
<1>12. ASSUME NEW f \in todo, Reindex(f) PROVE ScanPlace'
  BY <1>12 DEF Reindex, Feed!Reindex, Feed!world, Goto
<1>13. CASE ServerStarts
  BY <1>13 DEF ServerStarts
<1>14. CASE HandshakeDone
  BY <1>14 DEF HandshakeDone
<1>15. CASE ServerCrashes
  BY <1>15 DEF ServerCrashes
<1>16. ASSUME NEW request \in inFlight, Answer(request) PROVE ScanPlace'
  BY <1>16 DEF Answer, Insert
<1>17. ASSUME NEW request \in inFlight, Unanswered(request) PROVE ScanPlace'
  BY <1>17 DEF Unanswered
<1>18. CASE Start
  BY <1>18 DEF Start, Feed!Start, Feed!world, Goto
<1>19. CASE Crash
  BY <1>19 DEF Crash, Feed!Stop, Feed!world, Leave, Goto
<1>20. ASSUME NEW f \in Files, NEW c \in Contents, Write(f, c) PROVE ScanPlace'
  BY <1>20 DEF Write, Feed!Write, Feed!world, Feed!Change, Feed!Reported
<1>21. ASSUME NEW f \in Files, Delete(f) PROVE ScanPlace'
  BY <1>21 DEF Delete, Feed!Delete, Feed!world, Feed!Change, Feed!Reported
<1>22. CASE UNCHANGED vars
  BY <1>22 DEF vars
<1> QED BY <1>1, <1>2, <1>3, <1>4, <1>5, <1>6, <1>7, <1>8, <1>9, <1>10, <1>11, <1>12, <1>13,
        <1>14, <1>15, <1>16, <1>17, <1>18, <1>19, <1>20, <1>21, <1>22 DEF Next, MainStep,
        ServerStep, EnvironmentStep

\* A write while the file is in hand makes it dirty, and only flush_ready takes a file out.
LEMMA CurrentNext ==
  TypeOK /\ ReadIsCurrent /\ RowsInHand /\ [Next]_vars => (ReadIsCurrent /\ RowsInHand)'
<1> SUFFICES ASSUME TypeOK, ReadIsCurrent, RowsInHand, [Next]_vars
             PROVE  (ReadIsCurrent /\ RowsInHand)'
  OBVIOUS
<1> USE IndexingAssumption DEF IndexingAssumption, TypeOK, Pcs, Gates, disks, analysis, index,
        history, lsp, place, ReadIsCurrent, RowsInHand
<1>1. CASE ReadContent
  BY <1>1 DEF ReadContent, Goto, Leave, Return, Fail
<1>2. CASE StoreHash
  BY <1>2 DEF StoreHash, Goto
<1>3. CASE StoreFails
  BY <1>3 DEF StoreFails, Leave, Return, Fail, Goto
<1>4. CASE Commit
  BY <1>4 DEF Commit, Goto, Leave
<1>5. CASE CommitFails
  BY <1>5 DEF CommitFails, Leave, Goto, Return, Fail
<1>6. CASE ScanDone
  BY <1>6 DEF ScanDone, Feed!ScanDone, Feed!world, Goto
<1>7. CASE DrainColdStart
  BY <1>7 DEF DrainColdStart, Goto, Leave, Resolve
<1>8. CASE FlushReady
  BY <1>8 DEF FlushReady, Feed!FlushReady, Feed!world, Goto
<1>9. CASE ResolveIfChanged
  BY <1>9 DEF ResolveIfChanged, Goto, Leave, Resolve
<1>10. CASE IndexDone
  BY <1>10 DEF IndexDone, Goto
<1>11. ASSUME NEW f \in toScan, ScanFile(f) PROVE (ReadIsCurrent /\ RowsInHand)'
  BY <1>11 DEF ScanFile, Feed!ScanFile, Feed!world, Goto
<1>12. ASSUME NEW f \in todo, Reindex(f) PROVE (ReadIsCurrent /\ RowsInHand)'
  BY <1>12 DEF Reindex, Feed!Reindex, Feed!world, Goto
<1>13. CASE ServerStarts
  BY <1>13 DEF ServerStarts
<1>14. CASE HandshakeDone
  BY <1>14 DEF HandshakeDone
<1>15. CASE ServerCrashes
  BY <1>15 DEF ServerCrashes
<1>16. ASSUME NEW request \in inFlight, Answer(request) PROVE (ReadIsCurrent /\ RowsInHand)'
  BY <1>16 DEF Answer, Insert
<1>17. ASSUME NEW request \in inFlight, Unanswered(request) PROVE (ReadIsCurrent /\ RowsInHand)'
  BY <1>17 DEF Unanswered
<1>18. CASE Start
  BY <1>18 DEF Start, Feed!Start, Feed!world, Goto
<1>19. CASE Crash
  BY <1>19 DEF Crash, Feed!Stop, Feed!world, Leave, Goto
<1>20. ASSUME NEW f \in Files, NEW c \in Contents, Write(f, c)
       PROVE  (ReadIsCurrent /\ RowsInHand)'
  BY <1>20 DEF Write, Feed!Write, Feed!world, Feed!Change, Feed!Reported
<1>21. ASSUME NEW f \in Files, Delete(f) PROVE (ReadIsCurrent /\ RowsInHand)'
  BY <1>21 DEF Delete, Feed!Delete, Feed!world, Feed!Change, Feed!Reported
<1>22. CASE UNCHANGED vars
  BY <1>22 DEF vars
<1> QED BY <1>1, <1>2, <1>3, <1>4, <1>5, <1>6, <1>7, <1>8, <1>9, <1>10, <1>11, <1>12, <1>13,
        <1>14, <1>15, <1>16, <1>17, <1>18, <1>19, <1>20, <1>21, <1>22 DEF Next, MainStep,
        ServerStep, EnvironmentStep

\* Every step that leaves rows behind their file leaves the file waiting, in hand or failed.
LEMMA BehindNext ==
  TypeOK /\ ScanPlace /\ ReadIsCurrent /\ RowsInHand /\ BehindIsTracked
    /\ [Next]_vars => BehindIsTracked'
<1> SUFFICES ASSUME TypeOK, ScanPlace, ReadIsCurrent, RowsInHand, BehindIsTracked, [Next]_vars
             PROVE  BehindIsTracked'
  OBVIOUS
<1> USE IndexingAssumption DEF IndexingAssumption, TypeOK, Pcs, Gates, disks, analysis, index,
        history, lsp, place, ScanPlace, ReadIsCurrent, RowsInHand, BehindIsTracked, Waiting
<1>1. CASE ReadContent
  BY <1>1 DEF ReadContent, Goto, Leave, Return, Fail
<1>2. CASE StoreHash
  BY <1>2 DEF StoreHash, Goto
<1>3. CASE StoreFails
  BY <1>3 DEF StoreFails, Leave, Return, Fail, Goto
<1>4. CASE Commit
  BY <1>4 DEF Commit, Goto, Leave
<1>5. CASE CommitFails
  BY <1>5 DEF CommitFails, Leave, Goto, Return, Fail
<1>6. CASE ScanDone
  BY <1>6 DEF ScanDone, Feed!ScanDone, Feed!world, Goto
<1>7. CASE DrainColdStart
  BY <1>7 DEF DrainColdStart, Goto, Leave, Resolve
<1>8. CASE FlushReady
  <2>1. dirty \subseteq dirty' \cup todo' BY <1>8 DEF FlushReady, Feed!FlushReady, Feed!world
  <2>2. todo = {} BY <1>8 DEF FlushReady, Feed!FlushReady, Feed!world
  <2> QED BY <1>8, <2>1, <2>2 DEF FlushReady, Feed!FlushReady, Feed!world, Goto
<1>9. CASE ResolveIfChanged
  BY <1>9 DEF ResolveIfChanged, Goto, Leave, Resolve
<1>10. CASE IndexDone
  BY <1>10 DEF IndexDone, Goto
<1>11. ASSUME NEW f \in toScan, ScanFile(f) PROVE BehindIsTracked'
  BY <1>11 DEF ScanFile, Feed!ScanFile, Feed!world, Goto
<1>12. ASSUME NEW f \in todo, Reindex(f) PROVE BehindIsTracked'
  BY <1>12 DEF Reindex, Feed!Reindex, Feed!world, Goto
<1>13. CASE ServerStarts
  BY <1>13 DEF ServerStarts
<1>14. CASE HandshakeDone
  BY <1>14 DEF HandshakeDone
<1>15. CASE ServerCrashes
  BY <1>15 DEF ServerCrashes
<1>16. ASSUME NEW request \in inFlight, Answer(request) PROVE BehindIsTracked'
  BY <1>16 DEF Answer, Insert
<1>17. ASSUME NEW request \in inFlight, Unanswered(request) PROVE BehindIsTracked'
  BY <1>17 DEF Unanswered
<1>18. CASE Start
  BY <1>18 DEF Start, Feed!Start, Feed!world, Goto
<1>19. CASE Crash
  BY <1>19 DEF Crash, Feed!Stop, Feed!world, Leave, Goto
<1>20. ASSUME NEW f \in Files, NEW c \in Contents, Write(f, c) PROVE BehindIsTracked'
  BY <1>20 DEF Write, Feed!Write, Feed!world, Feed!Change, Feed!Reported
<1>21. ASSUME NEW f \in Files, Delete(f) PROVE BehindIsTracked'
  BY <1>21 DEF Delete, Feed!Delete, Feed!world, Feed!Change, Feed!Reported
<1>22. CASE UNCHANGED vars
  BY <1>22 DEF vars
<1> QED BY <1>1, <1>2, <1>3, <1>4, <1>5, <1>6, <1>7, <1>8, <1>9, <1>10, <1>11, <1>12, <1>13,
        <1>14, <1>15, <1>16, <1>17, <1>18, <1>19, <1>20, <1>21, <1>22 DEF Next, MainStep,
        ServerStep, EnvironmentStep

\* The hash is stored once while the file is in hand, of what it contains at that time.
LEMMA HashNext ==
  TypeOK /\ ReadIsCurrent /\ RowsInHand /\ HashInHand /\ [Next]_vars => HashInHand'
<1> SUFFICES ASSUME TypeOK, ReadIsCurrent, RowsInHand, HashInHand, [Next]_vars
             PROVE  HashInHand'
  OBVIOUS
<1> USE IndexingAssumption DEF IndexingAssumption, TypeOK, Pcs, Gates, disks, analysis, index,
        history, lsp, place, ReadIsCurrent, RowsInHand, HashInHand
<1>1. CASE ReadContent
  BY <1>1 DEF ReadContent, Goto, Leave, Return, Fail
<1>2. CASE StoreHash
  <2>1. pc = "hash" /\ pc' = "commit" /\ file \in Files /\ content \in Contents
    BY <1>2 DEF StoreHash, Goto
  <2>2. hash' \in {disk[file], NullHash} /\ files' = [files EXCEPT ![file] = hash']
    BY <1>2 DEF StoreHash
  <2>3. UNCHANGED <<file, content, dirty, disk>> BY <1>2 DEF StoreHash
  <2> QED BY <2>1, <2>2, <2>3
<1>3. CASE StoreFails
  BY <1>3 DEF StoreFails, Leave, Return, Fail, Goto
<1>4. CASE Commit
  BY <1>4 DEF Commit, Goto, Leave
<1>5. CASE CommitFails
  BY <1>5 DEF CommitFails, Leave, Goto, Return, Fail
<1>6. CASE ScanDone
  BY <1>6 DEF ScanDone, Feed!ScanDone, Feed!world, Goto
<1>7. CASE DrainColdStart
  BY <1>7 DEF DrainColdStart, Goto, Leave, Resolve
<1>8. CASE FlushReady
  BY <1>8 DEF FlushReady, Feed!FlushReady, Feed!world, Goto
<1>9. CASE ResolveIfChanged
  BY <1>9 DEF ResolveIfChanged, Goto, Leave, Resolve
<1>10. CASE IndexDone
  BY <1>10 DEF IndexDone, Goto
<1>11. ASSUME NEW f \in toScan, ScanFile(f) PROVE HashInHand'
  BY <1>11 DEF ScanFile, Feed!ScanFile, Feed!world, Goto
<1>12. ASSUME NEW f \in todo, Reindex(f) PROVE HashInHand'
  BY <1>12 DEF Reindex, Feed!Reindex, Feed!world, Goto
<1>13. CASE ServerStarts
  BY <1>13 DEF ServerStarts
<1>14. CASE HandshakeDone
  BY <1>14 DEF HandshakeDone
<1>15. CASE ServerCrashes
  BY <1>15 DEF ServerCrashes
<1>16. ASSUME NEW request \in inFlight, Answer(request) PROVE HashInHand'
  BY <1>16 DEF Answer, Insert
<1>17. ASSUME NEW request \in inFlight, Unanswered(request) PROVE HashInHand'
  BY <1>17 DEF Unanswered
<1>18. CASE Start
  BY <1>18 DEF Start, Feed!Start, Feed!world, Goto
<1>19. CASE Crash
  BY <1>19 DEF Crash, Feed!Stop, Feed!world, Leave, Goto
<1>20. ASSUME NEW f \in Files, NEW c \in Contents, Write(f, c) PROVE HashInHand'
  BY <1>20 DEF Write, Feed!Write, Feed!world, Feed!Change, Feed!Reported
<1>21. ASSUME NEW f \in Files, Delete(f) PROVE HashInHand'
  BY <1>21 DEF Delete, Feed!Delete, Feed!world, Feed!Change, Feed!Reported
<1>22. CASE UNCHANGED vars
  BY <1>22 DEF vars
<1> QED BY <1>1, <1>2, <1>3, <1>4, <1>5, <1>6, <1>7, <1>8, <1>9, <1>10, <1>11, <1>12, <1>13,
        <1>14, <1>15, <1>16, <1>17, <1>18, <1>19, <1>20, <1>21, <1>22 DEF Next, MainStep,
        ServerStep, EnvironmentStep

\* When the file is put down, its hash names its rows, or it is dirty again.
LEMMA NamesNext ==
  TypeOK /\ ScanPlace /\ RowsInHand /\ HashInHand /\ HashNamesSymbols
    /\ [Next]_vars => HashNamesSymbols'
<1> SUFFICES ASSUME TypeOK, ScanPlace, RowsInHand, HashInHand, HashNamesSymbols, [Next]_vars
             PROVE  HashNamesSymbols'
  OBVIOUS
<1> USE IndexingAssumption DEF IndexingAssumption, TypeOK, Pcs, Gates, disks, analysis, index,
        history, lsp, place, ScanPlace, RowsInHand, HashInHand, HashNamesSymbols, Waiting
<1>1. CASE ReadContent
  BY <1>1 DEF ReadContent, Goto, Leave, Return, Fail
<1>2. CASE StoreHash
  BY <1>2 DEF StoreHash, Goto
<1>3. CASE StoreFails
  BY <1>3 DEF StoreFails, Leave, Return, Fail, Goto
<1>4. CASE Commit
  BY <1>4 DEF Commit, Goto, Leave
<1>5. CASE CommitFails
  BY <1>5 DEF CommitFails, Leave, Goto, Return, Fail
<1>6. CASE ScanDone
  BY <1>6 DEF ScanDone, Feed!ScanDone, Feed!world, Goto
<1>7. CASE DrainColdStart
  BY <1>7 DEF DrainColdStart, Goto, Leave, Resolve
<1>8. CASE FlushReady
  <2>1. dirty \subseteq dirty' \cup todo' BY <1>8 DEF FlushReady, Feed!FlushReady, Feed!world
  <2>2. todo = {} BY <1>8 DEF FlushReady, Feed!FlushReady, Feed!world
  <2> QED BY <1>8, <2>1, <2>2 DEF FlushReady, Feed!FlushReady, Feed!world, Goto
<1>9. CASE ResolveIfChanged
  BY <1>9 DEF ResolveIfChanged, Goto, Leave, Resolve
<1>10. CASE IndexDone
  BY <1>10 DEF IndexDone, Goto
<1>11. ASSUME NEW f \in toScan, ScanFile(f) PROVE HashNamesSymbols'
  BY <1>11 DEF ScanFile, Feed!ScanFile, Feed!world, Goto
<1>12. ASSUME NEW f \in todo, Reindex(f) PROVE HashNamesSymbols'
  BY <1>12 DEF Reindex, Feed!Reindex, Feed!world, Goto
<1>13. CASE ServerStarts
  BY <1>13 DEF ServerStarts
<1>14. CASE HandshakeDone
  BY <1>14 DEF HandshakeDone
<1>15. CASE ServerCrashes
  BY <1>15 DEF ServerCrashes
<1>16. ASSUME NEW request \in inFlight, Answer(request) PROVE HashNamesSymbols'
  BY <1>16 DEF Answer, Insert
<1>17. ASSUME NEW request \in inFlight, Unanswered(request) PROVE HashNamesSymbols'
  BY <1>17 DEF Unanswered
<1>18. CASE Start
  BY <1>18 DEF Start, Feed!Start, Feed!world, Goto
<1>19. CASE Crash
  BY <1>19 DEF Crash, Feed!Stop, Feed!world, Leave, Goto
<1>20. ASSUME NEW f \in Files, NEW c \in Contents, Write(f, c) PROVE HashNamesSymbols'
  BY <1>20 DEF Write, Feed!Write, Feed!world, Feed!Change, Feed!Reported
<1>21. ASSUME NEW f \in Files, Delete(f) PROVE HashNamesSymbols'
  BY <1>21 DEF Delete, Feed!Delete, Feed!world, Feed!Change, Feed!Reported
<1>22. CASE UNCHANGED vars
  BY <1>22 DEF vars
<1> QED BY <1>1, <1>2, <1>3, <1>4, <1>5, <1>6, <1>7, <1>8, <1>9, <1>10, <1>11, <1>12, <1>13,
        <1>14, <1>15, <1>16, <1>17, <1>18, <1>19, <1>20, <1>21, <1>22 DEF Next, MainStep,
        ServerStep, EnvironmentStep

\* Only the store of a hash that is not that of the content read can part hash and rows.
LEMMA TornNext ==
  TypeOK /\ ScanPlace /\ RowsInHand /\ HashInHand /\ HandNamed /\ TornNamed
    /\ [Next]_vars => (HandNamed /\ TornNamed)'
<1> SUFFICES ASSUME TypeOK, ScanPlace, RowsInHand, HashInHand, HandNamed, TornNamed, [Next]_vars
             PROVE  (HandNamed /\ TornNamed)'
  OBVIOUS
<1> USE IndexingAssumption DEF IndexingAssumption, TypeOK, Pcs, Gates, disks, analysis, index,
        history, lsp, place, ScanPlace, RowsInHand, HashInHand, HandNamed, TornNamed
<1>1. CASE ReadContent
  BY <1>1 DEF ReadContent, Goto, Leave, Return, Fail
<1>2. CASE StoreHash
  BY <1>2 DEF StoreHash, Goto
<1>3. CASE StoreFails
  BY <1>3 DEF StoreFails, Leave, Return, Fail, Goto
<1>4. CASE Commit
  BY <1>4 DEF Commit, Goto, Leave
<1>5. CASE CommitFails
  BY <1>5 DEF CommitFails, Leave, Goto, Return, Fail
<1>6. CASE ScanDone
  BY <1>6 DEF ScanDone, Feed!ScanDone, Feed!world, Goto
<1>7. CASE DrainColdStart
  BY <1>7 DEF DrainColdStart, Goto, Leave, Resolve
<1>8. CASE FlushReady
  BY <1>8 DEF FlushReady, Feed!FlushReady, Feed!world, Goto
<1>9. CASE ResolveIfChanged
  BY <1>9 DEF ResolveIfChanged, Goto, Leave, Resolve
<1>10. CASE IndexDone
  BY <1>10 DEF IndexDone, Goto
<1>11. ASSUME NEW f \in toScan, ScanFile(f) PROVE (HandNamed /\ TornNamed)'
  BY <1>11 DEF ScanFile, Feed!ScanFile, Feed!world, Goto
<1>12. ASSUME NEW f \in todo, Reindex(f) PROVE (HandNamed /\ TornNamed)'
  BY <1>12 DEF Reindex, Feed!Reindex, Feed!world, Goto
<1>13. CASE ServerStarts
  BY <1>13 DEF ServerStarts
<1>14. CASE HandshakeDone
  BY <1>14 DEF HandshakeDone
<1>15. CASE ServerCrashes
  BY <1>15 DEF ServerCrashes
<1>16. ASSUME NEW request \in inFlight, Answer(request) PROVE (HandNamed /\ TornNamed)'
  BY <1>16 DEF Answer, Insert
<1>17. ASSUME NEW request \in inFlight, Unanswered(request) PROVE (HandNamed /\ TornNamed)'
  BY <1>17 DEF Unanswered
<1>18. CASE Start
  BY <1>18 DEF Start, Feed!Start, Feed!world, Goto
<1>19. CASE Crash
  BY <1>19 DEF Crash, Feed!Stop, Feed!world, Leave, Goto
<1>20. ASSUME NEW f \in Files, NEW c \in Contents, Write(f, c) PROVE (HandNamed /\ TornNamed)'
  BY <1>20 DEF Write, Feed!Write, Feed!world, Feed!Change, Feed!Reported
<1>21. ASSUME NEW f \in Files, Delete(f) PROVE (HandNamed /\ TornNamed)'
  BY <1>21 DEF Delete, Feed!Delete, Feed!world, Feed!Change, Feed!Reported
<1>22. CASE UNCHANGED vars
  BY <1>22 DEF vars
<1> QED BY <1>1, <1>2, <1>3, <1>4, <1>5, <1>6, <1>7, <1>8, <1>9, <1>10, <1>11, <1>12, <1>13,
        <1>14, <1>15, <1>16, <1>17, <1>18, <1>19, <1>20, <1>21, <1>22 DEF Next, MainStep,
        ServerStep, EnvironmentStep

\* The old hash is read at rest, and nothing is resolved until the file is put down.
LEMMA OldNext ==
  TypeOK /\ ScanPlace /\ HandNamed /\ TornNamed /\ ResolvedUnlessTorn /\ HandOld
    /\ [Next]_vars => HandOld'
<1> SUFFICES ASSUME TypeOK, ScanPlace, HandNamed, TornNamed,
                    ResolvedUnlessTorn, HandOld, [Next]_vars
             PROVE  HandOld'
  OBVIOUS
<1> USE IndexingAssumption DEF IndexingAssumption, TypeOK, Pcs, Gates, disks, analysis, index,
        history, lsp, place, ScanPlace, HandNamed, TornNamed, ResolvedUnlessTorn, HandOld
<1>1. CASE ReadContent
  BY <1>1 DEF ReadContent, Goto, Leave, Return, Fail
<1>2. CASE StoreHash
  BY <1>2 DEF StoreHash, Goto
<1>3. CASE StoreFails
  BY <1>3 DEF StoreFails, Leave, Return, Fail, Goto
<1>4. CASE Commit
  BY <1>4 DEF Commit, Goto, Leave
<1>5. CASE CommitFails
  BY <1>5 DEF CommitFails, Leave, Goto, Return, Fail
<1>6. CASE ScanDone
  BY <1>6 DEF ScanDone, Feed!ScanDone, Feed!world, Goto
<1>7. CASE DrainColdStart
  BY <1>7 DEF DrainColdStart, Goto, Leave, Resolve
<1>8. CASE FlushReady
  BY <1>8 DEF FlushReady, Feed!FlushReady, Feed!world, Goto
<1>9. CASE ResolveIfChanged
  BY <1>9 DEF ResolveIfChanged, Goto, Leave, Resolve
<1>10. CASE IndexDone
  BY <1>10 DEF IndexDone, Goto
<1>11. ASSUME NEW f \in toScan, ScanFile(f) PROVE HandOld'
  BY <1>11 DEF ScanFile, Feed!ScanFile, Feed!world, Goto
<1>12. ASSUME NEW f \in todo, Reindex(f) PROVE HandOld'
  BY <1>12 DEF Reindex, Feed!Reindex, Feed!world, Goto
<1>13. CASE ServerStarts
  BY <1>13 DEF ServerStarts
<1>14. CASE HandshakeDone
  BY <1>14 DEF HandshakeDone
<1>15. CASE ServerCrashes
  BY <1>15 DEF ServerCrashes
<1>16. ASSUME NEW request \in inFlight, Answer(request) PROVE HandOld'
  BY <1>16 DEF Answer, Insert
<1>17. ASSUME NEW request \in inFlight, Unanswered(request) PROVE HandOld'
  BY <1>17 DEF Unanswered
<1>18. CASE Start
  BY <1>18 DEF Start, Feed!Start, Feed!world, Goto
<1>19. CASE Crash
  BY <1>19 DEF Crash, Feed!Stop, Feed!world, Leave, Goto
<1>20. ASSUME NEW f \in Files, NEW c \in Contents, Write(f, c) PROVE HandOld'
  BY <1>20 DEF Write, Feed!Write, Feed!world, Feed!Change, Feed!Reported
<1>21. ASSUME NEW f \in Files, Delete(f) PROVE HandOld'
  BY <1>21 DEF Delete, Feed!Delete, Feed!world, Feed!Change, Feed!Reported
<1>22. CASE UNCHANGED vars
  BY <1>22 DEF vars
<1> QED BY <1>1, <1>2, <1>3, <1>4, <1>5, <1>6, <1>7, <1>8, <1>9, <1>10, <1>11, <1>12, <1>13,
        <1>14, <1>15, <1>16, <1>17, <1>18, <1>19, <1>20, <1>21, <1>22 DEF Next, MainStep,
        ServerStep, EnvironmentStep

\* The transaction gives a file of unchanged hash the rows it had.
LEMMA AskedNext ==
  TypeOK /\ ScanPlace /\ RowsInHand /\ HandNamed /\ HandOld /\ HandAsked
    /\ [Next]_vars => HandAsked'
<1> SUFFICES ASSUME TypeOK, ScanPlace, RowsInHand, HandNamed, HandOld, HandAsked, [Next]_vars
             PROVE  HandAsked'
  OBVIOUS
<1> USE IndexingAssumption DEF IndexingAssumption, TypeOK, Pcs, Gates, disks, analysis, index,
        history, lsp, place, ScanPlace, RowsInHand, HandNamed, HandOld, HandAsked
<1>1. CASE ReadContent
  BY <1>1 DEF ReadContent, Goto, Leave, Return, Fail
<1>2. CASE StoreHash
  BY <1>2 DEF StoreHash, Goto
<1>3. CASE StoreFails
  BY <1>3 DEF StoreFails, Leave, Return, Fail, Goto
<1>4. CASE Commit
  BY <1>4 DEF Commit, Goto, Leave
<1>5. CASE CommitFails
  BY <1>5 DEF CommitFails, Leave, Goto, Return, Fail
<1>6. CASE ScanDone
  BY <1>6 DEF ScanDone, Feed!ScanDone, Feed!world, Goto
<1>7. CASE DrainColdStart
  BY <1>7 DEF DrainColdStart, Goto, Leave, Resolve
<1>8. CASE FlushReady
  BY <1>8 DEF FlushReady, Feed!FlushReady, Feed!world, Goto
<1>9. CASE ResolveIfChanged
  BY <1>9 DEF ResolveIfChanged, Goto, Leave, Resolve
<1>10. CASE IndexDone
  BY <1>10 DEF IndexDone, Goto
<1>11. ASSUME NEW f \in toScan, ScanFile(f) PROVE HandAsked'
  BY <1>11 DEF ScanFile, Feed!ScanFile, Feed!world, Goto
<1>12. ASSUME NEW f \in todo, Reindex(f) PROVE HandAsked'
  BY <1>12 DEF Reindex, Feed!Reindex, Feed!world, Goto
<1>13. CASE ServerStarts
  BY <1>13 DEF ServerStarts
<1>14. CASE HandshakeDone
  BY <1>14 DEF HandshakeDone
<1>15. CASE ServerCrashes
  BY <1>15 DEF ServerCrashes
<1>16. ASSUME NEW request \in inFlight, Answer(request) PROVE HandAsked'
  BY <1>16 DEF Answer, Insert
<1>17. ASSUME NEW request \in inFlight, Unanswered(request) PROVE HandAsked'
  BY <1>17 DEF Unanswered
<1>18. CASE Start
  BY <1>18 DEF Start, Feed!Start, Feed!world, Goto
<1>19. CASE Crash
  BY <1>19 DEF Crash, Feed!Stop, Feed!world, Leave, Goto
<1>20. ASSUME NEW f \in Files, NEW c \in Contents, Write(f, c) PROVE HandAsked'
  BY <1>20 DEF Write, Feed!Write, Feed!world, Feed!Change, Feed!Reported
<1>21. ASSUME NEW f \in Files, Delete(f) PROVE HandAsked'
  BY <1>21 DEF Delete, Feed!Delete, Feed!world, Feed!Change, Feed!Reported
<1>22. CASE UNCHANGED vars
  BY <1>22 DEF vars
<1> QED BY <1>1, <1>2, <1>3, <1>4, <1>5, <1>6, <1>7, <1>8, <1>9, <1>10, <1>11, <1>12, <1>13,
        <1>14, <1>15, <1>16, <1>17, <1>18, <1>19, <1>20, <1>21, <1>22 DEF Next, MainStep,
        ServerStep, EnvironmentStep

\* A file is put down resolved, or with the hash it had.
LEMMA ResolvedNext ==
  TypeOK /\ ScanPlace /\ HandNamed /\ HashInHand /\ HandAsked /\ ResolvedUnlessTorn
    /\ [Next]_vars => ResolvedUnlessTorn'
<1> SUFFICES ASSUME TypeOK, ScanPlace, HandNamed, HashInHand,
                    HandAsked, ResolvedUnlessTorn, [Next]_vars
             PROVE  ResolvedUnlessTorn'
  OBVIOUS
<1> USE IndexingAssumption DEF IndexingAssumption, TypeOK, Pcs, Gates, disks, analysis, index,
        history, lsp, place, ScanPlace, HandNamed, HashInHand, HandAsked, ResolvedUnlessTorn
<1>1. CASE ReadContent
  BY <1>1 DEF ReadContent, Goto, Leave, Return, Fail
<1>2. CASE StoreHash
  BY <1>2 DEF StoreHash, Goto
<1>3. CASE StoreFails
  BY <1>3 DEF StoreFails, Leave, Return, Fail, Goto
<1>4. CASE Commit
  BY <1>4 DEF Commit, Goto, Leave
<1>5. CASE CommitFails
  BY <1>5 DEF CommitFails, Leave, Goto, Return, Fail
<1>6. CASE ScanDone
  BY <1>6 DEF ScanDone, Feed!ScanDone, Feed!world, Goto
<1>7. CASE DrainColdStart
  <2>1. CASE AllBackendsReady /\ \E f \in cold : cold' = cold \ {f} /\ Resolve(f)
    <3>1. PICK f \in cold : cold' = cold \ {f} /\ Resolve(f) BY <2>1
    <3>2. asked' = [asked EXCEPT ![f] = symbols[f]] /\ cold' = cold \ {f}
      BY <3>1 DEF Resolve
    <3>3. UNCHANGED <<files, symbols, failed, torn, file, scanning>> /\ pc # "down"
      BY <1>7 DEF DrainColdStart
    <3> QED BY <3>2, <3>3
  <2>2. CASE UNCHANGED <<cold, queued, inFlight, runs, overlap, asked, rows>>
    BY <1>7, <2>2 DEF DrainColdStart, Goto
  <2> QED BY <1>7, <2>1, <2>2 DEF DrainColdStart
<1>8. CASE FlushReady
  BY <1>8 DEF FlushReady, Feed!FlushReady, Feed!world, Goto
<1>9. CASE ResolveIfChanged
  BY <1>9 DEF ResolveIfChanged, Goto, Leave, Resolve
<1>10. CASE IndexDone
  BY <1>10 DEF IndexDone, Goto
<1>11. ASSUME NEW f \in toScan, ScanFile(f) PROVE ResolvedUnlessTorn'
  BY <1>11 DEF ScanFile, Feed!ScanFile, Feed!world, Goto
<1>12. ASSUME NEW f \in todo, Reindex(f) PROVE ResolvedUnlessTorn'
  BY <1>12 DEF Reindex, Feed!Reindex, Feed!world, Goto
<1>13. CASE ServerStarts
  BY <1>13 DEF ServerStarts
<1>14. CASE HandshakeDone
  BY <1>14 DEF HandshakeDone
<1>15. CASE ServerCrashes
  BY <1>15 DEF ServerCrashes
<1>16. ASSUME NEW request \in inFlight, Answer(request) PROVE ResolvedUnlessTorn'
  BY <1>16 DEF Answer, Insert
<1>17. ASSUME NEW request \in inFlight, Unanswered(request) PROVE ResolvedUnlessTorn'
  BY <1>17 DEF Unanswered
<1>18. CASE Start
  BY <1>18 DEF Start, Feed!Start, Feed!world, Goto
<1>19. CASE Crash
  BY <1>19 DEF Crash, Feed!Stop, Feed!world, Leave, Goto
<1>20. ASSUME NEW f \in Files, NEW c \in Contents, Write(f, c) PROVE ResolvedUnlessTorn'
  BY <1>20 DEF Write, Feed!Write, Feed!world, Feed!Change, Feed!Reported
<1>21. ASSUME NEW f \in Files, Delete(f) PROVE ResolvedUnlessTorn'
  BY <1>21 DEF Delete, Feed!Delete, Feed!world, Feed!Change, Feed!Reported
<1>22. CASE UNCHANGED vars
  BY <1>22 DEF vars
<1> QED BY <1>1, <1>2, <1>3, <1>4, <1>5, <1>6, <1>7, <1>8, <1>9, <1>10, <1>11, <1>12, <1>13,
        <1>14, <1>15, <1>16, <1>17, <1>18, <1>19, <1>20, <1>21, <1>22 DEF Next, MainStep,
        ServerStep, EnvironmentStep

\* A resolution deletes the rows of the earlier ones; an answer brings those of its own.
LEMMA LastNext ==
  TypeOK /\ LastResolutionUnlessOverlap /\ [Next]_vars => LastResolutionUnlessOverlap'
<1> SUFFICES ASSUME TypeOK, LastResolutionUnlessOverlap, [Next]_vars
             PROVE  LastResolutionUnlessOverlap'
  OBVIOUS
<1> USE IndexingAssumption DEF IndexingAssumption, TypeOK, Pcs, Gates, disks, analysis, index,
        history, lsp, place, LastResolutionUnlessOverlap, Held, Send, Requests, Rows
<1>1. CASE ReadContent
  BY <1>1 DEF ReadContent, Goto, Leave, Return, Fail
<1>2. CASE StoreHash
  BY <1>2 DEF StoreHash, Goto
<1>3. CASE StoreFails
  BY <1>3 DEF StoreFails, Leave, Return, Fail, Goto
<1>4. CASE Commit
  BY <1>4 DEF Commit, Goto, Leave
<1>5. CASE CommitFails
  BY <1>5 DEF CommitFails, Leave, Goto, Return, Fail
<1>6. CASE ScanDone
  BY <1>6 DEF ScanDone, Feed!ScanDone, Feed!world, Goto
<1>7. CASE DrainColdStart
  BY <1>7 DEF DrainColdStart, Goto, Leave, Resolve
<1>8. CASE FlushReady
  BY <1>8 DEF FlushReady, Feed!FlushReady, Feed!world, Goto
<1>9. CASE ResolveIfChanged
  BY <1>9 DEF ResolveIfChanged, Goto, Leave, Resolve
<1>10. CASE IndexDone
  BY <1>10 DEF IndexDone, Goto
<1>11. ASSUME NEW f \in toScan, ScanFile(f) PROVE LastResolutionUnlessOverlap'
  BY <1>11 DEF ScanFile, Feed!ScanFile, Feed!world, Goto
<1>12. ASSUME NEW f \in todo, Reindex(f) PROVE LastResolutionUnlessOverlap'
  BY <1>12 DEF Reindex, Feed!Reindex, Feed!world, Goto
<1>13. CASE ServerStarts
  BY <1>13 DEF ServerStarts
<1>14. CASE HandshakeDone
  BY <1>14 DEF HandshakeDone
<1>15. CASE ServerCrashes
  BY <1>15 DEF ServerCrashes
<1>16. ASSUME NEW request \in inFlight, Answer(request) PROVE LastResolutionUnlessOverlap'
  <2>1. request \in Requests /\ request.table \in Tables /\ request.file \in Files BY DEF Requests
  <2>2. UNCHANGED <<runs, overlap>> BY <1>16 DEF Answer
  <2>3. CASE request.table = "callers" /\ request.step = 1
    BY <1>16, <2>1, <2>3 DEF Answer
  <2>4. CASE ~(request.table = "callers" /\ request.step = 1)
    <3>1. Held' \subseteq Held BY <1>16, <2>4 DEF Answer
    <3>2. \A t \in Tables, f \in Files : \A row \in rows'[t][f] :
            row \in rows[t][f] \/ (f = request.file /\ row.run = request.run)
      BY <1>16, <2>1, <2>4 DEF Answer, Insert
    <3>3. request \in Held OBVIOUS
    <3> QED BY <2>1, <2>2, <3>1, <3>2, <3>3
  <2> QED BY <2>3, <2>4
<1>17. ASSUME NEW request \in inFlight, Unanswered(request) PROVE LastResolutionUnlessOverlap'
  BY <1>17 DEF Unanswered
<1>18. CASE Start
  BY <1>18 DEF Start, Feed!Start, Feed!world, Goto
<1>19. CASE Crash
  BY <1>19 DEF Crash, Feed!Stop, Feed!world, Leave, Goto
<1>20. ASSUME NEW f \in Files, NEW c \in Contents, Write(f, c)
       PROVE  LastResolutionUnlessOverlap'
  BY <1>20 DEF Write, Feed!Write, Feed!world, Feed!Change, Feed!Reported
<1>21. ASSUME NEW f \in Files, Delete(f) PROVE LastResolutionUnlessOverlap'
  BY <1>21 DEF Delete, Feed!Delete, Feed!world, Feed!Change, Feed!Reported
<1>22. CASE UNCHANGED vars
  BY <1>22 DEF vars
<1> QED BY <1>1, <1>2, <1>3, <1>4, <1>5, <1>6, <1>7, <1>8, <1>9, <1>10, <1>11, <1>12, <1>13,
        <1>14, <1>15, <1>16, <1>17, <1>18, <1>19, <1>20, <1>21, <1>22 DEF Next, MainStep,
        ServerStep, EnvironmentStep

-----------------------------------------------------------------------------
(* The theorems *)

\* Nothing is in hand before the first start, and no table has a row.
LEMMA InvInit == Init => Inv
<1> SUFFICES ASSUME Init PROVE Inv OBVIOUS
<1> USE IndexingAssumption DEF IndexingAssumption, Init
<1>1. TypeOK
  <2>1. rows \in [Tables -> [Files -> SUBSET Rows]] OBVIOUS
  <2>2. /\ runs \in [Files -> Nat] /\ queued \subseteq Requests /\ inFlight \subseteq Requests
        /\ asked \in [Files -> Contents \cup {None}] /\ overlap \subseteq Files
    OBVIOUS
  <2>3. edits \in 0 .. MaxEdits /\ starts \in 0 .. MaxStarts OBVIOUS
  <2>4. /\ file = None /\ content = None /\ oldHash = NoRow /\ hash = NullHash
        /\ files \in [Files -> Contents \cup {NoRow, NullHash}]
        /\ symbols \in [Files -> Contents \cup {None}]
        /\ failed \in [Files -> {"no", "last", "before"}]
    OBVIOUS
  <2>5. disk \in [Files -> Contents] /\ exists \subseteq Files OBVIOUS
  <2> QED BY <2>1, <2>2, <2>3, <2>4, <2>5 DEF TypeOK, Pcs, Gates
<1>2. ScanPlace /\ ReadIsCurrent /\ RowsInHand /\ HashInHand
  BY DEF ScanPlace, ReadIsCurrent, RowsInHand, HashInHand
<1>3. HandNamed /\ TornNamed /\ HandOld /\ HandAsked
  BY DEF HandNamed, TornNamed, HandOld, HandAsked
<1>4. BehindIsTracked /\ HashNamesSymbols /\ ResolvedUnlessTorn
  BY DEF BehindIsTracked, HashNamesSymbols, ResolvedUnlessTorn
<1>5. LastResolutionUnlessOverlap
  BY DEF LastResolutionUnlessOverlap, Held
<1> QED BY <1>1, <1>2, <1>3, <1>4, <1>5 DEF Inv

\* The lemmas together.
LEMMA InvNext == Inv /\ [Next]_vars => Inv'
<1> SUFFICES ASSUME Inv, [Next]_vars PROVE Inv' OBVIOUS
<1> USE DEF Inv
<1>1. (TypeOK /\ ScanPlace)' BY TypeNext, PlaceNext
<1>2. (ReadIsCurrent /\ RowsInHand /\ HashInHand)' BY CurrentNext, HashNext
<1>3. (HandNamed /\ TornNamed /\ HandOld /\ HandAsked)' BY TornNext, OldNext, AskedNext
<1>4. (BehindIsTracked /\ HashNamesSymbols /\ ResolvedUnlessTorn)'
  BY BehindNext, NamesNext, ResolvedNext
<1>5. LastResolutionUnlessOverlap' BY LastNext
<1> QED BY <1>1, <1>2, <1>3, <1>4, <1>5

\* Inv holds in every state.
THEOREM Invariant == Spec => []Inv
<1>1. Init => Inv BY InvInit
<1>2. Inv /\ [Next]_vars => Inv' BY InvNext
<1> QED BY <1>1, <1>2, PTL DEF Spec

\* The variables keep their types, and a file is in hand exactly in the four places of the
\* analysis.
THEOREM TypeCorrect == Spec => []TypeOK
<1>1. Inv => TypeOK BY DEF Inv
<1> QED BY <1>1, Invariant, PTL

\* Rows that are behind their file are never taken for current, wherever a write or a delete
\* falls into an analysis.
THEOREM BehindTracked == Spec => []BehindIsTracked
<1>1. Inv => BehindIsTracked BY DEF Inv
<1> QED BY <1>1, Invariant, PTL

\* The stored hash of a file at rest is NULL or that of its rows, although the file is read
\* twice and the hash is stored outside of the transaction.
THEOREM HashNames == Spec => []HashNamesSymbols
<1>1. Inv => HashNamesSymbols BY DEF Inv
<1> QED BY <1>1, Invariant, PTL

\* The servers were asked about the rows of a file, or will be by the cold-start queue, unless
\* it changed between its read and its hash or an analysis failed.
THEOREM Resolved == Spec => []ResolvedUnlessTorn
<1>1. Inv => ResolvedUnlessTorn BY DEF Inv
<1> QED BY <1>1, Invariant, PTL

\* The rows of a file are those of its last resolution unless it began over an earlier one.
THEOREM RowsOfLast == Spec => []LastResolutionUnlessOverlap
<1>1. Inv => LastResolutionUnlessOverlap BY DEF Inv
<1> QED BY <1>1, Invariant, PTL

=============================================================================
