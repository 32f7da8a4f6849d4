--------------------------- MODULE LspServer_proofs ---------------------------
(***************************************************************************)
(* What holds of LspServer for every set of requests and files, every      *)
(* window, backoff and timeout, and any number of processes: the types,    *)
(* that a callback fires once, that a document is opened once and before   *)
(* it is asked about; and, of servers that no probe may degrade behind the *)
(* manager's back, the charge of one crash per process, the breaker, the   *)
(* fate of accepted actions, the order of the handshake and the refinement *)
(* of RestartPolicy.                                                       *)
(*                                                                         *)
(* The hypothesis on ProjectChecks is the code's own weakness: the         *)
(* callback of the workspace/symbol probe assigns kDegraded in whatever    *)
(* state it finds the server (lsp_manager.cpp:655-663).                    *)
(***************************************************************************)
EXTENDS LspServer, SequenceTheorems, FiniteSetTheorems, TLAPS

-----------------------------------------------------------------------------
(* Types *)

\* The parts of TypeOK: the ServerEntry, the transport and the history.
EntryOK ==
  /\ state \in States /\ detected \in BOOLEAN
  /\ crashTimes \in Seq(0 .. CrashWindow + 1)
  /\ restartCount \in Nat /\ restartAfter \in 0 .. BackoffMax
  /\ pendingRequests \in Seq(Requests) /\ openedUris \subseteq Files

TransportOK ==
  /\ sent \in Seq(SentRecs) /\ pending \subseteq DOMAIN sent
  /\ writeQueue \in Seq(Frames)

OutcomeOK == outcome \in [Requests -> {"idle", "queued", "sent", "answered", "dropped"}]

\* Evicting keeps a sequence of ages.
LEMMA EvictProps ==
  ASSUME NEW times \in Seq(0 .. CrashWindow + 1)
  PROVE  Evict(times) \in Seq(0 .. CrashWindow + 1)
<1> DEFINE stale == {i \in DOMAIN times : \A j \in 1 .. i : times[j] > CrashWindow}
           k == Cardinality(stale)
<1>1. Len(times) \in Nat /\ DOMAIN times = 1 .. Len(times) OBVIOUS
<1>2. IsFiniteSet(1 .. Len(times)) BY <1>1, FS_Interval
<1>3. stale \subseteq 1 .. Len(times) BY <1>1
<1>4. k \in Nat BY <1>2, <1>3, FS_Subset, FS_CardinalityType
<1> HIDE DEF k
<1>5. \A i \in k + 1 .. Len(times) : times[i] \in 0 .. CrashWindow + 1
  <2> TAKE i \in k + 1 .. Len(times)
  <2>1. i \in 1 .. Len(times) BY <1>1, <1>4
  <2> QED BY <2>1, ElementOfSeq
<1>6. SubSeq(times, k + 1, Len(times)) \in Seq(0 .. CrashWindow + 1)
  BY <1>1, <1>4, <1>5, SubSeqProperties
<1> QED BY <1>6 DEF Evict, k

\* handle_crash keeps the types of the entry.
LEMMA HandleCrashOK ==
  ASSUME TypeOK, HandleCrash
  PROVE  EntryOK' /\ OutcomeOK'
<1> USE LspServerAssumption DEF LspServerAssumption, TypeOK, HandleCrash
<1> DEFINE times == Evict(Append(crashTimes, 0))
<1>1. times \in Seq(0 .. CrashWindow + 1)
  <2>1. Append(crashTimes, 0) \in Seq(0 .. CrashWindow + 1) OBVIOUS
  <2> QED BY <2>1, EvictProps
<1>2. BackoffFor(restartCount) \in 0 .. BackoffMax BY DEF BackoffFor
<1>3. state' \in States BY DEF States
<1>4. restartCount' \in Nat /\ restartAfter' \in 0 .. BackoffMax BY <1>2
<1>5. pendingRequests' \in Seq(Requests) /\ openedUris' \subseteq Files /\ detected' \in BOOLEAN
  OBVIOUS
<1>6. OutcomeOK' BY DEF OutcomeOK
<1> QED BY <1>1, <1>3, <1>4, <1>5, <1>6 DEF EntryOK

\* send_request appends one record that has not fired, and leaves the others alone.
LEMMA SendOK ==
  ASSUME TypeOK, NEW s \in Nat, NEW prefix \in Seq(Frames), NEW kind \in Kinds,
         NEW arg \in Requests \cup {None}, SendRequest(s, prefix, kind, arg)
  PROVE  /\ TransportOK'
         /\ Len(sent') = Len(sent) + 1
         /\ pending' = pending \cup {Len(sent) + 1}
         /\ \A id \in DOMAIN sent : id \in DOMAIN sent' /\ sent'[id] = sent[id]
         /\ sent'[Len(sent) + 1].kind = kind /\ sent'[Len(sent) + 1].session = s
         /\ sent'[Len(sent) + 1].arg = arg /\ sent'[Len(sent) + 1].fired = 0
<1> USE LspServerAssumption DEF LspServerAssumption, TypeOK, SendRequest
<1> DEFINE id == Len(sent) + 1
           rec == [kind |-> kind, session |-> s, arg |-> arg, age |-> 0, fired |-> 0]
<1>1. rec \in SentRecs BY DEF SentRecs, Ages
<1>2. Frame(kind, id, s, arg) \in Frames BY DEF Frame, Frames, Kinds
<1>3. sent' = Append(sent, rec) OBVIOUS
<1> HIDE DEF rec
<1>4. sent' \in Seq(SentRecs) /\ Len(sent') = id /\ DOMAIN sent' = 1 .. id
  BY <1>1, <1>3
<1>5. \A i \in DOMAIN sent : i \in DOMAIN sent' /\ sent'[i] = sent[i] BY <1>1, <1>3
<1>5a. sent'[id] = rec BY <1>1, <1>3
<1>6. pending' \subseteq DOMAIN sent' BY <1>4
<1>7. writeQueue' \in Seq(Frames)
  <2>1. <<Frame(kind, id, s, arg)>> \in Seq(Frames) BY <1>2
  <2> DEFINE t == <<Frame(kind, id, s, arg)>>
  <2>2. writeQueue' = (writeQueue \o prefix) \o t OBVIOUS
  <2> HIDE DEF t
  <2>3. t \in Seq(Frames) BY <2>1 DEF t
  <2>4. writeQueue \o prefix \in Seq(Frames) OBVIOUS
  <2> DEFINE w == writeQueue \o prefix
  <2>5. w \o t \in Seq(Frames) BY <2>3, <2>4
  <2> QED BY <2>2, <2>5
<1> QED BY <1>4, <1>5, <1>5a, <1>6, <1>7 DEF TransportOK, rec

\* A fired callback leaves the pending map; only its own record changes.
LEMMA FireOK ==
  ASSUME TypeOK, NEW id \in pending, Fire(id)
  PROVE  /\ sent' \in Seq(SentRecs) /\ DOMAIN sent' = DOMAIN sent
         /\ pending' = pending \ {id}
         /\ sent'[id] = [sent[id] EXCEPT !.fired = @ + 1, !.age = 0]
         /\ \A i \in DOMAIN sent \ {id} : sent'[i] = sent[i]
<1> USE DEF TypeOK
<1> DEFINE rec == [sent[id] EXCEPT !.fired = @ + 1, !.age = 0]
<1>1. id \in 1 .. Len(sent) /\ sent[id] \in SentRecs OBVIOUS
<1>2. rec \in SentRecs
  <2>1. sent[id].fired + 1 \in Nat /\ 0 \in Ages
    BY <1>1, LspServerAssumption DEF SentRecs, Ages, LspServerAssumption
  <2> QED BY <1>1, <2>1 DEF SentRecs
<1>3. sent' = [sent EXCEPT ![id] = rec] BY <1>1 DEF Fire
<1> HIDE DEF rec
<1>4. /\ sent' \in Seq(SentRecs) /\ Len(sent') = Len(sent)
      /\ \A j \in 1 .. Len(sent) : sent'[j] = IF j = id THEN rec ELSE sent[j]
  BY <1>1, <1>2, <1>3, ExceptSeq
<1> QED BY <1>1, <1>4 DEF Fire, rec

\* A resolver's action sends one definition request.
LEMMA RunActionOK ==
  ASSUME TypeOK, NEW r \in Requests, RunAction(r)
  PROVE  /\ TransportOK' /\ OutcomeOK' /\ openedUris' \subseteq Files
         /\ Len(sent') = Len(sent) + 1
         /\ pending' = pending \cup {Len(sent) + 1}
         /\ \A id \in DOMAIN sent : id \in DOMAIN sent' /\ sent'[id] = sent[id]
         /\ sent'[Len(sent) + 1].kind = "definition" /\ sent'[Len(sent) + 1].session = session
         /\ sent'[Len(sent) + 1].arg = r /\ sent'[Len(sent) + 1].fired = 0
<1> DEFINE uris == {FileOf[r]} \ (openedUris \cup Unreadable)
           didOpen == IF uris = {} THEN <<>> ELSE <<Frame("didOpen", 0, session, FileOf[r])>>
<1>1. FileOf[r] \in Files BY LspServerAssumption DEF LspServerAssumption
<1>2. didOpen \in Seq(Frames)
  <2>1. Frame("didOpen", 0, session, FileOf[r]) \in Frames BY <1>1 DEF Frame, Frames, TypeOK
  <2> QED BY <2>1
<1>3. SendRequest(session, didOpen, "definition", r) BY DEF RunAction
<1>4. session \in Nat /\ "definition" \in Kinds BY DEF TypeOK, Kinds
<1> HIDE DEF didOpen
<1>5. openedUris' \subseteq Files /\ OutcomeOK' BY <1>1 DEF RunAction, TypeOK, OutcomeOK
<1> QED BY <1>2, <1>3, <1>4, <1>5, SendOK

\* A callback keeps the types, whichever it is.
LEMMA CallbackOK ==
  ASSUME TypeOK, NEW id \in pending, NEW ok \in BOOLEAN, Callback(id, ok)
  PROVE  EntryOK' /\ TransportOK' /\ OutcomeOK' /\ control' \in {control, "drain"}
<1> USE DEF Callback
<1>1. Fire(id) OBVIOUS
<1>2. sent' \in Seq(SentRecs) /\ pending' \subseteq DOMAIN sent'
  BY <1>1, FireOK DEF TypeOK
<1>3. sent[id] \in SentRecs BY DEF TypeOK
<1>4. EntryOK /\ OutcomeOK /\ writeQueue \in Seq(Frames) BY DEF TypeOK, EntryOK, OutcomeOK
<1>5. CASE sent[id].kind = "initialize"
  <2>1. InitializeCallback(ok) BY <1>5
  <2>2. CASE HandshakeDone
    <3>1. Frame("initialized", 0, session, None) \in Frames BY DEF Frame, Frames, TypeOK
    <3>2. writeQueue' \in Seq(Frames) BY <2>2, <3>1, <1>4 DEF HandshakeDone
    <3> QED BY <2>2, <3>2, <1>2, <1>4 DEF HandshakeDone, EntryOK, TransportOK, OutcomeOK, States
  <2>3. CASE HandleCrash /\ UNCHANGED <<writeQueue, control>>
    BY <2>3, <1>2, <1>4, HandleCrashOK DEF TransportOK
  <2>4. CASE UNCHANGED <<entry, writeQueue, control, outcome>>
    BY <2>4, <1>2, <1>4 DEF EntryOK, TransportOK, OutcomeOK, entry
  <2> QED BY <2>1, <2>2, <2>3, <2>4 DEF InitializeCallback
<1>6. CASE sent[id].kind = "probe"
  <2>1. ProbeCallback(ok) BY <1>6
  <2> QED BY <2>1, <1>2, <1>4 DEF ProbeCallback, EntryOK, TransportOK, OutcomeOK, States
<1>7. CASE sent[id].kind \notin {"initialize", "probe"}
  <2>1. Report(id) /\ UNCHANGED <<entry, writeQueue, control>> BY <1>7
  <2>2. OutcomeOK' BY <2>1, <1>4 DEF Report, OutcomeOK
  <2> QED BY <2>1, <2>2, <1>2, <1>4 DEF EntryOK, TransportOK, entry
<1> QED BY <1>5, <1>6, <1>7

\* Only check_timeouts collects expired ids.
Place == control # "expire" => expired = {}

\* A second changes ages and nothing else of what was sent or charged.
LEMMA AgesOK ==
  ASSUME TypeOK, SecondPasses
  PROVE  /\ sent' \in Seq(SentRecs) /\ Len(sent') = Len(sent) /\ DOMAIN sent' = DOMAIN sent
         /\ \A id \in DOMAIN sent : /\ sent'[id].kind = sent[id].kind
                                    /\ sent'[id].session = sent[id].session
                                    /\ sent'[id].arg = sent[id].arg
                                    /\ sent'[id].fired = sent[id].fired
         /\ crashTimes' \in Seq(0 .. CrashWindow + 1) /\ Len(crashTimes') = Len(crashTimes)
<1> USE LspServerAssumption DEF LspServerAssumption, TypeOK
<1>1. DOMAIN sent = 1 .. Len(sent) /\ Len(sent) \in Nat OBVIOUS
<1>2. DOMAIN crashTimes = 1 .. Len(crashTimes) /\ Len(crashTimes) \in Nat OBVIOUS
<1>3. \A age \in Ages : Saturated(age, Timeout + 1) \in Ages BY DEF Saturated, Ages
<1> DEFINE rec(id) == IF id \in pending
                      THEN [sent[id] EXCEPT !.age = Saturated(@, Timeout + 1)] ELSE sent[id]
<1>4. \A id \in 1 .. Len(sent) :
        /\ rec(id) \in SentRecs
        /\ rec(id).kind = sent[id].kind /\ rec(id).session = sent[id].session
        /\ rec(id).arg = sent[id].arg /\ rec(id).fired = sent[id].fired
  <2> TAKE id \in 1 .. Len(sent)
  <2>1. sent[id] \in SentRecs BY <1>1
  <2>2. sent[id].age \in Ages BY <2>1 DEF SentRecs
  <2> QED BY <2>1, <2>2, <1>3 DEF SentRecs
<1>5. sent' = [id \in 1 .. Len(sent) |-> rec(id)] BY <1>1 DEF SecondPasses
<1> HIDE DEF rec
<1>6. sent' \in Seq(SentRecs) /\ Len(sent') = Len(sent) BY <1>1, <1>4, <1>5
<1>7. \A i \in 1 .. Len(crashTimes) :
        Saturated(crashTimes[i], CrashWindow + 1) \in 0 .. CrashWindow + 1
  BY <1>2, ElementOfSeq DEF Saturated
<1>8. crashTimes' = [i \in 1 .. Len(crashTimes) |-> Saturated(crashTimes[i], CrashWindow + 1)]
  BY <1>2 DEF SecondPasses
<1>9. crashTimes' \in Seq(0 .. CrashWindow + 1) /\ Len(crashTimes') = Len(crashTimes)
  BY <1>2, <1>7, <1>8
<1> QED BY <1>1, <1>4, <1>5, <1>6, <1>9

\* try_spawn sends one initialize request, of the new session.
LEMMA SpawnOK ==
  ASSUME TypeOK, TrySpawn
  PROVE  /\ TypeOK'
         /\ Len(sent') = Len(sent) + 1
         /\ pending' = pending \cup {Len(sent) + 1}
         /\ \A id \in DOMAIN sent : id \in DOMAIN sent' /\ sent'[id] = sent[id]
         /\ sent'[Len(sent) + 1].kind = "initialize" /\ sent'[Len(sent) + 1].session = session + 1
         /\ sent'[Len(sent) + 1].arg = None /\ sent'[Len(sent) + 1].fired = 0
<1>1. SendRequest(session + 1, <<>>, "initialize", None) BY DEF TrySpawn
<1>2. session + 1 \in Nat /\ "initialize" \in Kinds /\ <<>> \in Seq(Frames) BY DEF TypeOK, Kinds
<1>3. None \in Requests \cup {None} OBVIOUS
<1>4. /\ TransportOK'
      /\ Len(sent') = Len(sent) + 1
      /\ pending' = pending \cup {Len(sent) + 1}
      /\ \A id \in DOMAIN sent : id \in DOMAIN sent' /\ sent'[id] = sent[id]
      /\ sent'[Len(sent) + 1].kind = "initialize" /\ sent'[Len(sent) + 1].session = session + 1
      /\ sent'[Len(sent) + 1].arg = None /\ sent'[Len(sent) + 1].fired = 0
  BY <1>1, <1>2, <1>3, SendOK
<1>5. TypeOK'
  <2>1. /\ state' \in States /\ stdout' \in Seq(Messages) /\ received' \in Seq(Frames)
        /\ session' \in Nat /\ alive' \subseteq 1 .. session'
    BY DEF TrySpawn, TypeOK, States
  <2>2. /\ detected' \in BOOLEAN /\ crashTimes' \in Seq(0 .. CrashWindow + 1)
        /\ restartCount' \in Nat /\ restartAfter' \in 0 .. BackoffMax
        /\ pendingRequests' \in Seq(Requests) /\ openedUris' \subseteq Files
        /\ buffer' \in Seq(Messages)
        /\ control' \in {"loop", "read", "drain", "expire", "stopped"}
        /\ outcome' \in [Requests -> {"idle", "queued", "sent", "answered", "dropped"}]
    BY DEF TrySpawn, TypeOK, thread
  <2>3. expired' \subseteq pending' BY <1>4 DEF TrySpawn, TypeOK, thread
  <2>4. replied' \subseteq DOMAIN sent' BY DEF TrySpawn
  <2> QED BY <1>4, <2>1, <2>2, <2>3, <2>4 DEF TypeOK, TransportOK
<1> QED BY <1>4, <1>5

\* Every step keeps the types.
LEMMA TypeNext == TypeOK /\ Place /\ [Next]_vars => TypeOK' /\ Place'
<1> SUFFICES ASSUME TypeOK, Place, [Next]_vars PROVE TypeOK' /\ Place' OBVIOUS
<1>e. EntryOK /\ TransportOK /\ OutcomeOK BY DEF TypeOK, EntryOK, TransportOK, OutcomeOK
<1> USE LspServerAssumption DEF TypeOK, Place, AtLoop, entry, transport, process, thread
<1>1. ASSUME NEW present \in BOOLEAN, SetDetectedLanguages(present) PROVE TypeOK' /\ Place'
  BY <1>1 DEF SetDetectedLanguages
<1>2. CASE EnsureServer
  BY <1>2, SpawnOK DEF EnsureServer, TrySpawn
<1>3. CASE TickCrashed
  <2>1. EntryOK' /\ OutcomeOK' BY <1>3, HandleCrashOK DEF TickCrashed
  <2> QED BY <1>3, <2>1, EmptySeq DEF TickCrashed, EntryOK, OutcomeOK
<1>4. CASE TickRestart
  BY <1>4, SpawnOK DEF TickRestart, TrySpawn
<1>5. ASSUME NEW r \in Requests, SendNow(r) PROVE TypeOK' /\ Place'
  <2>1. /\ TransportOK' /\ OutcomeOK' /\ openedUris' \subseteq Files
        /\ DOMAIN sent \subseteq DOMAIN sent' /\ pending \subseteq pending'
    BY <1>5, RunActionOK DEF SendNow
  <2> QED BY <1>5, <2>1 DEF SendNow, TransportOK, OutcomeOK
<1>6. ASSUME NEW r \in Requests, SendLater(r) PROVE TypeOK' /\ Place'
  BY <1>6 DEF SendLater
<1>7. ASSUME NEW n \in 1 .. Len(writeQueue), DrainWrites(n) PROVE TypeOK' /\ Place'
  <2> DEFINE a == SubSeq(writeQueue, 1, n)
             b == SubSeq(writeQueue, n + 1, Len(writeQueue))
  <2>1. /\ received \in Seq(Frames) /\ writeQueue \in Seq(Frames)
        /\ n \in 1 .. Len(writeQueue) /\ Len(writeQueue) \in Nat
    OBVIOUS
  <2>2. a \in Seq(Frames) /\ b \in Seq(Frames) BY <2>1
  <2>3. received' = received \o a /\ writeQueue' = b BY <1>7 DEF DrainWrites
  <2> HIDE DEF a, b
  <2>4. received' \in Seq(Frames) /\ writeQueue' \in Seq(Frames)
    BY <2>1, <2>2, <2>3, ConcatProperties
  <2> QED BY <1>7, <2>4 DEF DrainWrites
<1>8. ASSUME NEW n \in 1 .. Len(stdout), PollRead(n) PROVE TypeOK' /\ Place'
  <2>1. buffer' \in Seq(Messages) /\ stdout' \in Seq(Messages) BY <1>8 DEF PollRead
  <2> QED BY <1>8, <2>1 DEF PollRead
<1>9. CASE HandleMessage
  <2> DEFINE message == Head(buffer)
  <2>1. message \in Messages /\ buffer' \in Seq(Messages) BY <1>9 DEF HandleMessage
  <2>2. expired = {} /\ expired' = {} BY <1>9 DEF HandleMessage
  <2> HIDE DEF message
  <2>3. CASE message.id \in pending
    <3>1. Callback(message.id, message.ok) /\ message.ok \in BOOLEAN
      BY <1>9, <2>1, <2>3 DEF HandleMessage, Messages, message
    <3>2. EntryOK' /\ TransportOK' /\ OutcomeOK' /\ control' \in {control, "drain"}
      BY <2>3, <3>1, CallbackOK
    <3>3. DOMAIN sent' = DOMAIN sent BY <2>3, <3>1, FireOK DEF Callback
    <3> QED BY <1>9, <2>1, <2>2, <3>2, <3>3 DEF HandleMessage, EntryOK, TransportOK, OutcomeOK
  <2>4. CASE message.id \notin pending
    BY <1>9, <2>1, <2>2, <2>4 DEF HandleMessage, message
  <2> QED BY <2>3, <2>4
<1>10. CASE ReadDone
  BY <1>10 DEF ReadDone
<1>11. CASE RunQueued
  <2>1. Head(pendingRequests) \in Requests /\ pendingRequests' \in Seq(Requests)
    BY <1>11 DEF RunQueued
  <2>2. /\ TransportOK' /\ OutcomeOK' /\ openedUris' \subseteq Files
        /\ DOMAIN sent \subseteq DOMAIN sent' /\ pending \subseteq pending'
    BY <1>11, <2>1, RunActionOK DEF RunQueued
  <2> QED BY <1>11, <2>1, <2>2 DEF RunQueued, TransportOK, OutcomeOK
<1>12. ASSUME NEW check \in ProjectChecks, ProjectCheck(check) PROVE TypeOK' /\ Place'
  <2>1. TransportOK' /\ DOMAIN sent \subseteq DOMAIN sent' /\ pending \subseteq pending'
    <3>1. CASE check = "probe"
      <4>1. SendRequest(session, <<>>, "probe", None) BY <1>12, <3>1 DEF ProjectCheck
      <4>2. "probe" \in Kinds /\ <<>> \in Seq(Frames) BY DEF Kinds
      <4>3. None \in Requests \cup {None} OBVIOUS
      <4> QED BY <4>1, <4>2, <4>3, SendOK
    <3>2. CASE check # "probe"
      BY <1>12, <1>e, <3>2 DEF ProjectCheck, TransportOK
    <3> QED BY <3>1, <3>2
  <2> QED BY <1>12, <2>1 DEF ProjectCheck, TransportOK, States
<1>13. CASE CheckTimeouts
  BY <1>13 DEF CheckTimeouts
<1>14. ASSUME NEW id \in expired, FireTimeout(id) PROVE TypeOK' /\ Place'
  <2>1. Callback(id, FALSE) /\ id \in pending /\ control = "expire" BY <1>14 DEF FireTimeout
  <2>2. EntryOK' /\ TransportOK' /\ OutcomeOK' BY <2>1, CallbackOK
  <2>3. DOMAIN sent' = DOMAIN sent /\ pending' = pending \ {id} BY <2>1, FireOK DEF Callback
  <2>4. control' = control
    BY <2>1 DEF Callback, InitializeCallback, ProbeCallback, Report, HandleCrash
  <2> QED BY <1>14, <2>1, <2>2, <2>3, <2>4 DEF FireTimeout, EntryOK, TransportOK, OutcomeOK
<1>15. CASE TimeoutsDone
  BY <1>15 DEF TimeoutsDone
<1>16. CASE Shutdown
  BY <1>16 DEF Shutdown
<1>17. ASSUME NEW id \in DOMAIN sent, NEW ok \in BOOLEAN, ServerReplies(id, ok)
      PROVE  TypeOK' /\ Place'
  <2>1. stdout' \in Seq(Messages)
    <3>1. [id |-> id, ok |-> ok] \in Messages BY DEF Messages
    <3> QED BY <1>17, <3>1 DEF ServerReplies
  <2> QED BY <1>17, <2>1 DEF ServerReplies
<1>18. CASE ServerDies
  BY <1>18 DEF ServerDies
<1>19. CASE SecondPasses
  <2>1. sent' \in Seq(SentRecs) /\ DOMAIN sent' = DOMAIN sent
    BY <1>19, AgesOK DEF SecondPasses
  <2>2. crashTimes' \in Seq(0 .. CrashWindow + 1) BY <1>19, AgesOK DEF SecondPasses
  <2>3. restartAfter' \in 0 .. BackoffMax BY <1>19 DEF SecondPasses, LspServerAssumption
  <2> QED BY <1>19, <2>1, <2>2, <2>3 DEF SecondPasses
<1>20. CASE UNCHANGED vars
  BY <1>20 DEF vars
<1> QED
  BY <1>1, <1>2, <1>3, <1>4, <1>5, <1>6, <1>7, <1>8, <1>9, <1>10, <1>11, <1>12, <1>13, <1>14,
     <1>15, <1>16, <1>17, <1>18, <1>19, <1>20 DEF Next

-----------------------------------------------------------------------------
(* Callbacks *)

\* Every step keeps the count of firings: a request is sent unfired, and fires as it leaves.
LEMMA FiredNext == TypeOK /\ Place /\ CallbackFiresOnce /\ [Next]_vars => CallbackFiresOnce'
<1> SUFFICES ASSUME TypeOK, Place, CallbackFiresOnce, [Next]_vars PROVE CallbackFiresOnce' OBVIOUS
<1>s. ASSUME Len(sent') = Len(sent) + 1, pending' = pending \cup {Len(sent) + 1},
             \A id \in DOMAIN sent : id \in DOMAIN sent' /\ sent'[id] = sent[id],
             sent'[Len(sent) + 1].fired = 0, TypeOK'
      PROVE  CallbackFiresOnce'
  <2>1. /\ DOMAIN sent = 1 .. Len(sent) /\ Len(sent) \in Nat
        /\ pending \subseteq 1 .. Len(sent)
    BY DEF TypeOK
  <2>2. DOMAIN sent' = 1 .. Len(sent) + 1 BY <1>s, <2>1 DEF TypeOK
  <2> SUFFICES ASSUME NEW id \in DOMAIN sent'
               PROVE  sent'[id].fired = IF id \in pending' THEN 0 ELSE 1
    BY DEF CallbackFiresOnce
  <2>3. CASE id = Len(sent) + 1 BY <1>s, <2>3
  <2>4. CASE id \in DOMAIN sent
    <3>1. id \in pending' <=> id \in pending BY <1>s, <2>1, <2>4
    <3> QED BY <1>s, <2>4, <3>1 DEF CallbackFiresOnce
  <2> QED BY <2>1, <2>2, <2>3, <2>4
<1>f. ASSUME NEW id \in pending, Fire(id) PROVE CallbackFiresOnce'
  <2>1. sent'[id].fired = sent[id].fired + 1 /\ id \in DOMAIN sent
    <3>1. sent[id] \in SentRecs BY DEF TypeOK
    <3> QED BY <1>f, <3>1, FireOK DEF SentRecs, TypeOK
  <2>2. /\ DOMAIN sent' = DOMAIN sent /\ pending' = pending \ {id}
        /\ \A i \in DOMAIN sent \ {id} : sent'[i] = sent[i]
    BY <1>f, FireOK
  <2>3. sent[id].fired = 0 BY <2>1 DEF CallbackFiresOnce
  <2> QED BY <2>1, <2>2, <2>3 DEF CallbackFiresOnce
<1>t. TypeOK' BY TypeNext
<1> USE DEF CallbackFiresOnce, entry, transport, process, thread
<1>1. ASSUME NEW present \in BOOLEAN, SetDetectedLanguages(present) PROVE CallbackFiresOnce'
  BY <1>1 DEF SetDetectedLanguages
<1>2. CASE EnsureServer
  BY <1>2, <1>s, <1>t, SpawnOK DEF EnsureServer
<1>3. CASE TickCrashed
  BY <1>3 DEF TickCrashed
<1>4. CASE TickRestart
  BY <1>4, <1>s, <1>t, SpawnOK DEF TickRestart
<1>5. ASSUME NEW r \in Requests, SendNow(r) PROVE CallbackFiresOnce'
  <2>1. RunAction(r) BY <1>5 DEF SendNow
  <2>2. sent'[Len(sent) + 1].fired = 0 BY <2>1, RunActionOK
  <2> QED BY <1>s, <1>t, <2>1, <2>2, RunActionOK
<1>6. ASSUME NEW r \in Requests, SendLater(r) PROVE CallbackFiresOnce'
  BY <1>6 DEF SendLater
<1>7. ASSUME NEW n \in 1 .. Len(writeQueue), DrainWrites(n) PROVE CallbackFiresOnce'
  BY <1>7 DEF DrainWrites
<1>8. ASSUME NEW n \in 1 .. Len(stdout), PollRead(n) PROVE CallbackFiresOnce'
  BY <1>8 DEF PollRead
<1>9. CASE HandleMessage
  <2>1. CASE Head(buffer).id \in pending
    BY <1>9, <1>f, <2>1 DEF HandleMessage, Callback
  <2>2. CASE Head(buffer).id \notin pending
    BY <1>9, <2>2 DEF HandleMessage
  <2> QED BY <2>1, <2>2
<1>10. CASE ReadDone
  BY <1>10 DEF ReadDone
<1>11. CASE RunQueued
  <2>1. Head(pendingRequests) \in Requests BY <1>11 DEF RunQueued, TypeOK
  <2>2. RunAction(Head(pendingRequests)) BY <1>11 DEF RunQueued
  <2>3. sent'[Len(sent) + 1].fired = 0 BY <2>1, <2>2, RunActionOK
  <2> QED BY <1>s, <1>t, <2>1, <2>2, <2>3, RunActionOK
<1>12. ASSUME NEW check \in ProjectChecks, ProjectCheck(check) PROVE CallbackFiresOnce'
  <2>1. CASE check = "probe"
    <3>1. SendRequest(session, <<>>, "probe", None) BY <1>12, <2>1 DEF ProjectCheck
    <3>2. "probe" \in Kinds /\ <<>> \in Seq(Frames) /\ session \in Nat BY DEF Kinds, TypeOK
    <3>3. None \in Requests \cup {None} OBVIOUS
    <3>4. sent'[Len(sent) + 1].fired = 0 BY <3>1, <3>2, <3>3, SendOK
    <3> QED BY <1>s, <1>t, <3>1, <3>2, <3>3, <3>4, SendOK
  <2>2. CASE check # "probe"
    BY <1>12, <2>2 DEF ProjectCheck
  <2> QED BY <2>1, <2>2
<1>13. CASE CheckTimeouts
  BY <1>13 DEF CheckTimeouts
<1>14. ASSUME NEW id \in expired, FireTimeout(id) PROVE CallbackFiresOnce'
  BY <1>14, <1>f DEF FireTimeout, Callback, TypeOK
<1>15. CASE TimeoutsDone
  BY <1>15 DEF TimeoutsDone
<1>16. CASE Shutdown
  BY <1>16 DEF Shutdown
<1>17. ASSUME NEW id \in DOMAIN sent, NEW ok \in BOOLEAN, ServerReplies(id, ok)
      PROVE  CallbackFiresOnce'
  BY <1>17 DEF ServerReplies
<1>18. CASE ServerDies
  BY <1>18 DEF ServerDies
<1>19. CASE SecondPasses
  BY <1>19, AgesOK DEF SecondPasses
<1>20. CASE UNCHANGED vars
  BY <1>20 DEF vars
<1> QED
  BY <1>1, <1>2, <1>3, <1>4, <1>5, <1>6, <1>7, <1>8, <1>9, <1>10, <1>11, <1>12, <1>13, <1>14,
     <1>15, <1>16, <1>17, <1>18, <1>19, <1>20 DEF Next

-----------------------------------------------------------------------------
(* A server without a probe *)

\* No probe was sent.
NoProbeSent == \A id \in DOMAIN sent : sent[id].kind # "probe"

\* The queued actions are drained right after the handshake.
DrainReady == control = "drain" => state = "Ready"

\* What the manager keeps true of such a server.
Managed ==
  NoProbeSent /\ DrainReady /\ OneChargePerProcess /\ BreakerMatchesWindow /\ AcceptedIsHeld

\* handle_crash charges one crash and opens the breaker when the window is full.
LEMMA CrashCharged ==
  ASSUME TypeOK, OneChargePerProcess, HandleCrash, Running, UNCHANGED session
  PROVE  OneChargePerProcess' /\ BreakerMatchesWindow'
<1> USE DEF HandleCrash, Running, TypeOK
<1>1. OneChargePerProcess' BY DEF OneChargePerProcess
<1>2. BreakerMatchesWindow' BY DEF BreakerMatchesWindow
<1> QED BY <1>1, <1>2

\* After a request is sent, the callbacks registered before are still registered.
LEMMA SentManaged ==
  ASSUME TypeOK, AcceptedIsHeld, NoProbeSent, Len(sent') = Len(sent) + 1,
         pending' = pending \cup {Len(sent) + 1},
         \A id \in DOMAIN sent : id \in DOMAIN sent' /\ sent'[id] = sent[id],
         sent'[Len(sent) + 1].kind # "probe", TypeOK'
  PROVE  /\ NoProbeSent'
         /\ \A r \in Requests : outcome[r] = "sent" =>
              \E id \in pending' : sent'[id].kind = "definition" /\ sent'[id].arg = r
<1>1. /\ DOMAIN sent = 1 .. Len(sent) /\ Len(sent) \in Nat
      /\ DOMAIN sent' = 1 .. Len(sent) + 1 /\ pending \subseteq DOMAIN sent
  <2>1. sent \in Seq(SentRecs) /\ pending \subseteq DOMAIN sent /\ sent' \in Seq(SentRecs)
    BY DEF TypeOK
  <2> QED BY <2>1
<1>2. NoProbeSent'
  <2> SUFFICES ASSUME NEW id \in DOMAIN sent' PROVE sent'[id].kind # "probe" BY DEF NoProbeSent
  <2>1. CASE id = Len(sent) + 1 BY <2>1
  <2>2. CASE id \in DOMAIN sent BY <2>2 DEF NoProbeSent
  <2> QED BY <1>1, <2>1, <2>2
<1>3. ASSUME NEW r \in Requests, outcome[r] = "sent"
      PROVE  \E id \in pending' : sent'[id].kind = "definition" /\ sent'[id].arg = r
  <2>1. PICK id \in pending : sent[id].kind = "definition" /\ sent[id].arg = r
    BY <1>3 DEF AcceptedIsHeld
  <2>2. id \in pending' /\ sent'[id] = sent[id] BY <1>1
  <2> QED BY <2>1, <2>2
<1> QED BY <1>2, <1>3

\* Without a probe a callback ends the handshake, fails it, or touches only the outcome.
LEMMA CallbackCases ==
  ASSUME TypeOK, NoProbeSent, NEW id \in pending, NEW ok \in BOOLEAN, Callback(id, ok)
  PROVE  \/ state = "Starting" /\ ok /\ HandshakeDone /\ sent[id].kind = "initialize"
         \/ /\ state = "Starting" /\ ~ok /\ HandleCrash /\ UNCHANGED <<writeQueue, control>>
            /\ sent[id].kind = "initialize"
         \/ /\ UNCHANGED <<entry, writeQueue, control>>
            /\ \/ sent[id].kind = "initialize" /\ UNCHANGED outcome
               \/ /\ sent[id].kind = "definition"
                  /\ outcome' = [outcome EXCEPT ![sent[id].arg] = "answered"]
<1>1. id \in DOMAIN sent /\ sent[id] \in SentRecs BY DEF TypeOK
<1>2. sent[id].kind \in {"initialize", "definition"}
  BY <1>1 DEF NoProbeSent, SentRecs, Kinds
<1> QED BY <1>2 DEF Callback, InitializeCallback, Report

\* A callback keeps what the manager keeps.
LEMMA CallbackManaged ==
  ASSUME TypeOK, Managed, NEW id \in pending, NEW ok \in BOOLEAN, Callback(id, ok),
         UNCHANGED session, control # "drain"
  PROVE  Managed'
<1> USE DEF Managed
<1>1. /\ DOMAIN sent' = DOMAIN sent /\ pending' = pending \ {id}
      /\ \A i \in DOMAIN sent \ {id} : sent'[i] = sent[i]
  BY FireOK DEF Callback
<1>2. id \in DOMAIN sent /\ sent[id] \in SentRecs /\ pending \subseteq DOMAIN sent BY DEF TypeOK
<1>3. sent'[id].kind = sent[id].kind
  BY <1>2, FireOK DEF Callback, SentRecs
<1>4. NoProbeSent' BY <1>1, <1>3 DEF NoProbeSent
<1>h. \A r \in Requests :
        (outcome[r] = "sent" /\ (sent[id].kind = "definition" => sent[id].arg # r)) =>
          \E i \in pending' : sent'[i].kind = "definition" /\ sent'[i].arg = r
  <2> SUFFICES ASSUME NEW r \in Requests, outcome[r] = "sent",
                      sent[id].kind = "definition" => sent[id].arg # r
               PROVE  \E i \in pending' : sent'[i].kind = "definition" /\ sent'[i].arg = r
    OBVIOUS
  <2>1. PICK i \in pending : sent[i].kind = "definition" /\ sent[i].arg = r
    BY DEF AcceptedIsHeld
  <2>2. i # id BY <2>1
  <2> QED BY <1>1, <1>2, <2>1, <2>2
<1>5. CASE state = "Starting" /\ ok /\ HandshakeDone /\ sent[id].kind = "initialize"
  <2>1. DrainReady' /\ OneChargePerProcess' /\ BreakerMatchesWindow'
    BY <1>5 DEF HandshakeDone, DrainReady, OneChargePerProcess, BreakerMatchesWindow
  <2>2. AcceptedIsHeld'
    BY <1>5, <1>h DEF HandshakeDone, AcceptedIsHeld
  <2> QED BY <1>4, <2>1, <2>2
<1>6. CASE /\ state = "Starting" /\ ~ok /\ HandleCrash /\ UNCHANGED <<writeQueue, control>>
           /\ sent[id].kind = "initialize"
  <2>1. DrainReady' BY <1>6 DEF DrainReady
  <2>2. OneChargePerProcess' /\ BreakerMatchesWindow'
    BY <1>6, CrashCharged DEF Running
  <2>3. AcceptedIsHeld'
    <3>1. \A r \in Requests :
            outcome'[r] # "queued" /\ (outcome'[r] = "sent" => outcome[r] = "sent")
      BY <1>6 DEF HandleCrash
    <3> QED BY <1>6, <1>h, <3>1 DEF AcceptedIsHeld
  <2> QED BY <1>4, <2>1, <2>2, <2>3
<1>7. CASE /\ UNCHANGED <<entry, writeQueue, control>>
           /\ \/ sent[id].kind = "initialize" /\ UNCHANGED outcome
              \/ /\ sent[id].kind = "definition"
                 /\ outcome' = [outcome EXCEPT ![sent[id].arg] = "answered"]
  <2>1. DrainReady' /\ OneChargePerProcess' /\ BreakerMatchesWindow'
    BY <1>7 DEF entry, DrainReady, OneChargePerProcess, BreakerMatchesWindow
  <2>2. \A r \in Requests :
          /\ outcome'[r] = "queued" => outcome[r] = "queued"
          /\ outcome'[r] = "sent" => /\ outcome[r] = "sent"
                                     /\ sent[id].kind = "definition" => sent[id].arg # r
    BY <1>7 DEF TypeOK
  <2>3. AcceptedIsHeld'
    BY <1>7, <1>h, <2>2 DEF AcceptedIsHeld, entry
  <2> QED BY <1>4, <2>1, <2>3
<1> QED BY <1>5, <1>6, <1>7, CallbackCases

\* Every step of a server without a probe keeps what the manager keeps.
LEMMA ManagedNext ==
  ASSUME "probe" \notin ProjectChecks
  PROVE  TypeOK /\ Place /\ Managed /\ [Next]_vars => Managed'
<1> SUFFICES ASSUME TypeOK, Place, Managed, [Next]_vars PROVE Managed' OBVIOUS
<1>t. TypeOK' BY TypeNext
<1> USE DEF Managed, AtLoop, entry, transport, process, thread
<1>u. ASSUME UNCHANGED <<state, crashTimes, restartCount, pendingRequests, sent, pending,
                         session, outcome>>,
             control' \in {control, "loop", "read", "expire", "stopped"},
             control # "drain"
      PROVE  Managed'
  BY <1>u DEF NoProbeSent, DrainReady, OneChargePerProcess, BreakerMatchesWindow, AcceptedIsHeld
<1>1. ASSUME NEW present \in BOOLEAN, SetDetectedLanguages(present) PROVE Managed'
  BY <1>1, <1>u DEF SetDetectedLanguages
<1>2. CASE EnsureServer
  <2>1. TrySpawn /\ state = "NotStarted" /\ control = "loop" BY <1>2 DEF EnsureServer
  <2>2. sent'[Len(sent) + 1].kind # "probe" BY <2>1, SpawnOK
  <2>3. NoProbeSent' /\ \A r \in Requests : outcome[r] = "sent" =>
          \E id \in pending' : sent'[id].kind = "definition" /\ sent'[id].arg = r
    BY <1>t, <2>1, <2>2, SpawnOK, SentManaged
  <2>4. DrainReady' /\ OneChargePerProcess' /\ BreakerMatchesWindow'
    BY <2>1 DEF TrySpawn, TypeOK, DrainReady, OneChargePerProcess, BreakerMatchesWindow
  <2>5. AcceptedIsHeld' BY <2>1, <2>3 DEF TrySpawn, AcceptedIsHeld
  <2> QED BY <2>3, <2>4, <2>5
<1>3. CASE TickCrashed
  <2>1. HandleCrash /\ Running /\ control = "loop" BY <1>3 DEF TickCrashed
  <2>2. UNCHANGED <<sent, pending, session, control>> BY <1>3 DEF TickCrashed
  <2>3. OneChargePerProcess' /\ BreakerMatchesWindow' BY <2>1, <2>2, CrashCharged
  <2>4. NoProbeSent' /\ DrainReady' BY <2>1, <2>2 DEF NoProbeSent, DrainReady
  <2>5. \A r \in Requests : outcome'[r] # "queued" /\ (outcome'[r] = "sent" => outcome[r] = "sent")
    BY <2>1 DEF HandleCrash
  <2>6. AcceptedIsHeld' BY <2>2, <2>5 DEF AcceptedIsHeld
  <2> QED BY <2>3, <2>4, <2>6
<1>4. CASE TickRestart
  <2>1. TrySpawn /\ state = "NotStarted" /\ control = "loop" BY <1>4 DEF TickRestart
  <2>2. sent'[Len(sent) + 1].kind # "probe" BY <2>1, SpawnOK
  <2>3. NoProbeSent' /\ \A r \in Requests : outcome[r] = "sent" =>
          \E id \in pending' : sent'[id].kind = "definition" /\ sent'[id].arg = r
    BY <1>t, <2>1, <2>2, SpawnOK, SentManaged
  <2>4. DrainReady' /\ OneChargePerProcess' /\ BreakerMatchesWindow'
    BY <2>1 DEF TrySpawn, TypeOK, DrainReady, OneChargePerProcess, BreakerMatchesWindow
  <2>5. AcceptedIsHeld' BY <2>1, <2>3 DEF TrySpawn, AcceptedIsHeld
  <2> QED BY <2>3, <2>4, <2>5
<1>5. ASSUME NEW r \in Requests, SendNow(r) PROVE Managed'
  <2>2. RunAction(r) /\ r \in Requests BY <1>5 DEF SendNow, TypeOK
  <2>3. sent'[Len(sent) + 1].kind = "definition" /\ sent'[Len(sent) + 1].arg = r
    BY <2>2, RunActionOK
  <2>4. NoProbeSent' /\ \A q \in Requests : outcome[q] = "sent" =>
          \E id \in pending' : sent'[id].kind = "definition" /\ sent'[id].arg = q
    BY <1>t, <2>2, <2>3, RunActionOK, SentManaged
  <2>5. Len(sent) + 1 \in pending' /\ outcome' = [outcome EXCEPT ![r] = "sent"]
    BY <2>2, RunActionOK DEF RunAction
  <2>6. DrainReady' /\ OneChargePerProcess' /\ BreakerMatchesWindow'
    BY <1>5 DEF SendNow, DrainReady, OneChargePerProcess, BreakerMatchesWindow
  <2>7. AcceptedIsHeld'
    <3> SUFFICES ASSUME NEW q \in Requests
                 PROVE  /\ outcome'[q] = "queued" =>
                             /\ \E i \in DOMAIN pendingRequests' : pendingRequests'[i] = q
                             /\ state' = "Starting" \/ control' = "drain"
                        /\ outcome'[q] = "sent" =>
                             \E id \in pending' : sent'[id].kind = "definition" /\ sent'[id].arg = q
      BY DEF AcceptedIsHeld
    <3>1. CASE q = r BY <2>2, <2>3, <2>5, <3>1 DEF TypeOK
    <3>2. CASE q # r
      <4>1. outcome'[q] = outcome[q] BY <2>5, <3>2 DEF TypeOK
      <4>2. outcome[q] = "queued" =>
              /\ \E i \in DOMAIN pendingRequests' : pendingRequests'[i] = q
              /\ state' = "Starting" \/ control' = "drain"
        BY <1>5 DEF SendNow, AcceptedIsHeld
      <4> QED BY <2>4, <4>1, <4>2
    <3> QED BY <3>1, <3>2
  <2> QED BY <2>4, <2>6, <2>7
<1>6. ASSUME NEW r \in Requests, SendLater(r) PROVE Managed'
  <2>1. NoProbeSent' /\ DrainReady' /\ OneChargePerProcess' /\ BreakerMatchesWindow'
    BY <1>6 DEF SendLater, NoProbeSent, DrainReady, OneChargePerProcess, BreakerMatchesWindow
  <2>2. /\ pendingRequests' = Append(pendingRequests, r)
        /\ outcome' = [outcome EXCEPT ![r] = "queued"]
        /\ state' = "Starting" /\ UNCHANGED <<sent, pending>>
    BY <1>6 DEF SendLater
  <2>3. /\ pendingRequests \in Seq(Requests) /\ DOMAIN pendingRequests = 1 .. Len(pendingRequests)
        /\ DOMAIN pendingRequests' = 1 .. Len(pendingRequests) + 1
        /\ \A i \in DOMAIN pendingRequests : pendingRequests'[i] = pendingRequests[i]
        /\ pendingRequests'[Len(pendingRequests) + 1] = r
    <3>1. pendingRequests \in Seq(Requests) BY DEF TypeOK
    <3> QED BY <2>2, <3>1
  <2>4. AcceptedIsHeld'
    <3> SUFFICES ASSUME NEW q \in Requests
                 PROVE  /\ outcome'[q] = "queued" =>
                             /\ \E i \in DOMAIN pendingRequests' : pendingRequests'[i] = q
                             /\ state' = "Starting" \/ control' = "drain"
                        /\ outcome'[q] = "sent" =>
                             \E id \in pending' : sent'[id].kind = "definition" /\ sent'[id].arg = q
      BY DEF AcceptedIsHeld
    <3>1. CASE q = r
      <4>1. outcome'[q] = "queued" BY <2>2, <3>1 DEF TypeOK
      <4>2. Len(pendingRequests) + 1 \in DOMAIN pendingRequests' BY <2>3
      <4> QED BY <2>2, <2>3, <3>1, <4>1, <4>2
    <3>2. CASE q # r
      <4>1. outcome'[q] = outcome[q] BY <2>2, <3>2 DEF TypeOK
      <4> QED BY <2>2, <2>3, <4>1 DEF AcceptedIsHeld
    <3> QED BY <3>1, <3>2
  <2> QED BY <2>1, <2>4
<1>7. ASSUME NEW n \in 1 .. Len(writeQueue), DrainWrites(n) PROVE Managed'
  BY <1>7, <1>u DEF DrainWrites
<1>8. ASSUME NEW n \in 1 .. Len(stdout), PollRead(n) PROVE Managed'
  BY <1>8, <1>u DEF PollRead
<1>9. CASE HandleMessage
  <2>1. CASE Head(buffer).id \in pending
    <3>1. Head(buffer) \in Messages BY <1>9 DEF HandleMessage, TypeOK
    <3>2. Head(buffer).ok \in BOOLEAN BY <3>1 DEF Messages
    <3> QED BY <1>9, <2>1, <3>2, CallbackManaged DEF HandleMessage
  <2>2. CASE Head(buffer).id \notin pending
    BY <1>9, <1>u, <2>2 DEF HandleMessage
  <2> QED BY <2>1, <2>2
<1>10. CASE ReadDone
  BY <1>10, <1>u DEF ReadDone
<1>11. CASE RunQueued
  <2>2. RunAction(Head(pendingRequests)) /\ Head(pendingRequests) \in Requests
    BY <1>11 DEF RunQueued, TypeOK
  <2>3. sent'[Len(sent) + 1].kind = "definition" /\ sent'[Len(sent) + 1].arg = Head(pendingRequests)
    BY <2>2, RunActionOK
  <2>4. NoProbeSent' /\ \A q \in Requests : outcome[q] = "sent" =>
          \E id \in pending' : sent'[id].kind = "definition" /\ sent'[id].arg = q
    BY <1>t, <2>2, <2>3, RunActionOK, SentManaged
  <2>5. Len(sent) + 1 \in pending' /\ outcome' = [outcome EXCEPT ![Head(pendingRequests)] = "sent"]
    BY <2>2, RunActionOK DEF RunAction
  <2>6. DrainReady' /\ OneChargePerProcess' /\ BreakerMatchesWindow'
    BY <1>11 DEF RunQueued, DrainReady, OneChargePerProcess, BreakerMatchesWindow
  <2>7. AcceptedIsHeld'
    <3> SUFFICES ASSUME NEW q \in Requests
                 PROVE  /\ outcome'[q] = "queued" =>
                             /\ \E i \in DOMAIN pendingRequests' : pendingRequests'[i] = q
                             /\ state' = "Starting" \/ control' = "drain"
                        /\ outcome'[q] = "sent" =>
                             \E id \in pending' : sent'[id].kind = "definition" /\ sent'[id].arg = q
      BY DEF AcceptedIsHeld
    <3>1. CASE q = Head(pendingRequests) BY <2>2, <2>3, <2>5, <3>1 DEF TypeOK
    <3>2. CASE q # Head(pendingRequests)
      <4>1. outcome'[q] = outcome[q] BY <2>5, <3>2 DEF TypeOK
      <4>2. outcome[q] = "queued" =>
              /\ \E i \in DOMAIN pendingRequests' : pendingRequests'[i] = q
              /\ state' = "Starting" \/ control' = "drain"
        <5> SUFFICES ASSUME outcome[q] = "queued"
                     PROVE  \E i \in DOMAIN pendingRequests' : pendingRequests'[i] = q
          BY <1>11 DEF RunQueued
        <5>1. PICK i \in DOMAIN pendingRequests : pendingRequests[i] = q BY DEF AcceptedIsHeld
        <5>2. i # 1 BY <3>2, <5>1
        <5>3. pendingRequests' = Tail(pendingRequests) /\ pendingRequests # <<>>
          BY <1>11 DEF RunQueued
        <5>4. i - 1 \in DOMAIN pendingRequests' /\ pendingRequests'[i - 1] = q
          BY <5>1, <5>2, <5>3 DEF TypeOK
        <5> QED BY <5>4
      <4> QED BY <2>4, <4>1, <4>2
    <3> QED BY <3>1, <3>2
  <2> QED BY <2>4, <2>6, <2>7
<1>12. ASSUME NEW check \in ProjectChecks, ProjectCheck(check) PROVE Managed'
  <2>1. check # "probe" OBVIOUS
  <2>2. /\ control = "drain" /\ control' = "read" /\ pendingRequests = <<>>
        /\ state' \in {state, "Degraded"}
        /\ UNCHANGED <<crashTimes, restartCount, pendingRequests, sent, pending, session, outcome>>
    BY <1>12, <2>1 DEF ProjectCheck
  <2>3. NoProbeSent' /\ DrainReady' BY <2>2 DEF NoProbeSent, DrainReady
  <2>4. OneChargePerProcess' /\ BreakerMatchesWindow'
    BY <2>2 DEF DrainReady, OneChargePerProcess, BreakerMatchesWindow
  <2>5. AcceptedIsHeld' BY <2>2 DEF AcceptedIsHeld
  <2> QED BY <2>3, <2>4, <2>5
<1>13. CASE CheckTimeouts
  BY <1>13, <1>u DEF CheckTimeouts
<1>14. ASSUME NEW id \in expired, FireTimeout(id) PROVE Managed'
  <2>1. id \in pending BY DEF TypeOK
  <2> QED BY <1>14, <2>1, CallbackManaged DEF FireTimeout
<1>15. CASE TimeoutsDone
  BY <1>15, <1>u DEF TimeoutsDone
<1>16. CASE Shutdown
  BY <1>16, <1>u DEF Shutdown
<1>17. ASSUME NEW id \in DOMAIN sent, NEW ok \in BOOLEAN, ServerReplies(id, ok) PROVE Managed'
  <2>1. UNCHANGED <<entry, sent, pending, session, control, outcome>> BY <1>17 DEF ServerReplies
  <2> QED
    BY <2>1 DEF NoProbeSent, DrainReady, OneChargePerProcess, BreakerMatchesWindow, AcceptedIsHeld
<1>18. CASE ServerDies
  <2>1. UNCHANGED <<entry, sent, pending, session, control, outcome>> BY <1>18 DEF ServerDies
  <2> QED
    BY <2>1 DEF NoProbeSent, DrainReady, OneChargePerProcess, BreakerMatchesWindow, AcceptedIsHeld
<1>19. CASE SecondPasses
  <2>1. UNCHANGED <<state, restartCount, pendingRequests, pending, session, control, outcome>>
    BY <1>19 DEF SecondPasses
  <2>2. /\ DOMAIN sent' = DOMAIN sent /\ Len(crashTimes') = Len(crashTimes)
        /\ \A id \in DOMAIN sent : sent'[id].kind = sent[id].kind /\ sent'[id].arg = sent[id].arg
    BY <1>19, AgesOK
  <2>3. pending \subseteq DOMAIN sent BY DEF TypeOK
  <2>4. NoProbeSent' /\ DrainReady' /\ OneChargePerProcess' /\ BreakerMatchesWindow'
    BY <2>1, <2>2 DEF NoProbeSent, DrainReady, OneChargePerProcess, BreakerMatchesWindow
  <2>5. AcceptedIsHeld' BY <2>1, <2>2, <2>3 DEF AcceptedIsHeld
  <2> QED BY <2>4, <2>5
<1>20. CASE UNCHANGED vars
  <2>1. UNCHANGED <<entry, sent, pending, session, control, outcome>> BY <1>20 DEF vars
  <2> QED
    BY <2>1 DEF NoProbeSent, DrainReady, OneChargePerProcess, BreakerMatchesWindow, AcceptedIsHeld
<1> QED
  BY <1>1, <1>2, <1>3, <1>4, <1>5, <1>6, <1>7, <1>8, <1>9, <1>10, <1>11, <1>12, <1>13, <1>14,
     <1>15, <1>16, <1>17, <1>18, <1>19, <1>20 DEF Next

-----------------------------------------------------------------------------
(* The refinement *)

\* The instance counts as this module does.
LEMMA SameCardinality == \A S : Policy!Cardinality(S) = Cardinality(S)
BY DEF Cardinality, Policy!Cardinality

\* The deque holds the crashes oldest first.
Sorted == \A i, j \in DOMAIN crashTimes : i < j => crashTimes[j] <= crashTimes[i]

\* In a sorted deque the stale crashes are a prefix, so what pop_front leaves is as many of the
\* newest crashes as are recent.
LEMMA EvictIsRecent ==
  ASSUME TypeOK, Sorted
  PROVE  LET times == Evict(Append(crashTimes, 0))
         IN  /\ times = Append(Policy!Recent(crashTimes), 0)
             /\ \A i, j \in DOMAIN times : i < j => times[j] <= times[i]
<1> DEFINE n == Len(crashTimes)
           t == Append(crashTimes, 0)
           stale == {i \in 1 .. n : crashTimes[i] > CrashWindow}
           recent == {i \in 1 .. n : crashTimes[i] <= CrashWindow}
           k == Cardinality(stale)
           c == Cardinality(recent)
           Age == 0 .. CrashWindow + 1
<1>1. crashTimes \in Seq(Age) /\ n \in Nat /\ DOMAIN crashTimes = 1 .. n BY DEF TypeOK
<1>2. \A i \in 1 .. n : crashTimes[i] \in Age /\ crashTimes[i] \in Int
  BY <1>1, ElementOfSeq, LspServerAssumption DEF LspServerAssumption
<1>3. CrashWindow \in Nat /\ 0 \in Age BY LspServerAssumption DEF LspServerAssumption
<1>4. /\ t \in Seq(Age) /\ Len(t) = n + 1 /\ DOMAIN t = 1 .. n + 1
      /\ \A i \in 1 .. n : t[i] = crashTimes[i]
      /\ t[n + 1] = 0
  BY <1>1, <1>3, AppendProperties
<1> HIDE DEF t
<1>5. {i \in DOMAIN t : \A j \in 1 .. i : t[j] > CrashWindow} = stale
  <2>1. ASSUME NEW i \in DOMAIN t, \A j \in 1 .. i : t[j] > CrashWindow PROVE i \in stale
    <3>1. i \in 1 .. i /\ t[i] > CrashWindow BY <2>1, <1>4, <1>1
    <3>2. i # n + 1 BY <3>1, <1>4, <1>3
    <3> QED BY <3>1, <3>2, <1>1, <1>4
  <2>2. ASSUME NEW i \in stale PROVE i \in DOMAIN t /\ \A j \in 1 .. i : t[j] > CrashWindow
    <3>1. i \in 1 .. n /\ crashTimes[i] > CrashWindow BY <2>2
    <3>2. i \in DOMAIN t BY <3>1, <1>1, <1>4
    <3>3. ASSUME NEW j \in 1 .. i PROVE t[j] > CrashWindow
      <4>1. j \in 1 .. n BY <3>1, <1>1
      <4>2. crashTimes[i] <= crashTimes[j]
        <5>1. CASE i = j BY <5>1, <3>1, <1>2
        <5>2. CASE j < i BY <5>2, <3>1, <4>1, <1>1 DEF Sorted
        <5> QED BY <5>1, <5>2, <3>1, <4>1, <1>1
      <4> QED BY <3>1, <4>1, <4>2, <1>2, <1>3, <1>4
    <3> QED BY <3>2, <3>3
  <2> QED BY <2>1, <2>2
<1>6. IsFiniteSet(stale) /\ IsFiniteSet(recent) /\ k \in Nat /\ c \in Nat /\ k + c = n
  <2>1. IsFiniteSet(1 .. n) /\ Cardinality(1 .. n) = n BY <1>1, FS_Interval
  <2>2. stale \subseteq 1 .. n /\ recent \subseteq 1 .. n OBVIOUS
  <2>3. IsFiniteSet(stale) /\ IsFiniteSet(recent) BY <2>1, <2>2, FS_Subset
  <2>4. k \in Nat /\ c \in Nat BY <2>3, FS_CardinalityType
  <2>5. stale \cup recent = 1 .. n /\ stale \cap recent = {} BY <1>2, <1>3
  <2>6. Cardinality(stale \cup recent) = k + c - Cardinality(stale \cap recent)
    BY <2>3, FS_Union
  <2>7. Cardinality({}) = 0 BY FS_EmptySet
  <2> HIDE DEF stale, recent
  <2>8. n = k + c - 0 BY <2>1, <2>5, <2>6, <2>7
  <2> QED BY <2>3, <2>4, <2>8, <1>1
<1>7. Evict(t) = SubSeq(t, k + 1, n + 1) BY <1>4, <1>5 DEF Evict
<1>8. Policy!Recent(crashTimes) = SubSeq(crashTimes, n - c + 1, n)
  <2>1. {i \in DOMAIN crashTimes : crashTimes[i] <= CrashWindow} = recent BY <1>1
  <2> QED BY <2>1, SameCardinality DEF Policy!Recent
<1> HIDE DEF k, c, stale, recent
<1> DEFINE e == SubSeq(t, k + 1, n + 1)
           r == SubSeq(crashTimes, k + 1, n)
<1>9. Policy!Recent(crashTimes) = r
  <2>1. n - c + 1 = k + 1 BY <1>1, <1>6
  <2> QED BY <2>1, <1>8
<1>10. /\ e \in Seq(Age) /\ Len(e) = n + 1 - k
       /\ \A i \in 1 .. n + 1 - k : e[i] = t[k + i]
  <2>1. \A i \in k + 1 .. n + 1 : t[i] \in Age
    <3> TAKE i \in k + 1 .. n + 1
    <3>1. i \in 1 .. Len(t) BY <1>1, <1>4, <1>6
    <3> QED BY <3>1, <1>4, ElementOfSeq
  <2>2. k + 1 \in Int /\ n + 1 \in Int /\ k + 1 <= n + 1 BY <1>1, <1>6
  <2>3. /\ e \in Seq(Age) /\ Len(e) = n + 1 - (k + 1) + 1
        /\ \A i \in 1 .. n + 1 - (k + 1) + 1 : e[i] = t[k + 1 + i - 1]
    BY <2>1, <2>2, SubSeqProperties
  <2> HIDE DEF e
  <2>4. n + 1 - (k + 1) + 1 = n + 1 - k BY <1>1, <1>6
  <2>5. \A i \in 1 .. n + 1 - k : k + 1 + i - 1 = k + i BY <1>1, <1>6
  <2> QED BY <2>3, <2>4, <2>5
<1>11. /\ r \in Seq(Age) /\ Len(r) = n - k
       /\ \A i \in 1 .. n - k : r[i] = crashTimes[k + i]
  <2>1. \A i \in k + 1 .. n : crashTimes[i] \in Age BY <1>1, <1>2, <1>6
  <2>2. k + 1 \in Int /\ n \in Int BY <1>1, <1>6
  <2>2a. (IF k + 1 <= n THEN n - (k + 1) + 1 ELSE 0) = n - k
    <3>1. n - (k + 1) + 1 = n - k BY <1>1, <1>6
    <3>2. k \in Nat /\ n \in Nat /\ k <= n BY <1>1, <1>6
    <3> HIDE DEF n
    <3>3. ~(k + 1 <= n) => n - k = 0 BY <3>2
    <3> QED BY <3>1, <3>3
  <2>3. /\ r \in Seq(Age) /\ Len(r) = IF k + 1 <= n THEN n - (k + 1) + 1 ELSE 0
        /\ \A i \in 1 .. n - (k + 1) + 1 : r[i] = crashTimes[k + 1 + i - 1]
    BY <2>1, <2>2, SubSeqProperties
  <2> HIDE DEF r
  <2>4. n - (k + 1) + 1 = n - k BY <1>1, <1>6
  <2>5. \A i \in 1 .. n - k : k + 1 + i - 1 = k + i BY <1>1, <1>6
  <2> QED BY <2>2a, <2>3, <2>4, <2>5
<1> HIDE DEF e, r
<1>12. e = Append(r, 0)
  <2> DEFINE a == Append(r, 0)
  <2>1. /\ a \in Seq(Age) /\ Len(a) = n - k + 1
        /\ \A i \in 1 .. n - k : a[i] = r[i]
        /\ a[n - k + 1] = 0
    BY <1>3, <1>11, AppendProperties
  <2> HIDE DEF a
  <2>2. Len(e) = Len(a) BY <2>1, <1>10, <1>1, <1>6
  <2>3. \A i \in 1 .. Len(e) : e[i] = a[i]
    <3> TAKE i \in 1 .. Len(e)
    <3>1. CASE i = n - k + 1
      <4>1. e[i] = t[n + 1] BY <3>1, <1>10, <1>1, <1>6
      <4> QED BY <3>1, <4>1, <2>1, <1>4
    <3>2. CASE i # n - k + 1
      <4>1. i \in 1 .. n + 1 - k BY <1>10
      <4>2. i \in 1 .. n - k /\ k + i \in 1 .. n BY <3>2, <4>1, <1>1, <1>6
      <4> QED BY <4>1, <4>2, <2>1, <1>4, <1>10, <1>11
    <3> QED BY <3>1, <3>2
  <2> QED BY <2>1, <2>2, <2>3, <1>10, SeqEqual DEF a
<1>13. \A i, j \in DOMAIN e : i < j => e[j] <= e[i]
  <2> SUFFICES ASSUME NEW i \in 1 .. n + 1 - k, NEW j \in 1 .. n + 1 - k, i < j
               PROVE  e[j] <= e[i]
    BY <1>10
  <2>1. k + i \in 1 .. n /\ k + j \in 1 .. n + 1 /\ k + i < k + j BY <1>1, <1>6
  <2>2. CASE k + j = n + 1
    BY <2>1, <2>2, <1>2, <1>4, <1>10
  <2>3. CASE k + j \in 1 .. n
    BY <2>1, <2>3, <1>1, <1>4, <1>10 DEF Sorted
  <2> QED BY <2>1, <2>2, <2>3, <1>1
<1> QED BY <1>7, <1>9, <1>12, <1>13 DEF e, t

\* handle_crash is the failure of the policy.
LEMMA CrashIsFail ==
  ASSUME TypeOK, Sorted, HandleCrash, Running
  PROVE  Policy!Fail /\ Sorted'
<1> DEFINE times == Evict(Append(crashTimes, 0))
<1>1. times = Append(Policy!Recent(crashTimes), 0) BY EvictIsRecent
<1>2. crashTimes' = times BY DEF HandleCrash
<1>3. Sorted' BY <1>2, EvictIsRecent DEF Sorted
<1>4. CASE Len(times) >= MaxCrashesInWindow
  <2>1. state' = "Unavailable" /\ UNCHANGED <<restartCount, restartAfter>>
    BY <1>4 DEF HandleCrash
  <2> QED BY <1>1, <1>2, <1>3, <1>4, <2>1 DEF Policy!Fail, Running
<1>5. CASE ~(Len(times) >= MaxCrashesInWindow)
  <2>1. /\ state' = "NotStarted" /\ restartCount' = restartCount + 1
        /\ restartAfter' = BackoffFor(restartCount)
    BY <1>5 DEF HandleCrash
  <2>2. BackoffFor(restartCount) = Policy!Backoff(restartCount)
    BY DEF BackoffFor, Policy!Backoff
  <2>3. restartCount \in Nat /\ restartCount' # 0 BY <2>1 DEF TypeOK
  <2>4. Len(times) < MaxCrashesInWindow
    <3>1. Append(crashTimes, 0) \in Seq(0 .. CrashWindow + 1)
      BY LspServerAssumption DEF LspServerAssumption, TypeOK
    <3>2. Len(times) \in Nat BY <3>1, EvictProps
    <3> QED BY <1>5, <3>2, LspServerAssumption DEF LspServerAssumption
  <2> QED BY <1>1, <1>2, <1>3, <2>1, <2>2, <2>3, <2>4 DEF Policy!Fail, Running
<1> QED BY <1>4, <1>5

\* A callback is a failure of the policy or a stutter.
LEMMA CallbackSimulates ==
  ASSUME TypeOK, Sorted, NoProbeSent, NEW id \in pending, NEW ok \in BOOLEAN, Callback(id, ok)
  PROVE  [Policy!Next]_(Policy!vars) /\ Sorted'
<1>1. CASE state = "Starting" /\ ok /\ HandshakeDone /\ sent[id].kind = "initialize"
  BY <1>1 DEF HandshakeDone, Policy!vars, Sorted
<1>2. CASE state = "Starting" /\ HandleCrash
  BY <1>2, CrashIsFail DEF Running, Policy!Next
<1>3. CASE UNCHANGED entry
  BY <1>3 DEF entry, Policy!vars, Sorted
<1> QED BY <1>1, <1>2, <1>3, CallbackCases

\* Every step is one of the policy or a stutter, and keeps the deque sorted.
LEMMA StepSimulates ==
  ASSUME "probe" \notin ProjectChecks
  PROVE  TypeOK /\ Managed /\ Sorted /\ [Next]_vars => [Policy!Next]_(Policy!vars) /\ Sorted'
<1> DEFINE Goal == [Policy!Next]_(Policy!vars) /\ Sorted'
<1> SUFFICES ASSUME TypeOK, Managed, Sorted, [Next]_vars PROVE Goal OBVIOUS
<1> USE DEF AtLoop, entry, transport, process, thread
<1>u. ASSUME UNCHANGED <<state, crashTimes, restartCount, restartAfter>> PROVE Goal
  BY <1>u DEF Policy!vars, Sorted
<1>1. ASSUME NEW present \in BOOLEAN, SetDetectedLanguages(present) PROVE Goal
  BY <1>1, <1>u DEF SetDetectedLanguages
<1>2. CASE EnsureServer
  <2>1. /\ state = "NotStarted" /\ state' = "Starting" /\ (restartCount # 0 => restartAfter = 0)
        /\ UNCHANGED <<crashTimes, restartCount, restartAfter>>
    BY <1>2 DEF EnsureServer, TrySpawn, TypeOK
  <2>2. Policy!Start BY <2>1 DEF Policy!Start
  <2> QED BY <2>1, <2>2 DEF Policy!Next, Sorted
<1>3. CASE TickCrashed
  BY <1>3, CrashIsFail DEF TickCrashed, Policy!Next
<1>4. CASE TickRestart
  <2>1. /\ state = "NotStarted" /\ state' = "Starting" /\ (restartCount # 0 => restartAfter = 0)
        /\ UNCHANGED <<crashTimes, restartCount, restartAfter>>
    BY <1>4 DEF TickRestart, TrySpawn, TypeOK
  <2>2. Policy!Start BY <2>1 DEF Policy!Start
  <2> QED BY <2>1, <2>2 DEF Policy!Next, Sorted
<1>5. ASSUME NEW r \in Requests, SendNow(r) PROVE Goal
  BY <1>5, <1>u DEF SendNow
<1>6. ASSUME NEW r \in Requests, SendLater(r) PROVE Goal
  BY <1>6, <1>u DEF SendLater
<1>7. ASSUME NEW n \in 1 .. Len(writeQueue), DrainWrites(n) PROVE Goal
  BY <1>7, <1>u DEF DrainWrites
<1>8. ASSUME NEW n \in 1 .. Len(stdout), PollRead(n) PROVE Goal
  BY <1>8, <1>u DEF PollRead
<1>9. CASE HandleMessage
  <2>1. CASE Head(buffer).id \in pending
    <3>1. Head(buffer) \in Messages BY <1>9 DEF HandleMessage, TypeOK
    <3>2. Head(buffer).ok \in BOOLEAN BY <3>1 DEF Messages
    <3> QED BY <1>9, <2>1, <3>2, CallbackSimulates DEF HandleMessage, Managed
  <2>2. CASE Head(buffer).id \notin pending
    BY <1>9, <1>u, <2>2 DEF HandleMessage
  <2> QED BY <2>1, <2>2
<1>10. CASE ReadDone
  BY <1>10, <1>u DEF ReadDone
<1>11. CASE RunQueued
  BY <1>11, <1>u DEF RunQueued
<1>12. ASSUME NEW check \in ProjectChecks, ProjectCheck(check) PROVE Goal
  <2>1. state = "Ready" /\ state' \in {"Ready", "Degraded"}
    BY <1>12 DEF ProjectCheck, Managed, DrainReady
  <2>2. UNCHANGED <<crashTimes, restartCount, restartAfter>> BY <1>12 DEF ProjectCheck
  <2> QED BY <2>1, <2>2 DEF Policy!vars, Sorted
<1>13. CASE CheckTimeouts
  BY <1>13, <1>u DEF CheckTimeouts
<1>14. ASSUME NEW id \in expired, FireTimeout(id) PROVE Goal
  <2>1. id \in pending BY DEF TypeOK
  <2> QED BY <1>14, <2>1, CallbackSimulates DEF FireTimeout, Managed
<1>15. CASE TimeoutsDone
  BY <1>15, <1>u DEF TimeoutsDone
<1>16. CASE Shutdown
  BY <1>16, <1>u DEF Shutdown
<1>17. ASSUME NEW id \in DOMAIN sent, NEW ok \in BOOLEAN, ServerReplies(id, ok) PROVE Goal
  BY <1>17, <1>u DEF ServerReplies
<1>18. CASE ServerDies
  BY <1>18, <1>u DEF ServerDies
<1>19. CASE SecondPasses
  <2>1. /\ crashTimes \in Seq(0 .. CrashWindow + 1) /\ CrashWindow \in Nat
        /\ DOMAIN crashTimes = 1 .. Len(crashTimes) /\ restartAfter \in Nat
    BY LspServerAssumption DEF LspServerAssumption, TypeOK
  <2>2. \A i \in DOMAIN crashTimes : crashTimes[i] \in 0 .. CrashWindow + 1
    BY <2>1, ElementOfSeq
  <2>3. crashTimes' = [i \in DOMAIN crashTimes |-> Saturated(crashTimes[i], CrashWindow + 1)]
    BY <1>19 DEF SecondPasses
  <2>4. \A i \in DOMAIN crashTimes :
          Saturated(crashTimes[i], CrashWindow + 1) =
            IF crashTimes[i] > CrashWindow THEN crashTimes[i] ELSE crashTimes[i] + 1
    BY <2>1, <2>2 DEF Saturated
  <2>5. Sorted'
    <3> SUFFICES ASSUME NEW i \in DOMAIN crashTimes, NEW j \in DOMAIN crashTimes, i < j
                 PROVE  crashTimes'[j] <= crashTimes'[i]
      BY <2>3 DEF Sorted
    <3>1. crashTimes[j] <= crashTimes[i] BY DEF Sorted
    <3> QED BY <2>1, <2>2, <2>3, <2>4, <3>1
  <2>6. Policy!SecondPasses
    <3>1. crashTimes' = [i \in DOMAIN crashTimes |-> IF crashTimes[i] > CrashWindow
                           THEN crashTimes[i] ELSE crashTimes[i] + 1]
      BY <2>3, <2>4
    <3>2. restartAfter' = IF restartAfter = 0 THEN 0 ELSE restartAfter - 1
      BY <1>19, <2>1 DEF SecondPasses
    <3>3. UNCHANGED <<state, restartCount>> BY <1>19 DEF SecondPasses
    <3> QED BY <3>1, <3>2, <3>3 DEF Policy!SecondPasses
  <2> QED BY <2>5, <2>6 DEF Policy!Next
<1>20. CASE UNCHANGED vars
  BY <1>20, <1>u DEF vars
<1> QED
  BY <1>1, <1>2, <1>3, <1>4, <1>5, <1>6, <1>7, <1>8, <1>9, <1>10, <1>11, <1>12, <1>13, <1>14,
     <1>15, <1>16, <1>17, <1>18, <1>19, <1>20 DEF Next

-----------------------------------------------------------------------------
(* The order of the frames *)

\* A frame of the kind was made for the current process.
Named(kind) == \E j \in DOMAIN Stream : Stream[j].session = session /\ Stream[j].kind = kind

\* What the state says of the stream; no frame is of a later session.
Established ==
  /\ \A i \in DOMAIN Stream : Stream[i].session <= session
  /\ state = "Starting" => Named("initialize")
  /\ state \in {"Ready", "Degraded"} => Named("initialized")

\* The stream is a sequence of frames.
LEMMA StreamType ==
  ASSUME TypeOK
  PROVE  Stream \in Seq(Frames) /\ DOMAIN Stream = 1 .. Len(Stream) /\ Len(Stream) \in Nat
<1>1. received \in Seq(Frames) /\ writeQueue \in Seq(Frames) BY DEF TypeOK
<1>2. Stream \in Seq(Frames) BY <1>1 DEF Stream
<1> QED BY <1>2

\* Frames of the current session may follow once it is initialized, and the notification that
\* says so once it has been asked to.
LEMMA StreamGrows ==
  ASSUME TypeOK, Established, HandshakeFirst, UNCHANGED <<session, received>>,
         NEW t \in Seq(Frames), writeQueue' = writeQueue \o t,
         \A i \in 1 .. Len(t) : t[i].session = session,
         \/ Named("initialized")
         \/ Named("initialize") /\ \A i \in 1 .. Len(t) : t[i].kind = "initialized"
  PROVE  /\ \A i \in DOMAIN Stream' : Stream'[i].session <= session'
         /\ Named("initialize") => Named("initialize")'
         /\ Named("initialized") => Named("initialized")'
         /\ (\E i \in 1 .. Len(t) : t[i].kind = "initialized") => Named("initialized")'
         /\ HandshakeFirst'
<1> DEFINE s == Stream
           u == Stream \o t
           n == Len(s)
<1>1. s \in Seq(Frames) /\ DOMAIN s = 1 .. n /\ n \in Nat BY StreamType
<1>2. Stream' = u
  <2>1. received \in Seq(Frames) /\ writeQueue \in Seq(Frames) BY DEF TypeOK
  <2>2. (received \o writeQueue) \o t = received \o (writeQueue \o t) BY <2>1, ConcatAssociative
  <2> QED BY <2>2 DEF Stream
<1> HIDE DEF s, u
<1>3. /\ u \in Seq(Frames) /\ Len(u) = n + Len(t) /\ DOMAIN u = 1 .. n + Len(t)
      /\ Len(t) \in Nat
      /\ \A i \in 1 .. n : u[i] = s[i]
      /\ \A i \in 1 .. Len(t) : u[n + i] = t[i]
  <2>1. /\ u \in Seq(Frames) /\ Len(u) = n + Len(t)
        /\ \A i \in 1 .. n + Len(t) : u[i] = IF i <= n THEN s[i] ELSE t[i - n]
    BY <1>1, ConcatProperties DEF s, u
  <2>2. Len(t) \in Nat OBVIOUS
  <2>3. \A i \in 1 .. n : u[i] = s[i] BY <1>1, <2>1, <2>2
  <2>4. ASSUME NEW i \in 1 .. Len(t) PROVE u[n + i] = t[i]
    <3>1. n + i \in 1 .. n + Len(t) /\ ~(n + i <= n) /\ n + i - n = i BY <1>1, <2>2
    <3> QED BY <3>1, <2>1
  <2> QED BY <2>1, <2>2, <2>3, <2>4
<1>4. \A i \in 1 .. n : s[i].session <= session BY <1>1 DEF Established, s
<1>5. \A i \in 1 .. n + Len(t) : i \in 1 .. n \/ \E m \in 1 .. Len(t) : i = n + m
  <2> TAKE i \in 1 .. n + Len(t)
  <2>1. CASE i <= n BY <2>1, <1>1, <1>3
  <2>2. CASE ~(i <= n)
    <3>1. i - n \in 1 .. Len(t) /\ i = n + (i - n) BY <2>2, <1>1, <1>3
    <3> QED BY <3>1
  <2> QED BY <2>1, <2>2
<1>6. \A i \in DOMAIN Stream' : Stream'[i].session <= session'
  <2> SUFFICES ASSUME NEW i \in 1 .. n + Len(t) PROVE u[i].session <= session
    BY <1>2, <1>3
  <2>1. CASE i \in 1 .. n BY <2>1, <1>3, <1>4
  <2>2. ASSUME NEW m \in 1 .. Len(t), i = n + m PROVE u[i].session <= session
    <3>1. u[i].session = session BY <2>2, <1>3
    <3> QED BY <3>1 DEF TypeOK
  <2> QED BY <2>1, <2>2, <1>5
<1>7. ASSUME NEW kind, Named(kind) PROVE Named(kind)'
  <2>1. PICK j \in 1 .. n : s[j].session = session /\ s[j].kind = kind
    BY <1>7, <1>1 DEF Named, s
  <2>2. j \in DOMAIN u /\ u[j] = s[j] BY <1>1, <1>3
  <2> QED BY <1>2, <2>1, <2>2 DEF Named
<1>8. ASSUME NEW m \in 1 .. Len(t), t[m].kind = "initialized" PROVE Named("initialized")'
  <2>1. n + m \in DOMAIN u /\ u[n + m] = t[m] BY <1>1, <1>3
  <2> QED BY <1>2, <1>8, <2>1 DEF Named
<1>9. HandshakeFirst'
  <2> SUFFICES ASSUME NEW i \in 1 .. n + Len(t), u[i].session = session
               PROVE  \/ u[i].kind = "initialize"
                      \/ /\ u[i].kind = "initialized"
                         /\ \E j \in 1 .. i - 1 : u[j].session = session /\ u[j].kind = "initialize"
                      \/ \E j \in 1 .. i - 1 : u[j].session = session /\ u[j].kind = "initialized"
    BY <1>2, <1>3 DEF HandshakeFirst, Precedes
  <2>1. CASE i \in 1 .. n
    <3>1. \A j \in 1 .. i - 1 : u[j] = s[j] BY <2>1, <1>1, <1>3
    <3>2. \/ s[i].kind = "initialize"
          \/ /\ s[i].kind = "initialized"
             /\ \E j \in 1 .. i - 1 : s[j].session = session /\ s[j].kind = "initialize"
          \/ \E j \in 1 .. i - 1 : s[j].session = session /\ s[j].kind = "initialized"
      <4>1. s[i].session = session BY <2>1, <1>3
      <4> QED BY <2>1, <4>1, <1>1 DEF HandshakeFirst, Precedes, s
    <3> QED BY <2>1, <3>1, <3>2, <1>3
  <2>2. ASSUME NEW m \in 1 .. Len(t), i = n + m
        PROVE  \/ /\ u[i].kind = "initialized"
                  /\ \E j \in 1 .. i - 1 : u[j].session = session /\ u[j].kind = "initialize"
               \/ \E j \in 1 .. i - 1 : u[j].session = session /\ u[j].kind = "initialized"
    <3>1. \A j \in 1 .. n : j \in 1 .. i - 1 /\ u[j] = s[j] BY <2>2, <1>1, <1>3
    <3>2. u[i] = t[m] BY <2>2, <1>3
    <3>3. CASE Named("initialized")
      <4>1. PICK j \in 1 .. n : s[j].session = session /\ s[j].kind = "initialized"
        BY <3>3, <1>1 DEF Named, s
      <4> QED BY <3>1, <4>1
    <3>4. CASE Named("initialize") /\ t[m].kind = "initialized"
      <4>1. PICK j \in 1 .. n : s[j].session = session /\ s[j].kind = "initialize"
        BY <3>4, <1>1 DEF Named, s
      <4> QED BY <3>1, <3>2, <3>4, <4>1
    <3> QED BY <3>3, <3>4
  <2> QED BY <2>1, <2>2, <1>5
<1> QED BY <1>6, <1>7, <1>8, <1>9

\* A resolver's action adds a didOpen at most and its request.
LEMMA RunActionGrows ==
  ASSUME TypeOK, Established, HandshakeFirst, NEW r \in Requests, RunAction(r),
         state \in {"Ready", "Degraded"}, UNCHANGED <<state, session, received>>
  PROVE  Established' /\ HandshakeFirst'
<1> DEFINE uris == {FileOf[r]} \ (openedUris \cup Unreadable)
           didOpen == IF uris = {} THEN <<>> ELSE <<Frame("didOpen", 0, session, FileOf[r])>>
           ask == <<Frame("definition", Len(sent) + 1, session, r)>>
           t == didOpen \o ask
<1>1. Frame("didOpen", 0, session, FileOf[r]) \in Frames
  BY LspServerAssumption DEF LspServerAssumption, Frame, Frames, TypeOK
<1>2. Frame("definition", Len(sent) + 1, session, r) \in Frames
  <2>1. Len(sent) + 1 \in Nat /\ session \in Nat BY DEF TypeOK
  <2> QED BY <2>1 DEF Frame, Frames
<1>3. /\ didOpen \in Seq(Frames) /\ \A i \in 1 .. Len(didOpen) : didOpen[i].session = session
      /\ ask \in Seq(Frames) /\ Len(ask) = 1 /\ ask[1].session = session
  BY <1>1, <1>2 DEF Frame
<1>4. writeQueue' = writeQueue \o didOpen \o ask BY DEF RunAction, SendRequest
<1> HIDE DEF didOpen, ask
<1>5. writeQueue' = writeQueue \o t
  <2>1. writeQueue \in Seq(Frames) BY DEF TypeOK
  <2>2. didOpen \in Seq(Frames) /\ ask \in Seq(Frames) BY <1>3
  <2>3. (writeQueue \o didOpen) \o ask = writeQueue \o (didOpen \o ask)
    BY <2>1, <2>2, ConcatAssociative
  <2> QED BY <1>4, <2>3
<1>6. t \in Seq(Frames) /\ \A i \in 1 .. Len(t) : t[i].session = session
  <2>1. /\ t \in Seq(Frames) /\ Len(t) = Len(didOpen) + 1 /\ Len(didOpen) \in Nat
        /\ \A i \in 1 .. Len(didOpen) + 1 :
             t[i] = IF i <= Len(didOpen) THEN didOpen[i] ELSE ask[i - Len(didOpen)]
    <3>1. didOpen \in Seq(Frames) /\ ask \in Seq(Frames) /\ Len(ask) = 1 BY <1>3
    <3>2. /\ t \in Seq(Frames) /\ Len(t) = Len(didOpen) + Len(ask)
          /\ \A i \in 1 .. Len(didOpen) + Len(ask) :
               t[i] = IF i <= Len(didOpen) THEN didOpen[i] ELSE ask[i - Len(didOpen)]
      BY <3>1, ConcatProperties
    <3>3. Len(didOpen) \in Nat BY <3>1
    <3> HIDE DEF t
    <3> QED BY <3>1, <3>2, <3>3
  <2> HIDE DEF t
  <2>2. ASSUME NEW i \in 1 .. Len(didOpen) + 1 PROVE t[i].session = session
    <3>1. CASE i <= Len(didOpen) BY <3>1, <2>1, <1>3
    <3>2. CASE ~(i <= Len(didOpen))
      <4>1. i - Len(didOpen) = 1 BY <3>2, <2>1
      <4> QED BY <3>2, <4>1, <2>1, <1>3
    <3> QED BY <3>1, <3>2
  <2> QED BY <2>1, <2>2
<1> HIDE DEF t
<1>7. Named("initialized") BY DEF Established
<1>8. /\ \A i \in DOMAIN Stream' : Stream'[i].session <= session'
      /\ Named("initialized")' /\ HandshakeFirst'
  BY <1>5, <1>6, <1>7, StreamGrows
<1> QED BY <1>8 DEF Established

\* Of a new process nothing is in the stream but its initialize, last.
LEMMA SpawnEstablishes ==
  ASSUME TypeOK, Established, TrySpawn
  PROVE  Established' /\ HandshakeFirst'
<1> DEFINE f == Frame("initialize", Len(sent) + 1, session + 1, None)
           n == Len(writeQueue)
<1>1. f \in Frames /\ f.kind = "initialize" /\ f.session = session + 1
  <2>1. Len(sent) + 1 \in Nat /\ session + 1 \in Nat BY DEF TypeOK
  <2> QED BY <2>1 DEF Frame, Frames
<1>2. writeQueue \in Seq(Frames) /\ received \in Seq(Frames) /\ session \in Nat BY DEF TypeOK
<1>3. Stream' = Append(writeQueue, f)
  <2>1. received' = <<>> /\ writeQueue' = writeQueue \o <<>> \o <<f>>
    BY DEF TrySpawn, SendRequest
  <2> HIDE DEF f
  <2>2. writeQueue \o <<>> = writeQueue /\ Append(writeQueue, f) = writeQueue \o <<f>>
    BY <1>1, <1>2, ConcatEmptySeq, AppendIsConcat
  <2>3. Append(writeQueue, f) \in Seq(Frames) BY <1>1, <1>2, AppendProperties
  <2> QED BY <2>1, <2>2, <2>3, ConcatEmptySeq DEF Stream
<1>4. \A i \in 1 .. n : writeQueue[i].session <= session
  <2>1. /\ Stream \in Seq(Frames) /\ Len(Stream) = Len(received) + n
        /\ \A i \in 1 .. Len(received) + n :
             Stream[i] = IF i <= Len(received) THEN received[i] ELSE writeQueue[i - Len(received)]
    BY <1>2, ConcatProperties DEF Stream
  <2>2. Len(received) \in Nat /\ n \in Nat BY <1>2
  <2> TAKE i \in 1 .. n
  <2>3. /\ Len(received) + i \in DOMAIN Stream /\ ~(Len(received) + i <= Len(received))
        /\ Len(received) + i \in 1 .. Len(received) + n /\ Len(received) + i - Len(received) = i
    BY <2>1, <2>2
  <2>4. Stream[Len(received) + i] = writeQueue[i] BY <2>1, <2>3
  <2> QED BY <2>3, <2>4 DEF Established
<1> DEFINE u == Append(writeQueue, f)
<1> HIDE DEF f
<1>5. /\ u \in Seq(Frames) /\ Len(u) = n + 1 /\ DOMAIN u = 1 .. n + 1 /\ n \in Nat
      /\ \A i \in 1 .. n : u[i] = writeQueue[i]
      /\ u[n + 1] = f
  BY <1>1, <1>2, AppendProperties
<1>6. \A i \in 1 .. n : writeQueue[i].session \in Nat
  <2> TAKE i \in 1 .. n
  <2>1. writeQueue[i] \in Frames BY <1>2, ElementOfSeq
  <2> QED BY <2>1 DEF Frames
<1> HIDE DEF u
<1>7. session' = session + 1 /\ state' = "Starting" BY DEF TrySpawn
<1>8. \A i \in DOMAIN u :
        /\ u[i].session <= session + 1
        /\ u[i].session = session + 1 => u[i].kind = "initialize"
  <2> TAKE i \in DOMAIN u
  <2>1. CASE i = n + 1 BY <2>1, <1>1, <1>2, <1>5
  <2>2. CASE i \in 1 .. n BY <2>2, <1>2, <1>4, <1>5, <1>6
  <2> QED BY <2>1, <2>2, <1>5
<1>9. Stream' = u BY <1>3 DEF u
<1>10. HandshakeFirst' BY <1>7, <1>8, <1>9 DEF HandshakeFirst
<1>11. Named("initialize")'
  <2>1. n + 1 \in DOMAIN u BY <1>5
  <2> QED BY <1>1, <1>5, <1>7, <1>9, <2>1 DEF Named
<1> QED BY <1>7, <1>8, <1>9, <1>10, <1>11 DEF Established

\* The handshake callback appends the notification to a stream that has the request.
LEMMA CallbackHandshake ==
  ASSUME TypeOK, Established, HandshakeFirst, NoProbeSent, UNCHANGED <<session, received>>,
         NEW id \in pending, NEW ok \in BOOLEAN, Callback(id, ok)
  PROVE  Established' /\ HandshakeFirst'
<1>k. ASSUME UNCHANGED writeQueue, state' \in {state, "NotStarted", "Unavailable"}
      PROVE  Established' /\ HandshakeFirst'
  <2>1. Stream' = Stream BY <1>k DEF Stream
  <2> QED BY <1>k, <2>1 DEF Established, Named, HandshakeFirst, Precedes
<1>1. CASE state = "Starting" /\ ok /\ HandshakeDone /\ sent[id].kind = "initialize"
  <2> DEFINE f == Frame("initialized", 0, session, None)
             t == <<f>>
  <2>1. f \in Frames /\ f.kind = "initialized" /\ f.session = session
    BY DEF Frame, Frames, TypeOK
  <2>2. writeQueue' = Append(writeQueue, f) /\ state' = "Ready" BY <1>1 DEF HandshakeDone
  <2> HIDE DEF f
  <2>3. t \in Seq(Frames) /\ Len(t) = 1 /\ t[1] = f BY <2>1
  <2>4. writeQueue' = writeQueue \o t
    <3>1. writeQueue \in Seq(Frames) BY DEF TypeOK
    <3> QED BY <2>1, <2>2, <3>1, AppendIsConcat
  <2> HIDE DEF t
  <2>5. Named("initialize") BY <1>1 DEF Established
  <2>6. \A i \in 1 .. Len(t) : t[i].session = session /\ t[i].kind = "initialized"
    BY <2>1, <2>3
  <2>7. \E i \in 1 .. Len(t) : t[i].kind = "initialized" BY <2>1, <2>3
  <2>8. /\ \A i \in DOMAIN Stream' : Stream'[i].session <= session'
        /\ Named("initialized")' /\ HandshakeFirst'
    BY <2>3, <2>4, <2>5, <2>6, <2>7, StreamGrows
  <2> QED BY <2>2, <2>8 DEF Established
<1>2. CASE HandleCrash /\ UNCHANGED <<writeQueue, control>>
  BY <1>2, <1>k DEF HandleCrash
<1>3. CASE UNCHANGED <<entry, writeQueue, control>>
  BY <1>3, <1>k DEF entry
<1> QED BY <1>1, <1>2, <1>3, CallbackCases

\* Every step keeps the order of the frames.
LEMMA HandshakeNext ==
  ASSUME "probe" \notin ProjectChecks
  PROVE  TypeOK /\ Managed /\ Established /\ HandshakeFirst /\ [Next]_vars
           => Established' /\ HandshakeFirst'
<1> DEFINE Goal == Established' /\ HandshakeFirst'
<1> SUFFICES ASSUME TypeOK, Managed, Established, HandshakeFirst, [Next]_vars PROVE Goal OBVIOUS
<1> USE DEF AtLoop, entry, transport, process, thread
<1>u. ASSUME UNCHANGED <<session, received, writeQueue>>,
             \/ state' \in {state, "NotStarted", "Unavailable"}
             \/ state \in {"Ready", "Degraded"} /\ state' # "Starting"
      PROVE  Goal
  <2>1. Stream' = Stream BY <1>u DEF Stream
  <2>2. CASE state' \in {state, "NotStarted", "Unavailable"}
    BY <1>u, <2>1, <2>2 DEF Established, Named, HandshakeFirst, Precedes
  <2>3. CASE state \in {"Ready", "Degraded"} /\ state' # "Starting"
    BY <1>u, <2>1, <2>3 DEF Established, Named, HandshakeFirst, Precedes
  <2> QED BY <1>u, <2>2, <2>3
<1>1. ASSUME NEW present \in BOOLEAN, SetDetectedLanguages(present) PROVE Goal
  BY <1>1, <1>u DEF SetDetectedLanguages
<1>2. CASE EnsureServer
  BY <1>2, SpawnEstablishes DEF EnsureServer
<1>3. CASE TickCrashed
  BY <1>3, <1>u DEF TickCrashed, HandleCrash
<1>4. CASE TickRestart
  BY <1>4, SpawnEstablishes DEF TickRestart
<1>5. ASSUME NEW r \in Requests, SendNow(r) PROVE Goal
  BY <1>5, RunActionGrows DEF SendNow
<1>6. ASSUME NEW r \in Requests, SendLater(r) PROVE Goal
  BY <1>6, <1>u DEF SendLater
<1>7. ASSUME NEW n \in 1 .. Len(writeQueue), DrainWrites(n) PROVE Goal
  <2>1. /\ received \in Seq(Frames) /\ writeQueue \in Seq(Frames)
        /\ n \in 1 .. Len(writeQueue) /\ Len(writeQueue) \in Nat
    BY DEF TypeOK
  <2> DEFINE a == SubSeq(writeQueue, 1, n)
             b == SubSeq(writeQueue, n + 1, Len(writeQueue))
  <2>2. received' = received \o a /\ writeQueue' = b /\ UNCHANGED <<state, session>>
    BY <1>7 DEF DrainWrites
  <2>3. a \in Seq(Frames) /\ b \in Seq(Frames) BY <2>1
  <2>4. a \o b = writeQueue
    <3>1. 1 \in 1 .. Len(writeQueue) + 1 /\ n \in 1 - 1 .. Len(writeQueue)
          /\ Len(writeQueue) \in n .. Len(writeQueue)
      BY <2>1
    <3>2. a \o b = SubSeq(writeQueue, 1, Len(writeQueue))
      BY <2>1, <3>1, ConcatAdjacentSubSeq
    <3> QED BY <2>1, <3>2, SubSeqFull
  <2> HIDE DEF a, b
  <2>5. received \in Seq(Frames) BY <2>1
  <2>6. (received \o a) \o b = received \o (a \o b) BY <2>3, <2>5, ConcatAssociative
  <2>7. Stream' = Stream BY <2>2, <2>4, <2>6 DEF Stream
  <2> QED BY <2>2, <2>7 DEF Established, Named, HandshakeFirst, Precedes
<1>8. ASSUME NEW n \in 1 .. Len(stdout), PollRead(n) PROVE Goal
  BY <1>8, <1>u DEF PollRead
<1>9. CASE HandleMessage
  <2>1. CASE Head(buffer).id \in pending
    <3>1. Head(buffer) \in Messages BY <1>9 DEF HandleMessage, TypeOK
    <3>2. Head(buffer).ok \in BOOLEAN BY <3>1 DEF Messages
    <3> QED BY <1>9, <2>1, <3>2, CallbackHandshake DEF HandleMessage, Managed
  <2>2. CASE Head(buffer).id \notin pending
    BY <1>9, <1>u, <2>2 DEF HandleMessage
  <2> QED BY <2>1, <2>2
<1>10. CASE ReadDone
  BY <1>10, <1>u DEF ReadDone
<1>11. CASE RunQueued
  <2>1. Head(pendingRequests) \in Requests BY <1>11 DEF RunQueued, TypeOK
  <2>2. state = "Ready" BY <1>11 DEF RunQueued, Managed, DrainReady
  <2> QED BY <1>11, <2>1, <2>2, RunActionGrows DEF RunQueued
<1>12. ASSUME NEW check \in ProjectChecks, ProjectCheck(check) PROVE Goal
  <2>1. state = "Ready" /\ state' \in {"Ready", "Degraded"}
    BY <1>12 DEF ProjectCheck, Managed, DrainReady
  <2> QED BY <1>12, <2>1, <1>u DEF ProjectCheck
<1>13. CASE CheckTimeouts
  BY <1>13, <1>u DEF CheckTimeouts
<1>14. ASSUME NEW id \in expired, FireTimeout(id) PROVE Goal
  <2>1. id \in pending BY DEF TypeOK
  <2> QED BY <1>14, <2>1, CallbackHandshake DEF FireTimeout, Managed
<1>15. CASE TimeoutsDone
  BY <1>15, <1>u DEF TimeoutsDone
<1>16. CASE Shutdown
  BY <1>16, <1>u DEF Shutdown
<1>17. ASSUME NEW id \in DOMAIN sent, NEW ok \in BOOLEAN, ServerReplies(id, ok) PROVE Goal
  BY <1>17, <1>u DEF ServerReplies
<1>18. CASE ServerDies
  BY <1>18, <1>u DEF ServerDies
<1>19. CASE SecondPasses
  BY <1>19, <1>u DEF SecondPasses
<1>20. CASE UNCHANGED vars
  BY <1>20, <1>u DEF vars
<1> QED
  BY <1>1, <1>2, <1>3, <1>4, <1>5, <1>6, <1>7, <1>8, <1>9, <1>10, <1>11, <1>12, <1>13, <1>14,
     <1>15, <1>16, <1>17, <1>18, <1>19, <1>20 DEF Next

-----------------------------------------------------------------------------
(* The theorems *)

\* The invariant that holds whatever the project checks are.
Inv == TypeOK /\ Place /\ CallbackFiresOnce

\* The invariant of a server without a probe.
ManagedInv == Inv /\ Managed /\ Sorted /\ Established /\ HandshakeFirst

\* Before the first spawn nothing is sent, queued or charged.
LEMMA InvInit == Init => ManagedInv
<1> SUFFICES ASSUME Init PROVE ManagedInv OBVIOUS
<1> USE LspServerAssumption DEF LspServerAssumption, Init
<1>1. TypeOK /\ Place
  <2>1. /\ state \in States
        /\ outcome \in [Requests -> {"idle", "queued", "sent", "answered", "dropped"}]
    BY DEF States
  <2>2. \A S : <<>> \in Seq(S) BY EmptySeq
  <2>3. DOMAIN sent = {} OBVIOUS
  <2>4. restartCount \in Nat /\ restartAfter \in 0 .. BackoffMax /\ session \in Nat OBVIOUS
  <2>5. /\ crashTimes \in Seq(0 .. CrashWindow + 1) /\ pendingRequests \in Seq(Requests)
        /\ sent \in Seq(SentRecs) /\ writeQueue \in Seq(Frames) /\ received \in Seq(Frames)
        /\ stdout \in Seq(Messages) /\ buffer \in Seq(Messages)
    BY <2>2
  <2>6. /\ detected \in BOOLEAN /\ openedUris \subseteq Files /\ alive \subseteq 1 .. session
        /\ control \in {"loop", "read", "drain", "expire", "stopped"}
        /\ pending \subseteq DOMAIN sent /\ replied \subseteq DOMAIN sent
        /\ expired \subseteq pending
    OBVIOUS
  <2> HIDE DEF Init
  <2>7. TypeOK BY <2>1, <2>4, <2>5, <2>6 DEF TypeOK
  <2> QED BY <2>7 DEF Place, Init
<1>2. CallbackFiresOnce BY DEF CallbackFiresOnce
<1>3. Managed
  BY DEF Managed, NoProbeSent, DrainReady, OneChargePerProcess, BreakerMatchesWindow,
         AcceptedIsHeld
<1>4. Sorted BY DEF Sorted
<1>5. Established /\ HandshakeFirst
  <2>1. Stream = <<>> BY DEF Stream
  <2> QED BY <2>1 DEF Established, HandshakeFirst
<1> QED BY <1>1, <1>2, <1>3, <1>4, <1>5 DEF ManagedInv, Inv

\* Inv holds in every state.
THEOREM Invariant == Spec => []Inv
<1>1. Init => Inv BY InvInit DEF ManagedInv
<1>2. Inv /\ [Next]_vars => Inv' BY TypeNext, FiredNext DEF Inv
<1> QED BY <1>1, <1>2, PTL DEF Spec

\* ManagedInv holds in every state of a server without a probe.
THEOREM ManagedInvariant ==
  ASSUME "probe" \notin ProjectChecks
  PROVE  Spec => []ManagedInv
<1>1. Init => ManagedInv BY InvInit
<1>2. ManagedInv /\ [Next]_vars => ManagedInv'
  <2> SUFFICES ASSUME ManagedInv, [Next]_vars PROVE ManagedInv' OBVIOUS
  <2> USE DEF ManagedInv, Inv
  <2>1. Inv' BY TypeNext, FiredNext
  <2>2. Managed' BY ManagedNext
  <2>3. Sorted' BY StepSimulates
  <2>4. Established' /\ HandshakeFirst' BY HandshakeNext
  <2> QED BY <2>1, <2>2, <2>3, <2>4
<1> QED BY <1>1, <1>2, PTL DEF Spec

\* The variables keep their types; only what is pending ever expires.
THEOREM TypeCorrect == Spec => []TypeOK
<1>1. Inv => TypeOK BY DEF Inv
<1> QED BY <1>1, Invariant, PTL

\* Whichever of the answer and the timeout the loop handles first fires the callback, and the
\* other finds it gone.
THEOREM FiredOnce == Spec => []CallbackFiresOnce
<1>1. Inv => CallbackFiresOnce BY DEF Inv
<1> QED BY <1>1, Invariant, PTL

\* Deaths, failed handshakes and late timeouts charge each process once.
THEOREM ChargedOnce ==
  ASSUME "probe" \notin ProjectChecks
  PROVE  Spec => []OneChargePerProcess
<1>1. ManagedInv => OneChargePerProcess BY DEF ManagedInv, Managed
<1> QED BY <1>1, ManagedInvariant, PTL

\* The breaker is open exactly when the window is full, however crashes and seconds interleave.
THEOREM BreakerTrue ==
  ASSUME "probe" \notin ProjectChecks
  PROVE  Spec => []BreakerMatchesWindow
<1>1. ManagedInv => BreakerMatchesWindow BY DEF ManagedInv, Managed
<1> QED BY <1>1, ManagedInvariant, PTL

\* No accepted action is lost between the gate, the drain after the handshake and the pending map.
THEOREM AcceptedHeld ==
  ASSUME "probe" \notin ProjectChecks
  PROVE  Spec => []AcceptedIsHeld
<1>1. ManagedInv => AcceptedIsHeld BY DEF ManagedInv, Managed
<1> QED BY <1>1, ManagedInvariant, PTL

\* No frame reaches a process before its handshake, although the write queue outlives processes.
THEOREM HandshakeOrder ==
  ASSUME "probe" \notin ProjectChecks
  PROVE  Spec => []HandshakeFirst
<1>1. ManagedInv => HandshakeFirst BY DEF ManagedInv, Managed
<1> QED BY <1>1, ManagedInvariant, PTL

\* The manager implements RestartPolicy: the deque of crash times is the window of recent
\* failures because it is sorted, and every step of the server is a start, a failure, a second
\* or a stutter of the policy.
THEOREM PolicyImplemented ==
  ASSUME "probe" \notin ProjectChecks
  PROVE  Spec => ImplementsPolicy
<1>1. Init => Policy!Init BY DEF Init, Policy!Init
<1>2. ManagedInv /\ [Next]_vars => [Policy!Next]_(Policy!vars)
  BY StepSimulates DEF ManagedInv, Inv
<1> QED BY <1>1, <1>2, ManagedInvariant, PTL DEF Spec, ImplementsPolicy, Policy!Spec

-----------------------------------------------------------------------------
(* Documents *)

\* The stream after frames were enqueued.
LEMMA StreamAppends ==
  ASSUME TypeOK, UNCHANGED received, NEW t \in Seq(Frames), writeQueue' = writeQueue \o t
  PROVE  /\ DOMAIN Stream = 1 .. Len(Stream) /\ Len(Stream) \in Nat /\ Len(t) \in Nat
         /\ DOMAIN Stream' = 1 .. Len(Stream) + Len(t)
         /\ \A i \in 1 .. Len(Stream) : Stream'[i] = Stream[i]
         /\ \A i \in 1 .. Len(t) : Stream'[Len(Stream) + i] = t[i]
<1> DEFINE s == Stream
           u == Stream \o t
           n == Len(s)
<1>1. s \in Seq(Frames) /\ DOMAIN s = 1 .. n /\ n \in Nat /\ Len(t) \in Nat BY StreamType
<1>2. Stream' = u
  <2>1. received \in Seq(Frames) /\ writeQueue \in Seq(Frames) BY DEF TypeOK
  <2>2. (received \o writeQueue) \o t = received \o (writeQueue \o t) BY <2>1, ConcatAssociative
  <2> QED BY <2>2 DEF Stream
<1>3. /\ u \in Seq(Frames) /\ Len(u) = n + Len(t)
      /\ \A i \in 1 .. n + Len(t) : u[i] = IF i <= n THEN s[i] ELSE t[i - n]
  BY <1>1, ConcatProperties
<1> HIDE DEF s, u
<1>4. DOMAIN u = 1 .. n + Len(t) BY <1>1, <1>3
<1>5. \A i \in 1 .. n : u[i] = s[i] BY <1>1, <1>3
<1>6. ASSUME NEW i \in 1 .. Len(t) PROVE u[n + i] = t[i]
  <2>1. n + i \in 1 .. n + Len(t) /\ ~(n + i <= n) /\ n + i - n = i BY <1>1
  <2> QED BY <2>1, <1>3
<1> QED BY <1>1, <1>2, <1>4, <1>5, <1>6 DEF s

\* The frame at the place i of the current process, of the kind, about arg.
At(i, kind, arg) ==
  Stream[i].session = session /\ Stream[i].kind = kind /\ Stream[i].arg = arg

OpenSent(f) == \E i \in DOMAIN Stream : At(i, "didOpen", f)

\* A file is opened once in a session ...
OpenedOnce ==
  \A f \in Files : \A i, j \in DOMAIN Stream : At(i, "didOpen", f) /\ At(j, "didOpen", f) => i = j

\* ... and before it is asked about.
OpenedBefore ==
  \A r \in Requests : \A i \in DOMAIN Stream :
    At(i, "definition", r) /\ FileOf[r] \notin Unreadable =>
      \E j \in 1 .. i - 1 : At(j, "didOpen", FileOf[r])

\* No frame is of a session to come, and it is requests that are asked.
Genuine(f) == f.session <= session /\ (f.kind = "definition" => f.arg \in Requests)

\* Whenever an action can run, or a stale probe can make the state one in which it can, the
\* entry knows what its process was told to open.  A crash that tick finds forgets it, and so
\* may the entry until the next process; a failed handshake forgets nothing, because nothing
\* was opened.
EntryKnows ==
  /\ \A i \in DOMAIN Stream : Genuine(Stream[i])
  /\ DrainReady
  /\ state \notin {"Ready", "Degraded"} => openedUris = {}
  /\ Running \/ control \in {"read", "drain", "expire"} =>
       \A f \in Files : f \in openedUris <=> OpenSent(f)

Documents == EntryKnows /\ OpenedOnce /\ OpenedBefore

\* What stands where after frames were enqueued: the old where it was, the new behind it.
LEMMA Places ==
  ASSUME TypeOK, UNCHANGED <<session, received>>, NEW t \in Seq(Frames), writeQueue' = writeQueue \o t,
         NEW kind, NEW arg, NEW i \in DOMAIN Stream'
  PROVE  /\ i \in DOMAIN Stream \/ (i - Len(Stream) \in 1 .. Len(t) /\ i \notin DOMAIN Stream)
         /\ i \in DOMAIN Stream => (At(i, kind, arg)' <=> At(i, kind, arg))
         /\ i \notin DOMAIN Stream =>
              (At(i, kind, arg)' <=> /\ t[i - Len(Stream)].session = session
                                     /\ t[i - Len(Stream)].kind = kind
                                     /\ t[i - Len(Stream)].arg = arg)
<1> DEFINE n == Len(Stream)
           m == Len(t)
<1>1. /\ DOMAIN Stream = 1 .. n /\ n \in Nat /\ m \in Nat
      /\ DOMAIN Stream' = 1 .. n + m
      /\ \A k \in 1 .. n : Stream'[k] = Stream[k]
      /\ \A k \in 1 .. m : Stream'[n + k] = t[k]
  BY StreamAppends
<1> HIDE DEF n, m
<1>2. i \in 1 .. n \/ (i - n \in 1 .. m /\ i = n + (i - n) /\ i \notin 1 .. n) BY <1>1
<1>3. CASE i \in 1 .. n BY <1>3, <1>1 DEF At
<1>4. CASE i - n \in 1 .. m /\ i = n + (i - n) /\ i \notin 1 .. n
  <2>1. Stream'[i] = t[i - n] BY <1>1, <1>4
  <2> QED BY <2>1, <1>1, <1>4 DEF At, n, m
<1> QED BY <1>2, <1>3, <1>4

\* Frames made for the current process.
MadeNow(t) ==
  \A i \in 1 .. Len(t) :
    t[i].session = session /\ (t[i].kind = "definition" => t[i].arg \in Requests)

\* The stream stays genuine, if the frames that were enqueued are.
LEMMA StaysGenuine ==
  ASSUME TypeOK, EntryKnows, UNCHANGED <<session, received>>,
         NEW t \in Seq(Frames), writeQueue' = writeQueue \o t,
         MadeNow(t)
  PROVE  /\ \A i \in DOMAIN Stream' : Genuine(Stream[i])'
         /\ DOMAIN Stream \subseteq DOMAIN Stream'
<1> DEFINE n == Len(Stream)
           m == Len(t)
<1>1. /\ DOMAIN Stream = 1 .. n /\ n \in Nat /\ m \in Nat
      /\ DOMAIN Stream' = 1 .. n + m
      /\ \A k \in 1 .. n : Stream'[k] = Stream[k]
      /\ \A k \in 1 .. m : Stream'[n + k] = t[k]
  BY StreamAppends
<1>2. \A k \in 1 .. m : Genuine(t[k]) BY DEF TypeOK, Genuine, MadeNow
<1> HIDE DEF n, m
<1>3. ASSUME NEW i \in DOMAIN Stream' PROVE Genuine(Stream[i])'
  <2>1. CASE i \in 1 .. n BY <2>1, <1>1 DEF EntryKnows, Genuine
  <2>2. CASE i \notin 1 .. n
    <3>1. i - n \in 1 .. m /\ i = n + (i - n) BY <2>2, <1>1
    <3>2. Stream'[i] = t[i - n] BY <3>1, <1>1
    <3> QED BY <3>1, <3>2, <1>2 DEF Genuine
  <2> QED BY <2>1, <2>2
<1> QED BY <1>1, <1>3

\* Frames that neither open nor ask about a document change nothing of this.
LEMMA SilentFrames ==
  ASSUME TypeOK, Documents, UNCHANGED <<session, received>>,
         NEW t \in Seq(Frames), writeQueue' = writeQueue \o t,
         \A i \in 1 .. Len(t) : /\ t[i].session = session
                                /\ t[i].kind \notin {"didOpen", "definition"}
  PROVE  /\ \A i \in DOMAIN Stream' : Genuine(Stream[i])'
         /\ \A f \in Files : OpenSent(f)' <=> OpenSent(f)
         /\ OpenedOnce' /\ OpenedBefore'
<1>0. MadeNow(t) BY DEF MadeNow
<1>1. \A i \in DOMAIN Stream' : Genuine(Stream[i])' BY <1>0, StaysGenuine DEF Documents
<1>2. DOMAIN Stream \subseteq DOMAIN Stream' /\ DOMAIN Stream = 1 .. Len(Stream)
  BY <1>0, StaysGenuine, StreamType DEF Documents
<1>3. ASSUME NEW kind \in {"didOpen", "definition"}, NEW arg, NEW i \in DOMAIN Stream'
      PROVE  At(i, kind, arg)' <=> i \in DOMAIN Stream /\ At(i, kind, arg)
  <2>1. CASE i \in DOMAIN Stream BY <2>1, Places
  <2>2. CASE i \notin DOMAIN Stream
    <3>1. i - Len(Stream) \in 1 .. Len(t) BY <2>2, Places
    <3>2. t[i - Len(Stream)].kind # kind BY <3>1
    <3> QED BY <2>2, <3>2, Places
  <2> QED BY <2>1, <2>2
<1>6. \A f \in Files : OpenSent(f)' <=> OpenSent(f) BY <1>3, <1>2 DEF OpenSent
<1>7. OpenedOnce' BY <1>3, <1>2 DEF Documents, OpenedOnce
<1>8. OpenedBefore'
  <2> SUFFICES ASSUME NEW r \in Requests, NEW i \in DOMAIN Stream', At(i, "definition", r)',
                      FileOf[r] \notin Unreadable
               PROVE  \E j \in 1 .. i - 1 : At(j, "didOpen", FileOf[r])'
    BY DEF OpenedBefore
  <2>1. i \in DOMAIN Stream /\ At(i, "definition", r) BY <1>3
  <2>2. PICK j \in 1 .. i - 1 : At(j, "didOpen", FileOf[r]) BY <2>1 DEF Documents, OpenedBefore
  <2>3. j \in DOMAIN Stream BY <2>1, <1>2, StreamType
  <2> QED BY <2>2, <2>3, <1>3, <1>2
<1> QED BY <1>1, <1>6, <1>7, <1>8

\* A resolver's action opens the file of its request, unless it is open or cannot be read.
LEMMA RunActionOpens ==
  ASSUME TypeOK, Documents, NEW r \in Requests, RunAction(r),
         state \in {"Ready", "Degraded"}, UNCHANGED <<state, session, received, control>>
  PROVE  Documents'
<1> DEFINE file == FileOf[r]
           open == Frame("didOpen", 0, session, file)
           ask  == Frame("definition", Len(sent) + 1, session, r)
           uris == {file} \ (openedUris \cup Unreadable)
           t == IF uris = {} THEN <<ask>> ELSE <<open>> \o <<ask>>
           n == Len(Stream)
<1>1. file \in Files BY LspServerAssumption DEF LspServerAssumption
<1>2. open \in Frames /\ ask \in Frames
  <2>1. Len(sent) + 1 \in Nat /\ session \in Nat BY DEF TypeOK
  <2> QED BY <1>1, <2>1 DEF Frame, Frames
<1>3. /\ open.session = session /\ open.kind = "didOpen" /\ open.arg = file
      /\ ask.session = session /\ ask.kind = "definition" /\ ask.arg = r
  BY DEF Frame
<1>4. writeQueue' = writeQueue \o (IF uris = {} THEN <<>> ELSE <<open>>) \o <<ask>>
  BY DEF RunAction, SendRequest
<1> HIDE DEF open, ask
<1>5. t \in Seq(Frames) /\ writeQueue' = writeQueue \o t
  <2>1. writeQueue \in Seq(Frames) /\ <<open>> \in Seq(Frames) /\ <<ask>> \in Seq(Frames)
    BY <1>2 DEF TypeOK
  <2>2. writeQueue \o <<>> = writeQueue BY <2>1, ConcatEmptySeq
  <2>3. (writeQueue \o <<open>>) \o <<ask>> = writeQueue \o (<<open>> \o <<ask>>)
    BY <2>1, ConcatAssociative
  <2>4. <<open>> \o <<ask>> \in Seq(Frames) BY <2>1, ConcatProperties
  <2>5. CASE uris = {} BY <2>1, <2>2, <2>5, <1>4
  <2>6. CASE uris # {}
    <3>1. t = <<open>> \o <<ask>> BY <2>6
    <3>2. writeQueue' = (writeQueue \o <<open>>) \o <<ask>> BY <2>6, <1>4
    <3> QED BY <3>1, <3>2, <2>3, <2>4
  <2> QED BY <2>5, <2>6
<1>6. /\ uris = {} => Len(t) = 1 /\ t[1] = ask
      /\ uris # {} => Len(t) = 2 /\ t[1] = open /\ t[2] = ask
  <2>1. <<open>> \in Seq(Frames) /\ <<ask>> \in Seq(Frames) BY <1>2
  <2>2. LET u == <<open>> \o <<ask>>
        IN  Len(u) = 2 /\ u[1] = open /\ u[2] = ask
    BY <2>1, ConcatProperties
  <2> QED BY <2>2
<1>6a. MadeNow(t)
  <2> SUFFICES ASSUME NEW k \in 1 .. Len(t)
               PROVE  t[k].session = session /\ (t[k].kind = "definition" => t[k].arg \in Requests)
    BY DEF MadeNow
  <2>1. t[k] = open \/ t[k] = ask BY <1>6
  <2> HIDE DEF t
  <2> QED BY <2>1, <1>3
<1>7. /\ \A i \in DOMAIN Stream' : Genuine(Stream[i])'
      /\ DOMAIN Stream \subseteq DOMAIN Stream'
  <2> HIDE DEF t
  <2>1. EntryKnows /\ UNCHANGED <<session, received>> BY DEF Documents
  <2>3. t \in Seq(Frames) /\ writeQueue' = writeQueue \o t BY <1>5
  <2> QED BY <2>1, <1>6a, <2>3, StaysGenuine
<1>8. DOMAIN Stream = 1 .. n /\ n \in Nat /\ DOMAIN Stream' = 1 .. n + Len(t)
  BY <1>5, StreamAppends
<1>9. openedUris' = openedUris \cup uris BY DEF RunAction
<1>w. uris # {} => uris = {file} /\ file \notin openedUris OBVIOUS
<1>w1. uris = {} => file \in openedUris \/ file \in Unreadable OBVIOUS
<1> HIDE DEF t, uris
<1>10. ASSUME NEW kind, NEW arg, NEW i \in DOMAIN Stream'
       PROVE  At(i, kind, arg)' <=>
                \/ i \in DOMAIN Stream /\ At(i, kind, arg)
                \/ i = n + Len(t) /\ kind = "definition" /\ arg = r
                \/ uris # {} /\ i = n + 1 /\ kind = "didOpen" /\ arg = file
  <2>0. i \in Int /\ n \in Int /\ DOMAIN Stream = 1 .. n BY <1>8, <1>6
  <2>1. \/ i \in DOMAIN Stream /\ i # n + Len(t) /\ i # n + 1
        \/ i \notin DOMAIN Stream /\ i - n \in 1 .. Len(t)
    BY <1>8, <1>6
  <2>2. CASE i \in DOMAIN Stream /\ i # n + Len(t) /\ i # n + 1
    <3>1. At(i, kind, arg)' <=> At(i, kind, arg) BY <2>2, <1>5, Places
    <3> QED BY <2>2, <3>1
  <2>3. CASE i \notin DOMAIN Stream /\ i - n \in 1 .. Len(t)
    <3>1. At(i, kind, arg)' <=> /\ t[i - n].session = session
                                /\ t[i - n].kind = kind /\ t[i - n].arg = arg
      BY <2>3, <1>5, Places
    <3>2. PICK k \in 1 .. Len(t) : i - n = k BY <2>3
    <3>3. i = n + k BY <3>2, <2>0
    <3>4. At(i, kind, arg)' <=> t[k].session = session /\ t[k].kind = kind /\ t[k].arg = arg
      BY <3>1, <3>2
    <3> HIDE DEF n
    <3>5. CASE uris = {}
      <4>1. Len(t) = 1 /\ t[1] = ask BY <3>5, <1>6
      <4>2. k = 1 BY <4>1
      <4> QED BY <2>3, <3>3, <3>4, <3>5, <4>1, <4>2, <1>3
    <3>6. CASE uris # {}
      <4>1. Len(t) = 2 /\ t[1] = open /\ t[2] = ask BY <3>6, <1>6
      <4>2. k = 1 \/ k = 2 BY <4>1
      <4>3. CASE k = 1
        <5>1. i = n + 1 /\ i # n + Len(t) BY <4>1, <4>3, <3>3, <2>0
        <5> QED BY <2>3, <3>4, <3>6, <4>1, <4>3, <5>1, <1>3
      <4>4. CASE k = 2
        <5>1. i # n + 1 /\ i = n + Len(t) BY <4>1, <4>4, <3>3, <2>0
        <5> QED BY <2>3, <3>4, <3>6, <4>1, <4>4, <5>1, <1>3
      <4> QED BY <4>2, <4>3, <4>4
    <3> QED BY <3>5, <3>6
  <2> QED BY <2>1, <2>2, <2>3
<1>11. \A f \in Files : f \in openedUris <=> OpenSent(f)
  BY DEF Documents, EntryKnows, Running
<1>12. n + 1 \in DOMAIN Stream' /\ n + 1 \notin DOMAIN Stream BY <1>6, <1>8
<1>13. \A f \in Files : f \in openedUris' <=> OpenSent(f)'
  <2> TAKE f \in Files
  <2>1. OpenSent(f)' <=> OpenSent(f) \/ (uris # {} /\ f = file)
    BY <1>7, <1>10, <1>12 DEF OpenSent
  <2> QED BY <2>1, <1>9, <1>11, <1>w
<1>14. EntryKnows' BY <1>7, <1>13 DEF Documents, EntryKnows, DrainReady
<1>15. OpenedOnce'
  <2> SUFFICES ASSUME NEW f \in Files, NEW i \in DOMAIN Stream', NEW j \in DOMAIN Stream',
                      At(i, "didOpen", f)', At(j, "didOpen", f)'
               PROVE  i = j
    BY DEF OpenedOnce
  <2>1. CASE uris # {} /\ f = file
    <3>1. ~OpenSent(f) BY <2>1, <1>11, <1>w
    <3> QED BY <2>1, <3>1, <1>10 DEF OpenSent
  <2>2. CASE ~(uris # {} /\ f = file)
    <3>1. /\ i \in DOMAIN Stream /\ At(i, "didOpen", f)
          /\ j \in DOMAIN Stream /\ At(j, "didOpen", f)
      BY <2>2, <1>10
    <3> QED BY <3>1 DEF Documents, OpenedOnce
  <2> QED BY <2>1, <2>2
<1>16. OpenedBefore'
  <2> SUFFICES ASSUME NEW q \in Requests, NEW i \in DOMAIN Stream', At(i, "definition", q)',
                      FileOf[q] \notin Unreadable
               PROVE  \E j \in 1 .. i - 1 : At(j, "didOpen", FileOf[q])'
    BY DEF OpenedBefore
  <2>1. CASE i \in DOMAIN Stream /\ At(i, "definition", q)
    <3>1. PICK j \in 1 .. i - 1 : At(j, "didOpen", FileOf[q]) BY <2>1 DEF Documents, OpenedBefore
    <3>2. j \in DOMAIN Stream BY <2>1, <1>8
    <3> QED BY <3>1, <3>2, <1>7, <1>10
  <2>2. CASE i = n + Len(t) /\ q = r /\ uris # {}
    <3>1. n + 1 \in 1 .. i - 1 BY <2>2, <1>6, <1>8
    <3>2. PICK p \in DOMAIN Stream' : p = n + 1 BY <1>12
    <3>3. At(p, "didOpen", file)' BY <2>2, <1>10, <3>2
    <3>4. FileOf[q] = file BY <2>2
    <3> HIDE DEF file
    <3> QED BY <3>1, <3>2, <3>3, <3>4
  <2>3. CASE i = n + Len(t) /\ q = r /\ uris = {}
    <3>1. OpenSent(file) BY <2>3, <1>1, <1>11, <1>w1
    <3>2. PICK j \in DOMAIN Stream : At(j, "didOpen", file) BY <3>1 DEF OpenSent
    <3>3. j \in 1 .. i - 1 BY <2>3, <1>6, <1>8
    <3> QED BY <2>3, <3>2, <3>3, <1>7, <1>10
  <2> QED BY <2>1, <2>2, <2>3, <1>10
<1> QED BY <1>14, <1>15, <1>16 DEF Documents
\* When the stream stays as it is, what matters is what the entry knows of it.
LEMMA SameStream ==
  ASSUME Documents, Stream' = Stream, UNCHANGED session, DrainReady',
         state' \notin {"Ready", "Degraded"} => openedUris' = {},
         Running' \/ control' \in {"read", "drain", "expire"} =>
           /\ Running \/ control \in {"read", "drain", "expire"}
           /\ UNCHANGED openedUris
  PROVE  Documents'
<1> USE DEF Documents
<1>1. \A i \in DOMAIN Stream' : Genuine(Stream[i])' BY DEF EntryKnows, Genuine
<1>2. \A kind, arg, i : At(i, kind, arg)' <=> At(i, kind, arg) BY DEF At
<1>3. OpenedOnce' /\ OpenedBefore' BY <1>2 DEF OpenedOnce, OpenedBefore
<1>4. \A f \in Files : OpenSent(f)' <=> OpenSent(f) BY <1>2 DEF OpenSent
<1>5. EntryKnows' BY <1>1, <1>4 DEF EntryKnows
<1> QED BY <1>3, <1>5

\* A new process has been told nothing, whatever an earlier one left in the queue.
LEMMA SpawnForgets ==
  ASSUME TypeOK, Documents, TrySpawn, state = "NotStarted", control = "loop"
  PROVE  Documents'
<1> DEFINE f == Frame("initialize", Len(sent) + 1, session + 1, None)
           n == Len(writeQueue)
           u == Append(writeQueue, f)
<1>1. f \in Frames /\ f.kind = "initialize" /\ f.session = session + 1
  <2>1. Len(sent) + 1 \in Nat /\ session + 1 \in Nat BY DEF TypeOK
  <2> QED BY <2>1 DEF Frame, Frames
<1>2. writeQueue \in Seq(Frames) /\ received \in Seq(Frames) /\ session \in Nat BY DEF TypeOK
<1>3. Stream' = u
  <2>1. received' = <<>> /\ writeQueue' = writeQueue \o <<>> \o <<f>>
    BY DEF TrySpawn, SendRequest
  <2> HIDE DEF f
  <2>2. writeQueue \o <<>> = writeQueue /\ u = writeQueue \o <<f>>
    BY <1>1, <1>2, ConcatEmptySeq, AppendIsConcat
  <2>3. u \in Seq(Frames) BY <1>1, <1>2, AppendProperties
  <2> QED BY <2>1, <2>2, <2>3, ConcatEmptySeq DEF Stream
<1>4. \A i \in 1 .. n : Genuine(writeQueue[i])
  <2>1. /\ Stream \in Seq(Frames) /\ Len(Stream) = Len(received) + n
        /\ \A i \in 1 .. Len(received) + n :
             Stream[i] = IF i <= Len(received) THEN received[i] ELSE writeQueue[i - Len(received)]
    BY <1>2, ConcatProperties DEF Stream
  <2>2. Len(received) \in Nat /\ n \in Nat BY <1>2
  <2> TAKE i \in 1 .. n
  <2>3. /\ Len(received) + i \in DOMAIN Stream /\ ~(Len(received) + i <= Len(received))
        /\ Len(received) + i \in 1 .. Len(received) + n /\ Len(received) + i - Len(received) = i
    BY <2>1, <2>2
  <2>4. Stream[Len(received) + i] = writeQueue[i] BY <2>1, <2>3
  <2> QED BY <2>3, <2>4 DEF Documents, EntryKnows
<1> HIDE DEF f
<1>5. /\ u \in Seq(Frames) /\ Len(u) = n + 1 /\ DOMAIN u = 1 .. n + 1 /\ n \in Nat
      /\ \A i \in 1 .. n : u[i] = writeQueue[i]
      /\ u[n + 1] = f
  BY <1>1, <1>2, AppendProperties
<1>6. \A i \in 1 .. n : writeQueue[i].session \in Nat
  <2> TAKE i \in 1 .. n
  <2>1. writeQueue[i] \in Frames BY <1>2, ElementOfSeq
  <2> QED BY <2>1 DEF Frames
<1> HIDE DEF u
<1>7. session' = session + 1 /\ state' = "Starting" /\ UNCHANGED <<control, openedUris>>
  BY DEF TrySpawn, thread
<1>8. ASSUME NEW i \in DOMAIN u
      PROVE  /\ u[i].session <= session + 1
             /\ u[i].kind = "definition" => u[i].arg \in Requests
             /\ u[i].session = session + 1 => u[i].kind = "initialize"
  <2>1. CASE i = n + 1 BY <2>1, <1>1, <1>2, <1>5
  <2>2. CASE i # n + 1
    <3>1. i \in 1 .. n BY <2>2, <1>5
    <3>2. /\ writeQueue[i].session <= session /\ writeQueue[i].session \in Nat
          /\ writeQueue[i].kind = "definition" => writeQueue[i].arg \in Requests
      BY <3>1, <1>4, <1>6 DEF Genuine
    <3> QED BY <3>1, <3>2, <1>2, <1>5
  <2> QED BY <2>1, <2>2
<1>9. \A i \in DOMAIN Stream' : Genuine(Stream[i])' BY <1>3, <1>7, <1>8 DEF Genuine
<1>10. \A arg : \A i \in DOMAIN Stream' : ~At(i, "didOpen", arg)' /\ ~At(i, "definition", arg)'
  BY <1>3, <1>7, <1>8 DEF At
<1>11. OpenedOnce' /\ OpenedBefore' BY <1>10 DEF OpenedOnce, OpenedBefore
<1>12. \A f_1 \in Files : ~OpenSent(f_1)' BY <1>10 DEF OpenSent
<1>13. openedUris' = {} BY <1>7 DEF Documents, EntryKnows
<1>14. EntryKnows' BY <1>7, <1>9, <1>12, <1>13 DEF EntryKnows, DrainReady
<1> QED BY <1>11, <1>14 DEF Documents

\* A callback opens nothing: it completes the handshake, or charges a crash to a server that has
\* opened nothing yet, or degrades the server in whatever state it is.
LEMMA CallbackOpens ==
  ASSUME TypeOK, Documents, NEW id \in pending, NEW ok \in BOOLEAN, Callback(id, ok),
         control \in {"read", "expire"}, UNCHANGED <<session, received>>
  PROVE  Documents'
<1>1. CASE UNCHANGED <<state, openedUris, writeQueue, control>>
  <2>1. Stream' = Stream BY <1>1 DEF Stream
  <2> QED BY <2>1, <1>1, SameStream DEF Documents, EntryKnows, DrainReady, Running
<1>2. CASE state' = "Degraded" /\ UNCHANGED <<openedUris, writeQueue, control>>
  <2>1. Stream' = Stream BY <1>2 DEF Stream
  <2> QED BY <2>1, <1>2, SameStream DEF Documents, EntryKnows, DrainReady, Running
<1>3. CASE state = "Starting" /\ HandleCrash /\ UNCHANGED <<writeQueue, control>>
  <2>1. Stream' = Stream BY <1>3 DEF Stream
  <2>2. openedUris = {} /\ openedUris' = {} /\ DrainReady'
    BY <1>3 DEF HandleCrash, Documents, EntryKnows, DrainReady
  <2> QED BY <2>1, <2>2, <1>3, SameStream DEF Running
<1>4. CASE state = "Starting" /\ HandshakeDone
  <2> DEFINE f == Frame("initialized", 0, session, None)
             t == <<f>>
  <2>1. f \in Frames /\ f.kind = "initialized" /\ f.session = session
    BY DEF Frame, Frames, TypeOK
  <2>2. writeQueue' = writeQueue \o t /\ t \in Seq(Frames)
    BY <1>4, <2>1 DEF HandshakeDone, TypeOK
  <2>3. \A i \in 1 .. Len(t) : t[i].session = session /\ t[i].kind \notin {"didOpen", "definition"}
    BY <2>1
  <2> HIDE DEF t
  <2>4. /\ \A i \in DOMAIN Stream' : Genuine(Stream[i])'
        /\ \A g \in Files : OpenSent(g)' <=> OpenSent(g)
        /\ OpenedOnce' /\ OpenedBefore'
    BY <2>2, <2>3, SilentFrames
  <2>5. state' = "Ready" /\ UNCHANGED openedUris BY <1>4 DEF HandshakeDone
  <2>6. EntryKnows' BY <1>4, <2>4, <2>5 DEF Documents, EntryKnows, DrainReady, Running
  <2> QED BY <2>4, <2>6 DEF Documents
<1> QED
  BY <1>1, <1>2, <1>3, <1>4
  DEF Callback, InitializeCallback, ProbeCallback, entry

\* Documents is inductive, probes or not.
LEMMA DocumentsNext == TypeOK /\ Documents /\ [Next]_vars => Documents'
<1> SUFFICES ASSUME TypeOK, Documents, [Next]_vars PROVE Documents' OBVIOUS
<1> USE DEF AtLoop, entry, transport, process, thread
<1>u. ASSUME UNCHANGED <<session, received, writeQueue, openedUris>>,
             state' = state \/ (state = "Starting" /\ state' = "NotStarted"),
             control' = control \/ control' \in {"loop", "stopped"} \/ Running,
             control' # "drain" \/ UNCHANGED <<control, state>>
      PROVE  Documents'
  <2>1. Stream' = Stream BY <1>u DEF Stream
  <2> QED BY <1>u, <2>1, SameStream DEF Documents, EntryKnows, DrainReady, Running
<1>1. ASSUME NEW present \in BOOLEAN, SetDetectedLanguages(present) PROVE Documents'
  BY <1>1, <1>u DEF SetDetectedLanguages
<1>2. CASE EnsureServer
  BY <1>2, SpawnForgets DEF EnsureServer
<1>3. CASE TickCrashed
  <2>1. Stream' = Stream /\ UNCHANGED <<session, control>> BY <1>3 DEF TickCrashed, Stream
  <2>2. openedUris' = {} /\ state' \in {"NotStarted", "Unavailable"} /\ control = "loop"
    BY <1>3 DEF TickCrashed, HandleCrash
  <2> QED BY <2>1, <2>2, SameStream DEF DrainReady, Running
<1>4. CASE TickRestart
  BY <1>4, SpawnForgets DEF TickRestart
<1>5. ASSUME NEW r \in Requests, SendNow(r) PROVE Documents'
  BY <1>5, RunActionOpens DEF SendNow
<1>6. ASSUME NEW r \in Requests, SendLater(r) PROVE Documents'
  BY <1>6, <1>u DEF SendLater
<1>7. ASSUME NEW n \in 1 .. Len(writeQueue), DrainWrites(n) PROVE Documents'
  <2>1. /\ received \in Seq(Frames) /\ writeQueue \in Seq(Frames)
        /\ n \in 1 .. Len(writeQueue) /\ Len(writeQueue) \in Nat
    BY DEF TypeOK
  <2> DEFINE a == SubSeq(writeQueue, 1, n)
             b == SubSeq(writeQueue, n + 1, Len(writeQueue))
  <2>2. received' = received \o a /\ writeQueue' = b /\ UNCHANGED <<state, session, openedUris, control>>
    BY <1>7 DEF DrainWrites
  <2>3. a \in Seq(Frames) /\ b \in Seq(Frames) BY <2>1
  <2>4. a \o b = writeQueue
    <3>1. 1 \in 1 .. Len(writeQueue) + 1 /\ n \in 1 - 1 .. Len(writeQueue)
          /\ Len(writeQueue) \in n .. Len(writeQueue)
      BY <2>1
    <3>2. a \o b = SubSeq(writeQueue, 1, Len(writeQueue))
      BY <2>1, <3>1, ConcatAdjacentSubSeq
    <3> QED BY <2>1, <3>2, SubSeqFull
  <2> HIDE DEF a, b
  <2>5. (received \o a) \o b = received \o (a \o b) BY <2>1, <2>3, ConcatAssociative
  <2>6. Stream' = Stream BY <2>2, <2>4, <2>5 DEF Stream
  <2> QED BY <2>2, <2>6, SameStream DEF Documents, EntryKnows, DrainReady, Running
<1>8. ASSUME NEW n \in 1 .. Len(stdout), PollRead(n) PROVE Documents'
  BY <1>8, <1>u DEF PollRead
<1>9. CASE HandleMessage
  <2>1. CASE Head(buffer).id \in pending
    <3>1. Head(buffer) \in Messages BY <1>9 DEF HandleMessage, TypeOK
    <3>2. Head(buffer).ok \in BOOLEAN BY <3>1 DEF Messages
    <3> QED BY <1>9, <2>1, <3>2, CallbackOpens DEF HandleMessage
  <2>2. CASE Head(buffer).id \notin pending
    BY <1>9, <1>u, <2>2 DEF HandleMessage
  <2> QED BY <2>1, <2>2
<1>10. CASE ReadDone
  BY <1>10, <1>u DEF ReadDone
<1>11. CASE RunQueued
  <2>1. Head(pendingRequests) \in Requests BY <1>11 DEF RunQueued, TypeOK
  <2>2. state = "Ready" BY <1>11 DEF RunQueued, Documents, EntryKnows, DrainReady
  <2> QED BY <1>11, <2>1, <2>2, RunActionOpens DEF RunQueued
<1>12. ASSUME NEW check \in ProjectChecks, ProjectCheck(check) PROVE Documents'
  <2>1. /\ state = "Ready" /\ state' \in {"Ready", "Degraded"} /\ control = "drain" /\ control' = "read"
        /\ UNCHANGED <<session, received, openedUris>>
    BY <1>12 DEF ProjectCheck, Documents, EntryKnows, DrainReady
  <2>2. CASE writeQueue' = writeQueue
    <3>1. Stream' = Stream BY <2>1, <2>2 DEF Stream
    <3> QED BY <2>1, <3>1, SameStream DEF DrainReady, Running
  <2>3. CASE SendRequest(session, <<>>, "probe", None)
    <3> DEFINE f == Frame("probe", Len(sent) + 1, session, None)
               t == <<f>>
    <3>1. f \in Frames /\ f.kind = "probe" /\ f.session = session
      <4>1. Len(sent) + 1 \in Nat BY DEF TypeOK
      <4> QED BY <4>1 DEF Frame, Frames, TypeOK
    <3>2. t \in Seq(Frames) /\ writeQueue \in Seq(Frames) BY <3>1 DEF TypeOK
    <3>3. writeQueue' = writeQueue \o <<>> \o t BY <2>3 DEF SendRequest
    <3>4. \A i \in 1 .. Len(t) : t[i].session = session /\ t[i].kind \notin {"didOpen", "definition"}
      BY <3>1
    <3> HIDE DEF t
    <3>5. writeQueue' = writeQueue \o t BY <3>2, <3>3, ConcatEmptySeq
    <3>6. /\ \A i \in DOMAIN Stream' : Genuine(Stream[i])'
          /\ \A g \in Files : OpenSent(g)' <=> OpenSent(g)
          /\ OpenedOnce' /\ OpenedBefore'
      BY <2>1, <3>2, <3>4, <3>5, SilentFrames
    <3>7. EntryKnows' BY <2>1, <3>6 DEF Documents, EntryKnows, DrainReady, Running
    <3> QED BY <3>6, <3>7 DEF Documents
  <2> QED BY <1>12, <2>2, <2>3 DEF ProjectCheck
<1>13. CASE CheckTimeouts
  BY <1>13, <1>u DEF CheckTimeouts
<1>14. ASSUME NEW id \in expired, FireTimeout(id) PROVE Documents'
  <2>1. id \in pending BY DEF TypeOK
  <2> QED BY <1>14, <2>1, CallbackOpens DEF FireTimeout
<1>15. CASE TimeoutsDone
  BY <1>15, <1>u DEF TimeoutsDone
<1>16. CASE Shutdown
  BY <1>16, <1>u DEF Shutdown
<1>17. ASSUME NEW id \in DOMAIN sent, NEW ok \in BOOLEAN, ServerReplies(id, ok) PROVE Documents'
  BY <1>17, <1>u DEF ServerReplies
<1>18. CASE ServerDies
  BY <1>18, <1>u DEF ServerDies
<1>19. CASE SecondPasses
  BY <1>19, <1>u DEF SecondPasses
<1>20. CASE UNCHANGED vars
  BY <1>20, <1>u DEF vars
<1> QED
  BY <1>1, <1>2, <1>3, <1>4, <1>5, <1>6, <1>7, <1>8, <1>9, <1>10, <1>11, <1>12, <1>13, <1>14,
     <1>15, <1>16, <1>17, <1>18, <1>19, <1>20 DEF Next

\* What Documents says of the frames is what the run checks.
LEMMA DocumentsShow == TypeOK /\ Documents => OpenedOnceBeforeAsked
<1> SUFFICES ASSUME TypeOK, Documents, NEW i \in DOMAIN Stream,
                    Stream[i].session = session, Stream[i].kind = "definition",
                    FileOf[Stream[i].arg] \notin Unreadable
             PROVE  \E j \in 1 .. i - 1 :
                      /\ Stream[j].session = session
                      /\ Stream[j].kind = "didOpen" /\ Stream[j].arg = FileOf[Stream[i].arg]
                      /\ \A k \in DOMAIN Stream \ {j} : Stream[k] # Stream[j]
  BY DEF OpenedOnceBeforeAsked
<1>1. PICK r \in Requests : r = Stream[i].arg BY DEF Documents, EntryKnows, Genuine
<1>2. FileOf[r] \in Files BY LspServerAssumption DEF LspServerAssumption
<1>3. PICK j \in 1 .. i - 1 : At(j, "didOpen", FileOf[r])
  BY <1>1 DEF Documents, OpenedBefore, At
<1>4. DOMAIN Stream = 1 .. Len(Stream) /\ Len(Stream) \in Nat BY StreamType
<1>5. j \in DOMAIN Stream BY <1>3, <1>4
<1>6. ASSUME NEW k \in DOMAIN Stream \ {j}, Stream[k] = Stream[j] PROVE FALSE
  <2>1. At(k, "didOpen", FileOf[r]) BY <1>3, <1>6 DEF At
  <2> QED BY <1>2, <1>3, <1>5, <2>1 DEF Documents, OpenedOnce
<1> QED BY <1>1, <1>3, <1>6 DEF At

\* In its own session a readable file is opened once and before it is asked about, whichever
\* callbacks, crashes and late probes come between.
THEOREM OpenedBeforeAsked == Spec => []OpenedOnceBeforeAsked
<1> DEFINE DInv == TypeOK /\ Documents
<1>1. Init => Documents
  <2> SUFFICES ASSUME Init PROVE Documents OBVIOUS
  <2>1. Stream = <<>> BY DEF Init, Stream
  <2>2. DOMAIN Stream = {} BY <2>1
  <2> QED BY <2>2 DEF Init, Documents, EntryKnows, OpenedOnce, OpenedBefore, OpenSent, DrainReady, Running
<1>2. TypeOK /\ Documents /\ [Next]_vars => Documents' BY DocumentsNext
<1>3. TypeOK /\ Documents => OpenedOnceBeforeAsked BY DocumentsShow
<1> QED BY <1>1, <1>2, <1>3, TypeCorrect, PTL DEF Spec

=============================================================================
