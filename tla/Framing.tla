------------------------------- MODULE Framing -------------------------------
(***************************************************************************)
(* The byte streams between the daemon and one language server:            *)
(* LspFraming (src/lsp/lsp_framing.cpp), poll_read and drain_writes of     *)
(* LspTransport (src/lsp/lsp_transport.cpp) and the pipes of LspProcess    *)
(* (src/lsp/lsp_process.cpp), across processes that die between any two    *)
(* bytes.  The framing buffer and the write queue belong to the            *)
(* transport, which outlives the process.                                  *)
(*                                                                         *)
(* A frame is the two halves of "Content-Length: ", the number, the ends   *)
(* of this line and of the empty one, and the bytes of its body.  What a   *)
(* message says, and which callback it goes to, is in LspServer, where     *)
(* frames are read and written whole.                                      *)
(***************************************************************************)
EXTENDS Integers, Sequences, SequencesExt

CONSTANTS
  Messages,     \* what the server writes
  Requests,     \* what the daemon writes
  Size,         \* Content-Length of each
  MaxFrames,    \* bound: frames that a process writes, frames that are queued at once
  MaxQueued,    \* bound: frames that are queued in all
  MaxSpawns     \* bound: processes

ASSUME FramingAssumption ==
  /\ Size \in [Messages \cup Requests -> Nat \ {0}]
  /\ MaxFrames \in Nat /\ MaxQueued \in Nat /\ MaxSpawns \in Nat

VARIABLES
  control,      \* the daemon: "loop", between two extract() of a read, or "dead"
  buffer, state, content_length,   \* LspFraming
  write_queue,  \* frames with the offset of what is written
  alive,        \* the process lives
  reaped,       \* the daemon knows that it does not
  stdout,       \* bytes in the pipe from the process
  rest,         \* what the process has still to write of its frame
  stdin,        \* bytes that the process got
  sent,         \* history: messages whose frame the process has written
  delivered,    \* history: messages of this session that extract() returned
  clean,        \* history: the session began with nothing left of the one before
  begun,        \* history: the session began with a frame half written
  queued, spawns   \* counters for the bounds

reader == <<control, buffer, state, content_length, delivered>>
writer == <<write_queue, stdin, queued>>
server == <<alive, reaped, stdout, rest, sent>>
start  == <<clean, begun, spawns>>
vars   == <<reader, writer, server, start>>

\* LspFraming::encode.
Byte(m, part, i) == [msg |-> m, part |-> part, at |-> i]
Body(m)   == [i \in 1..Size[m] |-> Byte(m, "body", i)]
Header(m) == <<Byte(m, "name", 1), Byte(m, "name", 2), Byte(m, "number", 1),
               Byte(m, "crlf", 1), Byte(m, "crlf", 2)>>
Encode(m) == Header(m) \o Body(m)

Init ==
  /\ control = "loop" /\ buffer = <<>> /\ state = "HEADER" /\ content_length = 0
  /\ write_queue = <<>> /\ stdin = <<>> /\ queued = 0
  /\ alive = FALSE /\ reaped = TRUE /\ stdout = <<>> /\ rest = <<>> /\ sent = <<>>
  /\ delivered = <<>> /\ clean = TRUE /\ begun = FALSE /\ spawns = 0

-----------------------------------------------------------------------------
(* The process *)

\* New pipes; the transport keeps what it has.
Spawn ==
  /\ control = "loop" /\ reaped /\ spawns < MaxSpawns
  /\ alive' = TRUE /\ reaped' = FALSE
  /\ stdout' = <<>> /\ stdin' = <<>> /\ rest' = <<>> /\ sent' = <<>> /\ delivered' = <<>>
  /\ clean' = (buffer = <<>> /\ state = "HEADER")
  /\ begun' = (write_queue # <<>> /\ Head(write_queue).offset > 0)
  /\ spawns' = spawns + 1
  /\ UNCHANGED <<control, buffer, state, content_length, write_queue, queued>>

\* It starts a frame when it has written the last one, and writes it in any number of pieces.
ServerWrites(m) ==
  /\ alive /\ rest = <<>> /\ Len(sent) < MaxFrames
  /\ \E n \in 1..Len(Encode(m)) :
       /\ stdout' = stdout \o SubSeq(Encode(m), 1, n)
       /\ rest' = SubSeq(Encode(m), n + 1, Len(Encode(m)))
  /\ sent' = Append(sent, m)
  /\ UNCHANGED <<reader, writer, start, alive, reaped>>

ServerContinues ==
  /\ alive /\ rest # <<>>
  /\ \E n \in 1..Len(rest) :
       stdout' = stdout \o SubSeq(rest, 1, n) /\ rest' = SubSeq(rest, n + 1, Len(rest))
  /\ UNCHANGED <<reader, writer, start, alive, reaped, sent>>

\* What it has written can be read until it is reaped.
ServerDies ==
  /\ alive
  /\ alive' = FALSE
  /\ UNCHANGED <<reader, writer, start, reaped, stdout, rest, sent>>

\* tick: waitpid, the pipes are closed, handle_crash leaves the transport as it is.
Reap ==
  /\ control = "loop" /\ ~alive /\ ~reaped
  /\ reaped' = TRUE /\ stdout' = <<>>
  /\ UNCHANGED <<reader, writer, start, alive, rest, sent>>

-----------------------------------------------------------------------------
(* Reading *)

\* poll_read: one read of any length, then extract() until it returns nothing.
PollRead ==
  /\ control = "loop" /\ ~reaped /\ stdout # <<>>
  /\ \E n \in 1..Len(stdout) :
       buffer' = buffer \o SubSeq(stdout, 1, n) /\ stdout' = SubSeq(stdout, n + 1, Len(stdout))
  /\ control' = "extract"
  /\ UNCHANGED <<state, content_length, delivered, writer, alive, reaped, rest, sent, start>>

IsCrlf(i)  == i \in DOMAIN buffer /\ buffer[i].part = "crlf"
Separators == {i \in DOMAIN buffer : IsCrlf(i) /\ IsCrlf(i + 1)}
Separator  == CHOOSE i \in Separators : \A j \in Separators : i <= j

IsName(i)  == i < Separator /\ buffer[i].part = "name"

\* The lines of the header block that begin with the whole name and go on after it.  What
\* is left of another frame may stand before a name, and makes it no such line, or between
\* a name and its number.
Lengths == {i \in 1..Separator - 3 : /\ i = 1 \/ IsCrlf(i - 1)
                                     /\ IsName(i) /\ buffer[i].at = 1
                                     /\ IsName(i + 1) /\ buffer[i + 1].at = 2
                                     /\ ~IsCrlf(i + 2)}

\* stoull throws when no digit follows, and takes no more than the digits; the last counts.
BadNumber == \E i \in Lengths : buffer[i + 2].part # "number"
HeaderLength == Size[buffer[(CHOOSE i \in Lengths : \A j \in Lengths : j <= i) + 2].msg]

NeedMoreHeader ==
  /\ control = "extract" /\ state = "HEADER" /\ Separators = {}
  /\ control' = "loop"
  /\ UNCHANGED <<buffer, state, content_length, delivered, writer, server, start>>

\* A block without a length is dropped, and extract() returns as if there were no more.
SkipHeader ==
  /\ control = "extract" /\ state = "HEADER" /\ Separators # {} /\ Lengths = {}
  /\ buffer' = SubSeq(buffer, Separator + 2, Len(buffer))
  /\ content_length' = 0
  /\ control' = "loop"
  /\ UNCHANGED <<state, delivered, writer, server, start>>

\* Falls through to the body.
ParseHeader ==
  /\ control = "extract" /\ state = "HEADER" /\ Separators # {} /\ Lengths # {} /\ ~BadNumber
  /\ content_length' = HeaderLength
  /\ buffer' = SubSeq(buffer, Separator + 2, Len(buffer))
  /\ state' = "BODY"
  /\ UNCHANGED <<control, delivered, writer, server, start>>

NeedMoreBody ==
  /\ control = "extract" /\ state = "BODY" /\ Len(buffer) < content_length
  /\ control' = "loop"
  /\ UNCHANGED <<buffer, state, content_length, delivered, writer, server, start>>

\* Mutant of ExtractBody: poll_read takes one message of each read.
ExtractBodyOnce ==
  LET body == SubSeq(buffer, 1, content_length)
  IN /\ control = "extract" /\ state = "BODY" /\ Len(buffer) >= content_length
     /\ buffer' = SubSeq(buffer, content_length + 1, Len(buffer))
     /\ state' = "HEADER" /\ content_length' = 0
     /\ \E m \in Messages : body = Body(m) /\ delivered' = Append(delivered, m)
     /\ control' = "loop"
     /\ UNCHANGED <<writer, server, start>>

ExtractBody ==
  LET body == SubSeq(buffer, 1, content_length)
  IN /\ control = "extract" /\ state = "BODY" /\ Len(buffer) >= content_length
     /\ buffer' = SubSeq(buffer, content_length + 1, Len(buffer))
     /\ state' = "HEADER" /\ content_length' = 0
     /\ \E m \in Messages : body = Body(m) /\ delivered' = Append(delivered, m)
     /\ UNCHANGED <<control, writer, server, start>>

\* stoull or json::parse throws on the pieces of two frames, and nothing catches it before
\* main, which returns 1.
Throws ==
  /\ control = "extract"
  /\ \/ state = "HEADER" /\ Separators # {} /\ BadNumber
     \/ /\ state = "BODY" /\ Len(buffer) >= content_length
        /\ \A m \in Messages : SubSeq(buffer, 1, content_length) # Body(m)
  /\ control' = "dead"
  /\ UNCHANGED <<buffer, state, content_length, delivered, writer, server, start>>

-----------------------------------------------------------------------------
(* Writing *)

\* send_request, send_notification.
Enqueue(m) ==
  /\ control = "loop" /\ Len(write_queue) < MaxFrames /\ queued < MaxQueued
  /\ write_queue' = Append(write_queue, [data |-> Encode(m), offset |-> 0])
  /\ queued' = queued + 1
  /\ UNCHANGED <<reader, server, stdin, start>>

Unwritten == SubSeq(Head(write_queue).data, Head(write_queue).offset + 1, Len(Head(write_queue).data))

\* drain_writes: the pipe is blocking, so a write ends when all of the frame is written ...
DrainFrame ==
  /\ control = "loop" /\ alive /\ write_queue # <<>>
  /\ stdin' = stdin \o Unwritten
  /\ write_queue' = Tail(write_queue)
  /\ UNCHANGED <<reader, server, queued, start>>

\* Mutant of DrainPartly: the frame is sent again from its beginning.
DrainPartlyForgotten ==
  /\ control = "loop" /\ alive /\ write_queue # <<>>
  /\ \E n \in 1..Len(Unwritten) - 1 : stdin' = stdin \o SubSeq(Unwritten, 1, n)
  /\ UNCHANGED <<reader, server, write_queue, queued, start>>

\* ... unless the process dies while it reads: the write returns what it got, and the offset
\* says so.
DrainPartly ==
  /\ control = "loop" /\ alive /\ write_queue # <<>>
  /\ \E n \in 1..Len(Unwritten) - 1 :
       /\ stdin' = stdin \o SubSeq(Unwritten, 1, n)
       /\ write_queue' = [write_queue EXCEPT ![1].offset = @ + n]
  /\ alive' = FALSE
  /\ UNCHANGED <<reader, reaped, stdout, rest, sent, queued, start>>

Next ==
  \/ Spawn \/ (\E m \in Messages : ServerWrites(m)) \/ ServerContinues \/ ServerDies \/ Reap
  \/ PollRead \/ NeedMoreHeader \/ SkipHeader \/ ParseHeader \/ NeedMoreBody \/ ExtractBody
  \/ Throws
  \/ (\E m \in Requests : Enqueue(m)) \/ DrainFrame \/ DrainPartly

Spec == Init /\ [][Next]_vars

-----------------------------------------------------------------------------
(* Properties *)

\* The messages whose last byte has left the process, in its order.
Complete == IF rest = <<>> THEN sent ELSE SubSeq(sent, 1, Len(sent) - 1)

\* The messages come out as they went in, however the stream is cut, and none that has been
\* read is held back.
InOrder ==
  /\ IsPrefix(delivered, sent)
  /\ control = "loop" /\ stdout = <<>> /\ ~reaped => delivered = Complete
  /\ control # "dead"

\* So they do in a session that began with nothing left of the one before (lsp_framing.cpp,
\* poll_read).
InOrderUnlessTorn == clean => InOrder

\* Every byte follows the one before it in its frame, or the last of another frame.
Framed(bytes) ==
  \A i \in DOMAIN bytes :
    LET frame == Encode(bytes[i].msg)
        place == CHOOSE k \in DOMAIN frame : frame[k] = bytes[i]
    IN IF place > 1 THEN i > 1 /\ bytes[i - 1] = frame[place - 1]
       ELSE i = 1 \/ bytes[i - 1] = Last(Encode(bytes[i - 1].msg))

\* A process is sent whole frames from their first byte, the last one cut only by its own
\* death, unless the one before it died inside a frame (drain_writes).
FramesUnlessBegun ==
  begun \/ /\ Framed(stdin)
           /\ alive /\ stdin # <<>> => Last(stdin) = Last(Encode(Last(stdin).msg))

\* What a comment of handle_crash (lsp_manager.cpp:229) says: "Clear per-session state so
\* the next spawn gets fresh state".
EverySessionInOrder == InOrder
=============================================================================
