---------------------------- MODULE Framing_proofs ----------------------------
(***************************************************************************)
(* What holds of Framing for every set of messages of every length, any    *)
(* number of frames and processes, and every way to cut the streams: that  *)
(* a process gets whole frames, and that the daemon reads the messages in  *)
(* order and holds none back, each unless the process before it left       *)
(* something of its own behind.                                            *)
(***************************************************************************)
EXTENDS Framing, SequenceTheorems, TLAPS

-----------------------------------------------------------------------------
(* Sequences *)

\* A sequence cut in two.
LEMMA Cut ==
  ASSUME NEW S, NEW s \in Seq(S), NEW c \in 0 .. Len(s)
  PROVE  LET a == SubSeq(s, 1, c)
             b == SubSeq(s, c + 1, Len(s))
         IN  /\ a \in Seq(S) /\ Len(a) = c
             /\ b \in Seq(S) /\ Len(b) = Len(s) - c
             /\ \A i \in 1 .. c : a[i] = s[i]
             /\ \A i \in 1 .. Len(s) - c : b[i] = s[c + i]
             /\ a \o b = s
<1> DEFINE n == Len(s)
           a == SubSeq(s, 1, c)
           b == SubSeq(s, c + 1, n)
<1>1. n \in Nat /\ DOMAIN s = 1 .. n /\ \A k \in 1 .. n : s[k] \in S BY ElementOfSeq
<1> HIDE DEF n
<1>2. /\ a \in Seq(S) /\ Len(a) = c /\ \A k \in 1 .. c : a[k] = s[k]
  <2>1. \A k \in 1 .. c : s[k] \in S BY <1>1 DEF n
  <2>2. c \in Int /\ 1 \in Int BY <1>1 DEF n
  <2>3. /\ SubSeq(s, 1, c) \in Seq(S)
        /\ Len(SubSeq(s, 1, c)) = IF 1 <= c THEN c - 1 + 1 ELSE 0
        /\ \A k \in 1 .. c - 1 + 1 : SubSeq(s, 1, c)[k] = s[1 + k - 1]
    BY <2>1, <2>2, SubSeqProperties
  <2>4. c \in Nat BY <1>1 DEF n
  <2> QED BY <2>3, <2>4
<1>3. /\ b \in Seq(S) /\ Len(b) = n - c /\ \A k \in 1 .. n - c : b[k] = s[c + k]
  <2>0. c \in 0 .. n BY DEF n
  <2>1. \A k \in c + 1 .. n : s[k] \in S BY <1>1, <2>0
  <2>2. c + 1 \in Int /\ n \in Int BY <1>1, <2>0
  <2>3. /\ SubSeq(s, c + 1, n) \in Seq(S)
        /\ Len(SubSeq(s, c + 1, n)) = IF c + 1 <= n THEN n - (c + 1) + 1 ELSE 0
        /\ \A k \in 1 .. n - (c + 1) + 1 : SubSeq(s, c + 1, n)[k] = s[c + 1 + k - 1]
    BY <2>1, <2>2, SubSeqProperties
  <2> QED BY <2>3, <2>0, <1>1
<1>4. a \o b = s
  <2>1. c \in 0 .. n BY DEF n
  <2>2. 1 \in 1 .. n + 1 /\ c \in 1 - 1 .. n /\ n \in c .. n BY <1>1, <2>1
  <2>3. SubSeq(s, 1, c) \o SubSeq(s, c + 1, n) = SubSeq(s, 1, n)
    BY <2>2, ConcatAdjacentSubSeq DEF n
  <2> QED BY <2>3, SubSeqFull DEF n
<1> QED BY <1>2, <1>3, <1>4 DEF n

\* What stands where in two sequences put together.
LEMMA Together ==
  ASSUME NEW S, NEW s \in Seq(S), NEW t \in Seq(S)
  PROVE  /\ s \o t \in Seq(S) /\ Len(s \o t) = Len(s) + Len(t)
         /\ Len(s) \in Nat /\ Len(t) \in Nat /\ DOMAIN (s \o t) = 1 .. Len(s) + Len(t)
         /\ \A i \in 1 .. Len(s) : (s \o t)[i] = s[i]
         /\ \A i \in 1 .. Len(t) : (s \o t)[Len(s) + i] = t[i]
<1> DEFINE n == Len(s)
           m == Len(t)
           u == s \o t
<1>1. n \in Nat /\ m \in Nat OBVIOUS
<1>2. /\ u \in Seq(S) /\ Len(u) = n + m
      /\ \A i \in 1 .. n + m : u[i] = IF i <= n THEN s[i] ELSE t[i - n]
  BY ConcatProperties
<1>3. DOMAIN u = 1 .. n + m BY <1>2, LenProperties
<1> HIDE DEF n, m, u
<1>4. \A i \in 1 .. n : u[i] = s[i] BY <1>1, <1>2
<1>5. ASSUME NEW i \in 1 .. m PROVE u[n + i] = t[i]
  <2>1. PICK k \in 1 .. n + m : k = n + i /\ ~(k <= n) /\ k - n = i BY <1>1
  <2>2. u[k] = t[k - n] BY <1>2, <2>1
  <2> QED BY <2>1, <2>2
<1> QED BY <1>1, <1>2, <1>3, <1>4, <1>5 DEF n, m, u

-----------------------------------------------------------------------------
(* Frames *)

All == Messages \cup Requests

Bytes == [msg : All, part : {"name", "number", "crlf", "body"}, at : Nat]

Width(m) == 5 + Size[m]

\* The bytes of a frame, one by one.
LEMMA EncodeProps ==
  ASSUME NEW m \in All
  PROVE  /\ Encode(m) \in Seq(Bytes) /\ Len(Encode(m)) = Width(m) /\ DOMAIN Encode(m) = 1 .. Width(m)
         /\ Size[m] \in Nat \ {0} /\ Width(m) \in Nat
         /\ Encode(m)[1] = Byte(m, "name", 1) /\ Encode(m)[2] = Byte(m, "name", 2)
         /\ Encode(m)[3] = Byte(m, "number", 1)
         /\ Encode(m)[4] = Byte(m, "crlf", 1) /\ Encode(m)[5] = Byte(m, "crlf", 2)
         /\ \A i \in 1 .. Size[m] : Encode(m)[5 + i] = Byte(m, "body", i)
<1>1. Size[m] \in Nat \ {0} BY FramingAssumption DEF FramingAssumption, All
<1>2. Header(m) \in Seq(Bytes) /\ Len(Header(m)) = 5 BY DEF Header, Byte, Bytes
<1>3. Body(m) \in [1 .. Size[m] -> Bytes] BY <1>1 DEF Body, Byte, Bytes
<1>4. Body(m) \in Seq(Bytes) /\ Len(Body(m)) = Size[m]
  <2>1. Body(m) \in Seq(Bytes) BY <1>1, <1>3, SeqDef
  <2>2. DOMAIN Body(m) = 1 .. Size[m] BY <1>3
  <2> QED BY <1>1, <2>1, <2>2, LenProperties
<1> DEFINE h == Header(m)
           b == Body(m)
           e == h \o b
<1>5. /\ h[1] = Byte(m, "name", 1) /\ h[2] = Byte(m, "name", 2) /\ h[3] = Byte(m, "number", 1)
      /\ h[4] = Byte(m, "crlf", 1) /\ h[5] = Byte(m, "crlf", 2)
  BY DEF Header
<1>6. \A i \in 1 .. Size[m] : b[i] = Byte(m, "body", i) BY DEF Body
<1>7. e = Encode(m) BY DEF Encode
<1> HIDE DEF h, b, e
<1>8. /\ e \in Seq(Bytes) /\ Len(e) = 5 + Size[m] /\ DOMAIN e = 1 .. 5 + Size[m]
      /\ \A i \in 1 .. 5 : e[i] = h[i]
      /\ \A i \in 1 .. Size[m] : e[5 + i] = b[i]
  <2>0. h \in Seq(Bytes) /\ b \in Seq(Bytes) BY <1>2, <1>4 DEF h, b
  <2>1. Len(h) = 5 /\ Len(b) = Size[m] BY <1>2, <1>4 DEF h, b
  <2>2. e = h \o b BY DEF e
  <2>3. /\ h \o b \in Seq(Bytes) /\ Len(h \o b) = Len(h) + Len(b)
        /\ DOMAIN (h \o b) = 1 .. Len(h) + Len(b)
        /\ \A i \in 1 .. Len(h) : (h \o b)[i] = h[i]
        /\ \A i \in 1 .. Len(b) : (h \o b)[Len(h) + i] = b[i]
    BY ONLY <2>0, Together
  <2> QED BY <2>1, <2>2, <2>3
<1> QED BY <1>1, <1>5, <1>6, <1>7, <1>8 DEF Width

\* No frame has a byte twice, and each byte names its frame.
LEMMA EncodeInjective ==
  ASSUME NEW m \in All, NEW i \in 1 .. Width(m)
  PROVE  /\ Encode(m)[i].msg = m
         /\ \A j \in 1 .. Width(m) : Encode(m)[i] = Encode(m)[j] => i = j
<1> DEFINE e == Encode(m)
<1>1. /\ e[1] = Byte(m, "name", 1) /\ e[2] = Byte(m, "name", 2) /\ e[3] = Byte(m, "number", 1)
      /\ e[4] = Byte(m, "crlf", 1) /\ e[5] = Byte(m, "crlf", 2)
      /\ \A k \in 1 .. Size[m] : e[5 + k] = Byte(m, "body", k)
      /\ Size[m] \in Nat
  BY EncodeProps
<1> HIDE DEF e
<1>2. /\ e[1].part = "name" /\ e[1].at = 1 /\ e[2].part = "name" /\ e[2].at = 2
      /\ e[3].part = "number" /\ e[4].part = "crlf" /\ e[4].at = 1 /\ e[5].part = "crlf" /\ e[5].at = 2
      /\ \A k \in {1, 2, 3, 4, 5} : e[k].msg = m /\ e[k].part # "body"
  BY <1>1 DEF Byte
<1>3. \A k \in 6 .. Width(m) : e[k].msg = m /\ e[k].part = "body" /\ e[k].at = k - 5
  <2> TAKE k \in 6 .. Width(m)
  <2>1. k - 5 \in 1 .. Size[m] /\ 5 + (k - 5) = k BY <1>1 DEF Width
  <2>2. e[5 + (k - 5)] = Byte(m, "body", k - 5) BY <1>1, <2>1
  <2>3. e[k] = Byte(m, "body", k - 5) BY <2>1, <2>2
  <2> QED BY <2>3 DEF Byte
<1>4. \A k \in 1 .. Width(m) : k \in {1, 2, 3, 4, 5} \/ k \in 6 .. Width(m) BY <1>1 DEF Width
<1>5. ASSUME NEW j \in 1 .. Width(m), e[i] = e[j] PROVE i = j
  <2>1. e[i].part = e[j].part /\ e[i].at = e[j].at BY <1>5
  <2>2. CASE i \in 6 .. Width(m) /\ j \in 6 .. Width(m)
    <3>1. i - 5 = j - 5 BY <2>1, <2>2, <1>3
    <3> QED BY <3>1, <2>2
  <2>3. CASE i \in {1, 2, 3, 4, 5} /\ j \in {1, 2, 3, 4, 5} BY <2>1, <2>3, <1>2
  <2>4. CASE i \in 6 .. Width(m) /\ j \in {1, 2, 3, 4, 5}
    <3>1. e[i].part = "body" /\ e[j].part # "body" BY <2>4, <1>2, <1>3
    <3> QED BY <2>1, <3>1
  <2>5. CASE j \in 6 .. Width(m) /\ i \in {1, 2, 3, 4, 5}
    <3>1. e[j].part = "body" /\ e[i].part # "body" BY <2>5, <1>2, <1>3
    <3> QED BY <2>1, <3>1
  <2> QED BY <1>4, <2>2, <2>3, <2>4, <2>5
<1>6. e[i].msg = m BY <1>2, <1>3, <1>4
<1> QED BY <1>5, <1>6 DEF e

-----------------------------------------------------------------------------
(* Writing *)

Place(b) == CHOOSE k \in DOMAIN Encode(b.msg) : Encode(b.msg)[k] = b

Follows(bytes, i) ==
  IF Place(bytes[i]) > 1
  THEN i > 1 /\ bytes[i - 1] = Encode(bytes[i].msg)[Place(bytes[i]) - 1]
  ELSE i = 1 \/ bytes[i - 1] = Last(Encode(bytes[i - 1].msg))

LEMMA FramedFollows ==
  ASSUME NEW bytes
  PROVE  Framed(bytes) <=> \A i \in DOMAIN bytes : Follows(bytes, i)
BY DEF Framed, Follows, Place

\* A byte of a frame is at its place.
LEMMA PlaceOf ==
  ASSUME NEW m \in All, NEW k \in 1 .. Width(m)
  PROVE  Place(Encode(m)[k]) = k
<1>1. DOMAIN Encode(m) = 1 .. Width(m) /\ Encode(m)[k].msg = m BY EncodeProps, EncodeInjective
<1>2. \A j \in 1 .. Width(m) : Encode(m)[k] = Encode(m)[j] => k = j BY EncodeInjective
<1> QED BY <1>1, <1>2 DEF Place

Whole(bytes) == bytes # <<>> => Last(bytes) = Last(Encode(Last(bytes).msg))

\* The first bytes of a frame may follow whole frames.
LEMMA FrameFollows ==
  ASSUME NEW bytes \in Seq(Bytes), Framed(bytes), Whole(bytes),
         NEW m \in All, NEW n \in 0 .. Width(m)
  PROVE  LET new == bytes \o SubSeq(Encode(m), 1, n)
         IN  new \in Seq(Bytes) /\ Framed(new) /\ (n = Width(m) => Whole(new))
<1> DEFINE p == SubSeq(Encode(m), 1, n)
           e == Encode(m)
           l == Len(bytes)
           new == bytes \o p
<1>1. e \in Seq(Bytes) /\ Len(e) = Width(m) /\ Width(m) \in Nat \ {0}
  BY EncodeProps DEF Width
<1>2. p \in Seq(Bytes) /\ Len(p) = n /\ \A k \in 1 .. n : p[k] = e[k]
  BY <1>1, Cut
<1>3. /\ new \in Seq(Bytes) /\ Len(new) = l + n /\ l \in Nat /\ n \in Nat /\ DOMAIN new = 1 .. l + n
      /\ \A k \in 1 .. l : new[k] = bytes[k]
      /\ \A k \in 1 .. n : new[l + k] = p[k]
  BY <1>1, <1>2, Together
<1>4. DOMAIN bytes = 1 .. l OBVIOUS
<1>5. \A k \in 1 .. n : e[k].msg = m /\ Place(e[k]) = k BY <1>1, EncodeInjective, PlaceOf
<1>w. bytes # <<>> => l >= 1 /\ bytes[l] = Last(Encode(bytes[l].msg)) BY DEF Whole, Last
<1>e. bytes = <<>> => l = 0 OBVIOUS
<1> HIDE DEF p, l, new
<1>6. ASSUME NEW i \in 1 .. l PROVE Follows(new, i)
  <2>1. Follows(bytes, i) BY <1>4, FramedFollows
  <2>2. new[i] = bytes[i] /\ (i > 1 => i - 1 \in 1 .. l) BY <1>3
  <2>3. i > 1 => new[i - 1] = bytes[i - 1] BY <1>3, <2>2
  <2>4. i = 1 \/ i > 1 BY <1>3
  <2> QED BY <2>1, <2>2, <2>3, <2>4 DEF Follows
<1>7. ASSUME NEW k \in 1 .. n PROVE Follows(new, l + k)
  <2>1. PICK i \in 1 .. l + n : i = l + k BY <1>3
  <2>2. new[i] = e[k] /\ Encode(new[i].msg) = e /\ Place(new[i]) = k
    BY <2>1, <1>2, <1>3, <1>5
  <2>3. CASE k > 1
    <3>1. PICK j \in 1 .. n : j = k - 1 /\ l + j = i - 1 BY <2>1, <2>3, <1>3
    <3>2. new[i - 1] = e[j] BY <3>1, <1>2, <1>3
    <3>3. i > 1 BY <2>1, <2>3, <1>3
    <3>4. new[i - 1] = Encode(new[i].msg)[Place(new[i]) - 1] BY <2>2, <3>1, <3>2
    <3>5. Follows(new, i) BY <2>2, <2>3, <3>3, <3>4 DEF Follows
    <3> QED BY <2>1, <3>5
  <2>4. CASE k = 1
    <3>1. CASE bytes = <<>>
      <4>1. i = 1 BY <2>1, <2>4, <3>1, <1>e
      <4> QED BY <2>1, <2>2, <2>4, <4>1 DEF Follows
    <3>2. CASE bytes # <<>>
      <4>1. l \in 1 .. l /\ i - 1 = l BY <2>1, <2>4, <3>2, <1>w, <1>3
      <4>2. new[i - 1] = bytes[l] BY <4>1, <1>3
      <4>3. new[i - 1] = Last(Encode(new[i - 1].msg)) BY <3>2, <4>2, <1>w
      <4>4. Follows(new, i) BY <2>2, <2>4, <4>3 DEF Follows
      <4> QED BY <2>1, <4>4
    <3> QED BY <3>1, <3>2
  <2>5. k > 1 \/ k = 1 BY <1>3
  <2> QED BY <2>3, <2>4, <2>5
<1>8. Framed(new)
  <2>1. ASSUME NEW i \in 1 .. l + n PROVE Follows(new, i)
    <3>1. i \in 1 .. l \/ \E k \in 1 .. n : i = l + k
      <4>1. i \in 1 .. l \/ (i - l \in 1 .. n /\ i = l + (i - l)) BY <1>3
      <4> QED BY <4>1
    <3> QED BY <3>1, <1>6, <1>7
  <2> QED BY <2>1, <1>3, FramedFollows
<1>9. ASSUME n = Width(m) PROVE Whole(new)
  <2>1. n \in 1 .. n BY <1>1, <1>9
  <2>2. Last(new) = e[n]
    <3>1. new[l + n] = e[n] BY <2>1, <1>2, <1>3
    <3> QED BY <3>1, <1>3 DEF Last
  <2>3. Last(Encode(e[n].msg)) = e[n] BY <2>1, <1>1, <1>5, <1>9 DEF Last
  <2> QED BY <2>2, <2>3 DEF Whole
<1> QED BY <1>3, <1>8, <1>9 DEF new, p

\* What waits to be written: frames, of which only the first can be written in part; and not that
\* one, as long as the process lives and was not left one so.
Queue ==
  /\ write_queue \in Seq([data : Seq(Bytes), offset : Nat])
  /\ \A i \in DOMAIN write_queue :
       /\ \E m \in Requests : write_queue[i].data = Encode(m) /\ write_queue[i].offset < Width(m)
       /\ i > 1 => write_queue[i].offset = 0
  /\ alive /\ ~begun /\ write_queue # <<>> => write_queue[1].offset = 0

Writing == Queue /\ stdin \in Seq(Bytes) /\ (begun \/ (Framed(stdin) /\ (alive => Whole(stdin))))

\* What is left to write of the first frame.
LEMMA UnwrittenProps ==
  ASSUME Queue, write_queue # <<>>
  PROVE  \E m \in Requests :
           /\ write_queue[1].data = Encode(m) /\ write_queue[1].offset \in 0 .. Width(m) - 1
           /\ Unwritten \in Seq(Bytes) /\ Len(Unwritten) = Width(m) - write_queue[1].offset
           /\ write_queue[1].offset = 0 => Unwritten = Encode(m)
<1>1. 1 \in DOMAIN write_queue /\ Head(write_queue) = write_queue[1] BY DEF Queue
<1>2. write_queue[1] \in [data : Seq(Bytes), offset : Nat]
  <2> DEFINE E == [data : Seq(Bytes), offset : Nat]
  <2>1. write_queue \in Seq(E) BY DEF Queue
  <2> HIDE DEF E
  <2>2. 1 \in 1 .. Len(write_queue) BY <1>1, <2>1
  <2>3. write_queue[1] \in E BY <2>1, <2>2, ElementOfSeq
  <2> QED BY <2>3 DEF E
<1>3. PICK m \in Requests : write_queue[1].data = Encode(m) /\ write_queue[1].offset < Width(m)
  BY <1>1 DEF Queue
<1> DEFINE c == write_queue[1].offset
           e == Encode(m)
<1>4. e \in Seq(Bytes) /\ Len(e) = Width(m) /\ Width(m) \in Nat BY EncodeProps DEF All
<1>5. c \in Nat /\ c \in 0 .. Width(m) - 1 BY <1>2, <1>3, <1>4
<1>6. Unwritten = SubSeq(e, c + 1, Len(e)) BY <1>1, <1>3 DEF Unwritten
<1>7. c \in 0 .. Len(e) BY <1>4, <1>5
<1>8. SubSeq(e, c + 1, Len(e)) \in Seq(Bytes) /\ Len(SubSeq(e, c + 1, Len(e))) = Len(e) - c
  BY <1>4, <1>7, Cut
<1>9. c = 0 => SubSeq(e, c + 1, Len(e)) = e BY <1>4, SubSeqFull
<1> QED BY <1>3, <1>4, <1>5, <1>6, <1>8, <1>9

LEMMA WritingNext == Writing /\ [Next]_vars => Writing'
<1> SUFFICES ASSUME Writing, [Next]_vars PROVE Writing' OBVIOUS
<1> DEFINE E == [data : Seq(Bytes), offset : Nat]
<1> USE DEF reader, writer, server, start
<1>0. /\ write_queue \in Seq(E) /\ stdin \in Seq(Bytes)
      /\ Len(write_queue) \in Nat /\ DOMAIN write_queue = 1 .. Len(write_queue)
  BY DEF Writing, Queue
<1>u. ASSUME UNCHANGED <<write_queue, stdin, begun>>, alive' \in {alive, FALSE}
      PROVE  Writing'
  <2>1. Framed(stdin)' <=> Framed(stdin) BY <1>u DEF Framed
  <2>2. Whole(stdin)' <=> Whole(stdin) BY <1>u DEF Whole
  <2>3. alive' => alive BY <1>u
  <2>4. Queue' BY <1>u, <2>3 DEF Writing, Queue
  <2> QED BY <1>u, <2>1, <2>2, <2>3, <2>4 DEF Writing
<1>1. CASE Spawn
  <2>1. /\ stdin' = <<>> /\ write_queue' = write_queue
        /\ begun' = (write_queue # <<>> /\ Head(write_queue).offset > 0)
    BY <1>1 DEF Spawn
  <2>2. Framed(stdin)' /\ Whole(stdin)' /\ stdin' \in Seq(Bytes) BY <2>1 DEF Framed, Whole
  <2>3. ~begun' /\ write_queue # <<>> => write_queue[1].offset = 0
    <3> SUFFICES ASSUME ~begun', write_queue # <<>> PROVE write_queue[1].offset = 0 OBVIOUS
    <3>1. write_queue[1].offset \in Nat /\ Head(write_queue) = write_queue[1]
      BY UnwrittenProps, <1>0, EncodeProps DEF Writing, All
    <3>2. ~(Head(write_queue).offset > 0) BY <2>1, Zenon
    <3> QED BY <3>1, <3>2
  <2>4. Queue' BY <2>1, <2>3 DEF Writing, Queue
  <2> QED BY <2>2, <2>4 DEF Writing
<1>2. ASSUME NEW m \in Requests, Enqueue(m) PROVE Writing'
  <2> DEFINE e == [data |-> Encode(m), offset |-> 0]
             q == Append(write_queue, e)
             n == Len(write_queue)
  <2>1. Encode(m) \in Seq(Bytes) /\ 0 < Width(m) BY EncodeProps DEF All, Width
  <2>2. e \in E BY <2>1
  <2> HIDE DEF E
  <2>3. /\ q \in Seq(E) /\ Len(q) = n + 1 /\ q[n + 1] = e /\ \A i \in 1 .. n : q[i] = write_queue[i]
    BY <2>2, <1>0, AppendProperties
  <2>4. DOMAIN q = 1 .. n + 1 BY <2>3, LenProperties
  <2>5. e.data = Encode(m) /\ e.offset = 0 OBVIOUS
  <2>6. write_queue' = q /\ UNCHANGED <<stdin, begun, alive>> BY <1>2 DEF Enqueue
  <2>7. n > 0 => write_queue # <<>> /\ write_queue[1] = q[1] BY <2>3, <1>0
  <2>8. n = 0 => q[1] = e BY <2>3
  <2> HIDE DEF e, q
  <2>9. ASSUME NEW i \in 1 .. n + 1
        PROVE  /\ \E r \in Requests : q[i].data = Encode(r) /\ q[i].offset < Width(r)
               /\ i > 1 => q[i].offset = 0
    <3>1. CASE i = n + 1 BY <3>1, <2>1, <2>3, <2>5
    <3>2. CASE i # n + 1
      <4>1. i \in 1 .. n BY <3>2, <1>0
      <4> QED BY <4>1, <2>3, <1>0 DEF Writing, Queue
    <3> QED BY <3>1, <3>2
  <2>10. alive /\ ~begun => q[1].offset = 0
    <3>1. n = 0 \/ n > 0 BY <1>0
    <3> QED BY <3>1, <2>5, <2>7, <2>8 DEF Writing, Queue
  <2>11. Queue' BY <2>3, <2>4, <2>6, <2>9, <2>10 DEF Queue, E
  <2>12. Framed(stdin)' <=> Framed(stdin) BY <2>6 DEF Framed
  <2>13. Whole(stdin)' <=> Whole(stdin) BY <2>6 DEF Whole
  <2> QED BY <2>6, <2>11, <2>12, <2>13 DEF Writing
<1>3. CASE DrainFrame
  <2>1. /\ alive /\ write_queue # <<>> /\ stdin' = stdin \o Unwritten
        /\ write_queue' = Tail(write_queue) /\ UNCHANGED <<begun, alive>>
    BY <1>3 DEF DrainFrame
  <2>2. PICK m \in Requests :
          /\ write_queue[1].data = Encode(m) /\ write_queue[1].offset \in 0 .. Width(m) - 1
          /\ Unwritten \in Seq(Bytes) /\ Len(Unwritten) = Width(m) - write_queue[1].offset
          /\ write_queue[1].offset = 0 => Unwritten = Encode(m)
    BY <2>1, UnwrittenProps DEF Writing
  <2>3. stdin' \in Seq(Bytes) BY <2>1, <2>2, <1>0, ConcatProperties
  <2> DEFINE q == Tail(write_queue)
             n == Len(write_queue)
  <2>4. /\ q \in Seq(E) /\ DOMAIN q = 1 .. n - 1
        /\ \A i \in 1 .. n - 1 : q[i] = write_queue[i + 1]
    <3> HIDE DEF E
    <3>1. q \in Seq(E) /\ Len(q) = n - 1 /\ \A i \in 1 .. Len(q) : q[i] = write_queue[i + 1]
      BY <2>1, <1>0, HeadTailProperties
    <3> QED BY <3>1, LenProperties
  <2> HIDE DEF q
  <2>5. ASSUME NEW i \in 1 .. n - 1
        PROVE  /\ \E r \in Requests : q[i].data = Encode(r) /\ q[i].offset < Width(r)
               /\ q[i].offset = 0
    <3>1. i + 1 \in DOMAIN write_queue /\ i + 1 > 1 BY <1>0
    <3> QED BY <3>1, <2>4 DEF Writing, Queue
  <2>6. q # <<>> => 1 \in 1 .. n - 1 BY <2>4, <1>0, EmptySeq
  <2>7. Queue' BY <2>1, <2>4, <2>5, <2>6 DEF Queue, q
  <2>8. ASSUME ~begun PROVE Framed(stdin)' /\ Whole(stdin)'
    <3>1. Unwritten = SubSeq(Encode(m), 1, Width(m))
      <4>1. Unwritten = Encode(m) BY <2>1, <2>2, <2>8 DEF Writing, Queue
      <4> QED BY <4>1, EncodeProps, SubSeqFull DEF All
    <3>2. Framed(stdin) /\ Whole(stdin) BY <2>1, <2>8 DEF Writing
    <3>3. Width(m) \in 0 .. Width(m) /\ m \in All BY EncodeProps DEF All
    <3>4. Framed(stdin \o SubSeq(Encode(m), 1, Width(m))) /\ Whole(stdin \o SubSeq(Encode(m), 1, Width(m)))
      BY <3>2, <3>3, <1>0, FrameFollows
    <3>5. stdin' = stdin \o SubSeq(Encode(m), 1, Width(m)) BY <2>1, <3>1
    <3> QED BY <3>4, <3>5 DEF Framed, Whole
  <2> QED BY <2>1, <2>3, <2>7, <2>8 DEF Writing
<1>4. CASE DrainPartly
  <2>1. alive /\ write_queue # <<>> /\ ~alive' /\ begun' = begun BY <1>4 DEF DrainPartly
  <2>2. PICK n \in 1 .. Len(Unwritten) - 1 :
          /\ stdin' = stdin \o SubSeq(Unwritten, 1, n)
          /\ write_queue' = [write_queue EXCEPT ![1].offset = @ + n]
    BY <1>4 DEF DrainPartly
  <2>3. PICK m \in Requests :
          /\ write_queue[1].data = Encode(m) /\ write_queue[1].offset \in 0 .. Width(m) - 1
          /\ Unwritten \in Seq(Bytes) /\ Len(Unwritten) = Width(m) - write_queue[1].offset
          /\ write_queue[1].offset = 0 => Unwritten = Encode(m)
    BY <2>1, UnwrittenProps DEF Writing
  <2>4. Width(m) \in Nat /\ Encode(m) \in Seq(Bytes) /\ m \in All BY EncodeProps DEF All
  <2>5. n \in 0 .. Len(Unwritten) /\ n \in 0 .. Width(m) /\ n \in Nat
        /\ write_queue[1].offset + n \in Nat /\ write_queue[1].offset + n < Width(m)
    BY <2>3, <2>4
  <2>6. SubSeq(Unwritten, 1, n) \in Seq(Bytes) BY <2>3, <2>5, Cut
  <2>7. stdin' \in Seq(Bytes) BY <2>2, <2>6, <1>0, ConcatProperties
  <2> DEFINE e == [write_queue[1] EXCEPT !.offset = @ + n]
             q == [write_queue EXCEPT ![1] = e]
  <2>8. 1 \in 1 .. Len(write_queue) BY <2>1, <1>0, EmptySeq
  <2>9. write_queue[1] \in E
    <3> HIDE DEF E
    <3> QED BY <2>8, <1>0, ElementOfSeq
  <2>10. e \in E /\ e.data = Encode(m) /\ e.offset = write_queue[1].offset + n
    BY <2>3, <2>5, <2>9
  <2>11. write_queue' = q BY <2>2
  <2> HIDE DEF e, E
  <2>12. /\ q \in Seq(E) /\ DOMAIN q = DOMAIN write_queue
         /\ \A i \in DOMAIN write_queue : q[i] = IF i = 1 THEN e ELSE write_queue[i]
    BY <2>8, <2>10, <1>0, ExceptSeq
  <2> HIDE DEF q
  <2>13. ASSUME NEW i \in DOMAIN write_queue
         PROVE  /\ \E r \in Requests : q[i].data = Encode(r) /\ q[i].offset < Width(r)
                /\ i > 1 => q[i].offset = 0
    <3>1. CASE i = 1 BY <3>1, <2>5, <2>10, <2>12
    <3>2. CASE i # 1 BY <3>2, <2>12 DEF Writing, Queue
    <3> QED BY <3>1, <3>2
  <2>14. Queue' BY <2>1, <2>11, <2>12, <2>13 DEF Queue, E
  <2>15. ASSUME ~begun PROVE Framed(stdin)'
    <3>1. Unwritten = Encode(m) BY <2>1, <2>3, <2>15 DEF Writing, Queue
    <3>2. Framed(stdin) /\ Whole(stdin) BY <2>1, <2>15 DEF Writing
    <3>3. Framed(stdin \o SubSeq(Encode(m), 1, n)) BY <3>2, <2>4, <2>5, <1>0, FrameFollows
    <3>4. stdin' = stdin \o SubSeq(Encode(m), 1, n) BY <2>2, <3>1
    <3> QED BY <3>3, <3>4 DEF Framed
  <2> QED BY <2>1, <2>7, <2>14, <2>15 DEF Writing
<1>5. CASE \E m \in Messages : ServerWrites(m) BY <1>5, <1>u DEF ServerWrites
<1>6. CASE ServerContinues BY <1>6, <1>u DEF ServerContinues
<1>7. CASE ServerDies BY <1>7, <1>u DEF ServerDies
<1>8. CASE Reap BY <1>8, <1>u DEF Reap
<1>9. CASE PollRead BY <1>9, <1>u DEF PollRead
<1>10. CASE NeedMoreHeader BY <1>10, <1>u DEF NeedMoreHeader
<1>11. CASE SkipHeader BY <1>11, <1>u DEF SkipHeader
<1>12. CASE ParseHeader BY <1>12, <1>u DEF ParseHeader
<1>13. CASE NeedMoreBody BY <1>13, <1>u DEF NeedMoreBody
<1>14. CASE ExtractBody BY <1>14, <1>u DEF ExtractBody
<1>15. CASE Throws BY <1>15, <1>u DEF Throws
<1>16. CASE UNCHANGED vars BY <1>16, <1>u DEF vars
<1> QED
  BY <1>1, <1>2, <1>3, <1>4, <1>5, <1>6, <1>7, <1>8, <1>9, <1>10, <1>11, <1>12, <1>13, <1>14,
     <1>15, <1>16 DEF Next

\* A process is sent whole frames from their first byte, the last one cut only by its own death,
\* unless the one before it died inside a frame (drain_writes, the offset of a queued frame).
THEOREM FramesWhole == Spec => []FramesUnlessBegun
<1>1. Init => Writing
  <2> SUFFICES ASSUME Init PROVE Writing OBVIOUS
  <2>1. write_queue = <<>> /\ stdin = <<>> BY DEF Init
  <2>2. Queue BY <2>1 DEF Queue
  <2>3. Framed(stdin) /\ Whole(stdin) BY <2>1 DEF Framed, Whole
  <2> QED BY <2>1, <2>2, <2>3 DEF Writing
<1>2. Writing => FramesUnlessBegun BY DEF Writing, Whole, FramesUnlessBegun
<1> QED BY <1>1, <1>2, WritingNext, PTL DEF Spec

-----------------------------------------------------------------------------
(* Reading *)

\* The frames of the messages after the first d stand one behind the other in the bytes, to the
\* last of them, the first perhaps without its beginning: pos says after which byte each begins.
Laid(bytes, messages, d, pos) ==
  /\ pos \in [d + 1 .. Len(messages) + 1 -> Int]
  /\ pos[Len(messages) + 1] = Len(bytes)
  /\ \A j \in d + 1 .. Len(messages) :
       /\ pos[j + 1] = pos[j] + Width(messages[j])
       /\ \A k \in 1 .. Width(messages[j]) : pos[j] + k >= 1 => bytes[pos[j] + k] = Encode(messages[j])[k]
  /\ \A j, k \in d + 1 .. Len(messages) + 1 : j <= k => pos[j] <= pos[k]

\* The first of them.
LEMMA LaidFirst ==
  ASSUME NEW ms \in Seq(Messages), NEW d \in Nat, d < Len(ms), NEW bytes, NEW pos, Laid(bytes, ms, d, pos)
  PROVE  /\ ms[d + 1] \in Messages /\ pos[d + 1] \in Int /\ pos[d + 1] + Width(ms[d + 1]) <= Len(bytes)
         /\ \A k \in 1 .. Width(ms[d + 1]) :
              pos[d + 1] + k >= 1 => bytes[pos[d + 1] + k] = Encode(ms[d + 1])[k]
<1>1. Len(ms) \in Nat OBVIOUS
<1>2. PICK j \in d + 1 .. Len(ms) : j = d + 1 BY <1>1
<1>3. PICK k \in d + 1 .. Len(ms) + 1 : k = j + 1 BY <1>1, <1>2
<1>4. PICK z \in d + 1 .. Len(ms) + 1 : z = Len(ms) + 1 /\ k <= z BY <1>1, <1>3
<1>5. pos[z] = Len(bytes) /\ pos[k] <= pos[z] BY <1>4 DEF Laid
<1>6. pos[k] = pos[j] + Width(ms[j]) BY <1>2, <1>3 DEF Laid
<1>7. ms[j] \in Messages BY <1>1, <1>2, ElementOfSeq
<1>8. pos[j] \in Int
  <2>1. j \in d + 1 .. Len(ms) + 1 BY <1>1
  <2> QED BY <2>1 DEF Laid
<1>9. \A i \in 1 .. Width(ms[j]) : pos[j] + i >= 1 => bytes[pos[j] + i] = Encode(ms[j])[i]
  BY <1>2 DEF Laid
<1> QED BY <1>2, <1>4, <1>5, <1>6, <1>7, <1>8, <1>9

\* It is taken away.
LEMMA LaidNext ==
  ASSUME NEW ms \in Seq(Messages), NEW d \in Nat, d < Len(ms), NEW bytes, NEW pos, Laid(bytes, ms, d, pos)
  PROVE  \E q : Laid(bytes, ms, d + 1, q) /\ q[d + 2] = pos[d + 1] + Width(ms[d + 1])
<1> DEFINE l == Len(ms)
           q == [j \in d + 1 + 1 .. l + 1 |-> pos[j]]
<1>1. l \in Nat /\ d < l OBVIOUS
<1>2. /\ pos \in [d + 1 .. l + 1 -> Int]
      /\ pos[l + 1] = Len(bytes)
      /\ \A j \in d + 1 .. l :
           /\ pos[j + 1] = pos[j] + Width(ms[j])
           /\ \A k \in 1 .. Width(ms[j]) : pos[j] + k >= 1 => bytes[pos[j] + k] = Encode(ms[j])[k]
      /\ \A j, k \in d + 1 .. l + 1 : j <= k => pos[j] <= pos[k]
  BY DEF Laid
<1> HIDE DEF l
<1>3. \A j \in d + 1 + 1 .. l + 1 : j \in d + 1 .. l + 1 /\ q[j] = pos[j] BY <1>1
<1>4. q \in [d + 1 + 1 .. l + 1 -> Int] BY <1>1, <1>2
<1> HIDE DEF q
<1>5. \A j \in d + 1 + 1 .. l : j \in d + 1 .. l /\ j \in d + 1 + 1 .. l + 1 /\ j + 1 \in d + 1 + 1 .. l + 1
  BY <1>1
<1>6. \A j \in d + 1 + 1 .. l : q[j + 1] = q[j] + Width(ms[j]) BY <1>2, <1>3, <1>5
<1>7. \A j \in d + 1 + 1 .. l : \A k \in 1 .. Width(ms[j]) :
        q[j] + k >= 1 => bytes[q[j] + k] = Encode(ms[j])[k]
  BY <1>2, <1>3, <1>5
<1>8. l + 1 \in d + 1 + 1 .. l + 1 /\ d + 1 \in d + 1 .. l /\ d + 2 = d + 1 + 1 /\ d + 2 \in d + 1 + 1 .. l + 1
  BY <1>1
<1>9. q[l + 1] = Len(bytes) BY <1>2, <1>3, <1>8
<1>10. \A j, k \in d + 1 + 1 .. l + 1 : j <= k => q[j] <= q[k] BY <1>2, <1>3
<1>11. Laid(bytes, ms, d + 1, q) BY <1>4, <1>6, <1>7, <1>9, <1>10 DEF Laid, l
<1>12. q[d + 2] = pos[d + 1] + Width(ms[d + 1]) BY <1>2, <1>3, <1>8
<1> QED BY <1>11, <1>12

\* Bytes are taken away from the front.
LEMMA LaidDrop ==
  ASSUME NEW ms \in Seq(Messages), NEW d \in 0 .. Len(ms), NEW bytes \in Seq(Bytes), NEW c \in 0 .. Len(bytes),
         NEW pos, Laid(bytes, ms, d, pos)
  PROVE  \E q : Laid(SubSeq(bytes, c + 1, Len(bytes)), ms, d, q) /\ q[d + 1] = pos[d + 1] - c
<1> DEFINE l == Len(ms)
           n == Len(bytes)
           b == SubSeq(bytes, c + 1, Len(bytes))
           q == [j \in d + 1 .. l + 1 |-> pos[j] - c]
<1>1. l \in Nat /\ n \in Nat /\ d \in 0 .. l /\ c \in 0 .. n OBVIOUS
<1>2. /\ pos \in [d + 1 .. l + 1 -> Int]
      /\ pos[l + 1] = n
      /\ \A j \in d + 1 .. l :
           /\ pos[j + 1] = pos[j] + Width(ms[j])
           /\ \A k \in 1 .. Width(ms[j]) : pos[j] + k >= 1 => bytes[pos[j] + k] = Encode(ms[j])[k]
      /\ \A j, k \in d + 1 .. l + 1 : j <= k => pos[j] <= pos[k]
  BY DEF Laid
<1>3. Len(b) = n - c /\ \A i \in 1 .. n - c : b[i] = bytes[c + i] BY Cut
<1>4. \A j \in d + 1 .. l : Width(ms[j]) \in Nat
  <2>1. \A j \in 1 .. l : ms[j] \in Messages BY ElementOfSeq
  <2> HIDE DEF l
  <2> QED BY <2>1, <1>1, EncodeProps DEF All
<1> HIDE DEF l, n, b
<1>5. q \in [d + 1 .. l + 1 -> Int] BY <1>1, <1>2
<1>6. \A j \in d + 1 .. l + 1 : q[j] = pos[j] - c /\ pos[j] \in Int BY <1>2
<1> HIDE DEF q
<1>7. l + 1 \in d + 1 .. l + 1 /\ d + 1 \in d + 1 .. l + 1 BY <1>1
<1>8. q[l + 1] = Len(b) BY <1>2, <1>3, <1>6, <1>7
<1>9. \A j, k \in d + 1 .. l + 1 : j <= k => q[j] <= q[k] BY <1>1, <1>2, <1>6
<1>10. ASSUME NEW j \in d + 1 .. l
       PROVE  /\ q[j + 1] = q[j] + Width(ms[j])
              /\ \A k \in 1 .. Width(ms[j]) : q[j] + k >= 1 => b[q[j] + k] = Encode(ms[j])[k]
  <2>1. j \in d + 1 .. l + 1 /\ j + 1 \in d + 1 .. l + 1 /\ j + 1 <= l + 1 BY <1>1
  <2>2. /\ q[j] = pos[j] - c /\ pos[j] \in Int /\ q[j + 1] = pos[j + 1] - c
        /\ pos[j + 1] = pos[j] + Width(ms[j]) /\ Width(ms[j]) \in Nat
    BY <2>1, <1>2, <1>4, <1>6
  <2>3. pos[j + 1] <= n BY <2>1, <1>2, <1>7
  <2>4. ASSUME NEW k \in 1 .. Width(ms[j]), q[j] + k >= 1 PROVE b[q[j] + k] = Encode(ms[j])[k]
    <3> DEFINE v == Width(ms[j])
    <3>0. v \in Nat /\ pos[j + 1] = pos[j] + v /\ k \in 1 .. v BY <2>2
    <3> HIDE DEF v
    <3>a. PICK x \in Int : x = pos[j] BY <2>2
    <3>b. x + v <= n /\ q[j] = x - c BY <3>0, <3>a, <2>2, <2>3
    <3>c. x - c + k >= 1 BY <3>b, <2>4
    <3>1. PICK i \in 1 .. n - c : i = q[j] + k /\ c + i = pos[j] + k /\ pos[j] + k >= 1
      <4>1. x - c + k \in 1 .. n - c /\ c + (x - c + k) = x + k /\ x + k >= 1
        BY <3>0, <3>b, <3>c, <1>1
      <4> QED BY <4>1, <3>a, <3>b
    <3>2. bytes[pos[j] + k] = Encode(ms[j])[k] BY <3>1, <1>2
    <3>3. b[i] = bytes[c + i] BY <1>3
    <3> QED BY <3>1, <3>2, <3>3
  <2>5. q[j + 1] = q[j] + Width(ms[j])
    <3> DEFINE v == Width(ms[j])
    <3>1. v \in Nat /\ pos[j + 1] = pos[j] + v BY <2>2
    <3> HIDE DEF v
    <3>2. pos[j + 1] - c = pos[j] - c + v BY <3>1, <2>2, <1>1
    <3> QED BY <3>2, <2>2 DEF v
  <2> QED BY <2>4, <2>5
<1>11. Laid(b, ms, d, q) BY <1>5, <1>8, <1>9, <1>10 DEF Laid, l
<1> QED BY <1>6, <1>7, <1>11 DEF b

\* Another frame is put at the end.
LEMMA LaidAppend ==
  ASSUME NEW ms \in Seq(Messages), NEW d \in 0 .. Len(ms), NEW bytes \in Seq(Bytes),
         NEW m \in Messages, NEW pos, Laid(bytes, ms, d, pos)
  PROVE  \E q : Laid(bytes \o Encode(m), Append(ms, m), d, q) /\ q[d + 1] = pos[d + 1]
<1> DEFINE l == Len(ms)
           n == Len(bytes)
           e == Encode(m)
           w == Width(m)
           b == bytes \o e
           ms2 == Append(ms, m)
           q == [j \in d + 1 .. l + 2 |-> IF j = l + 2 THEN n + w ELSE pos[j]]
<1>1. l \in Nat /\ n \in Nat /\ d \in 0 .. l OBVIOUS
<1>2. /\ pos \in [d + 1 .. l + 1 -> Int]
      /\ pos[l + 1] = n
      /\ \A j \in d + 1 .. l :
           /\ pos[j + 1] = pos[j] + Width(ms[j])
           /\ \A k \in 1 .. Width(ms[j]) : pos[j] + k >= 1 => bytes[pos[j] + k] = Encode(ms[j])[k]
      /\ \A j, k \in d + 1 .. l + 1 : j <= k => pos[j] <= pos[k]
  BY DEF Laid
<1>3. e \in Seq(Bytes) /\ Len(e) = w /\ w \in Nat BY EncodeProps DEF All
<1>4. /\ Len(b) = n + w
      /\ \A i \in 1 .. n : b[i] = bytes[i]
      /\ \A i \in 1 .. w : b[n + i] = e[i]
  <2> HIDE DEF e, w
  <2>0. bytes \in Seq(Bytes) /\ e \in Seq(Bytes) BY <1>3
  <2>1. /\ Len(bytes \o e) = Len(bytes) + Len(e)
        /\ \A i \in 1 .. Len(bytes) : (bytes \o e)[i] = bytes[i]
        /\ \A i \in 1 .. Len(e) : (bytes \o e)[Len(bytes) + i] = e[i]
    BY ONLY <2>0, Together
  <2> QED BY <2>1, <1>3
<1>5. Len(ms2) = l + 1 /\ ms2[l + 1] = m /\ \A j \in 1 .. l : ms2[j] = ms[j] BY AppendProperties
<1>6. \A j \in 1 .. l : Width(ms[j]) \in Nat
  <2>1. \A j \in 1 .. l : ms[j] \in Messages BY ElementOfSeq
  <2> HIDE DEF l
  <2> QED BY <2>1, <1>1, EncodeProps DEF All
<1> HIDE DEF l, n, e, w, b, ms2
<1>7. q \in [d + 1 .. l + 2 -> Int] BY <1>1, <1>2, <1>3
<1>8. q[l + 2] = n + w /\ \A j \in d + 1 .. l + 1 : q[j] = pos[j] /\ pos[j] \in Int BY <1>1, <1>2
<1> HIDE DEF q
<1>9. l + 1 \in d + 1 .. l + 1 /\ d + 1 \in d + 1 .. l + 1 /\ l + 1 + 1 = l + 2 BY <1>1
<1>10. q[l + 1] = n BY <1>2, <1>8, <1>9
<1>11. \A j \in d + 1 .. l + 1 : pos[j] <= n BY <1>2, <1>9
<1>12. ASSUME NEW j \in d + 1 .. l + 2, NEW k \in d + 1 .. l + 2, j <= k PROVE q[j] <= q[k]
  <2>1. CASE k = l + 2
    <3>1. CASE j = l + 2 BY <3>1, <2>1, <1>1, <1>3, <1>8
    <3>2. CASE j # l + 2
      <4>1. j \in d + 1 .. l + 1 BY <3>2, <1>1
      <4> QED BY <4>1, <2>1, <1>1, <1>3, <1>8, <1>11
    <3> QED BY <3>1, <3>2
  <2>2. CASE k # l + 2
    <3>1. j \in d + 1 .. l + 1 /\ k \in d + 1 .. l + 1 BY <2>2, <1>12, <1>1
    <3> QED BY <3>1, <1>12, <1>2, <1>8
  <2> QED BY <2>1, <2>2
<1>13. ASSUME NEW j \in d + 1 .. l + 1
       PROVE  /\ q[j + 1] = q[j] + Width(ms2[j])
              /\ \A k \in 1 .. Width(ms2[j]) : q[j] + k >= 1 => b[q[j] + k] = Encode(ms2[j])[k]
  <2>1. CASE j = l + 1
    <3>1. ms2[j] = m /\ q[j] = n /\ q[j + 1] = n + w BY <2>1, <1>5, <1>8, <1>9, <1>10
    <3> QED BY <3>1, <1>4 DEF e, w
  <2>2. CASE j # l + 1
    <3>1. j \in d + 1 .. l /\ j \in 1 .. l /\ j + 1 \in d + 1 .. l + 1 BY <2>2, <1>1
    <3>2. /\ ms2[j] = ms[j] /\ q[j] = pos[j] /\ pos[j] \in Int /\ q[j + 1] = pos[j + 1]
          /\ pos[j + 1] = pos[j] + Width(ms[j]) /\ pos[j + 1] <= n /\ Width(ms[j]) \in Nat
      BY <3>1, <1>2, <1>5, <1>6, <1>8, <1>11
    <3>3. ASSUME NEW k \in 1 .. Width(ms[j]), pos[j] + k >= 1
          PROVE  b[pos[j] + k] = Encode(ms[j])[k]
      <4>1. PICK i \in 1 .. n : i = pos[j] + k BY <3>2, <3>3, <1>1
      <4>2. bytes[i] = Encode(ms[j])[k] BY <4>1, <3>1, <3>3, <1>2
      <4> QED BY <4>1, <4>2, <1>4
    <3> QED BY <3>2, <3>3
  <2> QED BY <2>1, <2>2
<1>14. Laid(b, ms2, d, q) BY <1>4, <1>5, <1>7, <1>8, <1>9, <1>12, <1>13 DEF Laid
<1> QED BY <1>8, <1>9, <1>14 DEF b, e, ms2

\* What is on its way from the process: read, in the pipe, still to be written.
Wire == buffer \o (stdout \o rest)

Prefix ==
  /\ sent \in Seq(Messages) /\ delivered \in Seq(Messages)
  /\ Len(delivered) <= Len(sent) /\ \A i \in 1 .. Len(delivered) : delivered[i] = sent[i]

\* The frames of what was not delivered are on their way; in BODY the first has lost its header.
Standing(pos) ==
  /\ Laid(Wire, sent, Len(delivered), pos)
  /\ state = "HEADER" => pos[Len(delivered) + 1] = 0
  /\ state = "BODY" => /\ Len(delivered) < Len(sent) /\ pos[Len(delivered) + 1] = -5
                       /\ content_length = Size[sent[Len(delivered) + 1]]

InSession ==
  /\ control \in {"loop", "extract"} /\ state \in {"HEADER", "BODY"}
  /\ buffer \in Seq(Bytes) /\ stdout \in Seq(Bytes) /\ rest \in Seq(Bytes)
  /\ Prefix
  /\ rest # <<>> => sent # <<>> /\ Len(rest) < Width(Last(sent))
  /\ control = "loop" => Len(buffer) < IF state = "HEADER" THEN 5 ELSE content_length
  /\ \E pos : Standing(pos)

Tidy == clean => IF reaped THEN ~alive /\ control = "loop" /\ Prefix ELSE InSession

LEMMA Associative == \A s, t, u \in Seq(Bytes) : (s \o t) \o u = s \o (t \o u)
BY ConcatAssociative

LEMMA WireProps ==
  ASSUME buffer \in Seq(Bytes), stdout \in Seq(Bytes), rest \in Seq(Bytes)
  PROVE  /\ Wire \in Seq(Bytes) /\ Len(Wire) = Len(buffer) + (Len(stdout) + Len(rest))
         /\ Len(buffer) \in Nat /\ Len(stdout) \in Nat /\ Len(rest) \in Nat
         /\ \A i \in 1 .. Len(buffer) : Wire[i] = buffer[i]
<1>1. /\ stdout \o rest \in Seq(Bytes) /\ Len(stdout \o rest) = Len(stdout) + Len(rest)
      /\ Len(stdout) \in Nat /\ Len(rest) \in Nat
  BY Together
<1> DEFINE t == stdout \o rest
<1> HIDE DEF t
<1>2. /\ buffer \o t \in Seq(Bytes) /\ Len(buffer \o t) = Len(buffer) + Len(t)
      /\ Len(buffer) \in Nat /\ \A i \in 1 .. Len(buffer) : (buffer \o t)[i] = buffer[i]
  <2>1. t \in Seq(Bytes) BY <1>1 DEF t
  <2> QED BY ONLY <2>1, buffer \in Seq(Bytes), Together
<1> QED BY <1>1, <1>2 DEF Wire, t

\* What is taken from the front of the first of two sequences is taken from both.
LEMMA DropFront ==
  ASSUME NEW S, NEW s \in Seq(S), NEW t \in Seq(S), NEW c \in 0 .. Len(s)
  PROVE  SubSeq(s, c + 1, Len(s)) \o t = SubSeq(s \o t, c + 1, Len(s \o t))
<1> DEFINE a == SubSeq(s, 1, c)
           b == SubSeq(s, c + 1, Len(s))
           u == s \o t
           v == SubSeq(u, c + 1, Len(u))
           n == Len(s)
           m == Len(t)
<1>1. b \in Seq(S) /\ Len(b) = n - c /\ \A i \in 1 .. n - c : b[i] = s[c + i] BY Cut
<1>2. /\ u \in Seq(S) /\ Len(u) = n + m /\ n \in Nat /\ m \in Nat
      /\ \A i \in 1 .. n : u[i] = s[i]
      /\ \A i \in 1 .. m : u[n + i] = t[i]
  BY Together
<1>3. c \in 0 .. n /\ c \in 0 .. Len(u) BY <1>2
<1>4. v \in Seq(S) /\ Len(v) = Len(u) - c /\ \A i \in 1 .. Len(u) - c : v[i] = u[c + i]
  <2> HIDE DEF u
  <2> QED BY <1>2, <1>3, Cut
<1> HIDE DEF b
<1>5. /\ b \o t \in Seq(S) /\ Len(b \o t) = n - c + m
      /\ \A i \in 1 .. n - c : (b \o t)[i] = b[i]
      /\ \A i \in 1 .. m : (b \o t)[n - c + i] = t[i]
  <2>1. /\ b \o t \in Seq(S) /\ Len(b \o t) = Len(b) + Len(t)
        /\ \A i \in 1 .. Len(b) : (b \o t)[i] = b[i]
        /\ \A i \in 1 .. Len(t) : (b \o t)[Len(b) + i] = t[i]
    <3>1. b \in Seq(S) /\ t \in Seq(S) BY <1>1
    <3> QED BY ONLY <3>1, Together
  <2> QED BY <2>1, <1>1
<1> DEFINE w == b \o t
<1>6. ASSUME NEW i \in 1 .. n - c + m PROVE w[i] = v[i]
  <2> HIDE DEF w, v, u, n, m
  <2>1. CASE i <= n - c
    <3>1. i \in 1 .. n - c /\ c + i \in 1 .. n /\ i \in 1 .. n + m - c BY <2>1, <1>2, <1>3
    <3>2. w[i] = s[c + i] BY <3>1, <1>1, <1>5 DEF w
    <3>3. v[i] = s[c + i] BY <3>1, <1>2, <1>4
    <3> QED BY <3>2, <3>3
  <2>2. CASE i > n - c
    <3>1. PICK k \in 1 .. m : k = i - (n - c) BY <2>2, <1>2, <1>3
    <3>2. i = n - c + k /\ c + i = n + k /\ i \in 1 .. n + m - c BY <3>1, <1>2, <1>3
    <3>3. w[i] = t[k] BY <3>2, <1>5 DEF w
    <3>4. v[i] = t[k] BY <3>2, <1>2, <1>4
    <3> QED BY <3>3, <3>4
  <2>3. i <= n - c \/ i > n - c BY <1>2, <1>3
  <2> QED BY <2>1, <2>2, <2>3
<1>7. w \in Seq(S) /\ v \in Seq(S) /\ Len(w) = Len(v) /\ Len(w) = n - c + m
  <2> HIDE DEF v, u, n, m
  <2> QED BY <1>2, <1>3, <1>4, <1>5
<1> HIDE DEF w, v
<1>8. w = v
  <2>1. \A i \in 1 .. Len(w) : w[i] = v[i] BY <1>6, <1>7
  <2> QED BY ONLY <1>7, <2>1, SeqEqual
<1> QED BY <1>8 DEF w, v, b, u

\* With the first frame not yet begun, extract() finds its header as soon as it is there.
LEMMA HeaderProps ==
  ASSUME InSession, state = "HEADER"
  PROVE  /\ Len(buffer) < 5 => Separators = {}
         /\ Len(buffer) >= 5 =>
              /\ Len(delivered) < Len(sent)
              /\ Separators # {} /\ Separator = 4 /\ Lengths = {1} /\ ~BadNumber
              /\ HeaderLength = Size[sent[Len(delivered) + 1]]
<1> DEFINE d == Len(delivered)
           l == Len(sent)
           n == Len(buffer)
<1>1. /\ buffer \in Seq(Bytes) /\ stdout \in Seq(Bytes) /\ rest \in Seq(Bytes)
      /\ sent \in Seq(Messages) /\ delivered \in Seq(Messages) /\ d <= l /\ d \in Nat /\ l \in Nat
  BY DEF InSession, Prefix
<1>2. /\ Len(Wire) = n + (Len(stdout) + Len(rest)) /\ n \in Nat /\ Len(stdout) \in Nat /\ Len(rest) \in Nat
      /\ \A i \in 1 .. n : Wire[i] = buffer[i]
  BY <1>1, WireProps
<1>3. PICK pos : Laid(Wire, sent, d, pos) /\ pos[d + 1] = 0 BY DEF InSession, Standing
<1>4. DOMAIN buffer = 1 .. n BY <1>1, LenProperties
<1> HIDE DEF d, l, n
<1>5. CASE n = 0 BY <1>4, <1>5 DEF Separators, n
<1>6. CASE n # 0
  <2>1. d < l
    <3>1. pos[l + 1] = Len(Wire) BY <1>3 DEF Laid, l
    <3>2. d # l
      <4> SUFFICES ASSUME d = l PROVE FALSE OBVIOUS
      <4>1. pos[l + 1] = 0 BY <1>3
      <4> QED BY <4>1, <3>1, <1>2, <1>6
    <3> QED BY <3>2, <1>1
  <2> DEFINE m == sent[d + 1]
             e == Encode(m)
  <2>2. /\ m \in Messages
        /\ \A k \in 1 .. Width(m) : 0 + k >= 1 => Wire[0 + k] = e[k]
    <3>1. d < Len(sent) BY <2>1 DEF l
    <3> HIDE DEF m
    <3> QED BY <3>1, <1>1, <1>3, LaidFirst DEF m
  <2>3. /\ Width(m) \in Nat /\ Width(m) >= 5
        /\ e[1] = Byte(m, "name", 1) /\ e[2] = Byte(m, "name", 2) /\ e[3] = Byte(m, "number", 1)
        /\ e[4] = Byte(m, "crlf", 1) /\ e[5] = Byte(m, "crlf", 2)
    BY <2>2, EncodeProps DEF All, Width
  <2> HIDE DEF m, e
  <2>4. \A i \in 1 .. n : i <= 5 => buffer[i] = e[i]
    <3> TAKE i \in 1 .. n
    <3> HAVE i <= 5
    <3>1. i \in 1 .. Width(m) /\ 0 + i = i /\ 0 + i >= 1 BY <2>3, <1>2
    <3>2. Wire[0 + i] = e[i] BY <3>1, <2>2
    <3>3. Wire[i] = e[i] BY <3>1, <3>2
    <3> QED BY <3>3, <1>2
  <2>5. /\ 1 <= n => buffer[1] = Byte(m, "name", 1)
        /\ 2 <= n => buffer[2] = Byte(m, "name", 2)
        /\ 3 <= n => buffer[3] = Byte(m, "number", 1)
        /\ 4 <= n => buffer[4] = Byte(m, "crlf", 1)
        /\ 5 <= n => buffer[5] = Byte(m, "crlf", 2)
    BY <2>3, <2>4, <1>2
  <2>6. /\ 1 <= n => buffer[1].part = "name" /\ buffer[1].at = 1
        /\ 2 <= n => buffer[2].part = "name" /\ buffer[2].at = 2
        /\ 3 <= n => buffer[3].part = "number" /\ buffer[3].msg = m
        /\ 4 <= n => buffer[4].part = "crlf"
        /\ 5 <= n => buffer[5].part = "crlf"
    BY <2>5 DEF Byte
  <2>7. ~IsCrlf(1) /\ ~IsCrlf(2) /\ ~IsCrlf(3) BY <2>6, <1>2, <1>4 DEF IsCrlf
  <2>8. \A i \in Separators : i \in 1 .. n /\ i >= 4 /\ i + 1 <= n
    <3> TAKE i \in Separators
    <3>1. i \in 1 .. n /\ IsCrlf(i) /\ IsCrlf(i + 1) BY <1>4 DEF Separators
    <3>2. i # 1 /\ i # 2 /\ i # 3 BY <3>1, <2>7
    <3>3. i + 1 \in 1 .. n BY <3>1, <1>4 DEF IsCrlf
    <3> QED BY <3>1, <3>2, <3>3, <1>2
  <2>9. n < 5 => Separators = {} BY <2>8, <1>2
  <2>10. ASSUME n >= 5
         PROVE  /\ Separators # {} /\ Separator = 4 /\ Lengths = {1} /\ ~BadNumber
                /\ HeaderLength = Size[m]
    <3>1. IsCrlf(4) /\ IsCrlf(5) /\ 4 \in DOMAIN buffer BY <2>6, <2>10, <1>2, <1>4 DEF IsCrlf
    <3>2. 4 \in Separators BY <3>1 DEF Separators
    <3>3. Separator = 4
      <4>1. \A j \in Separators : 4 <= j /\ j \in Nat
        <5>1. \A j \in Separators : j \in 1 .. n BY <1>4 DEF Separators
        <5> QED BY <5>1, <2>8, <1>2
      <4>2. \A i \in Separators : (\A j \in Separators : i <= j) => i = 4 BY <4>1, <3>2
      <4> DEFINE P(i) == \A j \in Separators : i <= j
      <4>3. P(4) /\ \A i \in Separators : P(i) => i = 4 BY <4>1, <4>2
      <4> HIDE DEF P
      <4>4. (CHOOSE i \in Separators : P(i)) = 4 BY <3>2, <4>3
      <4> QED BY <4>4 DEF Separator, P
    <3>4. IsName(1) /\ IsName(2) /\ buffer[1].at = 1 /\ buffer[2].at = 2
      BY <2>6, <2>10, <3>3, <1>2 DEF IsName
    <3>5. Lengths = {1}
      <4>1. 1 .. Separator - 3 = {1} BY <3>3
      <4>2. \A i \in {1} : i + 1 = 2 /\ i + 2 = 3 OBVIOUS
      <4> QED BY <4>1, <4>2, <3>4, <2>7 DEF Lengths
    <3>6. ~BadNumber
      <4>1. buffer[1 + 2].part = "number" BY <2>6, <2>10, <1>2
      <4> QED BY <3>5, <4>1 DEF BadNumber
    <3>7. HeaderLength = Size[m]
      <4>1. (CHOOSE i \in Lengths : \A j \in Lengths : j <= i) = 1 BY <3>5
      <4>2. buffer[1 + 2].msg = m BY <2>6, <2>10, <1>2
      <4> QED BY <4>1, <4>2 DEF HeaderLength
    <3> QED BY <3>2, <3>3, <3>5, <3>6, <3>7
  <2> QED BY <2>1, <2>9, <2>10 DEF m, d, l, n
<1> QED BY <1>5, <1>6 DEF n

\* With its header read, it takes the body of the first frame and nothing else.
LEMMA BodyProps ==
  ASSUME InSession, state = "BODY"
  PROVE  /\ Len(delivered) < Len(sent) /\ sent[Len(delivered) + 1] \in Messages
         /\ content_length = Size[sent[Len(delivered) + 1]]
         /\ Len(buffer) >= content_length =>
              SubSeq(buffer, 1, content_length) = Body(sent[Len(delivered) + 1])
<1> DEFINE d == Len(delivered)
           n == Len(buffer)
           m == sent[d + 1]
           e == Encode(m)
           c == content_length
<1>1. /\ buffer \in Seq(Bytes) /\ stdout \in Seq(Bytes) /\ rest \in Seq(Bytes)
      /\ sent \in Seq(Messages) /\ delivered \in Seq(Messages) /\ d \in Nat /\ n \in Nat
  BY DEF InSession, Prefix
<1>2. \A i \in 1 .. n : Wire[i] = buffer[i] BY <1>1, WireProps
<1>3. PICK pos : Laid(Wire, sent, d, pos) /\ pos[d + 1] = -5 BY DEF InSession, Standing
<1>4. d < Len(sent) /\ c = Size[m] BY DEF InSession, Standing
<1> HIDE DEF d
<1>5. m \in Messages /\ \A k \in 1 .. Width(m) : -5 + k >= 1 => Wire[-5 + k] = e[k]
  <2>1. pos[d + 1] = -5 BY <1>3
  <2>2. /\ sent[d + 1] \in Messages
        /\ \A k \in 1 .. Width(sent[d + 1]) :
             pos[d + 1] + k >= 1 => Wire[pos[d + 1] + k] = Encode(sent[d + 1])[k]
    <3>1. /\ sent \in Seq(Messages) /\ d \in Nat /\ d < Len(sent) /\ Laid(Wire, sent, d, pos)
      BY <1>1, <1>3, <1>4
    <3> HIDE DEF e, c, n, m
    <3> QED BY ONLY <3>1, LaidFirst
  <2> QED BY <2>1, <2>2
<1>6. c \in Nat \ {0} /\ Width(m) = 5 + c /\ \A i \in 1 .. c : e[5 + i] = Byte(m, "body", i)
  BY <1>4, <1>5, EncodeProps DEF All, Width
<1> HIDE DEF m, e, n, c
<1>7. ASSUME n >= c PROVE SubSeq(buffer, 1, c) = Body(m)
  <2>0. c \in 0 .. Len(buffer) BY <1>1, <1>6, <1>7 DEF n
  <2>1. /\ SubSeq(buffer, 1, c) \in Seq(Bytes) /\ Len(SubSeq(buffer, 1, c)) = c
        /\ \A i \in 1 .. c : SubSeq(buffer, 1, c)[i] = buffer[i]
    BY <1>1, <2>0, Cut
  <2>2. \A i \in 1 .. c : buffer[i] = Byte(m, "body", i)
    <3> TAKE i \in 1 .. c
    <3>1. PICK k \in 1 .. Width(m) : k = 5 + i /\ -5 + k = i /\ -5 + k >= 1 /\ i \in 1 .. n
      BY <1>1, <1>6, <1>7
    <3>2. Wire[-5 + k] = e[k] BY <3>1, <1>5
    <3>3. Wire[i] = e[5 + i] BY <3>1, <3>2
    <3> QED BY <3>1, <3>3, <1>2, <1>6
  <2>3. SubSeq(buffer, 1, c) = [i \in 1 .. c |-> Byte(m, "body", i)]
    <3> DEFINE b == SubSeq(buffer, 1, c)
    <3>1. b \in Seq(Bytes) /\ Len(b) = c /\ \A i \in 1 .. c : b[i] = Byte(m, "body", i) BY <2>1, <2>2
    <3> HIDE DEF b
    <3>2. b \in [1 .. c -> Bytes] BY <3>1, LenProperties
    <3>3. b = [i \in 1 .. c |-> Byte(m, "body", i)] BY <3>1, <3>2
    <3> QED BY <3>3 DEF b
  <2> QED BY <2>3, <1>4 DEF Body, c
<1> QED BY <1>4, <1>5, <1>7 DEF d, m, n, c

\* Bytes that only go on their way leave the frames as they stand.
LEMMA StandingSame ==
  ASSUME NEW pos, Standing(pos), Wire' = Wire, UNCHANGED <<sent, delivered, state, content_length>>
  PROVE  Standing(pos)'
BY DEF Standing, Laid

LEMMA WritesStep ==
  ASSUME InSession, NEW m \in Messages, ServerWrites(m)
  PROVE  InSession'
<1> USE DEF reader, writer, start
<1> DEFINE e == Encode(m)
           t == stdout \o e
<1>1. PICK n \in 1 .. Len(e) :
        /\ stdout' = stdout \o SubSeq(e, 1, n)
        /\ rest' = SubSeq(e, n + 1, Len(e))
  BY DEF ServerWrites
<1>2. /\ rest = <<>> /\ sent' = Append(sent, m)
      /\ UNCHANGED <<control, buffer, state, content_length, delivered>>
  BY DEF ServerWrites
<1>3. /\ buffer \in Seq(Bytes) /\ stdout \in Seq(Bytes) /\ rest \in Seq(Bytes)
      /\ sent \in Seq(Messages) /\ delivered \in Seq(Messages)
      /\ Len(delivered) \in Nat /\ Len(sent) \in Nat /\ Len(delivered) <= Len(sent)
      /\ \A i \in 1 .. Len(delivered) : delivered[i] = sent[i]
  BY DEF InSession, Prefix
<1>4. e \in Seq(Bytes) /\ Len(e) = Width(m) /\ Width(m) \in Nat BY EncodeProps DEF All
<1>5. PICK pos : Standing(pos) BY DEF InSession
<1> HIDE DEF e
<1>6. n \in 0 .. Len(e) BY <1>4
<1>7. /\ SubSeq(e, 1, n) \in Seq(Bytes) /\ rest' \in Seq(Bytes) /\ Len(rest') = Len(e) - n
      /\ SubSeq(e, 1, n) \o rest' = e
  BY <1>1, <1>4, <1>6, Cut
<1>8. stdout' \in Seq(Bytes) BY <1>1, <1>3, <1>7, ConcatProperties
<1>9. Wire' = Wire \o e
  <2> DEFINE a == SubSeq(e, 1, n)
  <2>0. a \in Seq(Bytes) /\ stdout' = stdout \o a /\ a \o rest' = e BY <1>1, <1>7
  <2> HIDE DEF a
  <2>a. (stdout \o a) \o rest' = stdout \o (a \o rest')
    BY <2>0, <1>3, <1>7, Associative, Zenon
  <2>1. stdout' \o rest' = stdout \o e BY <2>0, <2>a
  <2>2. stdout \o rest = stdout BY <1>2, <1>3, ConcatEmptySeq
  <2>3. (buffer \o stdout) \o e = buffer \o (stdout \o e)
    BY <1>3, <1>4, Associative, Zenon
  <2> QED BY <2>1, <2>2, <2>3, <1>2 DEF Wire
<1>10. /\ sent' \in Seq(Messages) /\ Len(sent') = Len(sent) + 1 /\ sent' # <<>> /\ sent'[Len(sent) + 1] = m
       /\ \A i \in 1 .. Len(sent) : sent'[i] = sent[i]
  BY <1>2, <1>3, AppendProperties
<1>11. Prefix'
  <2>1. \A i \in 1 .. Len(delivered) : delivered[i] = sent'[i] BY <1>3, <1>10
  <2>2. Len(delivered) <= Len(sent') BY <1>3, <1>10
  <2> QED BY <2>1, <2>2, <1>2, <1>3, <1>10 DEF Prefix
<1>12. Len(rest') < Width(Last(sent'))
  <2>1. Last(sent') = m BY <1>10 DEF Last
  <2>2. Len(e) - n < Width(m) BY <1>4
  <2> QED BY <2>1, <2>2, <1>7
<1>13. \E q : Standing(q)'
  <2>1. Wire \in Seq(Bytes) BY <1>3, WireProps
  <2>2. Laid(Wire, sent, Len(delivered), pos) BY <1>5 DEF Standing
  <2>3. Len(delivered) \in 0 .. Len(sent) BY <1>3
  <2>4. PICK q : /\ Laid(Wire \o e, Append(sent, m), Len(delivered), q)
                 /\ q[Len(delivered) + 1] = pos[Len(delivered) + 1]
    BY <2>1, <2>2, <2>3, <1>3, LaidAppend DEF e
  <2>5. Laid(Wire', sent', Len(delivered'), q) BY <2>4, <1>2, <1>9
  <2>6. state = "BODY" => /\ Len(delivered) < Len(sent) /\ Len(delivered) < Len(sent')
                          /\ sent'[Len(delivered) + 1] = sent[Len(delivered) + 1]
    <3> SUFFICES ASSUME state = "BODY"
                 PROVE  /\ Len(delivered) < Len(sent) /\ Len(delivered) < Len(sent')
                        /\ sent'[Len(delivered) + 1] = sent[Len(delivered) + 1]
      OBVIOUS
    <3>1. Len(delivered) < Len(sent) BY <1>5 DEF Standing
    <3>2. PICK i \in 1 .. Len(sent) : i = Len(delivered) + 1 BY <3>1, <1>3
    <3> QED BY <3>1, <3>2, <1>3, <1>10
  <2>7. Standing(q)' BY <2>4, <2>5, <2>6, <1>2, <1>5 DEF Standing
  <2> QED BY <2>7
<1> QED BY <1>2, <1>3, <1>7, <1>8, <1>10, <1>11, <1>12, <1>13 DEF InSession

LEMMA ContinuesStep ==
  ASSUME InSession, ServerContinues
  PROVE  InSession'
<1> USE DEF reader, writer, start
<1>1. PICK n \in 1 .. Len(rest) : stdout' = stdout \o SubSeq(rest, 1, n) /\ rest' = SubSeq(rest, n + 1, Len(rest))
  BY DEF ServerContinues
<1>2. rest # <<>> /\ UNCHANGED <<control, buffer, state, content_length, delivered, sent>>
  BY DEF ServerContinues
<1>3. /\ buffer \in Seq(Bytes) /\ stdout \in Seq(Bytes) /\ rest \in Seq(Bytes) /\ Len(rest) \in Nat
      /\ sent \in Seq(Messages)
  BY DEF InSession, Prefix
<1>4. n \in 0 .. Len(rest) BY <1>3
<1>5. /\ SubSeq(rest, 1, n) \in Seq(Bytes) /\ rest' \in Seq(Bytes) /\ Len(rest') = Len(rest) - n
      /\ SubSeq(rest, 1, n) \o rest' = rest
  BY <1>1, <1>3, <1>4, Cut
<1>6. stdout' \in Seq(Bytes) BY <1>1, <1>3, <1>5, ConcatProperties
<1>7. Wire' = Wire
  <2> DEFINE a == SubSeq(rest, 1, n)
  <2>0. a \in Seq(Bytes) /\ stdout' = stdout \o a /\ a \o rest' = rest BY <1>1, <1>5
  <2> HIDE DEF a
  <2>a. (stdout \o a) \o rest' = stdout \o (a \o rest')
    <3>1. stdout \in Seq(Bytes) /\ a \in Seq(Bytes) /\ rest' \in Seq(Bytes) BY <2>0, <1>3, <1>5
    <3> QED BY <3>1, Associative, Zenon
  <2>1. stdout' \o rest' = stdout \o rest BY <2>0, <2>a
  <2> QED BY <2>1, <1>2 DEF Wire
<1>8. sent # <<>> /\ Len(rest') < Width(Last(sent))
  <2>1. sent # <<>> /\ Len(rest) < Width(Last(sent)) BY <1>2 DEF InSession
  <2>2. Width(Last(sent)) \in Nat
    <3>1. Len(sent) \in 1 .. Len(sent) BY <2>1, <1>3, EmptySeq
    <3>2. Last(sent) \in Messages BY <3>1, <1>3, ElementOfSeq DEF Last
    <3> QED BY <3>2, EncodeProps DEF All
  <2>3. Len(rest') < Len(rest) BY <1>3, <1>5
  <2> QED BY <2>1, <2>2, <2>3, <1>3, <1>5
<1>9. \E q : Standing(q)'
  <2>1. PICK pos : Standing(pos) BY DEF InSession
  <2>2. Standing(pos)' BY <2>1, <1>2, <1>7, StandingSame
  <2> QED BY <2>2
<1>10. Prefix' BY <1>2 DEF InSession, Prefix
<1> QED BY <1>2, <1>3, <1>5, <1>6, <1>8, <1>9, <1>10 DEF InSession

LEMMA ReadStep ==
  ASSUME InSession, PollRead
  PROVE  InSession'
<1> USE DEF reader, writer, start
<1>1. PICK n \in 1 .. Len(stdout) :
        buffer' = buffer \o SubSeq(stdout, 1, n) /\ stdout' = SubSeq(stdout, n + 1, Len(stdout))
  BY DEF PollRead
<1>2. control' = "extract" /\ UNCHANGED <<state, content_length, delivered, sent, rest>>
  BY DEF PollRead
<1>3. buffer \in Seq(Bytes) /\ stdout \in Seq(Bytes) /\ rest \in Seq(Bytes) /\ Len(stdout) \in Nat
  BY DEF InSession
<1>4. n \in 0 .. Len(stdout) BY <1>3
<1>5. /\ SubSeq(stdout, 1, n) \in Seq(Bytes) /\ stdout' \in Seq(Bytes)
      /\ SubSeq(stdout, 1, n) \o stdout' = stdout
  BY <1>1, <1>3, <1>4, Cut
<1>6. buffer' \in Seq(Bytes) BY <1>1, <1>3, <1>5, ConcatProperties
<1>7. Wire' = Wire
  <2> DEFINE a == SubSeq(stdout, 1, n)
  <2>1. a \in Seq(Bytes) /\ buffer' = buffer \o a /\ a \o stdout' = stdout BY <1>1, <1>5
  <2> HIDE DEF a
  <2>2. stdout' \o rest \in Seq(Bytes) BY <1>3, <1>5, ConcatProperties
  <2>3. (buffer \o a) \o (stdout' \o rest) = buffer \o (a \o (stdout' \o rest))
    <3>1. buffer \in Seq(Bytes) /\ a \in Seq(Bytes) BY <2>1, <1>3
    <3> QED BY <3>1, <2>2, Associative, Zenon
  <2>4. (a \o stdout') \o rest = a \o (stdout' \o rest)
    BY <2>1, <1>3, <1>5, Associative, Zenon
  <2> QED BY <2>1, <2>3, <2>4, <1>2 DEF Wire
<1>8. \E q : Standing(q)'
  <2>1. PICK pos : Standing(pos) BY DEF InSession
  <2>2. Standing(pos)' BY <2>1, <1>2, <1>7, StandingSame
  <2> QED BY <2>2
<1>9. Prefix' BY <1>2 DEF InSession, Prefix
<1> QED BY <1>2, <1>3, <1>5, <1>6, <1>8, <1>9 DEF InSession

LEMMA NeedMoreStep ==
  ASSUME InSession, NeedMoreHeader \/ NeedMoreBody
  PROVE  InSession'
<1> USE DEF reader, writer, server, start
<1>1. control' = "loop" /\ UNCHANGED <<buffer, state, content_length, delivered, sent, stdout, rest>>
  BY DEF NeedMoreHeader, NeedMoreBody
<1>2. Len(buffer) < IF state = "HEADER" THEN 5 ELSE content_length
  <2>1. CASE NeedMoreHeader
    <3>1. state = "HEADER" /\ Separators = {} BY <2>1 DEF NeedMoreHeader
    <3>2. Len(buffer) \in Nat BY DEF InSession
    <3> QED BY <3>1, <3>2, HeaderProps
  <2>2. CASE NeedMoreBody BY <2>2 DEF NeedMoreBody
  <2> QED BY <2>1, <2>2
<1>3. Wire' = Wire BY <1>1 DEF Wire
<1>4. \E q : Standing(q)'
  <2>1. PICK pos : Standing(pos) BY DEF InSession
  <2>2. Standing(pos)' BY <2>1, <1>1, <1>3, StandingSame
  <2> QED BY <2>2
<1>5. Prefix' BY <1>1 DEF InSession, Prefix
<1> QED BY <1>1, <1>2, <1>4, <1>5 DEF InSession

LEMMA HeaderStep ==
  ASSUME InSession, ParseHeader
  PROVE  InSession'
<1> USE DEF reader, writer, server, start
<1> DEFINE d == Len(delivered)
           b == SubSeq(buffer, 5 + 1, Len(buffer))
<1>0. state = "HEADER" /\ Separators # {} BY DEF ParseHeader
<1>1. /\ buffer \in Seq(Bytes) /\ stdout \in Seq(Bytes) /\ rest \in Seq(Bytes) /\ Len(buffer) \in Nat
      /\ sent \in Seq(Messages) /\ d \in Nat /\ d <= Len(sent) /\ Len(sent) \in Nat
  BY DEF InSession, Prefix
<1>2. /\ Len(buffer) >= 5 /\ d < Len(sent) /\ Separator = 4 /\ HeaderLength = Size[sent[d + 1]]
  BY <1>0, <1>1, HeaderProps
<1>3. /\ buffer' = b /\ content_length' = Size[sent[d + 1]] /\ state' = "BODY"
      /\ control = "extract" /\ UNCHANGED <<control, delivered, stdout, rest, sent>>
  BY <1>2 DEF ParseHeader
<1>4. 5 \in 0 .. Len(buffer) BY <1>1, <1>2
<1>5. b \in Seq(Bytes) BY <1>1, <1>4, Cut
<1>6. Wire' = SubSeq(Wire, 5 + 1, Len(Wire))
  <2>1. stdout \o rest \in Seq(Bytes) BY <1>1, ConcatProperties
  <2> DEFINE t == stdout \o rest
  <2> HIDE DEF t
  <2>2. b \o t = SubSeq(buffer \o t, 5 + 1, Len(buffer \o t)) BY <2>1, <1>1, <1>4, DropFront DEF t
  <2> QED BY <2>2, <1>3 DEF Wire, t
<1>7. \E q : Standing(q)'
  <2>1. PICK pos : Laid(Wire, sent, d, pos) /\ pos[d + 1] = 0 BY <1>0 DEF InSession, Standing
  <2>2. Wire \in Seq(Bytes) /\ 5 \in 0 .. Len(Wire) BY <1>1, <1>2, WireProps
  <2>3. d \in 0 .. Len(sent) BY <1>1
  <2> HIDE DEF d
  <2>4. PICK q : Laid(SubSeq(Wire, 5 + 1, Len(Wire)), sent, d, q) /\ q[d + 1] = pos[d + 1] - 5
    BY <2>1, <2>2, <2>3, <1>1, LaidDrop
  <2>5. q[d + 1] = -5 BY <2>1, <2>4
  <2>6. Standing(q)' BY <2>4, <2>5, <1>2, <1>3, <1>6 DEF Standing, d
  <2> QED BY <2>6
<1>8. Prefix' BY <1>3 DEF InSession, Prefix
<1> QED BY <1>1, <1>3, <1>5, <1>7, <1>8 DEF InSession

LEMMA BodyStep ==
  ASSUME InSession, ExtractBody
  PROVE  InSession'
<1> USE DEF reader, writer, server, start
<1> DEFINE d == Len(delivered)
           m == sent[d + 1]
           c == content_length
           b == SubSeq(buffer, c + 1, Len(buffer))
<1>0. state = "BODY" /\ Len(buffer) >= c BY DEF ExtractBody
<1>1. /\ buffer \in Seq(Bytes) /\ stdout \in Seq(Bytes) /\ rest \in Seq(Bytes) /\ Len(buffer) \in Nat
      /\ sent \in Seq(Messages) /\ delivered \in Seq(Messages)
      /\ d \in Nat /\ d <= Len(sent) /\ Len(sent) \in Nat
      /\ \A i \in 1 .. d : delivered[i] = sent[i]
  BY DEF InSession, Prefix
<1>2. d < Len(sent) /\ m \in Messages /\ c = Size[m] /\ SubSeq(buffer, 1, c) = Body(m)
  BY <1>0, BodyProps
<1>3. c \in Nat \ {0} BY <1>2, EncodeProps DEF All
<1>4. PICK r \in Messages : SubSeq(buffer, 1, c) = Body(r) /\ delivered' = Append(delivered, r)
  BY DEF ExtractBody
<1>5. r = m
  <2>1. Body(m) = Body(r) BY <1>2, <1>4
  <2>2. 1 \in 1 .. Size[m] BY <1>2, <1>3
  <2>3. 1 \in 1 .. Size[r] BY <1>4, EncodeProps DEF All
  <2>4. Body(m)[1] = Byte(m, "body", 1) /\ Body(r)[1] = Byte(r, "body", 1) BY <2>2, <2>3 DEF Body
  <2>5. Byte(m, "body", 1).msg = m /\ Byte(r, "body", 1).msg = r BY DEF Byte
  <2> QED BY <2>1, <2>4, <2>5
<1>6. /\ buffer' = b /\ state' = "HEADER" /\ delivered' = Append(delivered, m)
      /\ control = "extract" /\ UNCHANGED <<control, stdout, rest, sent>>
  BY <1>4, <1>5 DEF ExtractBody
<1>7. c \in 0 .. Len(buffer) BY <1>0, <1>1, <1>3
<1>8. b \in Seq(Bytes) BY <1>1, <1>7, Cut
<1>9. /\ delivered' \in Seq(Messages) /\ Len(delivered') = d + 1 /\ delivered'[d + 1] = m
      /\ \A i \in 1 .. d : delivered'[i] = delivered[i]
  BY <1>1, <1>2, <1>6, AppendProperties
<1>10. Prefix'
  <2>1. ASSUME NEW i \in 1 .. d + 1 PROVE delivered'[i] = sent[i]
    <3>1. CASE i = d + 1 BY <3>1, <1>9
    <3>2. CASE i # d + 1
      <4>1. i \in 1 .. d BY <3>2, <1>1
      <4> QED BY <4>1, <1>1, <1>9
    <3> QED BY <3>1, <3>2
  <2>2. d + 1 <= Len(sent) BY <1>1, <1>2
  <2> QED BY <2>1, <2>2, <1>1, <1>6, <1>9 DEF Prefix
<1>11. Wire' = SubSeq(Wire, c + 1, Len(Wire))
  <2>1. stdout \o rest \in Seq(Bytes) BY <1>1, ConcatProperties
  <2> DEFINE t == stdout \o rest
  <2> HIDE DEF t, c
  <2>2. b \o t = SubSeq(buffer \o t, c + 1, Len(buffer \o t)) BY <2>1, <1>1, <1>7, DropFront DEF t
  <2> QED BY <2>2, <1>6 DEF Wire, t, c
<1>12. \E q : Standing(q)'
  <2>1. PICK pos : Laid(Wire, sent, d, pos) /\ pos[d + 1] = -5 BY <1>0 DEF InSession, Standing
  <2>2. Wire \in Seq(Bytes) /\ c \in 0 .. Len(Wire)
    <3>1. /\ Wire \in Seq(Bytes) /\ Len(Wire) = Len(buffer) + (Len(stdout) + Len(rest))
          /\ Len(stdout) \in Nat /\ Len(rest) \in Nat
      BY <1>1, WireProps
    <3> HIDE DEF c
    <3> QED BY <3>1, <1>1, <1>7
  <2>3. d \in 0 .. Len(sent) BY <1>1
  <2>4. Width(m) = 5 + c BY <1>2 DEF Width
  <2> DEFINE w == SubSeq(Wire, c + 1, Len(Wire))
  <2> HIDE DEF d, m, c
  <2>5. PICK q : Laid(w, sent, d, q) /\ q[d + 1] = pos[d + 1] - c
    BY <2>1, <2>2, <2>3, <1>1, LaidDrop
  <2> HIDE DEF w
  <2>6. PICK p : Laid(w, sent, d + 1, p) /\ p[d + 2] = q[d + 1] + Width(m)
    BY <2>5, <1>1, <1>2, LaidNext DEF m
  <2>7. p[d + 2] = 0
    <3>1. q[d + 1] = -5 - c BY <2>1, <2>5
    <3>2. p[d + 2] = -5 - c + (5 + c) BY <3>1, <2>4, <2>6
    <3> QED BY <3>2, <1>3
  <2>8. Len(delivered') = d + 1 /\ Len(delivered') + 1 = d + 2 BY <1>1, <1>9 DEF d
  <2>9. Laid(Wire', sent', Len(delivered'), p) BY <2>6, <2>8, <1>6, <1>11 DEF w
  <2>10. Standing(p)' BY <2>7, <2>8, <2>9, <1>6 DEF Standing
  <2> QED BY <2>10
<1> QED BY <1>1, <1>6, <1>8, <1>10, <1>12 DEF InSession

LEMMA TidyNext == Tidy /\ [Next]_vars => Tidy'
<1> SUFFICES ASSUME Tidy, [Next]_vars PROVE Tidy' OBVIOUS
<1> USE DEF reader, writer, server, start
<1>u. ASSUME UNCHANGED <<reader, stdout, rest, sent, reaped, clean>>, alive' => alive
      PROVE  Tidy'
  <2>1. Prefix' <=> Prefix BY <1>u DEF Prefix
  <2>2. InSession => InSession'
    <3> SUFFICES ASSUME InSession PROVE InSession' OBVIOUS
    <3>1. PICK pos : Standing(pos) BY DEF InSession
    <3>2. Wire' = Wire BY <1>u DEF Wire
    <3>3. Standing(pos)' BY <1>u, <3>1, <3>2, StandingSame
    <3>4. Prefix' BY <2>1 DEF InSession
    <3> QED BY <1>u, <3>3, <3>4 DEF InSession
  <2> QED BY <1>u, <2>1, <2>2 DEF Tidy
<1>s. ASSUME UNCHANGED <<clean, reaped, alive>>, alive \/ ~reaped \/ control = "extract", InSession => InSession'
      PROVE  Tidy'
  BY <1>s DEF Tidy
<1>1. CASE Spawn
  <2>1. /\ control' = "loop" /\ ~reaped' /\ stdout' = <<>> /\ rest' = <<>> /\ sent' = <<>> /\ delivered' = <<>>
        /\ clean' = (buffer = <<>> /\ state = "HEADER") /\ UNCHANGED <<buffer, state, content_length>>
    BY <1>1 DEF Spawn
  <2>2. ASSUME clean' PROVE InSession'
    <3>1. buffer' = <<>> /\ state' = "HEADER" BY <2>1, <2>2
    <3>2. Prefix' BY <2>1 DEF Prefix
    <3>3. Len(delivered') = 0 /\ Len(sent') = 0 BY <2>1
    <3>4. Wire' = <<>> BY <2>1, <3>1, ConcatEmptySeq, EmptySeq DEF Wire
    <3>5. Standing([j \in 1 .. 1 |-> 0])' BY <2>1, <3>1, <3>3, <3>4 DEF Standing, Laid
    <3>6. \E pos : Standing(pos)' BY <3>5
    <3>7. Len(buffer') < 5 BY <3>1
    <3> QED BY <2>1, <3>1, <3>2, <3>6, <3>7, EmptySeq DEF InSession
  <2> QED BY <2>1, <2>2 DEF Tidy
<1>2. ASSUME NEW m \in Messages, ServerWrites(m) PROVE Tidy'
  <2>1. alive /\ UNCHANGED <<clean, reaped, alive>> BY <1>2 DEF ServerWrites
  <2> QED BY <1>2, <1>s, <2>1, WritesStep
<1>3. CASE ServerContinues
  <2>1. alive /\ UNCHANGED <<clean, reaped, alive>> BY <1>3 DEF ServerContinues
  <2> QED BY <1>3, <1>s, <2>1, ContinuesStep
<1>4. CASE ServerDies BY <1>4, <1>u DEF ServerDies
<1>5. CASE Reap
  <2>1. /\ control' = "loop" /\ ~alive' /\ reaped' /\ clean' = clean /\ ~reaped
        /\ UNCHANGED <<sent, delivered>>
    BY <1>5 DEF Reap
  <2>2. Prefix => Prefix' BY <2>1 DEF Prefix
  <2> QED BY <2>1, <2>2 DEF Tidy, InSession
<1>6. CASE PollRead
  <2>1. ~reaped /\ UNCHANGED <<clean, reaped, alive>> BY <1>6 DEF PollRead
  <2> QED BY <1>6, <1>s, <2>1, ReadStep
<1>7. CASE NeedMoreHeader
  <2>1. control = "extract" /\ UNCHANGED <<clean, reaped, alive>> BY <1>7 DEF NeedMoreHeader
  <2> QED BY <1>7, <1>s, <2>1, NeedMoreStep
<1>8. CASE NeedMoreBody
  <2>1. control = "extract" /\ UNCHANGED <<clean, reaped, alive>> BY <1>8 DEF NeedMoreBody
  <2> QED BY <1>8, <1>s, <2>1, NeedMoreStep
<1>9. CASE ParseHeader
  <2>1. control = "extract" /\ UNCHANGED <<clean, reaped, alive>> BY <1>9 DEF ParseHeader
  <2> QED BY <1>9, <1>s, <2>1, HeaderStep
<1>10. CASE ExtractBody
  <2>1. control = "extract" /\ UNCHANGED <<clean, reaped, alive>> BY <1>10 DEF ExtractBody
  <2> QED BY <1>10, <1>s, <2>1, BodyStep
<1>11. CASE SkipHeader
  <2>1. control = "extract" /\ UNCHANGED <<clean, reaped, alive>> BY <1>11 DEF SkipHeader
  <2>2. ~InSession
    <3> SUFFICES ASSUME InSession PROVE FALSE OBVIOUS
    <3>1. state = "HEADER" /\ Separators # {} /\ Lengths = {} BY <1>11 DEF SkipHeader
    <3>2. Len(buffer) \in Nat BY DEF InSession
    <3> QED BY <3>1, <3>2, HeaderProps
  <2> QED BY <1>s, <2>1, <2>2
<1>12. CASE Throws
  <2>1. control = "extract" /\ UNCHANGED <<clean, reaped, alive>> BY <1>12 DEF Throws
  <2>2. ~InSession
    <3> SUFFICES ASSUME InSession PROVE FALSE OBVIOUS
    <3>1. CASE state = "HEADER" /\ Separators # {} /\ BadNumber
      <4>1. Len(buffer) \in Nat BY DEF InSession
      <4> QED BY <3>1, <4>1, HeaderProps
    <3>2. CASE /\ state = "BODY" /\ Len(buffer) >= content_length
               /\ \A m \in Messages : SubSeq(buffer, 1, content_length) # Body(m)
      BY <3>2, BodyProps
    <3> QED BY <1>12, <3>1, <3>2 DEF Throws
  <2> QED BY <1>s, <2>1, <2>2
<1>13. ASSUME NEW m \in Requests, Enqueue(m) PROVE Tidy' BY <1>13, <1>u DEF Enqueue
<1>14. CASE DrainFrame BY <1>14, <1>u DEF DrainFrame
<1>15. CASE DrainPartly BY <1>15, <1>u DEF DrainPartly
<1>16. CASE UNCHANGED vars BY <1>16, <1>u DEF vars
<1> QED
  BY <1>1, <1>2, <1>3, <1>4, <1>5, <1>6, <1>7, <1>8, <1>9, <1>10, <1>11, <1>12, <1>13, <1>14,
     <1>15, <1>16 DEF Next

\* In a loop with an empty pipe, what is not delivered is a frame that the process has not ended.
LEMMA NothingHeldBack ==
  ASSUME InSession, control = "loop", stdout = <<>>
  PROVE  delivered = Complete
<1> DEFINE d == Len(delivered)
           l == Len(sent)
           n == Len(buffer)
           r == Len(rest)
<1>1. /\ buffer \in Seq(Bytes) /\ stdout \in Seq(Bytes) /\ rest \in Seq(Bytes)
      /\ sent \in Seq(Messages) /\ delivered \in Seq(Messages)
      /\ d \in Nat /\ l \in Nat /\ n \in Nat /\ r \in Nat /\ d <= l /\ Len(stdout) = 0
      /\ \A i \in 1 .. d : delivered[i] = sent[i]
  BY DEF InSession, Prefix
<1>2. Len(Wire) = n + r
  <2>1. Len(Wire) = n + (Len(stdout) + r) BY <1>1, WireProps
  <2> QED BY <2>1, <1>1
<1>3. PICK pos : Standing(pos) BY DEF InSession
<1>4. /\ pos \in [d + 1 .. l + 1 -> Int] /\ pos[l + 1] = n + r
      /\ \A j \in d + 1 .. l : pos[j + 1] = pos[j] + Width(sent[j])
      /\ \A j, k \in d + 1 .. l + 1 : j <= k => pos[j] <= pos[k]
  BY <1>2, <1>3 DEF Standing, Laid
<1>5. state = "HEADER" \/ state = "BODY" BY DEF InSession
<1>6. \A j \in 1 .. l : sent[j] \in Messages BY <1>1, ElementOfSeq
<1>7. ASSUME d < l PROVE d + 1 \in d + 1 .. l /\ pos[d + 2] > n
  <2> DEFINE m == sent[d + 1]
             w == Width(m)
  <2>1. d + 1 \in d + 1 .. l /\ d + 1 \in 1 .. l /\ d + 1 + 1 = d + 2 BY <1>1, <1>7
  <2>2. m \in Messages BY <2>1, <1>6
  <2>3. Size[m] \in Nat /\ w = 5 + Size[m] BY <2>2, EncodeProps DEF All, Width
  <2>4. pos[d + 2] = pos[d + 1] + w BY <2>1, <1>4
  <2>5. CASE state = "HEADER"
    <3>1. pos[d + 1] = 0 /\ n < 5 BY <2>5, <1>3 DEF Standing, InSession
    <3> HIDE DEF w, n, d
    <3>2. pos[d + 2] = 0 + w BY <3>1, <2>4
    <3> QED BY <3>1, <3>2, <2>1, <2>3, <1>1
  <2>6. CASE state = "BODY"
    <3>1. pos[d + 1] = -5 /\ content_length = Size[m] /\ n < content_length
      BY <2>6, <1>3 DEF Standing, InSession
    <3> HIDE DEF w, n, d, m
    <3>2. pos[d + 2] = -5 + w BY <3>1, <2>4
    <3> QED BY <3>1, <3>2, <2>1, <2>3, <1>1
  <2> QED BY <2>5, <2>6, <1>5
<1>8. CASE rest = <<>>
  <2>1. r = 0 BY <1>8
  <2>2. d = l
    <3> SUFFICES ASSUME d < l PROVE FALSE BY <1>1
    <3> HIDE DEF d, l, n, r
    <3>1. d + 2 \in d + 1 .. l + 1 /\ l + 1 \in d + 1 .. l + 1 /\ d + 2 <= l + 1 BY <1>1
    <3>2. pos[d + 2] <= pos[l + 1] BY <3>1, <1>4
    <3>3. pos[d + 2] \in Int BY <3>1, <1>4
    <3> QED BY <3>2, <3>3, <2>1, <1>1, <1>4, <1>7
  <2>3. delivered = sent BY <2>2, <1>1, SeqEqual
  <2> QED BY <2>3, <1>8 DEF Complete
<1>9. CASE rest # <<>>
  <2>1. sent # <<>> /\ r < Width(Last(sent)) BY <1>9 DEF InSession
  <2>2. r > 0 BY <1>1, <1>9, EmptySeq
  <2>3. l \in 1 .. l BY <2>1, <1>1, EmptySeq
  <2>4. d # l
    <3> SUFFICES ASSUME d = l PROVE FALSE OBVIOUS
    <3>1. state = "HEADER" BY <1>1, <1>3, <1>5 DEF Standing
    <3>2. pos[d + 1] = 0 BY <3>1, <1>3 DEF Standing
    <3> HIDE DEF d, l, n, r
    <3>3. pos[l + 1] = 0 BY <3>2
    <3> QED BY <3>3, <2>2, <1>1, <1>4
  <2>5. l \in d + 1 .. l BY <2>4, <1>1
  <2> DEFINE w == Width(Last(sent))
  <2>6. pos[l + 1] = pos[l] + w BY <2>5, <1>4 DEF Last
  <2>7. w \in Nat
    <3>1. Last(sent) \in Messages BY <2>3, <1>6 DEF Last
    <3> QED BY <3>1, EncodeProps DEF All
  <2>8. d = l - 1
    <3> SUFFICES ASSUME d < l - 1 PROVE FALSE BY <2>4, <1>1
    <3> HIDE DEF d, l, n, r, w
    <3>1. d + 2 \in d + 1 .. l + 1 /\ l \in d + 1 .. l + 1 /\ d + 2 <= l BY <1>1
    <3>2. pos[d + 2] <= pos[l] /\ pos[d + 2] \in Int /\ pos[l] \in Int BY <3>1, <1>4
    <3>3. pos[d + 2] > n BY <1>1, <1>7
    <3>4. r < w BY <2>1 DEF w
    <3> QED BY <3>2, <3>3, <3>4, <2>6, <2>7, <1>1, <1>4
  <2>9. delivered = SubSeq(sent, 1, l - 1)
    <3> DEFINE c == l - 1
               s == SubSeq(sent, 1, c)
    <3>1. c \in 0 .. Len(sent) BY <2>3, <1>1
    <3>2. s \in Seq(Messages) /\ Len(s) = c /\ \A i \in 1 .. c : s[i] = sent[i]
      <4> HIDE DEF c
      <4> QED BY <3>1, <1>1, Cut
    <3> HIDE DEF s
    <3>3. Len(delivered) = Len(s) /\ \A i \in 1 .. Len(delivered) : delivered[i] = s[i]
      BY <3>2, <2>8, <1>1
    <3>4. delivered = s BY <3>2, <3>3, <1>1, SeqEqual
    <3> QED BY <3>4 DEF s
  <2> QED BY <2>9, <1>9 DEF Complete
<1> QED BY <1>8, <1>9

\* In a session that began with nothing left of the one before, the messages come out as they went
\* in, however the stream is cut, and none that has been read is held back (LspFraming::extract,
\* poll_read).
THEOREM DeliveredInOrder == Spec => []InOrderUnlessTorn
<1>1. Init => Tidy BY DEF Init, Tidy, Prefix
<1>2. Tidy => InOrderUnlessTorn
  <2> SUFFICES ASSUME Tidy, clean PROVE InOrder BY DEF InOrderUnlessTorn
  <2>1. Prefix /\ control # "dead" BY DEF Tidy, InSession
  <2>2. IsPrefix(delivered, sent)
    <3> DEFINE d == Len(delivered)
               p == SubSeq(sent, 1, d)
    <3>1. /\ sent \in Seq(Messages) /\ delivered \in Seq(Messages) /\ d \in 0 .. Len(sent)
          /\ \A i \in 1 .. d : delivered[i] = sent[i]
      BY <2>1 DEF Prefix
    <3>2. p \in Seq(Messages) /\ Len(p) = d /\ \A i \in 1 .. d : p[i] = sent[i] BY <3>1, Cut
    <3> HIDE DEF p
    <3>3. delivered = p BY <3>1, <3>2, SeqEqual
    <3>4. SubSeq(delivered, 1, d) = delivered BY <3>1, SubSeqFull
    <3>5. d <= Len(sent) BY <2>1 DEF Prefix
    <3> QED BY <3>3, <3>4, <3>5 DEF IsPrefix, p
  <2>3. ASSUME control = "loop", stdout = <<>>, ~reaped PROVE delivered = Complete
    BY <2>3, NothingHeldBack DEF Tidy
  <2> QED BY <2>1, <2>2, <2>3 DEF InOrder
<1> QED BY <1>1, <1>2, TidyNext, PTL DEF Spec

=============================================================================
