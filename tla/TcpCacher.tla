------------------------------- MODULE TcpCacher -------------------------------
(***************************************************************************)
(* The bytes of one socket of the server: tcpCacher and tcpCacherManager   *)
(* gather the segments that TCP delivers, one of the two analyzers cuts    *)
(* them into messages, and the callback of the event loop hands these on.  *)
(* The descriptor is closed and given to the next client, or its cacher is *)
(* dropped by a time-out while the connection goes on.  Only the thread of *)
(* the event loop uses a cacher.                                           *)
(*                                                                         *)
(* A byte is <<its message, its place in it>>, so that the properties can  *)
(* say where it came from; what it spells is left out: a '$' begins a      *)
(* frame, an empty line ends a request, a '{' follows the size of a JSON   *)
(* text, and four bytes that are not such a size are too large for one.    *)
(***************************************************************************)
EXTENDS Naturals, Sequences, FiniteSetsExt

CONSTANTS
  Kinds,      \* of sockets: "rtsp", "json"
  Messages,   \* what a client sends: records of a sort and a size in bytes
  MaxSent,    \* messages of one connection (bound)
  MaxConns,   \* connections on the descriptor (bound)
  Default,    \* TCP_DEFAULT_CACHER_SIZE
  Limit,      \* the size from which appendBuffer gives up, 0xfffff in the code
  MaxRequest, \* RTSP_BUFFER_SIZE
  Byte        \* values of a byte

ASSUME TcpCacherAssumption ==
  /\ Kinds \subseteq {"rtsp", "json"}
  /\ \A m \in Messages : /\ m.sort \in {"frame", "request", "json", "junk"}
                         /\ m.size \in Nat \ {0}
                         /\ m.sort \in {"frame", "json", "request"} => m.size > 4
  /\ {MaxSent, MaxConns, Default, Limit, MaxRequest, Byte} \subseteq Nat
  /\ MaxConns > 0 /\ Byte > 0

VARIABLES
  kind,  \* which server the socket belongs to
  conn,  \* the connections there were, with the present one
  sent,  \* the messages of this one
  wire,  \* its bytes that were not received yet
  cap,   \* m_MaxBufSize
  cur,   \* m_cur
  buf,   \* the m_dataSize valid bytes of m_dataBuf
  phase, \* of the callback: "idle", "scan", "handle"
  last,  \* dataLen, the size of the last segment
  list,  \* dataList, what getValidBuffer found
  got,   \* ghost: everything that it found on this connection
  input, \* in_buffer of the RTSP buffer of the socket
  done,  \* ghost: the requests that RTSP_handler took for whole ones
  fault  \* "no", "refused" after a segment was dropped, "cut" after a part of
         \* a message was, "overread" after a search beyond the buffer

peer     == <<kind, conn, sent, wire>>
cacher   == <<cap, cur, buf>>
callback == <<phase, last, list, got, input, done>>
vars     == <<peer, cacher, callback, fault>>

Init ==
  /\ kind \in Kinds
  /\ conn = 1
  /\ sent = <<>>
  /\ wire = <<>>
  /\ cap = Default
  /\ cur = 0
  /\ buf = <<>>
  /\ phase = "idle"
  /\ last = 0
  /\ list = <<>>
  /\ got = <<>>
  /\ input = <<>>
  /\ done = {}
  /\ fault = "no"

\* The bytes of the n-th message of a connection.
Bytes(n, m) == [i \in 1..m.size |-> [conn |-> conn, no |-> n, sort |-> m.sort,
                                     at |-> i, of |-> m.size]]

Is(b, s)   == b.sort = s /\ b.at = 1        \* it begins such a message
Ends(b, s) == b.sort = s /\ b.at = b.of

\* What pkg_size becomes: its lower byte is a signed char, whose sign fills
\* the upper one.
PkgSize(n) ==
  IF (n % Byte) < (Byte \div 2) THEN n ELSE (Byte * Byte - Byte) + (n % Byte)

(***************************************************************************)
(* The client sends a message; on the RTSP socket no request before the    *)
(* last one was taken, and on a JSON socket also bytes that mean nothing.   *)
(***************************************************************************)
SortsOf(k) == IF k = "rtsp" THEN {"frame", "request"} ELSE {"json", "junk"}

Taken(n) == \E i \in DOMAIN got : \E j \in DOMAIN got[i] :
              got[i][j].no = n /\ got[i][j].conn = conn

Say(m) ==
  /\ Len(sent) < MaxSent
  /\ m.sort \in SortsOf(kind)
  /\ m.sort = "request" => \A n \in DOMAIN sent : sent[n].sort = "request" => Taken(n)
  /\ sent' = Append(sent, m)
  /\ wire' = wire \o Bytes(Len(sent) + 1, m)
  /\ UNCHANGED <<kind, conn, cacher, callback, fault>>

(***************************************************************************)
(* A segment: appendBuffer.  What does not fit behind the data moves them  *)
(* to the front, and makes the buffer larger when it fits nowhere.  The    *)
(* callbacks do not look at what it returns.                               *)
(***************************************************************************)
\* Mutant: the place that the data begin at is forgotten.
FitsInAll(n) == Len(buf) + n < cap

Fits(n) == cur + Len(buf) + n < cap

AppendBuffer(seg) ==
  LET size == Len(buf) + Len(seg) IN
  \/ /\ Fits(Len(seg))
     /\ buf' = buf \o seg
     /\ UNCHANGED <<cap, cur, fault>>
  \/ /\ ~Fits(Len(seg))
     /\ size <= cap \/ size < Limit
     /\ cap' = Max({cap, size})
     /\ cur' = 0
     /\ buf' = buf \o seg
     /\ UNCHANGED fault
  \/ /\ ~Fits(Len(seg))
     /\ size > cap /\ size >= Limit
     /\ fault' = "refused"
     /\ UNCHANGED cacher

Segment(n) ==
  /\ phase = "idle"
  /\ fault # "overread"
  /\ n <= Len(wire)
  /\ AppendBuffer(SubSeq(wire, 1, n))
  /\ wire' = SubSeq(wire, n + 1, Len(wire))
  /\ last' = n
  /\ list' = <<>>
  /\ phase' = "scan"
  /\ UNCHANGED <<kind, conn, sent, got, input, done>>

(***************************************************************************)
(* getValidBuffer: take the message that the analyzer found, or drop the   *)
(* bytes that it calls invalid and end.                                    *)
(***************************************************************************)
Nothing(junk) == [valid |-> FALSE, from |-> 1, to |-> 0, junk |-> junk]
Message(i, j) == [valid |-> TRUE, from |-> i, to |-> j, junk |-> 0]

\* The places where an empty line ends, from the byte after the first.
EmptyLines == {i \in 5..Len(buf) : Ends(buf[i], "request")}

\* parseRtpRtcpRtspData: a '$' begins a frame of a known size, anything else a
\* request that ends with the LAST empty line, where the data is not too long.
ParseRtsp ==
  LET size == PkgSize(buf[1].of - 4) + 4 IN
  IF Is(buf[1], "frame")
  THEN IF Len(buf) >= 4 /\ Len(buf) >= size THEN Message(1, size) ELSE Nothing(0)
  ELSE IF Len(buf) - 1 <= MaxRequest /\ EmptyLines # {}
       THEN Message(1, Max(EmptyLines))
       ELSE Nothing(0)

\* Without the three bytes it subtracts, the search for the empty line does not
\* end within the buffer.
Overreads == kind = "rtsp" /\ ~Is(buf[1], "frame") /\ Len(buf) = 2

\* There are enough bytes to tell that no text begins here.
Skips(i) == i + 4 <= Len(buf) /\ ~Is(buf[i], "json")

\* Mutant: a text that ends with the data is taken for a part.
ParseJsonLater ==
  LET i == Min({k \in 1..(Len(buf) + 1) : ~Skips(k)})
  IN  IF i + 4 <= Len(buf) /\ i + buf[i].of - 1 < Len(buf)
      THEN Message(i, i + buf[i].of - 1)
      ELSE Nothing(i - 1)

\* parseTaskJsonData: bytes are skipped until four of them are a size that a '{'
\* follows, or too few are left to tell.
ParseJson ==
  LET i == Min({k \in 1..(Len(buf) + 1) : ~Skips(k)})
  IN  IF i + 4 <= Len(buf) /\ i + buf[i].of - 1 <= Len(buf)
      THEN Message(i, i + buf[i].of - 1)
      ELSE Nothing(i - 1)

Found == IF kind = "rtsp" THEN ParseRtsp ELSE ParseJson

\* Something was dropped, and the data begin in the middle of a message: these
\* bytes may spell anything.
InMiddle == fault # "no" /\ buf[1].at > 1

TakeMessage ==
  /\ phase = "scan"
  /\ buf # <<>> /\ ~Overreads
  /\ Found.valid
  /\ list' = Append(list, SubSeq(buf, Found.from, Found.to))
  /\ got' = Append(got, SubSeq(buf, Found.from, Found.to))
  /\ cur' = cur + Found.to
  /\ buf' = SubSeq(buf, Found.to + 1, Len(buf))
  /\ UNCHANGED <<peer, cap, phase, last, input, done, fault>>

\* A '$' and a size, or an empty line, in the middle of a message: parseRtpRtcpRtspData
\* takes as much as they say for a message.
TakeAsMessage ==
  /\ phase = "scan" /\ kind = "rtsp"
  /\ buf # <<>> /\ InMiddle
  /\ \E n \in 4..Len(buf) :
       /\ list' = Append(list, SubSeq(buf, 1, n))
       /\ cur' = cur + n
       /\ buf' = SubSeq(buf, n + 1, Len(buf))
  /\ UNCHANGED <<peer, cap, phase, last, got, input, done, fault>>

EndScan ==
  /\ phase = "scan"
  /\ buf # <<>> => (~Overreads /\ ~Found.valid) \/ InMiddle
  /\ LET junk == IF buf = <<>> THEN 0 ELSE Found.junk
     IN  cur' = cur + junk /\ buf' = SubSeq(buf, junk + 1, Len(buf))
  /\ phase' = "handle"
  /\ UNCHANGED <<peer, cap, last, list, got, input, done, fault>>

Overread ==
  /\ phase = "scan"
  /\ buf # <<>> /\ Overreads
  /\ fault' = "overread"
  /\ phase' = "idle"
  /\ UNCHANGED <<peer, cacher, last, list, got, input, done>>

(***************************************************************************)
(* The callbacks.  RTSP_Callback copies each message over the old in_buffer *)
(* but counts it as long as the segment was; RTSP_end looks for the empty   *)
(* line before that place.  A message that is too long ends the loop.       *)
(***************************************************************************)
Over(m) == m \o SubSeq(input, Len(m) + 1, Len(input))

RtspEnd(b) == /\ last \in 4..Len(b)
              /\ Ends(b[last], "request")
              /\ \A i \in 1..3 : b[last - i].no = b[last].no

HandleRtsp ==
  /\ phase = "handle" /\ kind = "rtsp" /\ list # <<>>
  /\ LET m == Head(list) IN
     \/ /\ Len(m) > MaxRequest
        /\ list' = <<>>
        /\ UNCHANGED <<input, done>>
     \/ /\ Len(m) <= MaxRequest
        /\ input' = Over(m)
        /\ done' = IF m[1].sort = "request" /\ RtspEnd(Over(m))
                   THEN done \union {m[1].no} ELSE done
        /\ list' = Tail(list)
  /\ UNCHANGED <<peer, cacher, phase, last, got, fault>>

\* taskJsonCallback: every text becomes a task.
HandleJson ==
  /\ phase = "handle" /\ kind = "json" /\ list # <<>>
  /\ list' = Tail(list)
  /\ UNCHANGED <<peer, cacher, phase, last, got, input, done, fault>>

Return ==
  /\ phase = "handle" /\ list = <<>>
  /\ phase' = "idle"
  /\ UNCHANGED <<peer, cacher, last, list, got, input, done, fault>>

(***************************************************************************)
(* The socket is closed, its cacher removed with what is in it; the next   *)
(* segment on this descriptor makes a new one.                             *)
(***************************************************************************)
\* Mutant: it is left to the next client.
KeepCacher == UNCHANGED cacher

RemoveCacher ==
  /\ cap' = Default
  /\ cur' = 0
  /\ buf' = <<>>

Close ==
  /\ phase = "idle"
  /\ fault # "overread"
  /\ conn < MaxConns
  /\ conn' = conn + 1
  /\ sent' = <<>>
  /\ wire' = <<>>
  /\ RemoveCacher
  /\ got' = <<>>
  /\ input' = <<>>
  /\ done' = {}
  /\ fault' = "no"
  /\ UNCHANGED <<kind, phase, last, list>>

\* The RTSP socket was silent for too long when another one received something:
\* RTSP_Close_Client frees what belongs to it, but the connection stays open.  A
\* message that was received in part loses this part.
TimeOut ==
  /\ phase = "idle" /\ kind = "rtsp"
  /\ fault # "overread"
  /\ RemoveCacher
  /\ input' = <<>>
  /\ fault' = IF buf = <<>> THEN fault ELSE "cut"
  /\ UNCHANGED <<peer, phase, last, list, got, done>>

Next ==
  \/ \E m \in Messages : Say(m)
  \/ \E n \in 1..Len(wire) : Segment(n)
  \/ TakeMessage
  \/ TakeAsMessage
  \/ EndScan
  \/ Overread
  \/ HandleRtsp
  \/ HandleJson
  \/ Return
  \/ Close
  \/ TimeOut

Spec == Init /\ [][Next]_vars

-----------------------------------------------------------------------------

\* The data lie within the allocated buffer, which stays below the limit
\* (appendBuffer, getValidBuffer).
DataFit ==
  /\ cap \in Default..(Default + Limit)
  /\ cur + Len(buf) <= cap

\* So they do; and only a request that was sent is taken for a whole one
\* (RTSP_Callback).
TypeOK ==
  /\ kind \in Kinds
  /\ conn \in 1..MaxConns
  /\ sent \in Seq(Messages)
  /\ DataFit
  /\ phase \in {"idle", "scan", "handle"}
  /\ last \in Nat
  /\ done \subseteq DOMAIN sent
  /\ fault \in {"no", "refused", "cut", "overread"}

\* No segment was dropped, no time-out fell into the middle of a message, and every
\* frame has a size whose lower byte is read as it was written.
Clean ==
  /\ fault = "no"
  /\ \A n \in DOMAIN sent :
       sent[n].sort = "frame" => PkgSize(sent[n].size - 4) = sent[n].size - 4

\* The message that the i-th of what was found begins with, 0 before the first.
Number(i) == IF i = 0 THEN 0 ELSE got[i][1].no

\* However TCP cuts the bytes, whatever lies between JSON texts, and also after
\* a time-out that found the cacher empty on a connection that goes on, the
\* analyzers find the messages of this connection, each whole and by itself, in
\* their order and without a gap; nothing of an earlier connection on the
\* descriptor is among them.
Whole ==
  Clean => \A i \in DOMAIN got :
    /\ Number(i) \in (Number(i - 1) + 1)..Len(sent)
    /\ sent[Number(i)].sort # "junk"
    /\ got[i] = Bytes(Number(i), sent[Number(i)])
    /\ \A n \in (Number(i - 1) + 1)..(Number(i) - 1) : sent[n].sort = "junk"

\* A message that was received to its end does not wait for the next segment,
\* after a time-out between two messages no more than before:
\* once the callback returned, the cacher holds at most a part of one.  (More
\* than MaxRequest bytes behind a request hide its end from the search.)
NothingWaits ==
  phase = "idle" /\ Clean /\ Len(buf) <= MaxRequest
    => \A i \in DOMAIN buf : buf[i].at = buf[i].of => buf[i].sort = "junk"

\* RTSP_Callback copies a request that the cacher put together for RTSP_handler
\* to answer it (the comments at RTSP_Server.cpp:149 and :153), in however many
\* segments it came.
WholeRequestsAreHandled ==
  phase = "idle" /\ Clean
    => \A n \in DOMAIN sent : sent[n].sort = "request" /\ Taken(n) => n \in done

=============================================================================
