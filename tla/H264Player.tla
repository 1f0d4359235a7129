------------------------------ MODULE H264Player -------------------------------
(***************************************************************************)
(* Playing an H.264 file: a stream of H264VideoFileStreamSource with its   *)
(* send thread, and localFileReader with its cache.                        *)
(*                                                                         *)
(* A file is a sequence of NAL units, each behind a start code of three or *)
(* four bytes; no unit is empty, holds a start code or ends with a zero,   *)
(* of which the format of units takes care.  The reader goes through it    *)
(* byte by byte, so its cache always begins at a multiple of its size.     *)
(***************************************************************************)
EXTENDS Packetizer

CONSTANTS
  Files,    \* sequences of [at, code: 3..4, size, type]: bytes before the start
            \* code, of the start code and of the unit
  Cache,    \* m_cache_size
  Packet,   \* bytes of an RTP packet
  MaxOrders \* PLAY, PAUSE and stop

ASSUME H264PlayerAssumption ==
  /\ Cache \in Nat /\ Cache > 5
  /\ Packet \in Nat /\ Packet > 14
  /\ MaxOrders \in Nat
  /\ \A f \in Files :
       /\ f \in Seq([at : Nat, code : {3, 4}, size : Nat \ {0}, type : STRING])
       /\ \A i \in DOMAIN f :
            f[i].at = IF i = 1 THEN 0 ELSE f[i - 1].at + f[i - 1].code + f[i - 1].size

VARIABLES
  file,    \* the file
  place,   \* of the reader: bytes before the next one
  sender,  \* m_thread_send: "none", "run", "done" (not joined), "gone"
  order,   \* what an executor does with the stream
  orders,  \* orders so far
  sendEnd, \* m_send_end
  sent,    \* the last unit that was sent since PLAY
  shown,   \* the last unit that the client got whole since PLAY
  carrier, \* transport_type of the session
  broken,  \* a send over TCP failed, with a part of a packet sent or none
  aborted  \* std::thread over one that was not joined
h264 == <<file, place, sender, order, orders, sendEnd, sent, shown, carrier,
          broken, aborted>>

-----------------------------------------------------------------------------
(* get_frame and the reader.                                               *)

Size == IF file = <<>> THEN 0
        ELSE LET e == file[Len(file)] IN e.at + e.code + e.size

\* Mutant: it goes back less than the start code.
BackwordShort(at, bytes) ==
  IF bytes - 1 < at - Cache * ((at - 1) \div Cache) THEN at - (bytes - 1) ELSE at

\* backword: not to the beginning of the cache, nor before it.
Backword(at, bytes) ==
  IF bytes < at - Cache * ((at - 1) \div Cache) THEN at - bytes ELSE at

\* The next unit is that behind the next start code.  It ends at the one after it,
\* to which the reader goes back.  The end of the file ends no unit.
GetFrame(p) ==
  LET next == {i \in 1..(Len(file) - 1) : file[i].at >= p}
      i == CHOOSE j \in next : \A k \in next : j <= k
  IN IF next = {} THEN [unit |-> 0, place |-> Size]
     ELSE [unit |-> i,
           place |-> Backword(file[i + 1].at + 4, IF file[i + 1].code = 3 THEN 4 ELSE 5)]

\* get_sps_pps: the file begins with the parameter sets.
HasSets ==
  LET sps == GetFrame(0)
      pps == GetFrame(sps.place)
  IN /\ sps.unit # 0 /\ file[sps.unit].type = "sps"
     /\ pps.unit # 0 /\ file[pps.unit].type = "pps"

H264Init ==
  /\ file \in Files
  /\ place = IF GetFrame(0).unit # 0 /\ file[GetFrame(0).unit].type = "sps"
             THEN GetFrame(GetFrame(0).place).place ELSE GetFrame(0).place
  /\ sender = "none"
  /\ order = "none"
  /\ orders = 0
  /\ sendEnd = FALSE
  /\ sent = 0
  /\ shown = 0
  /\ carrier = "tcp"
  /\ broken = FALSE
  /\ aborted = FALSE

-----------------------------------------------------------------------------
(* The send thread.                                                        *)

Ends == sender' = "done" /\ UNCHANGED <<sent, shown, broken>>

\* Every packet of the unit goes out on the connection, behind whole ones.
SendTcp(u) ==
  /\ carrier = "tcp" /\ ~broken
  /\ shown' = IF ClientGets(file[u].size, Packet) THEN u ELSE shown
  /\ UNCHANGED broken

\* One is not sent, or in part: the rest of the unit is left out.
SendFails == carrier = "tcp" /\ broken' = TRUE /\ UNCHANGED shown

\* Nothing is sent: startStream makes a socket only where it finds 0, the constructor
\* left -1, and what sendto returns is not looked at.
SendUdp == carrier = "udp" /\ UNCHANGED <<shown, broken>>

\* send_frame.  What cannot be read or has a type that is not sent ends the stream
\* with an RTCP BYE, a send that fails without one, unless a sender report is due and
\* comes through.  Over UDP the first report ends it.
SendUnit(u) ==
  /\ sent' = u
  /\ SendTcp(u) \/ SendFails \/ SendUdp
  /\ sender' \in {"run", "done"}
  /\ sendEnd' = (sendEnd \/ sender' = "done")

SendFrames ==
  /\ ~aborted /\ sender = "run"
  /\ LET frame == GetFrame(place)
     IN \/ sendEnd /\ Ends /\ UNCHANGED <<place, sendEnd>>
        \/ /\ ~sendEnd
           /\ place' = frame.place
           /\ IF frame.unit = 0 \/ file[frame.unit].type = "other"
              THEN Ends /\ sendEnd' = TRUE
              ELSE SendUnit(frame.unit)
  /\ UNCHANGED <<file, order, orders, carrier, aborted>>

-----------------------------------------------------------------------------
(* handTask of the stream, under the lock of the list.                     *)

Ready == ~aborted /\ order = "none" /\ sender # "gone" /\ orders < MaxOrders

\* startStream, which joins nothing and does not reset m_send_end.  It copies the
\* session anew, whose transport another SETUP may have set.
PlayFile ==
  /\ Ready /\ HasSets
  /\ orders' = orders + 1
  /\ place' = 0
  /\ carrier' \in {"tcp", "udp"}
  /\ IF sender = "none"
     THEN sender' = "run" /\ sent' = 0 /\ shown' = 0 /\ UNCHANGED aborted
     ELSE aborted' = TRUE /\ UNCHANGED <<sender, sent, shown>>
  /\ UNCHANGED <<file, order, sendEnd, broken>>

\* PAUSE, and a stop, after which the stream is deleted.
EndSending(what) ==
  /\ Ready
  /\ orders' = orders + 1
  /\ order' = what
  /\ sendEnd' = TRUE
  /\ UNCHANGED <<file, place, sender, sent, shown, carrier, broken, aborted>>

SenderJoined ==
  /\ ~aborted /\ order # "none" /\ sender # "run"
  /\ sender' = IF order = "stop" THEN "gone" ELSE "none"
  /\ sendEnd' = (order = "stop")
  /\ order' = "none"
  /\ UNCHANGED <<file, place, orders, sent, shown, carrier, broken, aborted>>

-----------------------------------------------------------------------------
(* Properties.                                                             *)

\* A cache begins in the start code of the unit, or right before it or behind it.
AtCacheEdge(u) ==
  \E k \in 1..Size :
    k * Cache \in (file[u].at - (file[u].code - 3))..(file[u].at + 3)

\* Units are sent in the file's order, and none is left out unless its start code lies
\* at the edge of a cache.  Over TCP, until a send fails, the client gets each, unless
\* all its fragments are full; over UDP it gets none.  A stream that reads to the end of
\* its file has sent all but the last unit and what is behind one of a type that ends it.
H264PlaysInOrder ==
  [][/\ sent' \notin {0, sent} =>
          /\ sent' > sent
          /\ \A u \in (sent + 1)..(sent' - 1) : AtCacheEdge(u)
          /\ carrier = "tcp" /\ ~broken' =>
               shown' = sent' \/ (file[sent'].size - 1) % FragmentSize(Packet) = 0
     /\ shown' \notin {0, shown} => shown' = sent' /\ carrier = "tcp" /\ ~broken
     /\ ~sendEnd /\ sendEnd' /\ order' = order /\ place' = Size =>
          \A u \in (sent' + 1)..(Len(file) - 1) :
            AtCacheEdge(u) \/ \E v \in 1..u : file[v].type = "other"]_h264

\* PAUSE and a stop, which join the send thread with the list locked, end, and so
\* does a stream at the end of its file.
H264PlayingEnds ==
  /\ order # "none" ~> (order = "none" \/ aborted)
  /\ sender = "run" ~> (sender # "run" \/ aborted)
=============================================================================
