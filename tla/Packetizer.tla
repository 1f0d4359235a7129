------------------------------ MODULE Packetizer -------------------------------
(***************************************************************************)
(* How a stream cuts a NAL unit into RTP packets: generate_sendable_frame  *)
(* of live and H.264 streams, generateSendableFrame of FLV streams, which  *)
(* have this part in common.  What is sent of a unit is the range of its   *)
(* bytes, numbered from 0, with the bits FU_S and FU_E.  The first byte is *)
(* not sent in fragments, their two headers stand for it.                  *)
(***************************************************************************)
EXTENDS Naturals, Sequences

\* A packet without the RTP header and the type; a fragment has one header more.
PayloadSize(packet)  == packet - 13
FragmentSize(packet) == PayloadSize(packet) - 1

Fragment(a, b, s, e) == [from |-> a, upto |-> b, start |-> s, end |-> e]

\* num_frames
NumFrames(size, payload) ==
  (size \div payload) + (IF (size \div payload) * payload < size THEN 1 ELSE 0)

\* The first fragment, those in the middle, and what is left for the last.
Fragments(size, payload) ==
  LET n == NumFrames(size, payload)
      cur == 1 + (n - 1) * payload
      full == [i \in 1..(n - 1) |->
                 Fragment(1 + (i - 1) * payload, 1 + i * payload, i = 1, FALSE)]
  IN IF size > cur THEN Append(full, Fragment(cur, size, FALSE, TRUE)) ELSE full

\* A unit that fits is one packet.
IsWhole(size, packet) == size <= PayloadSize(packet)

\* A client has a unit when the last of it came (GetWhole, GetNext of RtpReceiver).
ClientGets(size, packet) ==
  \/ IsWhole(size, packet)
  \/ \E i \in DOMAIN Fragments(size, FragmentSize(packet)) :
       Fragments(size, FragmentSize(packet))[i].end
=============================================================================
