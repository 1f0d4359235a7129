----------------------------- MODULE RtpReceiver ------------------------------
(***************************************************************************)
(* The media path into a pull job: the camera's RTP packets, the assembly  *)
(* of H.264 NAL units from them (addRtpDataToProcesser, parseH264Payload), *)
(* and the delivery to the sinkers that are linked at that time.           *)
(*                                                                         *)
(* One packet is handled under m_processerMutex, delivery under            *)
(* m_sinkerMutex, so a packet is one step.  A NAL unit is its number; what *)
(* the assembly holds of one is a sequence of pieces <<unit, fragment>>.  SPS and *)
(* PPS are treated alike throughout: a unit of type "sets" stands for the  *)
(* pair.  The cached key frame is left out: it is given by addDataPacket,  *)
(* which every sinker ignores but for parameter sets.                      *)
(***************************************************************************)
EXTENDS Naturals, Sequences, FiniteSets, SequencesExt

CONSTANTS
  Sinkers,  \* live sinkers
  MaxUnits, \* NAL units that the camera sends
  MaxParts, \* fragments of a unit
  Types,    \* of NAL units: parameter sets, IDR slices, other slices, and what
            \* generate_sendable_frame does not send
  Modes,    \* pairs of whether the media come over TCP, and interleaved
  Bundles,  \* what the camera puts into one aggregation packet
  None

ASSUME RtpReceiverAssumption ==
  /\ MaxUnits \in Nat /\ MaxParts \in Nat /\ MaxParts >= 2
  /\ Types \subseteq {"sets", "idr", "slice", "other"}
  /\ Modes \subseteq BOOLEAN \X BOOLEAN
  /\ Bundles \subseteq Types \X Types
  /\ None \notin Nat /\ None \notin Types


VARIABLES
  tcp,       \* the packets come interleaved on the RTSP socket
  mtap,      \* the camera uses the interleaved packetization mode
  unit,      \* number of the last unit
  type,      \* the type of a fragmented unit
  parts,     \* its number of fragments
  todo,      \* those that are still to come
  lost,      \* the packet before this was lost
  burst,     \* two packets in a row were lost at some time
  sdp,       \* "none" before DESCRIBE, then whether it had parameter sets
  rtpData,   \* m_rtpDataForProcesser
  offsets,   \* entries of m_rtpDataForProcesserTimeOffset
  linked,    \* m_sinkerList
  params,    \* m_sps and m_pps of a sinker: 0 are those of the SDP
  cache,     \* m_dataPacketCache of a sinker
  broken     \* what the process died of: "no", an "offset" without a unit, an
             \* IDR without "sets", a "thread" that was not joined

camera   == <<tcp, mtap, unit, type, parts, todo, lost, burst, sdp>>
assembly == <<rtpData, offsets>>
feed     == <<linked, params, cache>>

\* The element in which unit u begins, and one that is complete.
Part(u, t, n) == [unit |-> u, type |-> t, of |-> n, got |-> <<<<u, 1>>>>]
Fresh(b)      == [i \in DOMAIN b |-> Part(unit + i, b[i], 1)]

ReceiverInit ==
  /\ \E m \in Modes : tcp = m[1] /\ mtap = m[2]
  /\ unit = 0
  /\ type = None
  /\ parts = 0
  /\ todo = 0
  /\ lost = FALSE
  /\ burst = FALSE
  /\ sdp = "none"
  /\ rtpData = <<>>
  /\ offsets = 0
  /\ linked = {}
  /\ params = [s \in Sinkers |-> None]
  /\ cache = [s \in Sinkers |-> <<>>]
  /\ broken = "no"

Alive == broken = "no"

-----------------------------------------------------------------------------
\* The units of the types K, in turn.
OfTypes(K, data) ==
  LET f[i \in 0..Len(data)] ==
        IF i = 0 THEN <<>>
        ELSE IF data[i].type \in K THEN Append(f[i - 1], data[i])
        ELSE f[i - 1]
  IN f[Len(data)]

\* addTimedDataPacket of each linked live sinker, for each of the units in turn:
\* parameter sets replace those it has, all else is queued.
TakeAll(data) ==
  LET sets == OfTypes({"sets"}, data)
  IN /\ cache' = [s \in Sinkers |-> IF s \notin linked THEN cache[s]
                    ELSE cache[s] \o OfTypes(Types \ {"sets"}, data)]
     /\ params' = [s \in Sinkers |-> IF s \notin linked \/ sets = <<>> THEN params[s]
                    ELSE Last(sets).unit]

\* A frame is complete.  With offsets there is one round per offset, whatever
\* the number of units.
Deliver(data) ==
  IF offsets > Len(data) /\ linked # {}
  THEN broken' = "offset" /\ UNCHANGED <<assembly, params, cache>>
  ELSE /\ TakeAll(IF offsets = 0 THEN data ELSE SubSeq(data, 1, offsets))
       /\ rtpData' = <<>>
       /\ offsets' = 0
       /\ UNCHANGED broken

Keep(data) == rtpData' = data /\ UNCHANGED <<params, cache, broken>>

\* Single NAL unit packets, STAP-A and STAP-B.
GetWhole(data) == Deliver(data)

\* MTAP16 and MTAP24: the units stay until some frame ends.
GetTimed(data) == Keep(data) /\ offsets' = Len(data)

\* Mutant: the first fragment does not drop what was collected before.
GetFirstAppends(element) == Keep(Append(rtpData, element)) /\ UNCHANGED offsets

\* FU-A and FU-B: the first fragment starts anew, others go to the front unit,
\* if there is one.
GetFirst(element) == Keep(<<element>>) /\ UNCHANGED offsets

GetNext(piece, last) ==
  LET data == IF rtpData = <<>> THEN <<>>
              ELSE [rtpData EXCEPT ![1].got = Append(@, piece)]
  IN IF last THEN Deliver(data) ELSE Keep(data) /\ UNCHANGED offsets

-----------------------------------------------------------------------------
(* The camera.  Over UDP a packet may be lost.                             *)

Arrives == lost' = FALSE /\ UNCHANGED burst

Lose ==
  /\ ~tcp
  /\ lost' = TRUE
  /\ burst' = (burst \/ lost)
  /\ UNCHANGED <<assembly, params, cache, broken>>

\* A packet with whole units.
Bundle(b) ==
  /\ sdp # "none" /\ Alive
  /\ todo = 0
  /\ unit + Len(b) <= MaxUnits
  /\ unit' = unit + Len(b)
  /\ UNCHANGED <<tcp, mtap, type, parts, todo, sdp, linked>>

SendWhole(b) == Bundle(b) /\ (Lose \/ (Arrives /\ GetWhole(Fresh(b))))

SendTimed(b) == mtap /\ Bundle(b) /\ (Lose \/ (Arrives /\ GetTimed(Fresh(b))))

SendFirst(t, n) ==
  /\ sdp # "none" /\ Alive
  /\ todo = 0 /\ unit < MaxUnits
  /\ unit' = unit + 1
  /\ type' = t
  /\ parts' = n
  /\ todo' = n - 1
  /\ Lose \/ (Arrives /\ GetFirst(Part(unit + 1, t, n)))
  /\ UNCHANGED <<tcp, mtap, sdp, linked>>

SendNext ==
  /\ todo > 0 /\ Alive
  /\ todo' = todo - 1
  /\ Lose \/ (Arrives /\ GetNext(<<unit, parts - todo + 1>>, todo = 1))
  /\ IF todo = 1
     THEN type' = None /\ parts' = 0
     ELSE UNCHANGED <<type, parts>>
  /\ UNCHANGED <<tcp, mtap, unit, sdp, linked>>

Describe ==
  /\ sdp = "none" /\ Alive
  /\ sdp' \in {"bare", "sets"}
  /\ UNCHANGED <<tcp, mtap, unit, type, parts, todo, lost, burst, assembly, feed,
                 broken>>

-----------------------------------------------------------------------------
(* handTask of the job, under m_sinkerMutex: a sinker comes and goes.      *)

Link(s) ==
  /\ s \notin linked /\ Alive
  /\ linked' = linked \cup {s}
  /\ IF sdp = "sets"
     THEN params' = [params EXCEPT ![s] = 0]
     ELSE UNCHANGED params
  /\ UNCHANGED <<camera, assembly, cache, broken>>

Unlink(s) ==
  /\ s \in linked /\ Alive
  /\ linked' = linked \ {s}
  /\ UNCHANGED <<camera, assembly, params, cache, broken>>

Receive ==
  \/ \E t \in Types : SendWhole(<<t>>)
  \/ \E b \in Bundles : SendWhole(b) \/ SendTimed(b)
  \/ \E t \in Types, n \in 2..MaxParts : SendFirst(t, n)
  \/ SendNext
  \/ Describe
=============================================================================
