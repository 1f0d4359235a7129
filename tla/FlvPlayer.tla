------------------------------ MODULE FlvPlayer -------------------------------
(***************************************************************************)
(* Playing an FLV recording, also while it is written: a stream of         *)
(* FlvVideoFileStreamSource with its send thread, flvParser, flvIdxReader  *)
(* and the cache of a fileHander that reads.  The recorder is that of      *)
(* module FlvRecorder on a disk that does not fail; the camera sends       *)
(* parameter sets before each IDR.                                         *)
(*                                                                         *)
(* What a write leaves in the buffer of stdio a reader does not see.  The  *)
(* seek before the next write flushes it, and where a write crosses the    *)
(* end of a block the part before that is seen at once.  Who reads a tag   *)
(* that is torn so loses its place, and what its handle holds is not at    *)
(* the place it is taken to be at.  Bytes out of the middle of a tag are   *)
(* assumed not to look like one.                                           *)
(***************************************************************************)
EXTENDS FlvRecorder, SequencesExt

CONSTANTS
  MaxUnits,    \* units that the camera sends
  MaxRequests, \* PLAY, PAUSE and stop
  Ranges       \* start and end of what PLAY asks for; an end of 0 is none

ASSUME FlvPlayerAssumption ==
  MaxUnits \in Nat /\ MaxRequests \in Nat /\ Ranges \subseteq Nat \X Nat

VARIABLES
  rec,      \* the recording
  camera,   \* the type of the camera's last unit, their number, the time
  half,     \* the last tag is not flushed as a whole
  indexed,  \* m_IdxExist
  thread,   \* m_sendThread: "none", "run", "done" (not joined), "gone"
  todo,     \* what an executor does with the stream
  requests, \* requests so far
  range,    \* m_startTime and m_endTime
  ended,    \* m_sendEnd
  pos,      \* the parser's place in the file
  cached,   \* the end of what its handle holds
  sets,     \* m_sps and m_pps are there
  sps,      \* m_sps came out of a torn record
  lost,     \* since a torn tag: "no", "rewound" to the beginning, or "stale",
            \* with bytes of another place in m_cacheData
  first,    \* the first and the latest unit sent since PLAY, or 0
  latest,
  grew,     \* the recorder wrote after the first request
  died      \* an IDR was to be sent without parameter sets
writer == <<rec, camera, half>>
reader == <<pos, cached, sets, sps, lost>>
output == <<first, latest>>
flv    == <<writer, indexed, thread, todo, requests, range, ended, reader, output,
            grew, died>>

FlvInit ==
  /\ rec = NewFlv(TRUE)
  /\ camera = [type |-> "slice", count |-> 0, now |-> 0]
  /\ half = FALSE
  /\ indexed \in BOOLEAN
  /\ thread = "none"
  /\ todo = "none"
  /\ requests = 0
  /\ range = <<0, 0>>
  /\ ended = FALSE
  /\ pos = 0
  /\ cached = 0
  /\ sets = FALSE
  /\ sps = FALSE
  /\ lost = "no"
  /\ first = 0
  /\ latest = 0
  /\ grew = FALSE
  /\ died = FALSE

-----------------------------------------------------------------------------
(* The recorder.                                                           *)

Out == [header |-> 4, tag |-> 2, time |-> 1, offset |-> 1, duration |-> 1, size |-> 1]

\* What the camera may send next, and whether its time is a new one.
Follows(t) == CASE camera.type = "sps" -> t = "pps"
                [] camera.type = "pps" -> t = "idr"
                [] OTHER -> t = "sps" \/ (t = "slice" /\ camera.count > 0)

\* While a tag is written a reader may see half of it.
WriteUnit ==
  /\ ~died /\ rec.saving /\ camera.count < MaxUnits /\ ~half
  /\ \E t \in {"sps", "pps", "idr", "slice"} :
       LET now == camera.now + (IF t \in {"sps", "slice"} THEN 1 ELSE 0)
       IN /\ Follows(t)
          /\ camera' = [type |-> t, count |-> camera.count + 1, now |-> now]
          /\ rec' = AddTimedPacket(rec, [n |-> camera.count + 1, type |-> t,
                                         good |-> TRUE, ts |-> now], Out)
  /\ half' = (rec'.tail # rec.tail)
  /\ UNCHANGED <<indexed, thread, todo, requests, range, ended, reader, output,
                 grew, died>>

Flushed ==
  /\ half
  /\ half' = FALSE
  /\ grew' = (grew \/ requests > 0)
  /\ UNCHANGED <<rec, camera, indexed, thread, todo, requests, range, ended,
                 reader, output, died>>

EndRecording ==
  /\ ~died /\ rec.saving /\ ~half
  /\ rec' = CloseFlv(rec, Out, -1)
  /\ UNCHANGED <<camera, half, indexed, thread, todo, requests, range, ended,
                 reader, output, grew, died>>

\* The end of what is seen of the file: a header alone is still in the buffer.
Seen == IF rec.tail = 0 THEN (IF rec.saving THEN 0 ELSE Len(rec.file.data))
        ELSE IF half THEN rec.tail - 2 ELSE rec.tail

\* The entries of the index that are seen: the offset of the last is not.
Entries ==
  LET n == (Len(rec.idx.data) \div 2) - (IF rec.saving THEN 1 ELSE 0)
  IN [k \in 1..Larger(n, 0) |-> [time |-> rec.idx.data[2 * k - 1].time,
                                 offset |-> rec.idx.data[2 * k].unit]]

-----------------------------------------------------------------------------
(* flvParser and the handle that reads.                                    *)

None == Cell("none", 0, 0)

\* What comes out of the parser: a frame or none, and where the handle is then.
Read(frame, place, end, l) ==
  [frame |-> frame, pos |-> place, cached |-> end, lost |-> l]
Nothing(l) == Read(None, 0, 0, l)

\* The tag behind the size in front of it, behind the header and the script tag if
\* the place is the beginning.
NextTag == (IF pos = 0 THEN Start - 1 ELSE pos) + 2

\* A tag of which only half is seen.  Where the half ends inside a field, what lies
\* behind the cache in memory is taken for the rest, and the place is behind that;
\* the next field is behind the end of the file then, and the cache is stale.  Where
\* it ends between two, the place is the beginning.  The first parameter set of a
\* record may come out in both cases, and the tag if it is torn in its last field.
TornTag ==
  LET tag == rec.file.data[NextTag]
  IN {Read(tag, NextTag, Seen, lost), Nothing("no"), Nothing("stale")} \cup
       {Read(Cell("sps", tag.unit, tag.time), 0, 0, l) :
          l \in IF tag.is = "config" THEN {"rewound", "stale"} ELSE {}}

\* Mutant: behind its end the cache is filled with the end of the file.
GetNextFrameAhead ==
  LET place == IF NextTag <= cached THEN NextTag ELSE Larger(NextTag, Seen)
  IN IF place <= Seen THEN {Read(rec.file.data[place], place, Seen, lost)}
     ELSE {Nothing("no")}

\* getNextFrame: what the cache does not hold is read again.  At the end of the file
\* the place is the beginning, and behind it too, with a cache that is stale: so it
\* is after a torn tag that is not flushed yet.
GetNextFrame ==
  LET holds == IF NextTag <= cached THEN cached ELSE Seen
      torn  == half /\ NextTag = Seen + 1 /\ NextTag <= Len(rec.file.data)
  IN IF lost = "stale" THEN {Nothing("stale"), Nothing("no")}
     ELSE IF NextTag <= holds
     THEN {Read(rec.file.data[NextTag], NextTag, holds, lost)}
     ELSE IF torn THEN TornTag
     ELSE {Nothing(l) : l \in IF pos > Seen THEN {"no", "stale"} ELSE {"no"}}

Reads(read) == pos' = read.pos /\ cached' = read.cached /\ lost' = read.lost

\* seek of a reader: a place behind the file is the beginning.  A stale cache is kept
\* if it is as long as the place is far, and read anew otherwise.
SeekToPos(p) ==
  \/ lost = "stale" /\ UNCHANGED <<pos, cached, lost>>
  \/ IF lost # "stale" /\ p <= cached THEN pos' = p /\ lost' = "no" /\ UNCHANGED cached
     ELSE IF p < Seen THEN pos' = p /\ cached' = Seen /\ lost' = "no"
     ELSE pos' = 0 /\ cached' = 0 /\ lost' \in {"no", "stale"}

-----------------------------------------------------------------------------
(* The send thread.                                                        *)

\* Mutant: m_sendEnd is not looked at.
ThreadEndsNot == UNCHANGED <<thread, reader, output, died>>

ThreadEnds == thread' = "done" /\ UNCHANGED <<reader, output, died>>

\* A frame that is not sent, since there is none, or it is behind the range.
OutOfRange(frame) == range[2] > range[1] /\ frame.time > range[2]

\* The parameter sets of a frame are kept.
TakeSets(frame) == /\ sets' = (sets \/ frame.is = "config")
                   /\ sps' = (sps \/ frame.is = "sps")

\* sendFrame: the parameter sets go out before an IDR, of which m_pps may be empty,
\* and it fails once the client is gone.
SendFrame(frame) ==
  IF frame.is = "idr" /\ ~sets /\ ~sps
  THEN died' = TRUE /\ UNCHANGED <<output, ended>>
  ELSE /\ latest' = frame.unit
       /\ first' = IF first = 0 THEN frame.unit ELSE first
       /\ ended' \in {ended, TRUE}
       /\ UNCHANGED died

SendThread ==
  /\ ~died /\ thread = "run"
  /\ \/ ended /\ ThreadEnds /\ UNCHANGED ended
     \/ ~ended /\ \E read \in GetNextFrame :
          LET frame == read.frame
          IN /\ Reads(read)
             /\ IF frame = None \/ OutOfRange(frame)
                THEN /\ thread' = "done" /\ ended' = (frame = None)
                     /\ UNCHANGED <<sets, sps, output, died>>
                ELSE /\ TakeSets(frame)
                     /\ IF frame.is \in {"config", "sps"}
                        THEN UNCHANGED <<output, ended, died>> ELSE SendFrame(frame)
                     /\ UNCHANGED thread
  /\ UNCHANGED <<writer, indexed, todo, requests, range, grew>>

-----------------------------------------------------------------------------
(* handTask of the stream, under the lock of the list.                     *)

Idle == ~died /\ todo = "none" /\ thread # "gone" /\ requests < MaxRequests

\* startStream: a thread that was not joined is told to end.
Play ==
  /\ Idle
  /\ range' \in Ranges
  /\ ended' = (ended \/ thread # "none")
  /\ todo' = "play"
  /\ requests' = requests + 1
  /\ UNCHANGED <<writer, indexed, thread, reader, output, grew, died>>

\* Once it is joined.  The flag stays set if there was nothing to join.
Joined ==
  /\ ~died /\ todo = "play" /\ thread # "run"
  /\ ended' = (ended /\ thread = "none")
  /\ thread' = "none"
  /\ first' = 0 /\ latest' = 0
  /\ todo' = "sets"
  /\ UNCHANGED <<writer, indexed, requests, range, reader, grew, died>>

\* Mutant: one frame is tried for the parameter sets.
ReadSetsOnce ==
  /\ ~died /\ todo = "sets"
  /\ todo' = "seek"
  /\ IF sets THEN UNCHANGED reader
     ELSE \E read \in GetNextFrame : Reads(read) /\ TakeSets(read.frame)
  /\ UNCHANGED <<writer, indexed, thread, requests, range, ended, output, grew, died>>

\* seekToTime: from its place it reads on to the parameter sets.
ReadSets ==
  /\ ~died /\ todo = "sets"
  /\ IF sets THEN todo' = "seek" /\ UNCHANGED reader
     ELSE \E read \in GetNextFrame :
            /\ Reads(read) /\ TakeSets(read.frame)
            /\ todo' = IF read.frame = None THEN "seek" ELSE "sets"
  /\ UNCHANGED <<writer, indexed, thread, requests, range, ended, output, grew, died>>

\* Mutant: the entry that is found is the first behind the time.
NearestIdxAfter(t) ==
  LET behind == {k \in DOMAIN Entries : Entries[k].time >= t}
      k == CHOOSE i \in behind : \A j \in behind : i <= j
  IN IF behind = {} THEN -1 ELSE Entries[k].offset

\* getNearestIdx: the entry before the first that is not earlier, or -1.
NearestIdx(t) ==
  LET behind == {k \in DOMAIN Entries : Entries[k].time >= t}
      k == CHOOSE i \in behind : \A j \in behind : i <= j
  IN IF behind = {} THEN -1 ELSE Entries[Larger(k - 1, 1)].offset

Begin == thread' = "run" /\ todo' = "none"

\* By the index; if that fails the thread that is begun ends at once.  Without an
\* index the file is read from its beginning.
SeekToTime ==
  /\ ~died /\ todo = "seek"
  /\ IF indexed
     THEN /\ Begin
          /\ LET offset == NearestIdx(range[1])
             IN IF offset = -1 THEN ended' = TRUE /\ UNCHANGED <<pos, cached, lost>>
                ELSE SeekToPos(offset) /\ UNCHANGED ended
     ELSE SeekToPos(0) /\ todo' = "scan" /\ UNCHANGED <<thread, ended>>
  /\ UNCHANGED <<writer, indexed, requests, range, sets, sps, output, grew, died>>

\* The frame at the time that is asked for is read and not sent.
Scan ==
  /\ ~died /\ todo = "scan"
  /\ \E read \in GetNextFrame :
       /\ Reads(read)
       /\ IF read.frame = None \/ read.frame.time >= range[1]
          THEN Begin
          ELSE UNCHANGED <<thread, todo>>
  /\ UNCHANGED <<writer, indexed, requests, range, ended, sets, sps, output, grew, died>>

\* PAUSE, and a stop, after which the stream is deleted.
Pause(what) ==
  /\ Idle
  /\ ended' = TRUE
  /\ todo' = what
  /\ requests' = requests + 1
  /\ UNCHANGED <<writer, indexed, thread, range, reader, output, grew, died>>

PauseJoins ==
  /\ ~died /\ todo \in {"pause", "stop"} /\ thread # "run"
  /\ thread' = IF todo = "stop" THEN "gone" ELSE "none"
  /\ ended' = (todo = "stop")
  /\ todo' = "none"
  /\ UNCHANGED <<writer, indexed, requests, range, reader, output, grew, died>>

Executor == Joined \/ ReadSets \/ SeekToTime \/ Scan \/ PauseJoins

-----------------------------------------------------------------------------
(* Properties.                                                             *)

Pictures == {c \in ToSet(rec.file.data) : c.is \in {"idr", "slice"}}

\* From its first picture on a stream sends what is in the file, in order and
\* nothing left out, across what the cache does not hold and the recorder adds; a
\* picture that is torn as it is read goes out in its turn, but not whole.  Only a
\* stream that a torn configuration record threw back to the beginning is not in
\* order, until it is sought again.
FlvPlaysInOrder ==
  [][latest # 0 /\ latest' \notin {0, latest} /\ lost # "rewound" =>
       /\ latest' > latest
       /\ ~\E c \in Pictures : latest < c.unit /\ c.unit < latest']_flv

\* With an index it begins with an IDR, the last before the time that PLAY asked
\* for, or the first there is.
StartsAtKey ==
  indexed /\ first # 0 /\ todo # "play" =>
    \E c \in Pictures :
      /\ c.unit = first /\ c.is = "idr"
      /\ c.time < range[1] \/ ~\E d \in Pictures : d.is = "idr" /\ d.unit < first
      /\ ~\E d \in Pictures : d.is = "idr" /\ d.unit > first /\ d.time < range[1]

\* An IDR kills the process for want of parameter sets only if the file has none,
\* or had none when a stream of it was first played and grew since then.
DiesOnlyBare ==
  died /\ ~grew =>
    ~\E c \in ToSet(SubSeq(rec.file.data, 1, Seen)) : c.is = "config"

\* PLAY and PAUSE, which join the send thread with the list locked, end, and the end
\* of a file that does not grow ends its stream.
FlvPlayingEnds ==
  /\ todo # "none" ~> (todo = "none" \/ died)
  /\ (thread = "run" /\ ~rec.saving) ~> (thread # "run" \/ died)
=============================================================================
