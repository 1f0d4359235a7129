------------------------------ MODULE Recording -------------------------------
(***************************************************************************)
(* Recordings of a job's stream in FLV (module FlvRecorder) and in MP4     *)
(* (module Mp4Recorder).  The job's thread hands each unit to the sinkers  *)
(* it has at that time, with the lists locked; an executor makes a sinker  *)
(* and links it, and deletes it when it is stopped or the job has ended.   *)
(* The clock is that of the RTP time stamps, in milliseconds; it does not  *)
(* wrap here.                                                              *)
(***************************************************************************)
EXTENDS FlvRecorder, Mp4Recorder

CONSTANTS
  MaxUnits, \* units that the camera sends
  Steps,    \* milliseconds from one to the next
  MaxFails, \* units during which the disk fails
  None

ASSUME RecordingAssumption ==
  MaxUnits \in Nat /\ Steps \subseteq Nat /\ MaxFails \in Nat

VARIABLES
  unit,  \* number of the last unit
  now,   \* its time
  fails, \* failures of the disk
  flv,   \* the recording in FLV, and in MP4, or None
  mp4,
  told   \* notifications of the client: recordings begun, and done
vars == <<unit, now, fails, flv, mp4, told>>

\* Cells that get out when nothing fails, and fates of the writes of a step: the disk fails
\* a recorder that is alone, one does not touch the file of the other.
Well == [header |-> 4, tag |-> 2, time |-> 1, offset |-> 1, duration |-> 1, size |-> 1]
Nought == [w \in DOMAIN Well |-> 0]

Fates == IF fails = MaxFails \/ (flv # None /\ mp4 # None) THEN {Well}
         ELSE {Well, Nought} \cup {[Well EXCEPT ![w] = 0] : w \in DOMAIN Well}
                \cup {[Well EXCEPT ![w] = 1] : w \in {"header", "tag"}}

\* Types of units, and whether an SPS can be parsed.
Kinds == ({"sps", "pps", "idr", "slice"} \X {TRUE}) \cup {<<"sps", FALSE>>}

Init ==
  /\ unit = 0
  /\ now = 0
  /\ fails = 0
  /\ flv = None
  /\ mp4 = None
  /\ told = <<0, 0>>

Saving(w) == w # None /\ w.saving

\* createTask links the recording in FLV first, and waits for the list's lock before it
\* makes the one in MP4, while the stream's thread runs.  A recorder knows nothing of
\* the units before it, so the first is one that some recorder gets.  Of MP4 only the
\* end is told.
RecordFlv ==
  /\ flv = None /\ mp4 = None
  /\ \E opens \in BOOLEAN : flv' = NewFlv(opens)
  /\ told' = [told EXCEPT ![1] = @ + 1]
  /\ UNCHANGED <<unit, now, fails, mp4>>

RecordMp4 ==
  /\ mp4 = None
  /\ \E opens \in BOOLEAN : mp4' = NewMp4(opens)
  /\ UNCHANGED <<unit, now, fails, flv, told>>

\* The time stamp that a recorder changes is its own.
NextUnit ==
  /\ unit < MaxUnits /\ (Saving(flv) \/ Saving(mp4))
  /\ \E kind \in Kinds, step \in Steps, out \in Fates :
       LET u == [n |-> unit + 1, type |-> kind[1], ts |-> now + step, good |-> kind[2]]
       IN /\ unit' = u.n /\ now' = u.ts
          /\ fails' = IF out = Well THEN fails ELSE fails + 1
          /\ flv' = IF Saving(flv) THEN AddTimedPacket(flv, u, out) ELSE flv
          /\ mp4' = IF Saving(mp4) THEN AddToMp4(mp4, u, out) ELSE mp4
  /\ UNCHANGED told

StopFlv ==
  /\ Saving(flv)
  /\ \E out \in {Well, Nought}, place \in {-1, 0, 1} : flv' = CloseFlv(flv, out, place)
  /\ told' = [told EXCEPT ![2] = @ + 1]
  /\ UNCHANGED <<unit, now, fails, mp4>>

StopMp4 ==
  /\ Saving(mp4)
  /\ mp4' = CloseMp4(mp4)
  /\ told' = [told EXCEPT ![2] = @ + 1]
  /\ UNCHANGED <<unit, now, fails, flv>>

Next == RecordFlv \/ RecordMp4 \/ NextUnit \/ StopFlv \/ StopMp4

Spec == Init /\ [][Next]_vars

-----------------------------------------------------------------------------
(* Properties.                                                             *)

\* An FLV file whose header got out can be read from tag to tag and in order,
\* whatever else fails and while the duration is updated in it.  Seeking in it by
\* an index of which no half was lost shows no later picture.
FlvIsReadable ==
  flv # None /\ flv.headed =>
    /\ Tiles(flv) /\ Ascends(flv)
    /\ ~flv.torn => Leads(flv)

\* A player finds each sample of an MP4 file by the tables at its end, also
\* behind what a failed write left and when units share a sample.
Mp4Found == mp4 # None /\ mp4.file.opens /\ ~mp4.saving /\ ~mp4.torn => Found(mp4)

\* The pictures in a file in FLV, at the times of their tags from the sets' time on.
FlvPictures ==
  {[unit |-> c.unit, ts |-> c.time + flv.first] :
     c \in {d \in ToSet(flv.file.data) : d.is \in {"idr", "slice"}}}

\* Those in a file in MP4, at the times that its tables give their samples, and how
\* many units are in front of each in its sample.
Mp4Pictures ==
  LET At(k, i) == i - mp4.frames[k].offset
      found == {p \in (DOMAIN mp4.frames) \X (DOMAIN mp4.file.data) :
                  /\ At(p[1], p[2]) \in 1..mp4.frames[p[1]].size
                  /\ mp4.file.data[p[2]].is \in {"idr", "slice"}}
  IN {[unit |-> mp4.file.data[p[2]].unit,
       ts |-> mp4.base + mp4.frames[1].time + TimeOf(mp4, p[1]),
       place |-> At(p[1], p[2]) \div 2 - 1] : p \in found}

\* The units of pictures in one file from the first of another on.
UnitsFrom(a, b) == {p.unit : p \in {q \in a : \E r \in b : r.unit <= q.unit}}

\* Two recordings of one stream, of which one begins when it will, hold the same
\* pictures from the later beginning on, and show them at the same times, but that
\* MP4 shows units that come a millisecond apart together.
SameFrames ==
  fails = 0 /\ Saving(flv) /\ Saving(mp4) /\ flv.file.opens /\ mp4.file.opens =>
    /\ UnitsFrom(FlvPictures, Mp4Pictures) = UnitsFrom(Mp4Pictures, FlvPictures)
    /\ \A p \in FlvPictures, q \in Mp4Pictures :
         p.unit = q.unit => p.ts = q.ts + q.place
=============================================================================
