----------------------------- MODULE Mp4Recorder ------------------------------
(***************************************************************************)
(* A recording in MP4: MP4FileSinker with its mp4FileStream.  As in module *)
(* FlvRecorder a recording is a record.  The media data are one cell for   *)
(* the four bytes of a unit's size and one for the unit.                   *)
(***************************************************************************)
EXTENDS FileHander, SequencesExt

\* Boxes in front of the media data: ftyp, free and the head of mdat.
Boxes == <<Cell("box", 0, 0)>>

NewMp4(opens) ==
  [saving |-> TRUE,
   file |-> WriteFile(Create(opens), Boxes, 1),
   base |-> -1,     \* m_firstPktTime of the sinker
   getIdr |-> FALSE,
   frames |-> <<>>, \* _videoFrames
   last |-> -1,     \* _lastVideoTimestamp
   chunks |-> <<>>, toChunk |-> <<>>, times |-> <<>>,
   cur |-> 0, connected |-> 0, num |-> 0,
   torn |-> FALSE]  \* a sample has a unit without its size, or a size without unit

\* The entries of a run-length table with one more value.
Counted(table, v) ==
  IF table = <<>> \/ Last(table).val # v
  THEN Append(table, [count |-> 1, val |-> v])
  ELSE [table EXCEPT ![Len(table)].count = @ + 1]

\* EndChunkInfo: the chunk at cur ends.
EndChunkInfo(m) ==
  LET chunks == Append(m.chunks, m.cur)
  IN [m EXCEPT !.chunks = chunks,
               !.toChunk = IF @ = <<>> \/ Last(@).samples # m.num
                           THEN Append(@, [chunk |-> Len(chunks), samples |-> m.num])
                           ELSE @]

\* Mutant: a chunk that ends leaves its samples to the next.
GetChunkInfoKeeps(m, frame) ==
  LET ends == m.frames # <<>> /\ frame.offset # m.connected
      v == IF ends THEN EndChunkInfo(m) ELSE m
  IN [v EXCEPT !.cur = IF ends \/ m.frames = <<>> THEN frame.offset ELSE @,
               !.num = @ + 1,
               !.connected = frame.offset + frame.size]

\* getChunkInfo: what does not follow the frame before it begins a chunk.
GetChunkInfo(m, frame) ==
  LET ends == m.frames # <<>> /\ frame.offset # m.connected
      v == IF ends THEN EndChunkInfo(m) ELSE m
  IN [v EXCEPT !.cur = IF ends \/ m.frames = <<>> THEN frame.offset ELSE @,
               !.num = (IF ends THEN 0 ELSE @) + 1,
               !.connected = frame.offset + frame.size]

\* Mutant: the time stamp that was moved on behind the last unit counts.
GetVideoDecodeTimeMoved(m, frame) ==
  [m EXCEPT !.times = IF m.frames = <<>> THEN @
                      ELSE Counted(@, Larger(0, frame.time - m.last))]

GetVideoDecodeTime(m, frame) ==
  [m EXCEPT !.times = IF m.frames = <<>> THEN @
                      ELSE Counted(@, Larger(0, frame.time - Last(m.frames).time))]

\* addPacket, of one unit.  A unit that comes one millisecond after the last is
\* taken for a part of it.
AddPacket(m, u, t, out) ==
  LET size == WriteFile(m.file, <<Cell("length", u.n, t)>>, out.time)
      data == WriteFile(size, <<Cell(u.type, u.n, t)>>, out.tag)
      frame == [offset |-> m.file.pos, size |-> 2, time |-> t]
      v == [m EXCEPT !.file = data, !.torn = @ \/ out.time = 0]
  IN IF data.pos = size.pos
     THEN v
     ELSE IF m.frames = <<>> \/ t # m.last
          THEN [GetVideoDecodeTime(GetChunkInfo(v, frame), frame)
                  EXCEPT !.frames = Append(@, frame), !.last = t + 1]
          ELSE [v EXCEPT !.frames[Len(m.frames)].size = @ + 2, !.last = t + 1,
                         !.torn = @ \/ m.file.pos # Last(m.frames).offset
                                                    + Last(m.frames).size]

\* Parameter sets are kept for the end of the file, not here.
AddToMp4(m, u, out) ==
  LET v == [m EXCEPT !.base = IF @ = -1 THEN u.ts ELSE @,
                     !.getIdr = @ \/ (m.file.opens /\ u.type = "idr")]
  IN IF ~v.getIdr \/ u.type \in {"sps", "pps"} THEN v
     ELSE AddPacket(v, u, u.ts - v.base, out)

\* ShutdownFile: the last frame lasts as long as the one before it, if they are
\* in one chunk.
CloseMp4(m) ==
  LET v == EndChunkInfo(m)
  IN IF ~m.file.opens THEN [m EXCEPT !.saving = FALSE]
     ELSE [v EXCEPT !.saving = FALSE,
                    !.times = IF m.num > 1
                              THEN Counted(@, IF @ = <<>> THEN 0 ELSE Last(@).val)
                              ELSE @]

-----------------------------------------------------------------------------
(* What a player does with the tables.                                     *)

\* The number of samples of chunk c, and of the chunks before it.
SamplesIn(m, c) ==
  LET e == CHOOSE i \in DOMAIN m.toChunk :
             /\ m.toChunk[i].chunk <= c
             /\ \A j \in DOMAIN m.toChunk : m.toChunk[j].chunk <= c => j <= i
  IN m.toChunk[e].samples

SamplesBefore(m, c) ==
  LET before[i \in 1..c] == IF i = 1 THEN 0 ELSE before[i - 1] + SamplesIn(m, i - 1)
  IN before[c]

\* Where it looks for sample k of a chunk.
PlaceOf(m, c, k) ==
  LET first == SamplesBefore(m, c)
      place[i \in 1..k] == IF i = 1 THEN m.chunks[c]
                           ELSE place[i - 1] + m.frames[first + i - 1].size
  IN place[k]

\* How long it shows sample k, and when.
DurationOf(m, k) ==
  LET upto[e \in 0..Len(m.times)] ==
        IF e = 0 THEN 0 ELSE upto[e - 1] + m.times[e].count
  IN m.times[CHOOSE e \in DOMAIN m.times : upto[e - 1] < k /\ k <= upto[e]].val

TimeOf(m, k) ==
  LET time[i \in 1..k] == IF i = 1 THEN 0 ELSE time[i - 1] + DurationOf(m, i - 1)
  IN time[k]

\* The chunks hold each sample once, where its units were written.
Found(m) ==
  LET n == Len(m.chunks)
  IN /\ SamplesBefore(m, n) + SamplesIn(m, n) = Len(m.frames)
     /\ \A c \in 1..n : \A k \in 1..SamplesIn(m, c) :
          LET p == PlaceOf(m, c, k)
              frame == m.frames[SamplesBefore(m, c) + k]
          IN /\ p = frame.offset
             /\ p + frame.size <= Len(m.file.data)
             /\ m.file.data[p + 1].is = "length"
             /\ m.file.data[p + 1].time = frame.time
             /\ \A i \in (p + 1)..(p + frame.size - 1) :
                  m.file.data[i].is = "length"
                    => m.file.data[i + 1].unit = m.file.data[i].unit
=============================================================================
