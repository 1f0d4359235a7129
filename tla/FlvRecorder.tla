----------------------------- MODULE FlvRecorder ------------------------------
(***************************************************************************)
(* A recording in FLV: flvFileSinker with its flvWriter and flvIdxWriter.  *)
(* The recording is a record, what the code does with a unit an operator   *)
(* that gives the next one.  A unit has a number n, a type, the time ts of  *)
(* its packet, and whether its parameter set can be parsed.  "out" says how*)
(* many cells of each write of a step get out before the disk fails.       *)
(*                                                                         *)
(* A tag takes two cells, its last one the size by which a reader finds    *)
(* back, and so does the script tag; the header in front of it has one.    *)
(***************************************************************************)
EXTENDS FileHander

Header  == <<Cell("flv", 0, 0), Cell("duration", 0, 0), Cell("size", 0, 0),
             Cell("back", 0, 0)>>
DurationPos == 1 \* m_durationPos and m_fileSizePos, once the header was made
SizePos     == 2

\* flvWriter and initFile.
NewFlv(opens) ==
  [saving |-> TRUE, file |-> Create(opens), idx |-> Create(opens),
   sps |-> 0, pps |-> 0, good |-> FALSE, first |-> 0, duration |-> 0,
   meta |-> FALSE,   \* m_metaData.size > 0
   keyed |-> FALSE,  \* m_firstKeyframeWrited
   headed |-> FALSE, \* the header got out as a whole
   torn |-> FALSE,   \* one half of an index entry got out and one did not
   tail |-> 0]       \* the position when the last unit was written

Get(w) == w.sps # 0 /\ w.pps # 0

\* generateMetaData: without a size it is as if there were no metadata, ever; a
\* failed write makes no difference.
GenerateMetaData(w, out) ==
  IF ~w.good THEN w
  ELSE LET f == WriteFile(w.file, Header, out.header)
       IN [w EXCEPT !.file = f, !.meta = TRUE, !.headed = f.pos = Len(Header)]

\* The first sets are kept.  Only a PPS behind an SPS makes the metadata.
TakeSet(w, u, out) ==
  CASE u.type = "sps" -> [w EXCEPT !.sps = u.n, !.good = u.good, !.first = u.ts]
    [] u.type = "pps" ->
         LET v == [w EXCEPT !.pps = u.n, !.first = u.ts]
         IN IF w.sps # 0 THEN GenerateMetaData(v, out) ELSE v
    [] OTHER -> w

\* appendIdx, with the offset of the size in front of the tag.
AppendIdx(w, t, out) ==
  LET time   == WriteFile(w.idx, <<Cell("time", 0, t)>>, out.time)
      offset == WriteFile(time, <<Cell("offset", w.file.pos - 1, t)>>, out.offset)
  IN [w EXCEPT !.idx = offset, !.torn = @ \/ (out.time # out.offset)]

\* A tag, with the sets of the recording if it is a configuration record.
Tag(w, u, t) ==
  <<Cell(IF u.type = "pps" THEN "config" ELSE u.type, u.n, t), Cell("back", u.n, t)>>

WritePacket(w, u, t, out) ==
  LET v == IF u.type \in {"sps", "idr"} THEN AppendIdx(w, t, out) ELSE w
  IN IF u.type = "sps" THEN v
     ELSE [v EXCEPT !.file = WriteFile(@, Tag(w, u, t), out.tag)]

\* Mutant: the position is not restored.
UpdateDurationStays(w, out) ==
  [w EXCEPT !.file = WriteFile(Seek(@, IF w.meta THEN DurationPos ELSE 0),
                               <<Cell("duration", 0, w.duration)>>, out.duration)]

UpdateDuration(w, out) ==
  LET f == Seek(w.file, IF w.meta THEN DurationPos ELSE 0)
      g == WriteFile(f, <<Cell("duration", 0, w.duration)>>, out.duration)
  IN [w EXCEPT !.file = Seek(g, w.file.pos)]

\* What comes before the first IDR is dropped.
ProcessPacket(w, u, out) ==
  IF ~w.meta \/ ~(w.keyed \/ u.type = "idr") THEN w
  ELSE LET v == WritePacket([w EXCEPT !.keyed = TRUE], u, u.ts - w.first, out)
           x == UpdateDuration(v, out)
       IN [x EXCEPT !.tail = x.file.pos]

AddTimedPacket(w, u, out) ==
  LET v == [w EXCEPT !.duration = u.ts - w.first]
      x == IF Get(w) THEN v ELSE TakeSet(v, u, out)
  IN IF Get(x) THEN ProcessPacket(x, u, out) ELSE x

\* The destructor: the size is that of position 0, and without metadata its place
\* is any, or none that can be sought.
CloseFlv(w, out, place) ==
  LET f == Seek(w.file, IF w.meta THEN SizePos ELSE place)
      g == WriteFile(f, <<Cell("size", 0, 0)>>, out.size)
      v == IF f.pos < 0 THEN w ELSE [w EXCEPT !.file = g]
  IN [UpdateDuration(v, out) EXCEPT !.saving = FALSE]

-----------------------------------------------------------------------------
(* What a reader relies on.                                                *)

Start == Len(Header)

IsTagAt(w, i) == w.file.data[i].is \in {"config", "idr", "slice"}

\* Cells of tags: the first of each pair is at an odd distance.
Places(w) == {i \in (Start + 1)..w.tail : (i - Start) % 2 = 1}

\* The header stays, and the tags follow it without a gap.
Tiles(w) ==
  /\ \A i \in 1..Start : w.file.data[i].is = Header[i].is
  /\ w.tail <= Len(w.file.data) /\ (w.tail - Start) % 2 = 0
  /\ \A i \in Places(w) :
       /\ IsTagAt(w, i)
       /\ w.file.data[i + 1] = [w.file.data[i] EXCEPT !.is = "back"]

\* They are those of the units after an IDR, in their order.
Ascends(w) ==
  \A i, j \in Places(w) :
    i < j => /\ w.file.data[i].unit < w.file.data[j].unit
             /\ w.file.data[i].time <= w.file.data[j].time

\* An index entry leads behind what is older and before what is younger.
Leads(w) ==
  /\ Len(w.idx.data) % 2 = 0
  /\ \A k \in 1..(Len(w.idx.data) \div 2) :
       LET t == w.idx.data[2 * k - 1].time
           o == w.idx.data[2 * k].unit + 2
       IN /\ (o - Start) % 2 = 1 /\ o \in (Start + 1)..(w.tail + 1)
          /\ \A i \in Places(w) : IF i < o THEN w.file.data[i].time <= t
                                  ELSE w.file.data[i].time >= t
=============================================================================
