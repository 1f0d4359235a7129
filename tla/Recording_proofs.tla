---------------------------- MODULE Recording_proofs ----------------------------
(***************************************************************************)
(* Proofs about the recordings of a job's stream, for any number of units, *)
(* any time stamps and any failures of the disk: a recording in FLV can be *)
(* read and one in MP4 be played whatever else the disk loses, and if it   *)
(* loses nothing both show the same pictures from the later beginning on.  *)
(***************************************************************************)
EXTENDS Recording, SequenceTheorems, WellFoundedInduction, TLAPS

-----------------------------------------------------------------------------
(* Numbers.                                                                *)

LEMMA LeastExists ==
  ASSUME NEW S, S \subseteq Nat, S # {}
  PROVE  \E x \in S : \A y \in S : x <= y
<1> DEFINE R == {p \in Nat \X Nat : p[1] < p[2]}
<1>1. OpToRel(<, Nat) = R
  BY DEF OpToRel
<1>2. IsWellFoundedOn(R, Nat)
  BY <1>1, NatLessThanWellFounded
<1> HIDE DEF R
<1>3. PICK x \in S : \A y \in S : ~(<<y, x>> \in R)
  BY <1>2, WFMin
<1>4. ASSUME NEW y \in S PROVE x <= y
  <2>1. <<y, x>> \notin R
    BY <1>3
  <2> QED
    BY <2>1 DEF R
<1> QED
  BY <1>4

LEMMA NaturalsByStep ==
  ASSUME NEW T, 0 \in T, \A n \in Nat : n \in T => n + 1 \in T
  PROVE  \A n \in Nat : n \in T
<1> DEFINE S == Nat \ T
<1> SUFFICES ASSUME S # {} PROVE FALSE
  OBVIOUS
<1>1. PICK x \in S : \A y \in S : x <= y
  BY LeastExists
<1>2. x # 0 /\ x - 1 \in Nat /\ x - 1 < x /\ (x - 1) + 1 = x
  OBVIOUS
<1> QED
  BY <1>1, <1>2

-----------------------------------------------------------------------------
(* Files on a disk that may fail.                                          *)

LogNames == {"flv", "duration", "size", "back", "time", "offset", "config", "idr", "slice",
             "hole", "box", "length"}
LogCells == [is : LogNames, unit : Int, time : Int]
Logs == [data : Seq(LogCells), pos : Int, opens : BOOLEAN]

\* What a write leaves, of which anything or nothing got out.
Wrote(f, s, g) ==
  /\ g \in Logs /\ g.opens = f.opens
  /\ Len(g.data) >= Len(f.data)
  /\ \A i \in 1..Len(f.data) :
       \/ g.data[i] = f.data[i]
       \/ i - f.pos \in 1..Len(s) /\ g.data[i] = s[i - f.pos]
  /\ \/ g.pos = f.pos
     \/ /\ f.opens /\ g.pos = f.pos + Len(s) /\ g.pos <= Len(g.data)
        /\ \A i \in 1..Len(s) : g.data[f.pos + i] = s[i]

LEMMA CellIsLogged ==
  ASSUME NEW k \in LogNames, NEW n \in Int, NEW t \in Int
  PROVE  /\ Cell(k, n, t) \in LogCells /\ Cell(k, n, t).is = k
         /\ Cell(k, n, t).unit = n /\ Cell(k, n, t).time = t
  BY DEF Cell, LogCells

LEMMA LogIs ==
  ASSUME NEW f \in Logs
  PROVE  /\ f.data \in Seq(LogCells) /\ Len(f.data) \in Nat /\ f.pos \in Int
         /\ f.opens \in BOOLEAN /\ DOMAIN f.data = 1..Len(f.data)
         /\ \A i \in 1..Len(f.data) : f.data[i] \in LogCells
<1>1. f.data \in Seq(LogCells) /\ f.pos \in Int /\ f.opens \in BOOLEAN
  BY DEF Logs
<1>2. Len(f.data) \in Nat /\ DOMAIN f.data = 1..Len(f.data)
  BY <1>1, LenProperties
<1>3. ASSUME NEW i \in 1..Len(f.data) PROVE f.data[i] \in LogCells
  BY <1>1, ElementOfSeq
<1> QED
  BY <1>1, <1>2, <1>3

LEMMA LogSeekIs ==
  ASSUME NEW f \in Logs, NEW p \in Int
  PROVE  /\ Seek(f, p) \in Logs /\ Seek(f, p).pos = p
         /\ Seek(f, p).data = f.data /\ Seek(f, p).opens = f.opens
<1>1. f \in [data : Seq(LogCells), pos : Int, opens : BOOLEAN]
  BY DEF Logs
<1> QED
  BY <1>1 DEF Seek, Logs

\* A write of which out cells get out, none or more.
LEMMA WriteOut ==
  ASSUME NEW f \in Logs, f.pos \in Nat, NEW s \in Seq(LogCells), Len(s) > 0, NEW n \in Nat
  PROVE  LET g == WriteFile(f, s, n)
             out == IF f.opens THEN Smaller(n, Len(s)) ELSE 0
         IN /\ g \in Logs /\ g.opens = f.opens /\ out \in 0..Len(s)
            /\ g.pos = (IF out = Len(s) THEN f.pos + out ELSE f.pos)
            /\ out = 0 => g = f
            /\ out # 0 =>
                 /\ Len(g.data) = Larger(Len(f.data), f.pos + out)
                 /\ \A i \in 1..Len(g.data) :
                      g.data[i] = IF i \in (f.pos + 1)..(f.pos + out) THEN s[i - f.pos]
                                  ELSE IF i <= Len(f.data) THEN f.data[i] ELSE Hole
<1> DEFINE g == WriteFile(f, s, n)
           out == IF f.opens THEN Smaller(n, Len(s)) ELSE 0
           end == f.pos + out
           E(i) == IF i \in (f.pos + 1)..end THEN s[i - f.pos]
                   ELSE IF i <= Len(f.data) THEN f.data[i] ELSE Hole
           N == Larger(Len(f.data), end)
           d == IF out = 0 THEN f.data ELSE [i \in 1..N |-> E(i)]
           p == IF out = Len(s) THEN end ELSE f.pos
<1>1. /\ f.data \in Seq(LogCells) /\ Len(f.data) \in Nat /\ Len(s) \in Nat
      /\ \A i \in 1..Len(f.data) : f.data[i] \in LogCells
      /\ \A i \in 1..Len(s) : s[i] \in LogCells
  BY LogIs, LenProperties, ElementOfSeq
<1>2. out \in 0..Len(s) /\ end \in Nat
  BY <1>1 DEF Smaller
<1>3. g = [f EXCEPT !.data = d, !.pos = p]
  BY Zenon DEF WriteFile
<1> HIDE DEF out
<1>4. N \in Nat
  BY <1>1, <1>2 DEF Larger
<1>5. ASSUME NEW i \in 1..N PROVE E(i) \in LogCells
  <2>1. CASE i \in (f.pos + 1)..end
    <3>1. i - f.pos \in 1..Len(s)
      BY <2>1, <1>1, <1>2
    <3> QED
      BY <2>1, <3>1, <1>1
  <2>2. CASE i \notin (f.pos + 1)..end
    <3>1. i <= Len(f.data) => i \in 1..Len(f.data)
      BY <1>1, <1>4
    <3>2. Hole \in LogCells
      BY DEF Hole, Cell, LogCells, LogNames
    <3> QED
      BY <2>2, <3>1, <3>2, <1>1
  <2> QED
    BY <2>1, <2>2
<1> HIDE DEF E
<1>6. /\ d \in Seq(LogCells)
      /\ out # 0 => Len(d) = N /\ \A i \in 1..N : d[i] = E(i)
  <2>1. CASE out = 0
    BY <2>1, <1>1
  <2>2. CASE out # 0
    <3> DEFINE e == [i \in 1..N |-> E(i)]
    <3>1. e \in [1..N -> LogCells]
      BY <1>5
    <3>2. e \in Seq(LogCells) /\ Len(e) = N /\ \A i \in 1..N : e[i] = E(i)
      BY <3>1, <1>4, IsASeq
    <3>3. d = e
      BY <2>2
    <3> QED
      BY <3>2, <3>3, <2>2
  <2> QED
    BY <2>1, <2>2
<1>7. p \in Int
  BY <1>1, <1>2
<1>8. f \in [data : Seq(LogCells), pos : Int, opens : BOOLEAN]
  BY DEF Logs
<1>9. out = 0 => d = f.data /\ p = f.pos
  BY <1>1
<1>10. p = (IF out = Len(s) THEN f.pos + out ELSE f.pos)
  OBVIOUS
<1> HIDE DEF d, p, N, g
<1>11. /\ g.data = d /\ g.pos = p /\ g.opens = f.opens /\ g \in Logs
       /\ out = 0 => g = f
  <2>1. g.data = d /\ g.pos = p /\ g.opens = f.opens /\ g \in Logs
    BY <1>3, <1>6, <1>7, <1>8 DEF Logs
  <2>2. ASSUME out = 0 PROVE g = f
    BY <1>3, <1>8, <1>9, <2>2
  <2> QED
    BY <2>1, <2>2
<1>12. out # 0 =>
         /\ Len(g.data) = N
         /\ \A i \in 1..Len(g.data) : g.data[i] = E(i)
  BY <1>6, <1>11
<1> QED
  BY <1>2, <1>10, <1>11, <1>12 DEF N, E, g, out

\* And what it leaves if nothing got out, or everything.
Left(f, s, n, g) ==
  /\ Wrote(f, s, g)
  /\ n = 0 \/ ~f.opens => g = f
  /\ n >= Len(s) /\ f.opens =>
       g.pos = f.pos + Len(s) /\ Len(g.data) = Larger(Len(f.data), f.pos + Len(s))

LEMMA WriteLeaves ==
  ASSUME NEW f \in Logs, f.pos \in Nat, NEW s \in Seq(LogCells), Len(s) > 0, NEW n \in Nat
  PROVE  Left(f, s, n, WriteFile(f, s, n))
<1> DEFINE g == WriteFile(f, s, n)
           out == IF f.opens THEN Smaller(n, Len(s)) ELSE 0
<1>1. /\ g \in Logs /\ g.opens = f.opens /\ out \in 0..Len(s)
      /\ g.pos = (IF out = Len(s) THEN f.pos + out ELSE f.pos)
      /\ out = 0 => g = f
      /\ out # 0 =>
           /\ Len(g.data) = Larger(Len(f.data), f.pos + out)
           /\ \A i \in 1..Len(g.data) :
                g.data[i] = IF i \in (f.pos + 1)..(f.pos + out) THEN s[i - f.pos]
                            ELSE IF i <= Len(f.data) THEN f.data[i] ELSE Hole
  BY WriteOut
<1>2. Len(f.data) \in Nat /\ Len(s) \in Nat /\ Len(s) # 0
  BY LogIs, LenProperties
<1>3. out # 0 => f.opens
  OBVIOUS
<1>4. n = 0 \/ ~f.opens => out = 0
  BY <1>2 DEF Smaller
<1>5. n >= Len(s) /\ f.opens => out = Len(s)
  BY <1>2 DEF Smaller
<1> HIDE DEF out, g
<1>6. Wrote(f, s, g)
  <2>1. CASE out = 0
    BY <2>1, <1>1, <1>2 DEF Wrote
  <2>2. CASE out # 0
    <3>1. Len(g.data) >= Len(f.data) /\ Len(g.data) >= f.pos + out /\ Len(g.data) \in Nat
      BY <2>2, <1>1, <1>2 DEF Larger
    <3>2. ASSUME NEW i \in 1..Len(f.data)
          PROVE  \/ g.data[i] = f.data[i]
                 \/ i - f.pos \in 1..Len(s) /\ g.data[i] = s[i - f.pos]
      <4>1. i \in 1..Len(g.data) /\ i <= Len(f.data)
        BY <3>1, <1>2
      <4>2. CASE i \in (f.pos + 1)..(f.pos + out)
        <5>1. i - f.pos \in 1..Len(s)
          BY <4>2, <1>1, <1>2
        <5> QED
          BY <4>1, <4>2, <5>1, <2>2, <1>1
      <4>3. CASE i \notin (f.pos + 1)..(f.pos + out)
        BY <4>1, <4>3, <2>2, <1>1
      <4> QED
        BY <4>2, <4>3
    <3>3. ASSUME out = Len(s), NEW i \in 1..Len(s) PROVE g.data[f.pos + i] = s[i]
      <4>1. /\ f.pos + i \in 1..Len(g.data) /\ f.pos + i \in (f.pos + 1)..(f.pos + out)
            /\ (f.pos + i) - f.pos = i
        BY <3>3, <3>1, <1>2
      <4> QED
        BY <4>1, <2>2, <1>1
    <3> QED
      BY <2>2, <3>1, <3>2, <3>3, <1>1, <1>3 DEF Wrote
  <2> QED
    BY <2>1, <2>2
<1>7. Left(f, s, n, g)
  BY <1>1, <1>2, <1>4, <1>5, <1>6 DEF Left
<1> QED
  BY <1>7 DEF g

-----------------------------------------------------------------------------
(* A recording in FLV on a disk that may fail.                             *)

FlvRecords ==
  [saving : BOOLEAN, file : Logs, idx : Logs, sps : Nat, pps : Nat,
   good : BOOLEAN, first : Int, duration : Int, meta : BOOLEAN, keyed : BOOLEAN,
   headed : BOOLEAN, torn : BOOLEAN, tail : Nat]

OutFits(out) ==
  /\ out.header \in Nat /\ out.tag \in Nat /\ out.duration \in Nat /\ out.size \in Nat
  /\ out.time \in {0, 1} /\ out.offset \in {0, 1}

UnitFits(u) ==
  u \in [n : Nat \ {0}, type : {"sps", "pps", "idr", "slice"}, ts : Nat, good : BOOLEAN]

LEMMA FlvRecordIs ==
  ASSUME NEW w \in FlvRecords
  PROVE  /\ w.saving \in BOOLEAN /\ w.file \in Logs /\ w.idx \in Logs
         /\ w.sps \in Nat /\ w.pps \in Nat /\ w.good \in BOOLEAN /\ w.first \in Int
         /\ w.duration \in Int /\ w.meta \in BOOLEAN /\ w.keyed \in BOOLEAN
         /\ w.headed \in BOOLEAN /\ w.torn \in BOOLEAN /\ w.tail \in Nat
  BY DEF FlvRecords

\* An index that has an entry more, or as many, unless it is torn.
IndexGrows(w, t, x) ==
  LET n == Len(w.idx.data)
  IN ~x.torn =>
       /\ ~w.torn
       /\ w.idx.pos = n =>
            \/ x.idx = w.idx
            \/ /\ x.idx.pos = n + 2 /\ Len(x.idx.data) = n + 2
               /\ \A i \in 1..n : x.idx.data[i] = w.idx.data[i]
               /\ x.idx.data[n + 1].time = t /\ x.idx.data[n + 2].unit = w.file.pos - 1

LEMMA IndexOnly ==
  ASSUME NEW w \in FlvRecords, NEW I \in Logs, NEW b \in BOOLEAN
  PROVE  LET v == [w EXCEPT !.idx = I, !.torn = b]
         IN v \in FlvRecords /\ v.idx = I /\ v.torn = b /\ v.file = w.file
  BY DEF FlvRecords

IdxLeft(w, t, v) ==
  /\ v.idx \in Logs /\ v.torn \in BOOLEAN /\ v.idx.pos \in Nat
  /\ v = [w EXCEPT !.idx = v.idx, !.torn = v.torn]
  /\ IndexGrows(w, t, v)

LEMMA AppendIdxLeaves ==
  ASSUME NEW w \in FlvRecords, w.idx.pos \in Nat, NEW t \in Int, NEW out, OutFits(out)
  PROVE  IdxLeft(w, t, AppendIdx(w, t, out))
<1> DEFINE n == Len(w.idx.data)
           c == Cell("time", 0, t)
           d == Cell("offset", w.file.pos - 1, t)
           f == WriteFile(w.idx, <<c>>, out.time)
           g == WriteFile(f, <<d>>, out.offset)
           b == w.torn \/ (out.time # out.offset)
           v == AppendIdx(w, t, out)
<1>1. /\ w.idx \in Logs /\ w.torn \in BOOLEAN /\ w.file.pos \in Int /\ n \in Nat
      /\ w.idx.opens \in BOOLEAN
  BY FlvRecordIs, LogIs
<1>2. /\ c \in LogCells /\ c.time = t
      /\ d \in LogCells /\ d.unit = w.file.pos - 1
  <2>1. w.file.pos - 1 \in Int
    BY <1>1
  <2> QED
    BY <2>1 DEF Cell, LogCells, LogNames
<1>3. v = [w EXCEPT !.idx = g, !.torn = b]
  BY Zenon DEF AppendIdx
<1> HIDE DEF c, d, v
<1>4. /\ <<c>> \in Seq(LogCells) /\ Len(<<c>>) = 1 /\ <<c>>[1] = c
      /\ <<d>> \in Seq(LogCells) /\ Len(<<d>>) = 1 /\ <<d>>[1] = d
  BY <1>2
<1>5. out.time \in {0, 1} /\ out.offset \in {0, 1} /\ out.time \in Nat /\ out.offset \in Nat
  BY DEF OutFits
<1>6. /\ Wrote(w.idx, <<c>>, f)
      /\ out.time = 0 \/ ~w.idx.opens => f = w.idx
      /\ out.time >= 1 /\ w.idx.opens =>
           f.pos = w.idx.pos + 1 /\ Len(f.data) = Larger(n, w.idx.pos + 1)
  <2>1. Len(<<c>>) > 0
    BY <1>4
  <2>2. Left(w.idx, <<c>>, out.time, f)
    BY <1>1, <1>4, <1>5, <2>1, WriteLeaves
  <2> HIDE DEF f
  <2> QED
    BY <2>2, <1>4 DEF Left
<1>7. f \in Logs /\ f.opens = w.idx.opens /\ f.pos \in Nat /\ Len(f.data) \in Nat
  <2> HIDE DEF f
  <2> QED
    BY <1>4, <1>6, LogIs DEF Wrote
<1>8. /\ Wrote(f, <<d>>, g)
      /\ out.offset = 0 \/ ~f.opens => g = f
      /\ out.offset >= 1 /\ f.opens =>
           g.pos = f.pos + 1 /\ Len(g.data) = Larger(Len(f.data), f.pos + 1)
  <2> HIDE DEF f
  <2>1. Len(<<d>>) > 0
    BY <1>4
  <2>2. Left(f, <<d>>, out.offset, g)
    BY <1>4, <1>5, <1>7, <2>1, WriteLeaves
  <2> HIDE DEF g
  <2> QED
    BY <2>2, <1>4 DEF Left
<1> HIDE DEF f, g
<1>9. g \in Logs /\ g.pos \in Nat
  <2>1. g \in Logs /\ (g.pos = f.pos \/ g.pos = f.pos + Len(<<d>>))
    BY <1>8 DEF Wrote
  <2> QED
    BY <2>1, <1>4, <1>7
<1>10. v.idx = g /\ v.torn = b /\ v = [w EXCEPT !.idx = v.idx, !.torn = v.torn]
  <2>1. b \in BOOLEAN
    BY <1>1
  <2> HIDE DEF b
  <2> QED
    BY <1>3, <1>9, <2>1 DEF FlvRecords
<1>11. ASSUME ~b, w.idx.pos = n
       PROVE  \/ g = w.idx
              \/ /\ g.pos = n + 2 /\ Len(g.data) = n + 2
                 /\ \A i \in 1..n : g.data[i] = w.idx.data[i]
                 /\ g.data[n + 1].time = t /\ g.data[n + 2].unit = w.file.pos - 1
  <2>1. CASE out.time = 0 \/ ~w.idx.opens
    BY <1>6, <1>7, <1>8, <1>11, <2>1
  <2>2. CASE out.time = 1 /\ w.idx.opens
    <3>1. f.pos = n + 1 /\ Len(f.data) = n + 1
      BY <1>1, <1>6, <1>11, <2>2 DEF Larger
    <3>2. g.pos = n + 2 /\ Len(g.data) = n + 2
      BY <1>1, <1>7, <1>8, <1>11, <2>2, <3>1 DEF Larger
    <3>3. /\ \A i \in 1..n : f.data[i] = w.idx.data[i]
          /\ f.data[n + 1] = c
      BY <1>1, <1>4, <1>6, <1>11, <3>1 DEF Wrote
    <3>4. /\ \A i \in 1..(n + 1) : g.data[i] = f.data[i]
          /\ g.data[n + 2] = d
      BY <1>1, <1>4, <1>8, <3>1, <3>2 DEF Wrote
    <3>5. /\ \A i \in 1..n : g.data[i] = w.idx.data[i]
          /\ g.data[n + 1] = c
      BY <1>1, <3>3, <3>4
    <3> QED
      BY <3>2, <3>4, <3>5, <1>2
  <2> QED
    BY <1>5, <2>1, <2>2
<1> QED
  <2>1. IdxLeft(w, t, v)
    BY <1>1, <1>9, <1>10, <1>11 DEF IndexGrows, IdxLeft
  <2> QED
    BY <2>1 DEF v

\* Only the duration changes, and the place stays.
DurationWritten(w, x) ==
  /\ x.file \in Logs /\ x.file.pos = w.file.pos /\ x.file.opens = w.file.opens
  /\ Len(x.file.data) >= Len(w.file.data)
  /\ Len(w.file.data) >= 2 => Len(x.file.data) = Len(w.file.data)
  /\ \A i \in 1..Len(w.file.data) :
       \/ x.file.data[i] = w.file.data[i]
       \/ i = (IF w.meta THEN 2 ELSE 1) /\ x.file.data[i].is = "duration"

LEMMA UpdateLeaves ==
  ASSUME NEW w \in FlvRecords, NEW out, OutFits(out)
  PROVE  LET x == UpdateDuration(w, out)
         IN x = [w EXCEPT !.file = x.file] /\ DurationWritten(w, x)
<1> DEFINE p == IF w.meta THEN DurationPos ELSE 0
           f == Seek(w.file, p)
           d == Cell("duration", 0, w.duration)
           g == WriteFile(f, <<d>>, out.duration)
           h == Seek(g, w.file.pos)
           x == UpdateDuration(w, out)
<1>1. /\ w.file \in Logs /\ w.file.pos \in Int /\ w.duration \in Int
      /\ Len(w.file.data) \in Nat
  BY FlvRecordIs, LogIs
<1>2. d \in LogCells /\ d.is = "duration"
  BY <1>1 DEF Cell, LogCells, LogNames
<1>3. x = [w EXCEPT !.file = h]
  BY Zenon DEF UpdateDuration
<1> HIDE DEF x, d
<1>4. p \in Nat /\ p + 1 = (IF w.meta THEN 2 ELSE 1)
  BY DEF DurationPos
<1> HIDE DEF p
<1>5. f \in Logs /\ f.pos = p /\ f.data = w.file.data /\ f.opens = w.file.opens
  <2>1. p \in Int
    BY <1>4
  <2> QED
    BY <1>1, <2>1, LogSeekIs
<1>6. <<d>> \in Seq(LogCells) /\ Len(<<d>>) = 1 /\ <<d>>[1] = d
  BY <1>2
<1>7. out.duration \in Nat
  BY DEF OutFits
<1>8. Wrote(f, <<d>>, g) /\ (Len(f.data) >= 2 => Len(g.data) = Len(f.data))
  <2> HIDE DEF f
  <2>1. Len(<<d>>) > 0 /\ f.pos \in Nat
    BY <1>4, <1>5, <1>6
  <2>2. Left(f, <<d>>, out.duration, g)
    BY <1>5, <1>6, <1>7, <2>1, WriteLeaves
  <2> HIDE DEF g
  <2>3. ASSUME Len(f.data) >= 2 PROVE Len(g.data) = Len(f.data)
    <3>1. Len(f.data) \in Nat /\ f.pos + 1 <= 2
      BY <1>4, <1>5, LogIs
    <3>2. CASE out.duration = 0 \/ ~f.opens
      BY <2>2, <3>2 DEF Left
    <3>3. CASE out.duration >= 1 /\ f.opens
      <4>1. Len(g.data) = Larger(Len(f.data), f.pos + 1)
        BY <1>6, <2>2, <3>3 DEF Left
      <4> QED
        BY <2>1, <2>3, <3>1, <4>1 DEF Larger
    <3> QED
      BY <1>5, <1>7, <3>2, <3>3, LogIs
  <2> QED
    BY <2>2, <2>3 DEF Left
<1> HIDE DEF f, g
<1>9. /\ g \in Logs /\ g.opens = w.file.opens /\ Len(g.data) >= Len(w.file.data)
      /\ Len(w.file.data) >= 2 => Len(g.data) = Len(w.file.data)
      /\ \A i \in 1..Len(w.file.data) :
           \/ g.data[i] = w.file.data[i]
           \/ i - p \in 1..1 /\ g.data[i] = <<d>>[i - p]
  BY <1>5, <1>6, <1>8 DEF Wrote
<1>10. h \in Logs /\ h.pos = w.file.pos /\ h.data = g.data /\ h.opens = g.opens
  BY <1>1, <1>9, LogSeekIs
<1> HIDE DEF h
<1>11. x.file = h /\ x = [w EXCEPT !.file = x.file]
  BY <1>3, <1>10 DEF FlvRecords
<1>12. ASSUME NEW i \in 1..Len(w.file.data)
       PROVE  \/ g.data[i] = w.file.data[i]
              \/ i = (IF w.meta THEN 2 ELSE 1) /\ g.data[i].is = "duration"
  <2>1. CASE i - p \in 1..1 /\ g.data[i] = <<d>>[i - p]
    <3>1. i - p = 1 /\ i = p + 1
      BY <2>1, <1>4
    <3> QED
      BY <2>1, <3>1, <1>2, <1>4, <1>6
  <2> QED
    BY <2>1, <1>9
<1> QED
  BY <1>9, <1>10, <1>11, <1>12 DEF DurationWritten, x

\* A unit that is recorded in a file whose header is there.
Appended(w, u, t, y) ==
  LET p == w.file.pos
  IN /\ y.file \in Logs /\ y.tail \in {p, p + 2} /\ y.file.pos = y.tail
     /\ y.keyed /\ y.meta /\ y.saving
     /\ Len(y.file.data) >= Len(w.file.data) /\ Len(y.file.data) >= y.tail
     /\ \A i \in 1..Len(w.file.data) :
          i <= p => \/ y.file.data[i] = w.file.data[i]
                    \/ i = 2 /\ y.file.data[i].is = "duration"
     /\ y.tail = p + 2 =>
          /\ u.type # "sps" /\ y.file.data[p + 1].is \in {"config", "idr", "slice"}
          /\ y.file.data[p + 1].unit = u.n /\ y.file.data[p + 1].time = t
          /\ y.file.data[p + 2] = [y.file.data[p + 1] EXCEPT !.is = "back"]

LEMMA RecordsFile ==
  ASSUME NEW w \in FlvRecords, NEW F \in Logs, NEW I \in Logs, NEW b \in BOOLEAN,
         NEW k \in BOOLEAN, NEW e \in Nat
  PROVE  LET x == [w EXCEPT !.file = F, !.idx = I, !.torn = b, !.keyed = k, !.tail = e]
         IN /\ x \in FlvRecords /\ x.file = F /\ x.idx = I /\ x.torn = b /\ x.keyed = k
            /\ x.tail = e /\ x.saving = w.saving /\ x.sps = w.sps /\ x.pps = w.pps
            /\ x.good = w.good /\ x.first = w.first /\ x.duration = w.duration
            /\ x.meta = w.meta /\ x.headed = w.headed
  BY DEF FlvRecords

PacketLeft(w, u, y) ==
  /\ y \in FlvRecords /\ y.file.pos \in Nat /\ y.idx.pos \in Nat
  /\ y = [w EXCEPT !.file = y.file, !.idx = y.idx, !.torn = y.torn,
                   !.keyed = TRUE, !.tail = y.file.pos]
  /\ IndexGrows(w, u.ts - w.first, y)
  /\ u.type \notin {"sps", "idr"} => y.idx = w.idx /\ y.torn = w.torn
  /\ w.file.pos >= 4 /\ w.file.pos <= Len(w.file.data) =>
       Appended(w, u, u.ts - w.first, y)

\* Its tag, of which anything or nothing got out.
TagWritten(w, u, out, y) ==
  \E g \in Logs :
    /\ IF u.type = "sps" THEN g = w.file
       ELSE Left(w.file, Tag(w, u, u.ts - w.first), out.tag, g)
    /\ y.file.pos = g.pos /\ y.file.opens = g.opens
    /\ Len(g.data) >= 2 => Len(y.file.data) = Len(g.data)
    /\ \A i \in 1..Len(g.data) :
         y.file.data[i] = g.data[i] \/ (i = 2 /\ y.file.data[i].is = "duration")

LEMMA PacketLeaves ==
  ASSUME NEW w \in FlvRecords, w.saving, w.meta, w.idx.pos \in Nat, w.file.pos \in Nat,
         NEW out, OutFits(out), NEW u, UnitFits(u), w.keyed \/ u.type = "idr"
  PROVE  /\ PacketLeft(w, u, ProcessPacket(w, u, out))
         /\ TagWritten(w, u, out, ProcessPacket(w, u, out))
<1> DEFINE t == u.ts - w.first
           k == [w EXCEPT !.keyed = TRUE]
           a == IF u.type \in {"sps", "idr"} THEN AppendIdx(k, t, out) ELSE k
           s == Tag(k, u, t)
           b == IF u.type = "sps" THEN a
                ELSE [a EXCEPT !.file = WriteFile(@, s, out.tag)]
           x == UpdateDuration(b, out)
           y == [x EXCEPT !.tail = x.file.pos]
           p == w.file.pos
<1>1. ProcessPacket(w, u, out) = y
  <2>1. Tag(a, u, t) = s
    BY DEF Tag
  <2>2. WritePacket(k, u, t, out) = b
    BY <2>1, Zenon DEF WritePacket
  <2>3. ~(~w.meta \/ ~(w.keyed \/ u.type = "idr"))
    OBVIOUS
  <2> HIDE DEF b
  <2> QED
    BY <2>2, <2>3, Zenon DEF ProcessPacket
<1>2. /\ u.n \in Nat /\ u.n # 0 /\ u.type \in {"sps", "pps", "idr", "slice"} /\ u.ts \in Nat
      /\ t \in Int
  <2>1. w.first \in Int
    BY FlvRecordIs
  <2> QED
    BY <2>1 DEF UnitFits
<1>3. /\ k \in FlvRecords /\ k.idx = w.idx /\ k.file = w.file /\ k.torn = w.torn
      /\ k.keyed = TRUE
  BY DEF FlvRecords
<1> DEFINE I == a.idx
           B == a.torn
<1>4. /\ I \in Logs /\ B \in BOOLEAN /\ I.pos \in Nat
      /\ a = [k EXCEPT !.idx = I, !.torn = B]
      /\ IndexGrows(k, t, a)
      /\ u.type \notin {"sps", "idr"} => I = w.idx /\ B = w.torn
  <2> HIDE DEF k, t
  <2>1. CASE u.type \in {"sps", "idr"}
    <3> DEFINE v == AppendIdx(k, t, out)
    <3>1. /\ v.idx \in Logs /\ v.torn \in BOOLEAN /\ v.idx.pos \in Nat
          /\ v = [k EXCEPT !.idx = v.idx, !.torn = v.torn]
          /\ IndexGrows(k, t, v)
      <4>1. k.idx.pos \in Nat
        BY <1>3
      <4>2. IdxLeft(k, t, v)
        BY <1>2, <1>3, <4>1, AppendIdxLeaves
      <4> HIDE DEF v
      <4> QED
        BY <4>2 DEF IdxLeft
    <3>2. a = v
      BY <2>1
    <3> HIDE DEF v, a
    <3> QED
      BY <2>1, <3>1, <3>2
  <2>2. CASE u.type \notin {"sps", "idr"}
    <3>1. a = k
      BY <2>2
    <3> HIDE DEF a
    <3>2. k = [k EXCEPT !.idx = k.idx, !.torn = k.torn]
      BY <1>3 DEF FlvRecords
    <3>3. k.idx \in Logs /\ k.torn \in BOOLEAN
      BY <1>3, FlvRecordIs
    <3> QED
      BY <2>2, <3>1, <3>2, <3>3, <1>3 DEF IndexGrows
  <2> QED
    BY <2>1, <2>2
<1> HIDE DEF a, I, B
<1>5. a \in FlvRecords /\ a.file = w.file /\ a.meta = TRUE
      /\ a = [w EXCEPT !.idx = I, !.torn = B, !.keyed = TRUE]
  BY <1>3, <1>4 DEF FlvRecords
<1> DEFINE g == IF u.type = "sps" THEN w.file ELSE WriteFile(w.file, s, out.tag)
<1>6. ASSUME u.type # "sps"
      PROVE  /\ s \in Seq(LogCells) /\ Len(s) = 2
             /\ s[1].is \in {"config", "idr", "slice"}
             /\ s[1].unit = u.n /\ s[1].time = t
             /\ s[2] = [s[1] EXCEPT !.is = "back"]
  <2> DEFINE c == Cell(IF u.type = "pps" THEN "config" ELSE u.type, u.n, t)
             d == Cell("back", u.n, t)
  <2>1. s = <<c, d>>
    BY DEF Tag
  <2>2. /\ c \in LogCells /\ c.is \in {"config", "idr", "slice"} /\ c.unit = u.n /\ c.time = t
        /\ d \in LogCells /\ d = [c EXCEPT !.is = "back"]
    <3> HIDE DEF t
    <3> QED
      BY <1>2, <1>6 DEF Cell, LogCells, LogNames
  <2> HIDE DEF c, d, s
  <2> QED
    BY <2>1, <2>2
<1>20. s = Tag(w, u, t)
  BY DEF Tag
<1> HIDE DEF s
<1>7. /\ g \in Logs /\ (g = w.file \/ (Wrote(w.file, s, g) /\ u.type # "sps"))
      /\ IF u.type = "sps" THEN g = w.file ELSE Left(w.file, s, out.tag, g)
  <2>1. CASE u.type = "sps"
    BY <2>1, FlvRecordIs
  <2>2. CASE u.type # "sps"
    <3>1. /\ s \in Seq(LogCells) /\ Len(s) > 0 /\ out.tag \in Nat /\ w.file \in Logs
      BY <1>6, <2>2, FlvRecordIs DEF OutFits
    <3>2. Left(w.file, s, out.tag, WriteFile(w.file, s, out.tag))
      BY <3>1, WriteLeaves
    <3>3. g = WriteFile(w.file, s, out.tag)
      BY <2>2
    <3> HIDE DEF g
    <3> QED
      BY <2>2, <3>2, <3>3 DEF Left, Wrote
  <2> QED
    BY <2>1, <2>2
<1> HIDE DEF g
<1>8. g \in Logs
  BY <1>7, FlvRecordIs
<1>9. b \in FlvRecords /\ b = [a EXCEPT !.file = g] /\ b.file = g /\ b.meta = TRUE
  <2>1. b = [a EXCEPT !.file = g]
    <3>1. CASE u.type = "sps"
      <4>1. a = [a EXCEPT !.file = a.file]
        BY <1>5 DEF FlvRecords
      <4> QED
        BY <3>1, <4>1, <1>5 DEF g
    <3>2. CASE u.type # "sps"
      BY <3>2, <1>5 DEF g
    <3> QED
      BY <3>1, <3>2
  <2> HIDE DEF b
  <2> QED
    BY <2>1, <1>5, <1>8 DEF FlvRecords
<1> HIDE DEF b
<1>10. x = [b EXCEPT !.file = x.file] /\ DurationWritten(b, x)
  BY <1>9, UpdateLeaves
<1> HIDE DEF x
<1> DEFINE h == x.file
<1>11. /\ h \in Logs /\ h.pos = g.pos /\ h.pos \in Nat /\ h.opens = g.opens
       /\ Len(h.data) >= Len(g.data)
       /\ Len(g.data) >= 2 => Len(h.data) = Len(g.data)
       /\ \A i \in 1..Len(g.data) :
            h.data[i] = g.data[i] \/ (i = 2 /\ h.data[i].is = "duration")
  <2>1. /\ h \in Logs /\ h.pos = g.pos /\ Len(h.data) >= Len(g.data) /\ h.opens = g.opens
        /\ Len(g.data) >= 2 => Len(h.data) = Len(g.data)
        /\ \A i \in 1..Len(g.data) :
             h.data[i] = g.data[i] \/ (i = 2 /\ h.data[i].is = "duration")
    BY <1>9, <1>10 DEF DurationWritten
  <2>2. g.pos \in Nat
    BY <1>6, <1>7 DEF Wrote
  <2> QED
    BY <2>1, <2>2
<1> HIDE DEF h
<1>12. y = [w EXCEPT !.file = h, !.idx = I, !.torn = B, !.keyed = TRUE, !.tail = h.pos]
  <2>1. x = [b EXCEPT !.file = h]
    BY <1>10 DEF h
  <2> QED
    BY <2>1, <1>5, <1>9, <1>11 DEF h, FlvRecords
<1> DEFINE z == [w EXCEPT !.file = h, !.idx = I, !.torn = B, !.keyed = TRUE, !.tail = h.pos]
<1>13. /\ z \in FlvRecords /\ z.file = h /\ z.idx = I /\ z.torn = B /\ z.keyed = TRUE
       /\ z.tail = h.pos /\ z.saving = TRUE /\ z.meta = TRUE
  <2> HIDE DEF h, I, B
  <2> QED
    BY <1>4, <1>11 DEF FlvRecords
<1>14. IndexGrows(w, t, z)
  BY <1>3, <1>4, <1>13 DEF IndexGrows
<1>15. ASSUME p >= 4, p <= Len(w.file.data) PROVE Appended(w, u, t, z)
  <2> DEFINE d == w.file.data
             N == Len(w.file.data)
  <2>1. N \in Nat /\ p \in Nat /\ Len(g.data) \in Nat /\ Len(h.data) \in Nat
    BY <1>8, <1>11, LogIs, FlvRecordIs
  <2>2. /\ Len(g.data) >= N /\ Len(g.data) >= g.pos /\ g.pos \in {p, p + 2}
        /\ \A i \in 1..N : i <= p => g.data[i] = w.file.data[i]
        /\ g.pos = p + 2 => u.type # "sps" /\ g.data[p + 1] = s[1] /\ g.data[p + 2] = s[2]
    <3>1. CASE g = w.file
      BY <3>1, <2>1, <1>15
    <3>2. CASE Wrote(w.file, s, g) /\ u.type # "sps"
      <4>1. Len(s) = 2
        BY <3>2, <1>6
      <4>2. ASSUME NEW i \in 1..N, i <= p PROVE g.data[i] = w.file.data[i]
        <5>1. \/ g.data[i] = w.file.data[i]
              \/ i - p \in 1..Len(s)
          BY <3>2 DEF Wrote
        <5>2. \A m \in 1..N : m <= p => ~(m - p \in 1..2)
          BY <2>1
        <5>3. ~(i - p \in 1..2)
          BY <4>2, <5>2
        <5> QED
          BY <4>1, <5>1, <5>3
      <4>3. Len(g.data) >= N /\ Len(g.data) >= g.pos /\ g.pos \in {p, p + 2}
        BY <3>2, <4>1, <2>1, <1>15 DEF Wrote
      <4>4. g.pos = p + 2 => \A i \in 1..2 : g.data[p + i] = s[i]
        BY <3>2, <4>1, <2>1 DEF Wrote
      <4> QED
        BY <3>2, <4>2, <4>3, <4>4
    <3> QED
      BY <1>7, <3>1, <3>2
  <2>3. \A i \in 1..N : i <= p => \/ h.data[i] = w.file.data[i]
                                  \/ i = 2 /\ h.data[i].is = "duration"
    <3> SUFFICES ASSUME NEW i \in 1..N, i <= p
                 PROVE  h.data[i] = w.file.data[i] \/ (i = 2 /\ h.data[i].is = "duration")
      OBVIOUS
    <3>1. i \in 1..Len(g.data) /\ g.data[i] = w.file.data[i]
      BY <2>1, <2>2
    <3> QED
      BY <3>1, <1>11
  <2>4. ASSUME g.pos = p + 2
        PROVE  h.data[p + 1] = s[1] /\ h.data[p + 2] = s[2]
    <3>0. Len(g.data) >= p + 2 /\ p >= 4
      BY <2>2, <2>4, <1>15
    <3>1. p + 1 \in 1..Len(g.data) /\ p + 2 \in 1..Len(g.data) /\ p + 1 # 2 /\ p + 2 # 2
      <4> HIDE DEF p
      <4> QED
        BY <2>1, <3>0
    <3> QED
      BY <3>1, <2>2, <2>4, <1>11
  <2>5. /\ h.pos \in {p, p + 2} /\ Len(h.data) >= N /\ Len(h.data) >= h.pos
    BY <1>11, <2>1, <2>2
  <2> HIDE DEF z, t
  <2> QED
    BY <1>6, <1>11, <1>13, <2>2, <2>3, <2>4, <2>5 DEF Appended
<1> HIDE DEF y
<1>16. y = z
  BY <1>12
<1> HIDE DEF z
<1>17. y.file = h /\ y.file.pos = h.pos /\ y.idx = I /\ y.torn = B /\ y \in FlvRecords
  BY <1>13, <1>16
<1>21. TagWritten(w, u, out, y)
  <2>1. /\ IF u.type = "sps" THEN g = w.file
           ELSE Left(w.file, Tag(w, u, u.ts - w.first), out.tag, g)
        /\ y.file.pos = g.pos /\ y.file.opens = g.opens
        /\ Len(g.data) >= 2 => Len(y.file.data) = Len(g.data)
        /\ \A i \in 1..Len(g.data) :
             y.file.data[i] = g.data[i] \/ (i = 2 /\ y.file.data[i].is = "duration")
    BY <1>7, <1>11, <1>17, <1>20 DEF t
  <2> QED
    BY <1>8, <2>1 DEF TagWritten
<1>18. y = [w EXCEPT !.file = y.file, !.idx = y.idx, !.torn = y.torn,
                     !.keyed = TRUE, !.tail = y.file.pos]
  BY <1>12, <1>17
<1>19. IndexGrows(w, t, y) /\ (p >= 4 /\ p <= Len(w.file.data) => Appended(w, u, t, y))
  BY <1>14, <1>15, <1>16
<1> QED
  BY <1>1, <1>4, <1>11, <1>17, <1>18, <1>19, <1>21 DEF PacketLeft

-----------------------------------------------------------------------------
(* The invariant of a recording in FLV.                                    *)

\* What is in a file whose header got out, behind units up to n, at the time ts.
HeadedFits(w, n, ts) ==
  /\ Len(w.file.data) >= 4
  /\ w.saving => w.file.pos = (IF w.keyed THEN w.tail ELSE 4)
  /\ w.keyed => w.tail >= 4
  /\ Tiles(w) /\ Ascends(w)
  /\ \A i \in Places(w) :
       w.file.data[i].unit <= n /\ w.file.data[i].time <= ts - w.first
  /\ ~w.torn =>
       /\ Leads(w)
       /\ \A k \in 1..(Len(w.idx.data) \div 2) : w.idx.data[2 * k - 1].time <= ts - w.first

FlvFits(w, n, ts) ==
  /\ w \in FlvRecords
  /\ w.idx.pos \in Nat /\ (~w.torn => w.idx.pos = Len(w.idx.data))
  /\ w.saving => w.file.pos \in Nat
  /\ w.meta => w.sps # 0 /\ w.pps # 0
  /\ ~w.meta => ~w.keyed /\ ~w.headed /\ (w.saving => w.file.pos = 0)
  /\ ~w.keyed => w.tail = 0 /\ Len(w.idx.data) = 0
  /\ w.headed => HeadedFits(w, n, ts)

LEMMA StartIs == Start = 4
<1>1. \A a, b, c, d : Len(<<a, b, c, d>>) = 4
  OBVIOUS
<1> QED
  BY <1>1 DEF Start, Header

LEMMA FourCells ==
  ASSUME NEW a \in LogCells, NEW b \in LogCells, NEW c \in LogCells, NEW d \in LogCells
  PROVE  /\ <<a, b, c, d>> \in Seq(LogCells) /\ Len(<<a, b, c, d>>) = 4
         /\ <<a, b, c, d>>[1] = a /\ <<a, b, c, d>>[2] = b
         /\ <<a, b, c, d>>[3] = c /\ <<a, b, c, d>>[4] = d
  OBVIOUS

LEMMA HeaderCells ==
  \E a, b, c, d \in LogCells :
    /\ Header \in Seq(LogCells) /\ Len(Header) = 4
    /\ Header[1] = a /\ Header[2] = b /\ Header[3] = c /\ Header[4] = d
    /\ a.is = "flv" /\ b.is = "duration" /\ c.is = "size" /\ d.is = "back"
<1>0. /\ Cell("flv", 0, 0) \in LogCells /\ Cell("duration", 0, 0) \in LogCells
      /\ Cell("size", 0, 0) \in LogCells /\ Cell("back", 0, 0) \in LogCells
      /\ Cell("flv", 0, 0).is = "flv" /\ Cell("duration", 0, 0).is = "duration"
      /\ Cell("size", 0, 0).is = "size" /\ Cell("back", 0, 0).is = "back"
  BY DEF Cell, LogCells, LogNames
<1>1. PICK a \in LogCells : a = Cell("flv", 0, 0) /\ a.is = "flv"
  BY <1>0, Zenon
<1>2. PICK b \in LogCells : b = Cell("duration", 0, 0) /\ b.is = "duration"
  BY <1>0, Zenon
<1>3. PICK c \in LogCells : c = Cell("size", 0, 0) /\ c.is = "size"
  BY <1>0, Zenon
<1>4. PICK d \in LogCells : d = Cell("back", 0, 0) /\ d.is = "back"
  BY <1>0, Zenon
<1>5. Header = <<a, b, c, d>>
  BY <1>1, <1>2, <1>3, <1>4 DEF Header
<1>6. /\ Header \in Seq(LogCells) /\ Len(Header) = 4
      /\ Header[1] = a /\ Header[2] = b /\ Header[3] = c /\ Header[4] = d
  BY <1>5, FourCells
<1> QED
  BY <1>1, <1>2, <1>3, <1>4, <1>6

\* Nothing recorded yet.
LEMMA HeaderFits ==
  ASSUME NEW w \in FlvRecords, NEW n \in Nat, NEW ts \in Nat,
         Len(w.file.data) >= 4, w.file.pos = 4, w.tail = 0, ~w.keyed,
         \A i \in 1..4 : w.file.data[i] = Header[i], Len(w.idx.data) = 0
  PROVE  HeadedFits(w, n, ts)
<1>1. Places(w) = {}
  BY StartIs DEF Places
<1>2. Len(w.idx.data) \div 2 = 0
  BY Z3
<1>3. Tiles(w)
  BY <1>1, StartIs DEF Tiles
<1>4. Ascends(w) /\ Leads(w)
  BY <1>1, <1>2 DEF Ascends, Leads
<1> QED
  BY <1>1, <1>2, <1>3, <1>4 DEF HeadedFits

LEMMA Evens ==
  ASSUME NEW p \in Nat, p % 2 = 0
  PROVE  (p + 2) % 2 = 0 /\ (p - 3) % 2 = 1
  BY Z3

LEMMA Earlier ==
  ASSUME NEW a \in Int, NEW b \in Int, a <= b, NEW c \in Int
  PROVE  a - c \in Int /\ b - c \in Int /\ a - c <= b - c
  OBVIOUS

\* Tags up to a place, of units up to n and times up to m.
OddUpTo(p) == {i \in 5..p : i % 2 = 1}
TagsUpTo(d, p, n, m) ==
  /\ \A i \in OddUpTo(p) :
       /\ d[i].is \in {"config", "idr", "slice"}
       /\ d[i + 1] = [d[i] EXCEPT !.is = "back"]
       /\ d[i].unit \in Int /\ d[i].unit <= n
       /\ d[i].time \in Int /\ d[i].time <= m
  /\ \A i, j \in OddUpTo(p) :
       i < j => d[i].unit < d[j].unit /\ d[i].time <= d[j].time

\* One more, or none.
TagAdded(d, e, p, end, n, m, v, t) ==
  /\ p \in Nat /\ p >= 4 /\ p % 2 = 0 /\ end \in {p, p + 2}
  /\ n \in Int /\ m \in Int /\ TagsUpTo(d, p, n, m)
  /\ v \in Int /\ v > n /\ t \in Int /\ t >= m
  /\ \A i \in 5..p : e[i] = d[i]
  /\ end = p + 2 =>
       /\ e[p + 1].is \in {"config", "idr", "slice"}
       /\ e[p + 1].unit = v /\ e[p + 1].time = t
       /\ e[p + 2] = [e[p + 1] EXCEPT !.is = "back"]
TagsGrown(d, e, p, end, v, t) ==
  /\ TagsUpTo(e, end, v, t)
  /\ \A i \in OddUpTo(p) : i \in OddUpTo(end) /\ e[i] = d[i]
  /\ \A i \in OddUpTo(end) : i \in OddUpTo(p) \/ (i = p + 1 /\ end = p + 2)

LEMMA TagsGrow ==
  ASSUME NEW d, NEW e, NEW p, NEW end, NEW n, NEW m, NEW v, NEW t,
         TagAdded(d, e, p, end, n, m, v, t)
  PROVE  TagsGrown(d, e, p, end, v, t)
<1>0. /\ p \in Nat /\ p >= 4 /\ p % 2 = 0 /\ end \in {p, p + 2}
      /\ n \in Int /\ m \in Int /\ TagsUpTo(d, p, n, m)
      /\ v \in Int /\ v > n /\ t \in Int /\ t >= m
      /\ \A i \in 5..p : e[i] = d[i]
      /\ end = p + 2 =>
           /\ e[p + 1].is \in {"config", "idr", "slice"}
           /\ e[p + 1].unit = v /\ e[p + 1].time = t
           /\ e[p + 2] = [e[p + 1] EXCEPT !.is = "back"]
  BY DEF TagAdded
<1>1. ASSUME NEW i \in OddUpTo(p)
      PROVE  i \in 5..p /\ i + 1 \in 5..p /\ i \in OddUpTo(end)
  BY <1>0 DEF OddUpTo
<1>2. ASSUME NEW i \in OddUpTo(end), i \notin OddUpTo(p)
      PROVE  i = p + 1 /\ end = p + 2 /\ i + 1 = p + 2
  <2>1. i \in 5..end /\ i % 2 = 1 /\ ~(i <= p)
    BY <1>0, <1>2 DEF OddUpTo
  <2> QED
    BY <1>0, <2>1
<1>3. ASSUME NEW i \in OddUpTo(p)
      PROVE  e[i] = d[i] /\ e[i + 1] = d[i + 1]
  BY <1>0, <1>1, <1>3
<1>4. ASSUME NEW i \in OddUpTo(end)
      PROVE  /\ e[i].is \in {"config", "idr", "slice"}
             /\ e[i + 1] = [e[i] EXCEPT !.is = "back"]
             /\ e[i].unit \in Int /\ e[i].unit <= v
             /\ e[i].time \in Int /\ e[i].time <= t
             /\ i \in OddUpTo(p) => e[i].unit <= n
  <2>1. CASE i \in OddUpTo(p)
    <3>1. /\ d[i].is \in {"config", "idr", "slice"}
          /\ d[i + 1] = [d[i] EXCEPT !.is = "back"]
          /\ d[i].unit \in Int /\ d[i].unit <= n
          /\ d[i].time \in Int /\ d[i].time <= m
      BY <1>0, <2>1 DEF TagsUpTo
    <3>2. e[i] = d[i] /\ e[i + 1] = d[i + 1]
      BY <2>1, <1>3
    <3> QED
      BY <1>0, <3>1, <3>2
  <2>2. CASE i \notin OddUpTo(p)
    BY <1>0, <2>2, <1>2
  <2> QED
    BY <2>1, <2>2
<1>5. ASSUME NEW i \in OddUpTo(end), NEW j \in OddUpTo(end), i < j
      PROVE  e[i].unit < e[j].unit /\ e[i].time <= e[j].time
  <2>1. CASE j \in OddUpTo(p)
    <3>1. i \in OddUpTo(p)
      BY <1>0, <2>1, <1>5 DEF OddUpTo
    <3>2. d[i].unit < d[j].unit /\ d[i].time <= d[j].time
      BY <1>0, <2>1, <3>1, <1>5 DEF TagsUpTo
    <3> QED
      BY <2>1, <3>1, <3>2, <1>3
  <2>2. CASE j \notin OddUpTo(p)
    <3>1. j = p + 1 /\ end = p + 2
      BY <1>2, <2>2
    <3>2. i \in OddUpTo(p)
      <4>1. i # p + 1
        BY <3>1, <1>5
      <4> QED
        BY <4>1, <1>2
    <3>3. e[i].unit <= n /\ e[i].time <= t /\ e[i].unit \in Int
      BY <1>0, <3>2, <1>4
    <3> QED
      BY <1>0, <3>1, <3>3
  <2> QED
    BY <2>1, <2>2
<1> QED
  BY <1>1, <1>2, <1>3, <1>4, <1>5 DEF TagsUpTo, TagsGrown

LEMMA PlacesAre ==
  ASSUME NEW w \in FlvRecords PROVE Places(w) = OddUpTo(w.tail)
<1>1. w.tail \in Nat
  BY FlvRecordIs
<1> QED
  BY <1>1, StartIs DEF Places, OddUpTo

\* The properties of a file, of its tags.
LEMMA TilesAre ==
  ASSUME NEW w \in FlvRecords, NEW n \in Int, NEW m \in Int
  PROVE  /\ \A i \in 1..4 : w.file.data[i].is = Header[i].is
         /\ w.tail <= Len(w.file.data) /\ w.tail % 2 = 0
         /\ TagsUpTo(w.file.data, w.tail, n, m)
      <=> /\ Tiles(w) /\ Ascends(w)
          /\ \A i \in Places(w) : w.file.data[i].unit <= n /\ w.file.data[i].time <= m
<1>1. w.tail \in Nat /\ Len(w.file.data) \in Nat
  BY FlvRecordIs, LogIs
<1>2. w.tail % 2 = 0 <=> (w.tail - 4) % 2 = 0
  BY <1>1
<1>3. Places(w) = OddUpTo(w.tail)
  BY PlacesAre
<1>4. ASSUME w.tail <= Len(w.file.data), NEW i \in OddUpTo(w.tail)
      PROVE  w.file.data[i].unit \in Int /\ w.file.data[i].time \in Int
  <2>1. i \in 1..Len(w.file.data)
    BY <1>1, <1>4 DEF OddUpTo
  <2>2. w.file.data[i] \in LogCells
    BY <2>1, FlvRecordIs, LogIs
  <2> QED
    BY <2>2 DEF LogCells
<1>5. ASSUME NEW i PROVE IsTagAt(w, i) <=> w.file.data[i].is \in {"config", "idr", "slice"}
  BY DEF IsTagAt
<1> QED
  BY <1>2, <1>3, <1>4, <1>5, StartIs DEF Tiles, Ascends, TagsUpTo

\* Tags, before and behind a unit.
AppendedRight(w, u, y) ==
  /\ Len(y.file.data) >= 4 /\ Tiles(y) /\ Ascends(y) /\ y.tail >= 4
  /\ \A i \in Places(y) :
       y.file.data[i].unit <= u.n /\ y.file.data[i].time <= u.ts - w.first
  /\ Places(w) = OddUpTo(w.file.pos)
  /\ \A i \in Places(w) : i \in Places(y) /\ y.file.data[i] = w.file.data[i]
  /\ \A i \in Places(y) : \/ i \in Places(w)
                          \/ /\ i = w.file.pos + 1 /\ y.tail = w.file.pos + 2
                             /\ y.file.data[i].time = u.ts - w.first

LEMMA AppendedTiles ==
  ASSUME NEW w \in FlvRecords, NEW n \in Nat, NEW ts \in Nat, HeadedFits(w, n, ts),
         w.saving, w.keyed \/ w.tail = 0, NEW u, UnitFits(u), u.n > n, u.ts >= ts,
         NEW y \in FlvRecords, Appended(w, u, u.ts - w.first, y)
  PROVE  AppendedRight(w, u, y)
<1> DEFINE p == w.file.pos
           d == w.file.data
           e == y.file.data
           t == u.ts - w.first
           m == ts - w.first
<1>1. /\ Len(d) \in Nat /\ Len(e) \in Nat /\ w.tail \in Nat /\ w.first \in Int
      /\ w.keyed \in BOOLEAN /\ y.tail \in Nat /\ u.ts \in Nat /\ u.n \in Nat
  BY FlvRecordIs, LogIs DEF UnitFits
<1>2. /\ p = (IF w.keyed THEN w.tail ELSE 4) /\ Len(d) >= 4 /\ (w.keyed => w.tail >= 4)
      /\ Tiles(w) /\ Ascends(w)
      /\ \A i \in Places(w) : d[i].unit <= n /\ d[i].time <= m
  BY DEF HeadedFits
<1>3. m \in Int /\ t \in Int /\ t >= m /\ n \in Int
  <2>1. m \in Int /\ t \in Int /\ m <= t
    BY <1>1, Earlier
  <2> HIDE DEF m, t
  <2> QED
    BY <2>1
<1> HIDE DEF m
<1>4. /\ \A i \in 1..4 : d[i].is = Header[i].is
      /\ w.tail <= Len(d) /\ w.tail % 2 = 0
      /\ TagsUpTo(d, w.tail, n, m)
  BY <1>2, <1>3, TilesAre
<1>5. p \in Nat /\ p >= 4 /\ p % 2 = 0 /\ p <= Len(d) /\ OddUpTo(p) = OddUpTo(w.tail)
  <2>1. CASE w.keyed
    <3>1. p = w.tail
      BY <2>1, <1>2
    <3> HIDE DEF p, d
    <3> QED
      BY <2>1, <3>1, <1>1, <1>2, <1>4
  <2>2. CASE ~w.keyed
    <3>1. p = 4 /\ w.tail = 0
      BY <2>2, <1>2
    <3>2. OddUpTo(4) = {} /\ OddUpTo(0) = {}
      BY DEF OddUpTo
    <3>3. OddUpTo(p) = {} /\ OddUpTo(w.tail) = {}
      BY <3>1, <3>2
    <3> HIDE DEF p, d
    <3>4. 4 \in Nat /\ 4 % 2 = 0 /\ 4 <= Len(d)
      BY <1>1, <1>2
    <3>5. p \in Nat /\ p >= 4 /\ p % 2 = 0 /\ p <= Len(d)
      BY <3>1, <3>4
    <3>6. OddUpTo(p) = OddUpTo(w.tail)
      BY <3>3
    <3> QED
      BY <3>5, <3>6
  <2> QED
    BY <2>1, <2>2
<1>6. TagsUpTo(d, p, n, m)
  BY <1>4, <1>5 DEF TagsUpTo
<1>7. /\ y.tail \in {p, p + 2} /\ Len(e) >= Len(d) /\ Len(e) >= y.tail
      /\ \A i \in 1..Len(d) : i <= p => \/ e[i] = d[i]
                                        \/ i = 2 /\ e[i].is = "duration"
      /\ y.tail = p + 2 =>
           /\ e[p + 1].is \in {"config", "idr", "slice"}
           /\ e[p + 1].unit = u.n /\ e[p + 1].time = t
           /\ e[p + 2] = [e[p + 1] EXCEPT !.is = "back"]
  BY DEF Appended
<1> HIDE DEF p, d, e, t
<1>8. ASSUME NEW i \in 5..p PROVE e[i] = d[i]
  <2>1. i \in 1..Len(d) /\ i <= p /\ i # 2
    BY <1>1, <1>5
  <2> QED
    BY <1>7, <2>1
<1>9. /\ TagsUpTo(e, y.tail, u.n, t)
      /\ \A i \in OddUpTo(p) : i \in OddUpTo(y.tail) /\ e[i] = d[i]
      /\ \A i \in OddUpTo(y.tail) : i \in OddUpTo(p) \/ (i = p + 1 /\ y.tail = p + 2)
  <2> DEFINE end == y.tail
             v == u.n
  <2>1. end \in {p, p + 2} /\ v \in Int /\ v > n /\ n \in Int /\ m \in Int /\ t \in Int
    BY <1>1, <1>3, <1>7
  <2>2. end = p + 2 =>
          /\ e[p + 1].is \in {"config", "idr", "slice"}
          /\ e[p + 1].unit = v /\ e[p + 1].time = t
          /\ e[p + 2] = [e[p + 1] EXCEPT !.is = "back"]
    BY <1>7
  <2> HIDE DEF end, v
  <2>3. TagAdded(d, e, p, end, n, m, v, t)
    BY <1>3, <1>5, <1>6, <1>8, <2>1, <2>2 DEF TagAdded
  <2>4. TagsGrown(d, e, p, end, v, t)
    BY <2>3, TagsGrow
  <2> QED
    BY <2>4 DEF end, v, TagsGrown
<1>10. ASSUME NEW i \in 1..4 PROVE e[i].is = Header[i].is
  <2>1. i \in 1..Len(d) /\ i <= p
    BY <1>1, <1>5
  <2>2. CASE e[i] = d[i]
    BY <2>2, <1>4
  <2>3. CASE i = 2 /\ e[i].is = "duration"
    <3>1. Header[2].is = "duration"
      BY HeaderCells
    <3> QED
      BY <2>3, <3>1
  <2> QED
    BY <1>7, <2>1, <2>2, <2>3
<1>11. y.tail <= Len(e) /\ y.tail % 2 = 0 /\ y.tail >= 4 /\ Len(e) >= 4
  <2>1. (p + 2) % 2 = 0
    BY <1>5, Evens
  <2> QED
    BY <1>1, <1>2, <1>5, <1>7, <2>1
<1>12. /\ Tiles(y) /\ Ascends(y)
       /\ \A i \in Places(y) : e[i].unit <= u.n /\ e[i].time <= t
  <2>1. u.n \in Int
    BY <1>1
  <2> QED
    BY <1>3, <1>9, <1>10, <1>11, <2>1, TilesAre DEF e
<1>13. Places(w) = OddUpTo(p) /\ Places(y) = OddUpTo(y.tail)
  BY <1>5, PlacesAre
<1>14. \A i \in Places(y) : \/ i \in Places(w)
                            \/ i = p + 1 /\ y.tail = p + 2 /\ e[i].time = t
  BY <1>7, <1>9, <1>13
<1> QED
  BY <1>9, <1>11, <1>12, <1>13, <1>14 DEF p, d, e, t, AppendedRight

\* An index entry, for a time and a place.
EntryLeads(w, t, o) ==
  /\ (o - 4) % 2 = 1 /\ o \in 5..(w.tail + 1)
  /\ \A i \in Places(w) : IF i < o THEN w.file.data[i].time <= t
                          ELSE w.file.data[i].time >= t
EntriesLead(w, m) ==
  LET x == w.idx.data
  IN /\ Len(x) % 2 = 0
     /\ \A k \in 1..(Len(x) \div 2) :
          x[2 * k - 1].time <= m /\ EntryLeads(w, x[2 * k - 1].time, x[2 * k].unit + 2)

LEMMA LeadsAre ==
  ASSUME NEW w, NEW m
  PROVE  EntriesLead(w, m) <=>
           /\ Leads(w)
           /\ \A k \in 1..(Len(w.idx.data) \div 2) : w.idx.data[2 * k - 1].time <= m
<1> DEFINE x == w.idx.data
           h == Len(x) \div 2
           L(k) == LET t == x[2 * k - 1].time
                       o == x[2 * k].unit + 2
                   IN /\ (o - Start) % 2 = 1 /\ o \in (Start + 1)..(w.tail + 1)
                      /\ \A i \in Places(w) : IF i < o THEN w.file.data[i].time <= t
                                              ELSE w.file.data[i].time >= t
<1>1. ASSUME NEW k PROVE L(k) <=> EntryLeads(w, x[2 * k - 1].time, x[2 * k].unit + 2)
  <2>1. Start = 4 /\ Start + 1 = 5
    BY StartIs
  <2> DEFINE t == x[2 * k - 1].time
             o == x[2 * k].unit + 2
  <2>2. L(k) <=> /\ (o - Start) % 2 = 1 /\ o \in (Start + 1)..(w.tail + 1)
                 /\ \A i \in Places(w) : IF i < o THEN w.file.data[i].time <= t
                                         ELSE w.file.data[i].time >= t
    OBVIOUS
  <2> HIDE DEF t, o, L
  <2>3. L(k) <=> EntryLeads(w, t, o)
    BY <2>1, <2>2 DEF EntryLeads
  <2> QED
    BY <2>3 DEF t, o
<1>2. Leads(w) <=> Len(x) % 2 = 0 /\ \A k \in 1..h : L(k)
  BY Zenon DEF Leads
<1> HIDE DEF L
<1>3. EntriesLead(w, m) <=>
        /\ Len(x) % 2 = 0
        /\ \A k \in 1..h :
             x[2 * k - 1].time <= m /\ EntryLeads(w, x[2 * k - 1].time, x[2 * k].unit + 2)
  BY Zenon DEF EntriesLead
<1> HIDE DEF x, h
<1>4. (\A k \in 1..h :
         x[2 * k - 1].time <= m /\ EntryLeads(w, x[2 * k - 1].time, x[2 * k].unit + 2))
      <=> (\A k \in 1..h : L(k)) /\ \A k \in 1..h : x[2 * k - 1].time <= m
  BY <1>1, Zenon
<1>5. EntriesLead(w, m) <=> Leads(w) /\ \A k \in 1..h : x[2 * k - 1].time <= m
  BY <1>2, <1>3, <1>4, Zenon
<1> QED
  BY <1>5 DEF x, h

LEMMA EvenHalves ==
  ASSUME NEW n \in Nat, n % 2 = 0
  PROVE  /\ (n + 2) % 2 = 0
         /\ \A k \in 1..(n \div 2) : 2 * k - 1 \in 1..n /\ 2 * k \in 1..n
         /\ \A k \in 1..((n + 2) \div 2) :
              k \in 1..(n \div 2) \/ (2 * k - 1 = n + 1 /\ 2 * k = n + 2)
  BY Z3

\* The tags behind a unit are those before it and maybe its own.
TagsKept(w, y, p, t) ==
  /\ Places(w) = OddUpTo(p)
  /\ \A i \in Places(w) :
       i \in Places(y) /\ y.file.data[i] = w.file.data[i] /\ w.file.data[i].time \in Int
  /\ \A i \in Places(y) :
       i \in Places(w) \/ (i = p + 1 /\ y.tail = p + 2 /\ y.file.data[i].time = t)

LEMMA EntriesStay ==
  ASSUME NEW w \in FlvRecords, NEW y \in FlvRecords, NEW p \in Nat, p >= 4, p % 2 = 0,
         w.tail \in {0, p}, y.tail \in {p, p + 2}, NEW m \in Int, NEW t \in Int, t >= m,
         TagsKept(w, y, p, t), \A i \in Places(w) : w.file.data[i].time <= m,
         EntriesLead(w, m), IndexGrows(w, t, y), ~y.torn, w.idx.pos = Len(w.idx.data),
         w.file.pos = p
  PROVE  EntriesLead(y, t)
<1> DEFINE x == w.idx.data
           z == y.idx.data
           n == Len(x)
<1>1. /\ x \in Seq(LogCells) /\ n \in Nat /\ \A i \in 1..n : x[i] \in LogCells
      /\ w.tail \in Nat /\ y.tail \in Nat
  BY FlvRecordIs, LogIs
<1>2. /\ n % 2 = 0
      /\ \A k \in 1..(n \div 2) :
           x[2 * k - 1].time <= m /\ EntryLeads(w, x[2 * k - 1].time, x[2 * k].unit + 2)
  BY DEF EntriesLead
<1>3. /\ \A k \in 1..(n \div 2) : 2 * k - 1 \in 1..n /\ 2 * k \in 1..n
      /\ (n + 2) % 2 = 0
      /\ \A k \in 1..((n + 2) \div 2) :
           k \in 1..(n \div 2) \/ (2 * k - 1 = n + 1 /\ 2 * k = n + 2)
  <2> HIDE DEF n
  <2> QED
    BY <1>1, <1>2, EvenHalves
<1> HIDE DEF n
<1>4. \/ y.idx = w.idx
      \/ /\ Len(z) = n + 2 /\ \A i \in 1..n : z[i] = x[i]
         /\ z[n + 1].time = t /\ z[n + 2].unit = p - 1
  BY DEF IndexGrows, n
<1> HIDE DEF x, z
<1>5. ASSUME NEW s \in Int, s <= m, NEW o \in Int, EntryLeads(w, s, o)
      PROVE  EntryLeads(y, s, o)
  <2>1. /\ (o - 4) % 2 = 1 /\ o \in 5..(w.tail + 1)
        /\ \A i \in Places(w) : IF i < o THEN w.file.data[i].time <= s
                                ELSE w.file.data[i].time >= s
    BY <1>5 DEF EntryLeads
  <2>2. w.tail = p /\ o <= p + 1 /\ o \in 5..(y.tail + 1)
    BY <1>1, <2>1
  <2>3. ASSUME NEW i \in Places(y)
        PROVE  IF i < o THEN y.file.data[i].time <= s ELSE y.file.data[i].time >= s
    <3>1. CASE i \in Places(w)
      BY <3>1, <2>1 DEF TagsKept
    <3>2. CASE i \notin Places(w)
      <4>1. i = p + 1 /\ y.file.data[i].time = t
        BY <3>2 DEF TagsKept
      <4>2. ~(i < o) /\ t >= s
        BY <4>1, <2>2, <1>5
      <4> QED
        BY <4>1, <4>2
    <3> QED
      BY <3>1, <3>2
  <2> QED
    BY <2>1, <2>2, <2>3 DEF EntryLeads
<1>6. EntryLeads(y, t, p + 1)
  <2>1. (p + 1 - 4) % 2 = 1
    <3>1. p + 1 - 4 = p - 3
      OBVIOUS
    <3> QED
      BY <3>1, Evens
  <2>11. p + 1 \in 5..(y.tail + 1)
    BY <1>1
  <2>2. ASSUME NEW i \in Places(y)
        PROVE  IF i < p + 1 THEN y.file.data[i].time <= t ELSE y.file.data[i].time >= t
    <3>1. CASE i \in Places(w)
      <4>1. i <= p /\ i \in Nat
        BY <3>1 DEF TagsKept, OddUpTo
      <4>2. y.file.data[i].time <= t
        BY <3>1 DEF TagsKept
      <4> QED
        BY <4>1, <4>2
    <3>2. CASE i \notin Places(w)
      <4>1. i = p + 1 /\ y.file.data[i].time = t
        BY <3>2 DEF TagsKept
      <4> QED
        BY <4>1
    <3> QED
      BY <3>1, <3>2
  <2> QED
    BY <2>1, <2>11, <2>2 DEF EntryLeads
<1>7. ASSUME NEW k \in 1..(n \div 2)
      PROVE  /\ x[2 * k - 1].time <= t
             /\ EntryLeads(y, x[2 * k - 1].time, x[2 * k].unit + 2)
  <2>1. x[2 * k - 1] \in LogCells /\ x[2 * k] \in LogCells
    BY <1>1, <1>3
  <2>2. x[2 * k - 1].time \in Int /\ x[2 * k].unit + 2 \in Int
    BY <2>1 DEF LogCells
  <2>3. x[2 * k - 1].time <= m /\ EntryLeads(w, x[2 * k - 1].time, x[2 * k].unit + 2)
    BY <1>2
  <2>4. EntryLeads(y, x[2 * k - 1].time, x[2 * k].unit + 2)
    BY <2>2, <2>3, <1>5
  <2> QED
    BY <2>2, <2>3, <2>4
<1>8. CASE y.idx = w.idx
  BY <1>2, <1>7, <1>8 DEF EntriesLead, x, z, n
<1>9. CASE /\ Len(z) = n + 2 /\ \A i \in 1..n : z[i] = x[i]
           /\ z[n + 1].time = t /\ z[n + 2].unit = p - 1
  <2>1. ASSUME NEW k \in 1..((n + 2) \div 2)
        PROVE  /\ z[2 * k - 1].time <= t
               /\ EntryLeads(y, z[2 * k - 1].time, z[2 * k].unit + 2)
    <3>1. CASE k \in 1..(n \div 2)
      <4>1. z[2 * k - 1] = x[2 * k - 1] /\ z[2 * k] = x[2 * k]
        BY <3>1, <1>3, <1>9
      <4> QED
        BY <3>1, <4>1, <1>7
    <3>2. CASE k \notin 1..(n \div 2)
      <4>1. 2 * k - 1 = n + 1 /\ 2 * k = n + 2
        BY <3>2, <1>3
      <4>2. z[2 * k - 1].time = t /\ z[2 * k].unit + 2 = p + 1
        BY <4>1, <1>9
      <4> QED
        BY <4>2, <1>6
    <3> QED
      BY <3>1, <3>2
  <2> QED
    BY <1>3, <1>9, <2>1 DEF EntriesLead, z
<1> QED
  BY <1>4, <1>8, <1>9

\* A unit that is recorded.
LEMMA PacketFits ==
  ASSUME NEW w, NEW n \in Nat, NEW ts \in Nat, FlvFits(w, n, ts), w.saving, w.meta,
         NEW out, OutFits(out), NEW u, UnitFits(u), u.n > n, u.ts >= ts,
         w.keyed \/ u.type = "idr"
  PROVE  FlvFits(ProcessPacket(w, u, out), u.n, u.ts)
<1> DEFINE t == u.ts - w.first
           m == ts - w.first
           p == w.file.pos
           y == ProcessPacket(w, u, out)
<1>1. /\ w \in FlvRecords /\ w.idx.pos \in Nat /\ (~w.torn => w.idx.pos = Len(w.idx.data))
      /\ p \in Nat /\ w.sps # 0 /\ w.pps # 0
      /\ ~w.keyed => w.tail = 0 /\ Len(w.idx.data) = 0
      /\ w.headed => HeadedFits(w, n, ts)
  BY DEF FlvFits
<1>2. /\ y \in FlvRecords /\ y.file.pos \in Nat /\ y.idx.pos \in Nat
      /\ y = [w EXCEPT !.file = y.file, !.idx = y.idx, !.torn = y.torn,
                       !.keyed = TRUE, !.tail = y.file.pos]
      /\ IndexGrows(w, t, y)
      /\ p >= 4 /\ p <= Len(w.file.data) => Appended(w, u, t, y)
  <2>1. PacketLeft(w, u, y)
    BY <1>1, PacketLeaves
  <2> HIDE DEF y
  <2> QED
    BY <2>1 DEF PacketLeft
<1> HIDE DEF y
<1>3. /\ y.keyed /\ y.tail = y.file.pos /\ y.meta /\ y.saving /\ y.sps = w.sps
      /\ y.pps = w.pps /\ y.first = w.first /\ y.headed = w.headed
  <2> DEFINE F == y.file
             I == y.idx
             B == y.torn
             e == y.file.pos
             z == [w EXCEPT !.file = F, !.idx = I, !.torn = B, !.keyed = TRUE, !.tail = e]
  <2>1. F \in Logs /\ I \in Logs /\ B \in BOOLEAN /\ e \in Nat
    BY <1>2, FlvRecordIs
  <2>2. y = z
    BY <1>2
  <2> HIDE DEF F, I, B, e
  <2>3. /\ z.keyed = TRUE /\ z.tail = e /\ z.saving = w.saving /\ z.sps = w.sps
        /\ z.pps = w.pps /\ z.first = w.first /\ z.meta = w.meta /\ z.headed = w.headed
    BY <1>1, <2>1 DEF FlvRecords
  <2> HIDE DEF z
  <2> QED
    BY <2>2, <2>3 DEF e
<1>4. w.idx \in Logs /\ Len(w.idx.data) \in Nat /\ w.first \in Int /\ u.ts \in Nat /\ u.n \in Nat
  BY <1>1, FlvRecordIs, LogIs DEF UnitFits
<1>5. ~y.torn => y.idx.pos = Len(y.idx.data)
  BY <1>1, <1>2 DEF IndexGrows
<1>8. m \in Int /\ t \in Int /\ t >= m /\ n \in Int
  <2>1. m \in Int /\ t \in Int /\ m <= t
    BY <1>4, Earlier
  <2> HIDE DEF m, t
  <2> QED
    BY <2>1
<1> HIDE DEF p, m, t
<1>6. ASSUME y.headed PROVE HeadedFits(y, u.n, u.ts)
  <2>1. HeadedFits(w, n, ts)
    BY <1>1, <1>3, <1>6
  <2>2. /\ Len(w.file.data) >= 4 /\ p = (IF w.keyed THEN w.tail ELSE 4)
        /\ w.keyed => w.tail >= 4
        /\ w.tail <= Len(w.file.data) /\ w.tail % 2 = 0
        /\ \A i \in Places(w) : w.file.data[i].time <= m
        /\ ~w.torn => /\ Leads(w)
                      /\ \A k \in 1..(Len(w.idx.data) \div 2) :
                           w.idx.data[2 * k - 1].time <= m
        /\ Tiles(w) /\ Ascends(w)
        /\ \A i \in Places(w) : w.file.data[i].unit <= n
    <3>1. /\ Len(w.file.data) >= 4 /\ p = (IF w.keyed THEN w.tail ELSE 4)
          /\ w.keyed => w.tail >= 4
          /\ \A i \in Places(w) : w.file.data[i].unit <= n /\ w.file.data[i].time <= m
          /\ ~w.torn => /\ Leads(w)
                        /\ \A k \in 1..(Len(w.idx.data) \div 2) :
                             w.idx.data[2 * k - 1].time <= m
          /\ Tiles(w) /\ Ascends(w)
      BY <2>1 DEF HeadedFits, p, m
    <3>3. w.tail <= Len(w.file.data) /\ w.tail % 2 = 0
      BY <1>1, <1>8, <3>1, TilesAre
    <3> QED
      BY <3>1, <3>3
  <2>3. p >= 4 /\ p <= Len(w.file.data) /\ p % 2 = 0 /\ w.tail \in {0, p}
    <3>1. w.tail \in Nat /\ w.keyed \in BOOLEAN
      BY <1>1, FlvRecordIs
    <3>2. CASE w.keyed
      BY <2>2, <3>1, <3>2
    <3>3. CASE ~w.keyed
      <4>1. p = 4 /\ w.tail = 0
        BY <1>1, <2>2, <3>3
      <4> QED
        BY <4>1, <2>2
    <3> QED
      BY <3>1, <3>2, <3>3
  <2>4. Appended(w, u, t, y) /\ y.tail \in {p, p + 2}
    BY <1>2, <2>3 DEF Appended, p
  <2>5. /\ Len(y.file.data) >= 4 /\ Tiles(y) /\ Ascends(y) /\ y.tail >= 4
        /\ \A i \in Places(y) :
             y.file.data[i].unit <= u.n /\ y.file.data[i].time <= u.ts - y.first
        /\ Places(w) = OddUpTo(p)
        /\ \A i \in Places(w) : i \in Places(y) /\ y.file.data[i] = w.file.data[i]
        /\ \A i \in Places(y) : \/ i \in Places(w)
                                \/ /\ i = p + 1 /\ y.tail = p + 2
                                   /\ y.file.data[i].time = t
    <3>1. w.keyed \/ w.tail = 0
      BY <1>1
    <3>2. Appended(w, u, u.ts - w.first, y)
      BY <2>4 DEF t
    <3>3. AppendedRight(w, u, y)
      BY <1>1, <1>2, <1>3, <2>1, <3>1, <3>2, AppendedTiles
    <3> QED
      BY <1>3, <3>3 DEF AppendedRight, p, t
  <2>6. \A i \in Places(w) : w.file.data[i].time \in Int
    <3>1. ASSUME NEW i \in Places(w) PROVE i \in 1..Len(w.file.data)
      <4>0. i \in OddUpTo(p)
        BY <2>5
      <4>1. i \in 5..p /\ Len(w.file.data) \in Nat
        BY <1>1, <4>0, FlvRecordIs, LogIs DEF OddUpTo
      <4> QED
        BY <4>1, <2>3, <1>1
    <3>2. ASSUME NEW i \in Places(w) PROVE w.file.data[i] \in LogCells
      BY <1>1, <3>1, FlvRecordIs, LogIs
    <3> QED
      BY <3>2 DEF LogCells
  <2>7. TagsKept(w, y, p, t)
    BY <2>5, <2>6 DEF TagsKept
  <2>9. ASSUME ~y.torn
        PROVE  /\ Leads(y)
               /\ \A k \in 1..(Len(y.idx.data) \div 2) : y.idx.data[2 * k - 1].time <= t
    <3>1. ~w.torn /\ w.idx.pos = Len(w.idx.data)
      BY <1>1, <1>2, <2>9 DEF IndexGrows
    <3>2. EntriesLead(w, m)
      BY <2>2, <3>1, LeadsAre
    <3>3. EntriesLead(y, t)
      BY <1>1, <1>2, <1>8, <2>2, <2>3, <2>4, <2>7, <2>9, <3>1, <3>2, EntriesStay DEF p
    <3> QED
      BY <3>3, LeadsAre
  <2> QED
    BY <1>3, <2>5, <2>9 DEF HeadedFits, t
<1> QED
  BY <1>1, <1>2, <1>3, <1>5, <1>6 DEF FlvFits, y

-----------------------------------------------------------------------------
(* The other steps of a recording in FLV.                                  *)

\* The duration in memory is of no matter, and time goes by.
LEMMA TimeGoesBy ==
  ASSUME NEW w, NEW n \in Nat, NEW ts \in Nat, FlvFits(w, n, ts), NEW d \in Int,
         NEW v \in Nat, v >= n, NEW m \in Nat, m >= ts
  PROVE  FlvFits([w EXCEPT !.duration = d], v, m)
<1> DEFINE y == [w EXCEPT !.duration = d]
<1>1. w \in FlvRecords
  BY DEF FlvFits
<1>2. /\ y \in FlvRecords /\ y.saving = w.saving /\ y.file = w.file /\ y.idx = w.idx
      /\ y.sps = w.sps /\ y.pps = w.pps /\ y.first = w.first /\ y.meta = w.meta
      /\ y.keyed = w.keyed /\ y.headed = w.headed /\ y.torn = w.torn /\ y.tail = w.tail
  BY <1>1 DEF FlvRecords
<1> HIDE DEF y
<1>3. Places(y) = Places(w) /\ (Tiles(w) => Tiles(y)) /\ (Ascends(w) => Ascends(y))
      /\ (Leads(w) => Leads(y))
  <2>1. Places(y) = Places(w) /\ \A i : IsTagAt(y, i) <=> IsTagAt(w, i)
    BY <1>2 DEF Places, IsTagAt
  <2>2. Tiles(w) => Tiles(y)
    BY <1>2, <2>1, Zenon DEF Tiles
  <2>3. Ascends(w) => Ascends(y)
    BY <1>2, <2>1, Zenon DEF Ascends
  <2>4. Leads(w) => Leads(y)
    BY <1>2, <2>1, Zenon DEF Leads
  <2> QED
    BY <2>1, <2>2, <2>3, <2>4
<1>4. w.first \in Int /\ ts - w.first <= m - w.first
  BY <1>1, FlvRecordIs
<1>5. ASSUME HeadedFits(w, n, ts) PROVE HeadedFits(y, v, m)
  <2>1. /\ Len(w.file.data) >= 4
        /\ w.saving => w.file.pos = (IF w.keyed THEN w.tail ELSE 4)
        /\ w.keyed => w.tail >= 4
        /\ Tiles(w) /\ Ascends(w)
        /\ \A i \in Places(w) :
             w.file.data[i].unit <= n /\ w.file.data[i].time <= ts - w.first
        /\ ~w.torn =>
             /\ Leads(w)
             /\ \A k \in 1..(Len(w.idx.data) \div 2) :
                  w.idx.data[2 * k - 1].time <= ts - w.first
    BY <1>5 DEF HeadedFits
  <2>2. ASSUME NEW i \in Places(w)
        PROVE  w.file.data[i].unit <= v /\ w.file.data[i].time <= m - w.first
    <3>1. w.file.data[i].unit \in Int /\ w.file.data[i].time \in Int
      <4>1. w.tail <= Len(w.file.data) /\ i \in 5..w.tail
        BY <2>1, <1>1, StartIs, PlacesAre DEF Tiles, OddUpTo
      <4>2. i \in 1..Len(w.file.data)
        BY <4>1, <1>1, FlvRecordIs, LogIs
      <4>3. w.file.data[i] \in LogCells
        BY <4>2, <1>1, FlvRecordIs, LogIs
      <4> QED
        BY <4>3 DEF LogCells
    <3>2. w.file.data[i].unit <= n /\ w.file.data[i].time <= ts - w.first
      BY <2>1
    <3> QED
      BY <3>1, <3>2, <1>4
  <2>3. ASSUME ~w.torn, NEW k \in 1..(Len(w.idx.data) \div 2)
        PROVE  w.idx.data[2 * k - 1].time <= m - w.first
    <3>1. Len(w.idx.data) \in Nat /\ w.idx \in Logs
      BY <1>1, FlvRecordIs, LogIs
    <3>2. 2 * k - 1 \in 1..Len(w.idx.data)
      <4>1. Len(w.idx.data) % 2 = 0
        BY <2>1, <2>3 DEF Leads
      <4> QED
        BY <3>1, <4>1, EvenHalves
    <3>3. w.idx.data[2 * k - 1] \in LogCells
      BY <3>1, <3>2, LogIs
    <3>4. w.idx.data[2 * k - 1].time \in Int
      BY <3>3 DEF LogCells
    <3>5. w.idx.data[2 * k - 1].time <= ts - w.first
      BY <2>1, <2>3
    <3> DEFINE s == w.idx.data[2 * k - 1].time
               g == m - w.first
    <3>6. s \in Int /\ s <= ts - w.first
      BY <3>4, <3>5
    <3> HIDE DEF s
    <3>7. s <= g
      BY <3>6, <1>4
    <3> QED
      BY <3>7 DEF s, g
  <2> QED
    BY <2>1, <2>2, <2>3, <1>2, <1>3 DEF HeadedFits
<1> QED
  BY <1>2, <1>5 DEF FlvFits, y

LEMMA NewFlvFits ==
  ASSUME NEW opens \in BOOLEAN, NEW n \in Nat, NEW ts \in Nat
  PROVE  FlvFits(NewFlv(opens), n, ts)
<1> DEFINE c == Create(opens)
           w == NewFlv(opens)
<1>1. c \in Logs /\ c.pos = 0 /\ Len(c.data) = 0
  BY DEF Create, Logs
<1>2. w = [saving |-> TRUE, file |-> c, idx |-> c, sps |-> 0, pps |-> 0, good |-> FALSE,
           first |-> 0, duration |-> 0, meta |-> FALSE, keyed |-> FALSE,
           headed |-> FALSE, torn |-> FALSE, tail |-> 0]
  BY DEF NewFlv
<1> HIDE DEF c, w
<1>3. /\ w \in FlvRecords /\ w.file = c /\ w.idx = c /\ ~w.meta /\ ~w.keyed /\ ~w.headed
      /\ w.tail = 0
  BY <1>1, <1>2 DEF FlvRecords
<1> QED
  BY <1>1, <1>3 DEF FlvFits, w

\* The header gets out, or not as a whole.
LEMMA MetaDataFits ==
  ASSUME NEW w, NEW n \in Nat, NEW ts \in Nat, FlvFits(w, n, ts), w.saving, ~w.meta,
         w.sps # 0, w.pps # 0, NEW out, OutFits(out)
  PROVE  FlvFits(GenerateMetaData(w, out), n, ts) /\ GenerateMetaData(w, out).saving
<1> DEFINE f == WriteFile(w.file, Header, out.header)
           b == f.pos = 4
           y == [w EXCEPT !.file = f, !.meta = TRUE, !.headed = b]
<1>1. /\ w \in FlvRecords /\ ~w.keyed /\ w.file.pos = 0 /\ w.tail = 0
      /\ Len(w.idx.data) = 0 /\ w.idx.pos \in Nat
      /\ ~w.torn => w.idx.pos = Len(w.idx.data)
  BY DEF FlvFits
<1>2. Header \in Seq(LogCells) /\ Len(Header) = 4
  BY HeaderCells
<1>3. Left(w.file, Header, out.header, f)
  <2>1. w.file \in Logs /\ w.file.pos \in Nat /\ Len(Header) > 0 /\ out.header \in Nat
    BY <1>1, <1>2, FlvRecordIs DEF OutFits
  <2> QED
    BY <1>2, <2>1, WriteLeaves
<1> HIDE DEF f
<1>4. /\ f \in Logs /\ f.pos \in {0, 4}
      /\ f.pos = 4 => Len(f.data) >= 4 /\ \A i \in 1..4 : f.data[i] = Header[i]
  <2>1. \/ f.pos = 0
        \/ /\ f.pos = 0 + 4 /\ f.pos <= Len(f.data)
           /\ \A i \in 1..4 : f.data[0 + i] = Header[i]
    BY <1>1, <1>2, <1>3 DEF Left, Wrote
  <2>2. f \in Logs /\ Len(f.data) \in Nat
    BY <1>3, LogIs DEF Left, Wrote
  <2> QED
    BY <2>1, <2>2
<1>5. b \in BOOLEAN
  OBVIOUS
<1>6. w.good => GenerateMetaData(w, out) = y
  BY <1>2 DEF GenerateMetaData, f
<1> HIDE DEF b
<1>7. /\ y \in FlvRecords /\ y.file = f /\ y.meta /\ y.headed = b /\ y.saving = w.saving
      /\ y.idx = w.idx /\ y.sps = w.sps /\ y.pps = w.pps /\ y.keyed = w.keyed
      /\ y.torn = w.torn /\ y.tail = w.tail
  BY <1>1, <1>4, <1>5 DEF FlvRecords
<1> HIDE DEF y
<1>8. y.headed => HeadedFits(y, n, ts)
  BY <1>1, <1>4, <1>7, HeaderFits DEF b
<1>9. FlvFits(y, n, ts)
  BY <1>1, <1>4, <1>7, <1>8 DEF FlvFits
<1>10. CASE w.good
  BY <1>6, <1>7, <1>9, <1>10
<1>11. CASE ~w.good
  BY <1>11 DEF GenerateMetaData
<1> QED
  BY <1>10, <1>11

\* The sets of an empty recording.
WithSets(w, s, p, b, t) == [w EXCEPT !.sps = s, !.pps = p, !.good = b, !.first = t]
LEMMA GivenSetsFit ==
  ASSUME NEW w, NEW n \in Nat, NEW ts \in Nat, FlvFits(w, n, ts), ~w.meta,
         NEW s \in Nat, NEW p \in Nat, NEW b \in BOOLEAN, NEW t \in Int
  PROVE  /\ FlvFits(WithSets(w, s, p, b, t), n, ts)
         /\ WithSets(w, s, p, b, t).saving = w.saving
<1> DEFINE y == WithSets(w, s, p, b, t)
<1>1. w \in FlvRecords /\ ~w.headed
  BY DEF FlvFits
<1>2. /\ y \in FlvRecords /\ y.saving = w.saving /\ y.file = w.file /\ y.idx = w.idx
      /\ y.sps = s /\ y.pps = p /\ y.meta = w.meta
      /\ y.keyed = w.keyed /\ y.headed = w.headed /\ y.torn = w.torn /\ y.tail = w.tail
  BY <1>1 DEF FlvRecords, WithSets
<1> HIDE DEF y
<1>3. FlvFits(y, n, ts)
  BY <1>1, <1>2 DEF FlvFits
<1> QED
  BY <1>2, <1>3 DEF y

LEMMA TakeSetFits ==
  ASSUME NEW w, NEW n \in Nat, NEW ts \in Nat, FlvFits(w, n, ts), w.saving, ~Get(w),
         NEW out, OutFits(out), NEW u, UnitFits(u)
  PROVE  FlvFits(TakeSet(w, u, out), n, ts) /\ TakeSet(w, u, out).saving
<1>1. ~w.meta /\ w \in FlvRecords
  BY DEF FlvFits, Get
<1>2. /\ u.n \in Nat /\ u.n # 0 /\ u.ts \in Int /\ u.good \in BOOLEAN
      /\ w.sps \in Nat /\ w.pps \in Nat /\ w.good \in BOOLEAN
  BY <1>1, FlvRecordIs DEF UnitFits
<1>3. CASE u.type = "sps"
  <2> DEFINE y == [w EXCEPT !.sps = u.n, !.good = u.good, !.first = u.ts]
             z == WithSets(w, u.n, w.pps, u.good, u.ts)
  <2>1. TakeSet(w, u, out) = y
    BY <1>3 DEF TakeSet
  <2>2. y = z
    BY <1>1, <1>2 DEF FlvRecords, WithSets
  <2>3. FlvFits(z, n, ts) /\ z.saving = w.saving
    <3> DEFINE a == u.n
               p == w.pps
               b == u.good
               t == u.ts
    <3>1. a \in Nat /\ p \in Nat /\ b \in BOOLEAN /\ t \in Int
      BY <1>2
    <3> HIDE DEF a, p, b, t
    <3>2. FlvFits(WithSets(w, a, p, b, t), n, ts) /\ WithSets(w, a, p, b, t).saving = w.saving
      BY <1>1, <3>1, GivenSetsFit
    <3> QED
      BY <3>2 DEF a, p, b, t
  <2> HIDE DEF y, z
  <2> QED
    BY <2>1, <2>2, <2>3
<1>4. CASE u.type = "pps"
  <2> DEFINE y == [w EXCEPT !.pps = u.n, !.first = u.ts]
             z == WithSets(w, w.sps, u.n, w.good, u.ts)
  <2>1. TakeSet(w, u, out) = IF w.sps # 0 THEN GenerateMetaData(y, out) ELSE y
    BY <1>4, "sps" # "pps" DEF TakeSet
  <2>2. y = z
    BY <1>1, <1>2 DEF FlvRecords, WithSets
  <2>3. /\ FlvFits(z, n, ts) /\ z.saving = w.saving /\ z.meta = w.meta
        /\ z.sps = w.sps /\ z.pps = u.n
    <3> DEFINE a == w.sps
               p == u.n
               b == w.good
               t == u.ts
    <3>1. a \in Nat /\ p \in Nat /\ b \in BOOLEAN /\ t \in Int
      BY <1>2
    <3> HIDE DEF a, p, b, t
    <3>2. FlvFits(WithSets(w, a, p, b, t), n, ts) /\ WithSets(w, a, p, b, t).saving = w.saving
      BY <1>1, <3>1, GivenSetsFit
    <3>3. /\ WithSets(w, a, p, b, t).meta = w.meta
          /\ WithSets(w, a, p, b, t).sps = a /\ WithSets(w, a, p, b, t).pps = p
      BY <1>1 DEF WithSets, FlvRecords
    <3> QED
      BY <3>2, <3>3 DEF a, p, b, t
  <2> HIDE DEF y, z
  <2>4. ASSUME w.sps # 0
        PROVE  FlvFits(GenerateMetaData(y, out), n, ts) /\ GenerateMetaData(y, out).saving
    BY <1>1, <1>2, <2>2, <2>3, <2>4, MetaDataFits
  <2> QED
    BY <2>1, <2>2, <2>3, <2>4
<1>5. CASE u.type \notin {"sps", "pps"}
  BY <1>5 DEF TakeSet
<1> QED
  BY <1>3, <1>4, <1>5

LEMMA ProcessFits ==
  ASSUME NEW w, NEW n \in Nat, NEW ts \in Nat, FlvFits(w, n, ts), w.saving,
         NEW out, OutFits(out), NEW u, UnitFits(u), u.n > n, u.ts >= ts
  PROVE  FlvFits(ProcessPacket(w, u, out), u.n, u.ts)
<1>1. CASE ~w.meta \/ ~(w.keyed \/ u.type = "idr")
  <2>1. ProcessPacket(w, u, out) = w
    BY <1>1 DEF ProcessPacket
  <2>2. w = [w EXCEPT !.duration = w.duration] /\ w.duration \in Int
    BY DEF FlvFits, FlvRecords
  <2>3. u.n \in Nat /\ u.n >= n /\ u.ts \in Nat
    BY DEF UnitFits
  <2>4. FlvFits([w EXCEPT !.duration = w.duration], u.n, u.ts)
    BY <2>2, <2>3, TimeGoesBy
  <2> QED
    BY <2>1, <2>2, <2>4
<1>2. CASE w.meta /\ (w.keyed \/ u.type = "idr")
  BY <1>2, PacketFits
<1> QED
  BY <1>1, <1>2

LEMMA AddFlvFits ==
  ASSUME NEW w, NEW n \in Nat, NEW ts \in Nat, FlvFits(w, n, ts), w.saving,
         NEW out, OutFits(out), NEW u, UnitFits(u), u.n > n, u.ts >= ts
  PROVE  FlvFits(AddTimedPacket(w, u, out), u.n, u.ts)
<1> DEFINE v == [w EXCEPT !.duration = u.ts - w.first]
           x == IF Get(w) THEN v ELSE TakeSet(v, u, out)
<1>1. w \in FlvRecords /\ w.first \in Int /\ u.ts \in Nat /\ u.n \in Nat
  BY FlvRecordIs DEF FlvFits, UnitFits
<1>2. FlvFits(v, n, ts)
  <2>1. u.ts - w.first \in Int
    BY <1>1
  <2> QED
    BY <2>1, TimeGoesBy
<1>3. v.saving /\ v.sps = w.sps /\ v.pps = w.pps
  BY <1>1 DEF FlvRecords
<1>4. AddTimedPacket(w, u, out) = IF Get(x) THEN ProcessPacket(x, u, out) ELSE x
  BY DEF AddTimedPacket
<1> HIDE DEF v
<1>5. Get(v) = Get(w)
  BY <1>3 DEF Get
<1>6. FlvFits(x, n, ts) /\ x.saving
  BY <1>2, <1>3, <1>5, TakeSetFits
<1> HIDE DEF x
<1>7. FlvFits(ProcessPacket(x, u, out), u.n, u.ts)
  BY <1>6, ProcessFits
<1>8. FlvFits(x, u.n, u.ts)
  <2>1. x = [x EXCEPT !.duration = x.duration] /\ x.duration \in Int
    BY <1>6 DEF FlvFits, FlvRecords
  <2>2. FlvFits([x EXCEPT !.duration = x.duration], u.n, u.ts)
    BY <1>1, <1>6, <2>1, TimeGoesBy
  <2> QED
    BY <2>1, <2>2
<1> QED
  BY <1>4, <1>7, <1>8

\* Only the header is written behind the last unit.
LEMMA HeaderWritten ==
  ASSUME NEW w \in FlvRecords, NEW y \in FlvRecords, NEW n \in Nat, NEW ts \in Nat,
         HeadedFits(w, n, ts),
         y.idx = w.idx /\ y.torn = w.torn /\ y.tail = w.tail /\ y.keyed = w.keyed,
         y.first = w.first, ~y.saving, Len(y.file.data) >= Len(w.file.data),
         \A i \in 1..Len(w.file.data) :
           \/ y.file.data[i] = w.file.data[i]
           \/ i \in 1..4 /\ y.file.data[i].is = Header[i].is
  PROVE  HeadedFits(y, n, ts)
<1> DEFINE d == w.file.data
           e == y.file.data
           m == ts - w.first
<1>1. /\ Len(d) >= 4 /\ (w.keyed => w.tail >= 4)
      /\ Tiles(w) /\ Ascends(w)
      /\ \A i \in Places(w) : d[i].unit <= n /\ d[i].time <= m
      /\ ~w.torn => /\ Leads(w)
                    /\ \A k \in 1..(Len(w.idx.data) \div 2) : w.idx.data[2 * k - 1].time <= m
  BY DEF HeadedFits
<1>2. m \in Int /\ n \in Int /\ Len(d) \in Nat /\ Len(e) \in Nat /\ w.tail \in Nat
  BY FlvRecordIs, LogIs
<1> HIDE DEF m
<1>3. /\ \A i \in 1..4 : d[i].is = Header[i].is
      /\ w.tail <= Len(d) /\ w.tail % 2 = 0
      /\ TagsUpTo(d, w.tail, n, m)
  BY <1>1, <1>2, TilesAre
<1> HIDE DEF d, e
<1>4. /\ Len(e) >= Len(d)
      /\ \A i \in 1..Len(d) : e[i] = d[i] \/ (i \in 1..4 /\ e[i].is = Header[i].is)
  BY DEF d, e
<1>5. \A i \in 1..4 : e[i].is = Header[i].is
  BY <1>1, <1>2, <1>3, <1>4
<1>6. \A i \in 5..w.tail : e[i] = d[i]
  BY <1>2, <1>3, <1>4
<1>7. \A i \in OddUpTo(w.tail) : i \in 5..w.tail /\ i + 1 \in 5..w.tail
  BY <1>2, <1>3 DEF OddUpTo
<1>8. TagsUpTo(e, w.tail, n, m)
  <2>1. \A i \in OddUpTo(w.tail) : e[i] = d[i] /\ e[i + 1] = d[i + 1]
    BY <1>6, <1>7
  <2>2. /\ \A i \in OddUpTo(w.tail) :
             /\ d[i].is \in {"config", "idr", "slice"}
             /\ d[i + 1] = [d[i] EXCEPT !.is = "back"]
             /\ d[i].unit \in Int /\ d[i].unit <= n
             /\ d[i].time \in Int /\ d[i].time <= m
        /\ \A i, j \in OddUpTo(w.tail) :
             i < j => d[i].unit < d[j].unit /\ d[i].time <= d[j].time
    BY <1>3, Zenon DEF TagsUpTo
  <2>3. \A i \in OddUpTo(w.tail) :
          /\ e[i].is \in {"config", "idr", "slice"}
          /\ e[i + 1] = [e[i] EXCEPT !.is = "back"]
          /\ e[i].unit \in Int /\ e[i].unit <= n
          /\ e[i].time \in Int /\ e[i].time <= m
    BY <2>1, <2>2, Zenon
  <2>4. \A i, j \in OddUpTo(w.tail) :
          i < j => e[i].unit < e[j].unit /\ e[i].time <= e[j].time
    BY <2>1, <2>2, Zenon
  <2> QED
    BY <2>3, <2>4, Zenon DEF TagsUpTo
<1>9. /\ Tiles(y) /\ Ascends(y)
      /\ \A i \in Places(y) : e[i].unit <= n /\ e[i].time <= m
  <2>1. y.tail <= Len(e) /\ y.tail % 2 = 0 /\ TagsUpTo(e, y.tail, n, m)
    BY <1>2, <1>3, <1>4, <1>8
  <2> QED
    BY <1>2, <1>5, <2>1, TilesAre DEF e
<1>10. Leads(w) => Leads(y)
  <2>1. Places(y) = Places(w) /\ Places(w) = OddUpTo(w.tail)
    BY PlacesAre
  <2>2. \A i \in Places(w) : y.file.data[i] = w.file.data[i]
    BY <1>6, <1>7, <2>1 DEF d, e
  <2> QED
    BY <2>1, <2>2, Zenon DEF Leads
<1>11. Len(e) >= 4
  BY <1>1, <1>2, <1>4 DEF d
<1> QED
  BY <1>1, <1>9, <1>10, <1>11 DEF HeadedFits, d, e, m

\* The destructor.
LEMMA CloseFlvFits ==
  ASSUME NEW w, NEW n \in Nat, NEW ts \in Nat, FlvFits(w, n, ts), w.saving,
         NEW out, OutFits(out), NEW spot \in {-1, 0, 1}
  PROVE  FlvFits(CloseFlv(w, out, spot), n, ts) /\ ~CloseFlv(w, out, spot).saving
<1> DEFINE p == IF w.meta THEN SizePos ELSE spot
           f == Seek(w.file, p)
           c == Cell("size", 0, 0)
           g == WriteFile(f, <<c>>, out.size)
           F == IF f.pos < 0 THEN w.file ELSE g
           v == IF f.pos < 0 THEN w ELSE [w EXCEPT !.file = g]
           x == UpdateDuration(v, out)
           y == [x EXCEPT !.saving = FALSE]
<1>1. CloseFlv(w, out, spot) = y
  BY Zenon DEF CloseFlv
<1>2. w \in FlvRecords /\ w.file \in Logs
  BY FlvRecordIs DEF FlvFits
<1>3. p \in Int /\ (w.meta => p = 2)
  BY DEF SizePos
<1> HIDE DEF p
<1>4. f \in Logs /\ f.pos = p /\ f.data = w.file.data
  BY <1>2, <1>3, LogSeekIs
<1> HIDE DEF f
<1>5. c \in LogCells /\ c.is = "size"
  BY DEF Cell, LogCells, LogNames
<1> HIDE DEF c
<1>6. <<c>> \in Seq(LogCells) /\ Len(<<c>>) = 1 /\ <<c>>[1] = c /\ Len(<<c>>) > 0
  BY <1>5
<1>7. p >= 0 => Wrote(f, <<c>>, g)
  <2> SUFFICES ASSUME p >= 0 PROVE Wrote(f, <<c>>, g)
    OBVIOUS
  <2>1. f.pos \in Nat /\ out.size \in Nat
    BY <1>3, <1>4 DEF OutFits
  <2>2. Left(f, <<c>>, out.size, g)
    BY <1>4, <1>6, <2>1, WriteLeaves
  <2> HIDE DEF g
  <2> QED
    BY <2>2 DEF Left
<1> HIDE DEF g
<1>8. /\ F \in Logs /\ Len(F.data) >= Len(w.file.data)
      /\ \A i \in 1..Len(w.file.data) :
           F.data[i] = w.file.data[i] \/ (i = p + 1 /\ F.data[i].is = "size")
  <2>1. CASE p < 0
    <3>1. F = w.file
      BY <1>4, <2>1
    <3> HIDE DEF F
    <3> QED
      BY <3>1, <1>2, LogIs
  <2>2. CASE ~(p < 0)
    <3>1. F = g
      BY <1>4, <2>2
    <3> HIDE DEF F
    <3>2. /\ g \in Logs /\ Len(g.data) >= Len(w.file.data)
          /\ \A i \in 1..Len(w.file.data) :
               \/ g.data[i] = w.file.data[i]
               \/ i - p \in 1..1 /\ g.data[i] = <<c>>[i - p]
      BY <1>3, <1>4, <1>6, <1>7, <2>2 DEF Wrote
    <3>3. ASSUME NEW i \in 1..Len(w.file.data)
          PROVE  g.data[i] = w.file.data[i] \/ (i = p + 1 /\ g.data[i].is = "size")
      <4>1. CASE i - p \in 1..1 /\ g.data[i] = <<c>>[i - p]
        <5>1. i - p = 1 /\ i = p + 1
          BY <4>1, <1>3
        <5>2. <<c>>[i - p] = c
          BY <5>1, <1>6
        <5> QED
          BY <4>1, <5>1, <5>2, <1>5
      <4> QED
        BY <4>1, <3>2
    <3> QED
      BY <3>1, <3>2, <3>3
  <2> QED
    BY <2>1, <2>2
<1>9. v \in FlvRecords /\ v = [w EXCEPT !.file = F] /\ v.file = F /\ v.meta = w.meta
  <2>1. v = [w EXCEPT !.file = F]
    <3>1. w = [w EXCEPT !.file = w.file]
      BY <1>2 DEF FlvRecords
    <3> QED
      BY <3>1
  <2> HIDE DEF v, F
  <2> QED
    BY <2>1, <1>2, <1>8 DEF FlvRecords
<1> HIDE DEF v, F
<1>10. x = [v EXCEPT !.file = x.file] /\ DurationWritten(v, x)
  BY <1>9, UpdateLeaves
<1> HIDE DEF x
<1> DEFINE h == x.file
<1>11. /\ h \in Logs /\ Len(h.data) >= Len(F.data)
       /\ \A i \in 1..Len(F.data) :
            \/ h.data[i] = F.data[i]
            \/ i = (IF w.meta THEN 2 ELSE 1) /\ h.data[i].is = "duration"
  BY <1>9, <1>10 DEF DurationWritten
<1> HIDE DEF h
<1>12. y = [w EXCEPT !.file = h, !.saving = FALSE]
  <2>1. x = [w EXCEPT !.file = h]
    BY <1>9, <1>10, <1>11, <1>2 DEF h, FlvRecords
  <2> QED
    BY <2>1, <1>2 DEF FlvRecords
<1>13. /\ y \in FlvRecords /\ y.file = h /\ ~y.saving /\ y.idx = w.idx /\ y.sps = w.sps
       /\ y.pps = w.pps /\ y.first = w.first /\ y.meta = w.meta /\ y.keyed = w.keyed
       /\ y.headed = w.headed /\ y.torn = w.torn /\ y.tail = w.tail
  <2> HIDE DEF y
  <2> QED
    BY <1>2, <1>11, <1>12 DEF FlvRecords
<1> HIDE DEF y
<1>14. ASSUME y.headed PROVE HeadedFits(y, n, ts)
  <2>1. w.meta /\ HeadedFits(w, n, ts)
    BY <1>13, <1>14 DEF FlvFits
  <2>2. Header[2].is = "duration" /\ Header[3].is = "size"
    BY HeaderCells
  <2>3. Len(w.file.data) \in Nat /\ Len(F.data) \in Nat /\ Len(h.data) \in Nat
    BY <1>2, <1>8, <1>11, LogIs
  <2>4. ASSUME NEW i \in 1..Len(w.file.data)
        PROVE  \/ h.data[i] = w.file.data[i]
               \/ i \in 1..4 /\ h.data[i].is = Header[i].is
    <3>1. i \in 1..Len(F.data)
      BY <1>8, <2>3
    <3>2. h.data[i] = F.data[i] \/ (i = 2 /\ h.data[i].is = "duration")
      BY <1>11, <2>1, <3>1
    <3>3. F.data[i] = w.file.data[i] \/ (i = 3 /\ F.data[i].is = "size")
      BY <1>3, <1>8, <2>1
    <3>4. 2 \in 1..4 /\ 3 \in 1..4
      OBVIOUS
    <3> QED
      BY <2>2, <3>2, <3>3, <3>4
  <2>5. Len(h.data) >= Len(w.file.data)
    BY <1>8, <1>11, <2>3
  <2> QED
    BY <1>2, <1>13, <2>1, <2>4, <2>5, HeaderWritten
<1>15. FlvFits(y, n, ts)
  BY <1>13, <1>14 DEF FlvFits
<1> QED
  BY <1>1, <1>13, <1>15

LEMMA FlvFitsIsReadable ==
  ASSUME NEW w, NEW n, NEW ts, FlvFits(w, n, ts), w.headed
  PROVE  Tiles(w) /\ Ascends(w) /\ (~w.torn => Leads(w))
  BY DEF FlvFits, HeadedFits

-----------------------------------------------------------------------------
(* Theorem of the recording in FLV.                                        *)

FlvFileHolds ==
  /\ unit \in Nat /\ now \in Nat
  /\ flv # None => FlvFits(flv, unit, now)

LEMMA FatesFit == \A out \in Fates \cup {Well, Nought} : OutFits(out)
<1> DEFINE R == [header |-> 4, tag |-> 2, time |-> 1, offset |-> 1, duration |-> 1,
                 size |-> 1]
           D == {"header", "tag", "time", "offset", "duration", "size"}
<1>1. Well = R /\ DOMAIN Well = D
  BY DEF Well
<1>2. OutFits(Well)
  BY <1>1 DEF OutFits
<1>3. OutFits(Nought)
  BY <1>1 DEF OutFits, Nought
<1>4. ASSUME NEW i \in D PROVE OutFits([Well EXCEPT ![i] = 0])
  BY <1>1, <1>4 DEF OutFits
<1>5. ASSUME NEW i \in {"header", "tag"} PROVE OutFits([Well EXCEPT ![i] = 1])
  BY <1>1, <1>5 DEF OutFits
<1> HIDE DEF R, D
<1>6. ASSUME NEW out \in Fates
      PROVE  \/ out = Well \/ out = Nought
             \/ \E i \in D : out = [Well EXCEPT ![i] = 0]
             \/ \E i \in {"header", "tag"} : out = [Well EXCEPT ![i] = 1]
  BY <1>1 DEF Fates
<1>7. ASSUME NEW out \in Fates PROVE OutFits(out)
  BY <1>2, <1>3, <1>4, <1>5, <1>6
<1> QED
  BY <1>2, <1>3, <1>7

\* A unit that the recordings are given.
UnitTaken(u, out) ==
  /\ UnitFits(u) /\ u.n = unit + 1 /\ u.ts >= now /\ unit' = u.n /\ now' = u.ts
  /\ fails' = IF out = Well THEN fails ELSE fails + 1
  /\ flv' = IF Saving(flv) THEN AddTimedPacket(flv, u, out) ELSE flv
  /\ mp4' = IF Saving(mp4) THEN AddToMp4(mp4, u, out) ELSE mp4

LEMMA UnitIsTaken ==
  ASSUME RecordingAssumption, unit \in Nat, now \in Nat, NextUnit
  PROVE  \E u, out : out \in Fates /\ UnitTaken(u, out)
<1>1. PICK kind \in Kinds, step \in Steps, out \in Fates :
        LET u == [n |-> unit + 1, type |-> kind[1], ts |-> now + step, good |-> kind[2]]
        IN /\ unit' = u.n /\ now' = u.ts
           /\ fails' = IF out = Well THEN fails ELSE fails + 1
           /\ flv' = IF Saving(flv) THEN AddTimedPacket(flv, u, out)
                         ELSE flv
           /\ mp4' = IF Saving(mp4) THEN AddToMp4(mp4, u, out) ELSE mp4
  BY Zenon DEF NextUnit
<1> DEFINE u == [n |-> unit + 1, type |-> kind[1], ts |-> now + step, good |-> kind[2]]
<1>2. step \in Nat /\ kind[1] \in {"sps", "pps", "idr", "slice"} /\ kind[2] \in BOOLEAN
  <2>1. kind = <<"sps", FALSE>> \/ kind \in {"sps", "pps", "idr", "slice"} \X {TRUE}
    BY DEF Kinds
  <2>2. CASE kind = <<"sps", FALSE>>
    BY <2>2 DEF RecordingAssumption
  <2>3. CASE kind \in {"sps", "pps", "idr", "slice"} \X {TRUE}
    <3>1. kind[1] \in {"sps", "pps", "idr", "slice"} /\ kind[2] \in {TRUE}
      BY <2>3
    <3> QED
      BY <3>1 DEF RecordingAssumption
  <2> QED
    BY <2>1, <2>2, <2>3
<1>3. /\ unit' = u.n /\ now' = u.ts
      /\ fails' = IF out = Well THEN fails ELSE fails + 1
      /\ flv' = IF Saving(flv) THEN AddTimedPacket(flv, u, out) ELSE flv
      /\ mp4' = IF Saving(mp4) THEN AddToMp4(mp4, u, out) ELSE mp4
  BY <1>1
<1>4. UnitFits(u) /\ u.n = unit + 1 /\ u.ts >= now
  <2>1. unit + 1 \in Nat \ {0} /\ now + step \in Nat /\ now + step >= now
    BY <1>2
  <2>2. UnitFits(u)
    BY <1>2, <2>1 DEF UnitFits
  <2> QED
    BY <2>1, <2>2
<1> HIDE DEF u
<1>5. UnitTaken(u, out)
  BY <1>3, <1>4 DEF UnitTaken
<1> QED
  BY <1>5

LEMMA FlvFileStays ==
  ASSUME RecordingAssumption, FlvFileHolds, [Next]_vars
  PROVE  FlvFileHolds'
<1>1. unit \in Nat /\ now \in Nat /\ (flv # None => FlvFits(flv, unit, now))
  BY DEF FlvFileHolds
<1>2. CASE RecordFlv
  <2>1. PICK opens \in BOOLEAN : flv' = NewFlv(opens)
    BY <1>2 DEF RecordFlv
  <2>2. unit' = unit /\ now' = now
    BY <1>2 DEF RecordFlv
  <2>3. FlvFits(NewFlv(opens), unit, now)
    BY <1>1, NewFlvFits
  <2> QED
    BY <1>1, <2>1, <2>2, <2>3 DEF FlvFileHolds
<1>3. CASE NextUnit
  <2>1. PICK u, out : out \in Fates /\ UnitTaken(u, out)
    BY <1>1, <1>3, UnitIsTaken
  <2>2. /\ UnitFits(u) /\ u.n = unit + 1 /\ u.ts >= now /\ unit' = u.n /\ now' = u.ts
        /\ flv' = IF Saving(flv) THEN AddTimedPacket(flv, u, out) ELSE flv
    BY <2>1 DEF UnitTaken
  <2>3. u.n > unit /\ u.n \in Nat /\ u.ts \in Nat
    BY <1>1, <2>2 DEF UnitFits
  <2>4. CASE Saving(flv)
    <3>1. flv # None /\ flv.saving
      BY <2>4 DEF Saving
    <3>2. OutFits(out)
      BY <2>1, FatesFit
    <3>3. FlvFits(AddTimedPacket(flv, u, out), u.n, u.ts)
      BY <1>1, <2>2, <2>3, <3>1, <3>2, AddFlvFits
    <3> QED
      BY <2>2, <2>3, <2>4, <3>3 DEF FlvFileHolds
  <2>5. CASE ~Saving(flv)
    <3> SUFFICES ASSUME flv # None PROVE FlvFits(flv, u.n, u.ts)
      BY <2>2, <2>3, <2>5 DEF FlvFileHolds
    <3>1. FlvFits(flv, unit, now)
      BY <1>1
    <3>2. flv = [flv EXCEPT !.duration = flv.duration] /\ flv.duration \in Int
      BY <3>1 DEF FlvFits, FlvRecords
    <3>3. FlvFits([flv EXCEPT !.duration = flv.duration], u.n, u.ts)
      BY <1>1, <2>2, <2>3, <3>1, <3>2, TimeGoesBy
    <3> QED
      BY <3>2, <3>3
  <2> QED
    BY <2>4, <2>5
<1>4. CASE StopFlv
  <2>1. PICK out \in {Well, Nought}, spot \in {-1, 0, 1} : flv' = CloseFlv(flv, out, spot)
    BY <1>4 DEF StopFlv
  <2>2. unit' = unit /\ now' = now /\ flv # None /\ flv.saving
    BY <1>4 DEF StopFlv, Saving
  <2>3. OutFits(out)
    BY <2>1, FatesFit
  <2>4. FlvFits(CloseFlv(flv, out, spot), unit, now)
    BY <1>1, <2>2, <2>3, CloseFlvFits
  <2> QED
    BY <1>1, <2>1, <2>2, <2>4 DEF FlvFileHolds
<1>5. CASE RecordMp4 \/ StopMp4
  BY <1>1, <1>5 DEF RecordMp4, StopMp4, FlvFileHolds
<1>6. CASE UNCHANGED vars
  BY <1>1, <1>6 DEF vars, FlvFileHolds
<1> QED
  BY <1>2, <1>3, <1>4, <1>5, <1>6 DEF Next

\* A file whose header got out can be read: the tags follow it without a gap and in
\* order, and an index of which no half was lost leads to no later picture.  The
\* writes that a disk loses and the duration that is updated change nothing in it.
THEOREM RecordingIsReadable == Spec => []FlvIsReadable
<1>1. Init => FlvFileHolds
  BY DEF Init, FlvFileHolds
<1>2. FlvFileHolds /\ [Next]_vars => FlvFileHolds'
  BY RecordingAssumption, FlvFileStays
<1>3. FlvFileHolds => FlvIsReadable
  BY FlvFitsIsReadable DEF FlvFileHolds, FlvIsReadable
<1> QED
  BY <1>1, <1>2, <1>3, PTL DEF Spec

-----------------------------------------------------------------------------
(* A recording in MP4.                                                     *)

SampleFrames == [offset : Nat, size : Nat, time : Int]
Counts == [count : Nat, val : Int]
ChunkRuns == [chunk : Nat, samples : Nat]
Mp4Records ==
  [saving : BOOLEAN, file : Logs, base : Int, getIdr : BOOLEAN,
   frames : Seq(SampleFrames), last : Int, chunks : Seq(Nat), toChunk : Seq(ChunkRuns),
   times : Seq(Counts), cur : Nat, connected : Nat, num : Nat, torn : BOOLEAN]

LEMMA Mp4RecordIs ==
  ASSUME NEW m \in Mp4Records
  PROVE  /\ m.saving \in BOOLEAN /\ m.file \in Logs /\ m.base \in Int
         /\ m.getIdr \in BOOLEAN /\ m.frames \in Seq(SampleFrames) /\ m.last \in Int
         /\ m.chunks \in Seq(Nat) /\ m.toChunk \in Seq(ChunkRuns) /\ m.times \in Seq(Counts)
         /\ m.cur \in Nat /\ m.connected \in Nat /\ m.num \in Nat /\ m.torn \in BOOLEAN
  BY DEF Mp4Records

LEMMA LastIs ==
  ASSUME NEW S, NEW s \in Seq(S), s # <<>>
  PROVE  /\ Len(s) \in Nat /\ Len(s) >= 1 /\ Len(s) \in 1..Len(s)
         /\ Last(s) = s[Len(s)] /\ Last(s) \in S
<1>1. Len(s) \in Nat /\ Len(s) # 0
  BY LenProperties, EmptySeq
<1>2. Len(s) \in 1..Len(s)
  BY <1>1
<1> QED
  BY <1>1, <1>2, ElementOfSeq DEF Last

LEMMA CountedIs ==
  ASSUME NEW x \in Seq(Counts), NEW v \in Int PROVE Counted(x, v) \in Seq(Counts)
<1>1. CASE x = <<>> \/ Last(x).val # v
  <2>1. [count |-> 1, val |-> v] \in Counts
    BY DEF Counts
  <2> QED
    BY <1>1, <2>1, AppendProperties DEF Counted
<1>2. CASE ~(x = <<>> \/ Last(x).val # v)
  <2> DEFINE l == Len(x)
             y == [x[l] EXCEPT !.count = @ + 1]
  <2>1. l \in 1..Len(x) /\ x[l] \in Counts
    BY <1>2, LastIs
  <2>2. y \in Counts
    BY <2>1 DEF Counts
  <2>3. Counted(x, v) = [x EXCEPT ![l] = y]
    BY <1>2 DEF Counted
  <2> HIDE DEF l, y
  <2> QED
    BY <2>1, <2>2, <2>3, ExceptSeq
<1> QED
  BY <1>1, <1>2

ChunkEnded(m, v) ==
  /\ v \in Mp4Records /\ v.chunks \in Seq(Nat) /\ v.toChunk \in Seq(ChunkRuns)
  /\ v = [m EXCEPT !.chunks = v.chunks, !.toChunk = v.toChunk]

LEMMA EndChunkIs ==
  ASSUME NEW m \in Mp4Records
  PROVE  ChunkEnded(m, EndChunkInfo(m))
<1> DEFINE c == Append(m.chunks, m.cur)
           e == [chunk |-> Len(c), samples |-> m.num]
           x == m.toChunk
           y == IF x = <<>> \/ Last(x).samples # m.num THEN Append(x, e) ELSE x
           v == EndChunkInfo(m)
<1>1. /\ m.chunks \in Seq(Nat) /\ m.cur \in Nat /\ x \in Seq(ChunkRuns) /\ m.num \in Nat
  BY Mp4RecordIs
<1>2. c \in Seq(Nat) /\ Len(c) \in Nat
  BY <1>1, AppendProperties, LenProperties
<1>3. e \in ChunkRuns
  BY <1>1, <1>2 DEF ChunkRuns
<1>4. y \in Seq(ChunkRuns)
  BY <1>1, <1>3, AppendProperties
<1>5. v = [m EXCEPT !.chunks = c, !.toChunk = y]
  BY DEF EndChunkInfo
<1> HIDE DEF c, y, v
<1> QED
  <2>1. ChunkEnded(m, v)
    BY <1>2, <1>4, <1>5 DEF Mp4Records, ChunkEnded
  <2> QED
    BY <2>1 DEF v

\* The length of a unit and the unit.
Sized(m, u, t, out) == WriteFile(m.file, <<Cell("length", u.n, t)>>, out.time)
Stored(m, u, t, out) ==
  WriteFile(Sized(m, u, t, out), <<Cell(u.type, u.n, t)>>, out.tag)

LEMMA StoredIs ==
  ASSUME NEW m \in Mp4Records, m.file.pos \in Nat, NEW t \in Int, NEW out, OutFits(out),
         NEW u, UnitFits(u), u.type \in {"idr", "slice"}
  PROVE  /\ <<Cell("length", u.n, t)>> \in Seq(LogCells)
         /\ <<Cell(u.type, u.n, t)>> \in Seq(LogCells)
         /\ Left(m.file, <<Cell("length", u.n, t)>>, out.time, Sized(m, u, t, out))
         /\ Sized(m, u, t, out) \in Logs /\ Sized(m, u, t, out).pos \in Nat
         /\ Left(Sized(m, u, t, out), <<Cell(u.type, u.n, t)>>, out.tag,
                 Stored(m, u, t, out))
         /\ Stored(m, u, t, out) \in Logs /\ Stored(m, u, t, out).pos \in Nat
<1> DEFINE c == Cell("length", u.n, t)
           d == Cell(u.type, u.n, t)
           f == Sized(m, u, t, out)
           g == Stored(m, u, t, out)
<1>1. c \in LogCells /\ d \in LogCells
  BY DEF Cell, LogCells, LogNames, UnitFits
<1> HIDE DEF c, d
<1>2. /\ <<c>> \in Seq(LogCells) /\ Len(<<c>>) = 1 /\ Len(<<c>>) > 0
      /\ <<d>> \in Seq(LogCells) /\ Len(<<d>>) = 1 /\ Len(<<d>>) > 0
  BY <1>1
<1>3. out.time \in Nat /\ out.tag \in Nat
  BY DEF OutFits
<1>4. f = WriteFile(m.file, <<c>>, out.time) /\ g = WriteFile(f, <<d>>, out.tag)
  BY DEF Sized, Stored, c, d
<1> HIDE DEF f, g
<1>5. m.file \in Logs
  BY Mp4RecordIs
<1>6. Left(m.file, <<c>>, out.time, f)
  BY <1>2, <1>3, <1>4, <1>5, WriteLeaves
<1>7. f \in Logs /\ f.pos \in Nat
  <2>1. f \in Logs /\ (f.pos = m.file.pos \/ f.pos = m.file.pos + 1)
    BY <1>2, <1>6 DEF Left, Wrote
  <2> QED
    BY <2>1
<1>8. Left(f, <<d>>, out.tag, g)
  BY <1>2, <1>3, <1>4, <1>7, WriteLeaves
<1>9. g \in Logs /\ g.pos \in Nat
  <2>1. g \in Logs /\ (g.pos = f.pos \/ g.pos = f.pos + 1)
    BY <1>2, <1>8 DEF Left, Wrote
  <2> QED
    BY <1>7, <2>1
<1> QED
  BY <1>2, <1>6, <1>7, <1>8, <1>9 DEF c, d, f, g

LEMMA GetChunkInfoIs ==
  ASSUME NEW m \in Mp4Records, NEW frame \in SampleFrames
  PROVE  LET v == GetChunkInfo(m, frame)
         IN /\ v \in Mp4Records /\ v.frames = m.frames /\ v.file = m.file
            /\ v.saving = m.saving /\ v.base = m.base /\ v.getIdr = m.getIdr
            /\ v.torn = m.torn /\ v.last = m.last /\ v.times = m.times
<1> DEFINE ends == m.frames # <<>> /\ frame.offset # m.connected
           v == IF ends THEN EndChunkInfo(m) ELSE m
           c == IF ends \/ m.frames = <<>> THEN frame.offset ELSE v.cur
           n == (IF ends THEN 0 ELSE v.num) + 1
           k == frame.offset + frame.size
           y == [v EXCEPT !.cur = c, !.num = n, !.connected = k]
<1>1. GetChunkInfo(m, frame) = y
  BY DEF GetChunkInfo
<1>2. /\ v \in Mp4Records /\ v.frames = m.frames /\ v.file = m.file
      /\ v.saving = m.saving /\ v.base = m.base /\ v.getIdr = m.getIdr
      /\ v.torn = m.torn /\ v.last = m.last /\ v.times = m.times
  <2>1. CASE ends
    <3> DEFINE x == EndChunkInfo(m)
               a == x.chunks
               b == x.toChunk
    <3>1. x \in Mp4Records /\ a \in Seq(Nat) /\ b \in Seq(ChunkRuns)
          /\ x = [m EXCEPT !.chunks = a, !.toChunk = b]
      <4>1. ChunkEnded(m, EndChunkInfo(m))
        BY EndChunkIs
      <4> QED
        BY <4>1 DEF ChunkEnded
    <3> HIDE DEF x, a, b
    <3>2. /\ x.frames = m.frames /\ x.file = m.file
          /\ x.saving = m.saving /\ x.base = m.base /\ x.getIdr = m.getIdr
          /\ x.torn = m.torn /\ x.last = m.last /\ x.times = m.times
      BY <3>1 DEF Mp4Records
    <3>3. v = x
      BY <2>1 DEF x
    <3> HIDE DEF v
    <3> QED
      BY <3>1, <3>2, <3>3
  <2>2. CASE ~ends
    BY <2>2
  <2> QED
    BY <2>1, <2>2
<1>3. v.cur \in Nat /\ v.num \in Nat /\ frame.offset \in Nat /\ frame.size \in Nat
  BY <1>2, Mp4RecordIs DEF SampleFrames
<1> HIDE DEF v, ends
<1>4. c \in Nat /\ n \in Nat /\ k \in Nat
  BY <1>3
<1> HIDE DEF c, n, k
<1>5. /\ y \in Mp4Records /\ y.frames = v.frames /\ y.file = v.file
      /\ y.saving = v.saving /\ y.base = v.base /\ y.getIdr = v.getIdr
      /\ y.torn = v.torn /\ y.last = v.last /\ y.times = v.times
  BY <1>2, <1>4 DEF Mp4Records
<1> QED
  BY <1>1, <1>2, <1>5

LEMMA DecodeTimeIs ==
  ASSUME NEW m \in Mp4Records, NEW frame \in SampleFrames
  PROVE  LET v == GetVideoDecodeTime(m, frame)
         IN /\ v \in Mp4Records /\ v = [m EXCEPT !.times = v.times]
<1> DEFINE x == Larger(0, frame.time - Last(m.frames).time)
           s == IF m.frames = <<>> THEN m.times ELSE Counted(m.times, x)
           v == GetVideoDecodeTime(m, frame)
<1>1. s \in Seq(Counts)
  <2>1. ASSUME m.frames # <<>> PROVE x \in Int
    <3>1. Last(m.frames) \in SampleFrames
      BY <2>1, LastIs, Mp4RecordIs
    <3> QED
      BY <3>1 DEF SampleFrames, Larger
  <2> HIDE DEF x
  <2> QED
    BY <2>1, CountedIs, Mp4RecordIs
<1>2. v = [m EXCEPT !.times = s]
  BY DEF GetVideoDecodeTime
<1> HIDE DEF s, v
<1> QED
  BY <1>1, <1>2 DEF Mp4Records, v

LEMMA LastFrameGrows ==
  ASSUME NEW x \in Seq(SampleFrames), x # <<>>
  PROVE  LET y == [x EXCEPT ![Len(x)].size = @ + 2]
         IN /\ y \in Seq(SampleFrames) /\ Len(y) = Len(x)
            /\ \A i \in 1..Len(x) :
                 y[i] = IF i = Len(x) THEN [x[i] EXCEPT !.size = @ + 2] ELSE x[i]
<1> DEFINE l == Len(x)
           e == [x[l] EXCEPT !.size = @ + 2]
           y == [x EXCEPT ![l] = e]
<1>1. l \in 1..Len(x) /\ x[l] \in SampleFrames
  BY LastIs
<1>2. e \in SampleFrames
  <2> DEFINE f == x[l]
  <2>1. f \in SampleFrames
    BY <1>1
  <2> HIDE DEF f
  <2>2. f.size + 2 \in Nat
    BY <2>1 DEF SampleFrames
  <2>3. \A z \in Nat : [f EXCEPT !.size = z] \in SampleFrames
    BY <2>1 DEF SampleFrames
  <2>4. [f EXCEPT !.size = @ + 2] \in SampleFrames
    BY <2>2, <2>3
  <2> QED
    BY <2>4 DEF f
<1>3. [x EXCEPT ![Len(x)].size = @ + 2] = y
  OBVIOUS
<1>4. l = Len(x)
  OBVIOUS
<1> HIDE DEF l, e
<1>5. y \in Seq(SampleFrames) /\ Len(y) = Len(x) /\ y[l] = e
      /\ \A i \in 1..Len(x) : i # l => y[i] = x[i]
  <2>1. DOMAIN x = 1..Len(x)
    BY LenProperties
  <2>2. y \in Seq(SampleFrames) /\ Len(y) = Len(x)
    BY <1>1, <1>2, ExceptSeq
  <2> QED
    BY <1>1, <2>1, <2>2
<1> QED
  BY <1>3, <1>4, <1>5 DEF e

\* What is kept, whatever becomes of a unit.
Mp4Kept(m, y, F) ==
  /\ y \in Mp4Records /\ y.file = F /\ y.file.pos \in Nat
  /\ y.saving = m.saving /\ y.base = m.base /\ y.getIdr = m.getIdr

LEMMA AddPacketIs ==
  ASSUME NEW m \in Mp4Records, m.file.pos \in Nat, NEW t \in Int, NEW out, OutFits(out),
         NEW u, UnitFits(u), u.type \in {"idr", "slice"}
  PROVE  Mp4Kept(m, AddPacket(m, u, t, out), Stored(m, u, t, out))
<1> DEFINE size == Sized(m, u, t, out)
           data == Stored(m, u, t, out)
           frame == [offset |-> m.file.pos, size |-> 2, time |-> t]
           b == m.torn \/ out.time = 0
           v == [m EXCEPT !.file = data, !.torn = b]
           x == GetVideoDecodeTime(GetChunkInfo(v, frame), frame)
           s == Append(x.frames, frame)
           k == t + 1
           y == [x EXCEPT !.frames = s, !.last = k]
           z == [v EXCEPT !.frames[Len(m.frames)].size = @ + 2, !.last = k,
                         !.torn = @ \/ m.file.pos # Last(m.frames).offset
                                                    + Last(m.frames).size]
<1>1. AddPacket(m, u, t, out) = IF data.pos = size.pos THEN v
                                ELSE IF m.frames = <<>> \/ t # m.last THEN y ELSE z
  BY Zenon DEF AddPacket, Sized, Stored
<1>2. data \in Logs /\ data.pos \in Nat
  BY StoredIs
<1>3. b \in BOOLEAN
  BY Mp4RecordIs
<1>4. frame \in SampleFrames
  BY DEF SampleFrames
<1> HIDE DEF data, size, b, frame
<1>5. /\ v \in Mp4Records /\ v.file = data /\ v.saving = m.saving /\ v.base = m.base
      /\ v.getIdr = m.getIdr /\ v.frames = m.frames /\ v.torn = b
  BY <1>2, <1>3 DEF Mp4Records
<1> HIDE DEF v
<1>6. /\ x \in Mp4Records /\ x.file = data /\ x.saving = m.saving /\ x.base = m.base
      /\ x.getIdr = m.getIdr
  <2> DEFINE g == GetChunkInfo(v, frame)
  <2>1. /\ g \in Mp4Records /\ g.file = data /\ g.saving = m.saving /\ g.base = m.base
        /\ g.getIdr = m.getIdr
    BY <1>4, <1>5, GetChunkInfoIs
  <2> HIDE DEF g
  <2>2. x \in Mp4Records /\ x = [g EXCEPT !.times = x.times]
    BY <1>4, <2>1, DecodeTimeIs DEF g
  <2> HIDE DEF x
  <2>3. x.times \in Seq(Counts)
    BY <2>2, Mp4RecordIs
  <2> QED
    BY <2>1, <2>2, <2>3 DEF Mp4Records
<1>7. s \in Seq(SampleFrames)
  BY <1>4, <1>6, Mp4RecordIs, AppendProperties
<1>10. k \in Int
  OBVIOUS
<1> HIDE DEF x, s, k
<1>8. /\ y \in Mp4Records /\ y.file = data /\ y.saving = m.saving /\ y.base = m.base
      /\ y.getIdr = m.getIdr
  BY <1>6, <1>7, <1>10 DEF Mp4Records
<1>9. ASSUME m.frames # <<>>
      PROVE  /\ z \in Mp4Records /\ z.file = data /\ z.saving = m.saving /\ z.base = m.base
             /\ z.getIdr = m.getIdr
  <2> DEFINE q == m.frames
             r == [q EXCEPT ![Len(q)].size = @ + 2]
             c == v.torn \/ m.file.pos # Last(m.frames).offset + Last(m.frames).size
  <2>1. r \in Seq(SampleFrames)
    BY <1>9, LastFrameGrows, Mp4RecordIs
  <2>2. c \in BOOLEAN
    BY <1>3, <1>5
  <2>3. z = [v EXCEPT !.frames = r, !.last = k, !.torn = c]
    BY <1>5
  <2> HIDE DEF r, c, z
  <2> QED
    BY <1>5, <1>10, <2>1, <2>2, <2>3 DEF Mp4Records
<1> HIDE DEF y, z
<1> QED
  BY <1>1, <1>2, <1>5, <1>8, <1>9 DEF Mp4Kept, data

\* The time begins with the first unit, the file with the first IDR.
Begun(m, u) == [m EXCEPT !.base = IF @ = -1 THEN u.ts ELSE @,
                         !.getIdr = @ \/ (m.file.opens /\ u.type = "idr")]
BegunIs(m, u, v) ==
  /\ v \in Mp4Records /\ v.file = m.file /\ v.saving = m.saving
  /\ v.base = (IF m.base = -1 THEN u.ts ELSE m.base)
  /\ v.getIdr = (m.getIdr \/ (m.file.opens /\ u.type = "idr"))
StoredBy(u, out, v, y) ==
  IF ~v.getIdr \/ u.type \in {"sps", "pps"} THEN y = v
  ELSE u.type \in {"idr", "slice"} /\ Mp4Kept(v, y, Stored(v, u, u.ts - v.base, out))

LEMMA AddToMp4Is ==
  ASSUME NEW m \in Mp4Records, m.file.pos \in Nat, NEW out, OutFits(out),
         NEW u, UnitFits(u)
  PROVE  /\ BegunIs(m, u, Begun(m, u))
         /\ StoredBy(u, out, Begun(m, u), AddToMp4(m, u, out))
<1> DEFINE b == IF m.base = -1 THEN u.ts ELSE m.base
           g == m.getIdr \/ (m.file.opens /\ u.type = "idr")
           v == [m EXCEPT !.base = b, !.getIdr = g]
           y == AddToMp4(m, u, out)
<1>1. /\ m.base \in Int /\ m.getIdr \in BOOLEAN /\ m.file \in Logs
      /\ u.ts \in Int /\ u.type \in {"sps", "pps", "idr", "slice"}
  BY Mp4RecordIs DEF UnitFits
<1>2. b \in Int /\ g \in BOOLEAN
  BY <1>1
<1>3. y = IF ~v.getIdr \/ u.type \in {"sps", "pps"} THEN v
          ELSE AddPacket(v, u, u.ts - v.base, out)
  BY DEF AddToMp4
<1>4. v = Begun(m, u)
  BY DEF Begun
<1> HIDE DEF b, g
<1>5. /\ v \in Mp4Records /\ v.file = m.file /\ v.saving = m.saving /\ v.base = b
      /\ v.getIdr = g
  BY <1>2 DEF Mp4Records
<1> HIDE DEF v, y
<1>6. ASSUME ~(~v.getIdr \/ u.type \in {"sps", "pps"})
      PROVE  /\ u.type \in {"idr", "slice"}
             /\ Mp4Kept(v, AddPacket(v, u, u.ts - v.base, out), Stored(v, u, u.ts - v.base, out))
  <2>1. u.type \in {"idr", "slice"}
    BY <1>1, <1>6
  <2>2. u.ts - v.base \in Int /\ v.file.pos \in Nat
    BY <1>1, <1>2, <1>5
  <2> QED
    BY <1>5, <2>1, <2>2, AddPacketIs
<1>7. /\ v \in Mp4Records /\ v.file = m.file /\ v.saving = m.saving
      /\ v.base = (IF m.base = -1 THEN u.ts ELSE m.base)
      /\ v.getIdr = (m.getIdr \/ (m.file.opens /\ u.type = "idr"))
  BY <1>5 DEF b, g
<1>8. IF ~v.getIdr \/ u.type \in {"sps", "pps"} THEN y = v
      ELSE u.type \in {"idr", "slice"} /\ Mp4Kept(v, y, Stored(v, u, u.ts - v.base, out))
  BY <1>3, <1>6
<1> QED
  BY <1>4, <1>7, <1>8 DEF y, BegunIs, StoredBy

LEMMA AddedToMp4 ==
  ASSUME NEW m \in Mp4Records, m.file.pos \in Nat, NEW out, OutFits(out),
         NEW u, UnitFits(u)
  PROVE  AddToMp4(m, u, out) \in Mp4Records /\ AddToMp4(m, u, out).file.pos \in Nat
<1> DEFINE y == AddToMp4(m, u, out)
           v == Begun(m, u)
<1>1. BegunIs(m, u, v) /\ StoredBy(u, out, v, y)
  BY AddToMp4Is
<1> HIDE DEF y, v
<1>2. v \in Mp4Records /\ v.file = m.file
  BY <1>1 DEF BegunIs
<1>3. y \in Mp4Records /\ y.file.pos \in Nat
  BY <1>1, <1>2 DEF Mp4Kept, StoredBy
<1> QED
  BY <1>3 DEF y

LEMMA CloseMp4Is ==
  ASSUME NEW m \in Mp4Records
  PROVE  /\ CloseMp4(m) \in Mp4Records /\ CloseMp4(m).file = m.file
         /\ ~CloseMp4(m).saving
<1> DEFINE v == EndChunkInfo(m)
           s == IF m.num > 1 THEN Counted(v.times, IF v.times = <<>> THEN 0 ELSE Last(v.times).val)
                ELSE v.times
<1>1. v \in Mp4Records /\ v.file = m.file
  <2> DEFINE a == v.chunks
             b == v.toChunk
  <2>1. v \in Mp4Records /\ a \in Seq(Nat) /\ b \in Seq(ChunkRuns)
        /\ v = [m EXCEPT !.chunks = a, !.toChunk = b]
    <3>1. ChunkEnded(m, EndChunkInfo(m))
      BY EndChunkIs
    <3> QED
      BY <3>1 DEF ChunkEnded
  <2> HIDE DEF v, a, b
  <2> QED
    BY <2>1 DEF Mp4Records
<1> DEFINE y == [v EXCEPT !.saving = FALSE, !.times = s]
           z == [m EXCEPT !.saving = FALSE]
<1>2. CloseMp4(m) = IF ~m.file.opens THEN z ELSE y
  BY DEF CloseMp4
<1> HIDE DEF v
<1>3. s \in Seq(Counts)
  <2> DEFINE x == v.times
             k == IF x = <<>> THEN 0 ELSE Last(x).val
  <2>1. x \in Seq(Counts)
    BY <1>1, Mp4RecordIs
  <2>2. k \in Int
    <3>1. x # <<>> => Last(x) \in Counts
      BY <2>1, LastIs
    <3> QED
      BY <3>1 DEF Counts
  <2>3. s = IF m.num > 1 THEN Counted(x, k) ELSE x
    OBVIOUS
  <2> HIDE DEF x, k, s
  <2> QED
    BY <2>1, <2>2, <2>3, CountedIs
<1> HIDE DEF s
<1>4. y \in Mp4Records /\ y.file = m.file /\ ~y.saving
  BY <1>1, <1>3 DEF Mp4Records
<1>5. z \in Mp4Records /\ z.file = m.file /\ ~z.saving
  BY DEF Mp4Records
<1> HIDE DEF y, z
<1> QED
  BY <1>2, <1>4, <1>5

LEMMA NewMp4Is ==
  ASSUME NEW opens \in BOOLEAN
  PROVE  LET m == NewMp4(opens)
         IN /\ m \in Mp4Records /\ m.saving /\ m.base = -1 /\ ~m.getIdr
            /\ m.file = WriteFile(Create(opens), Boxes, 1)
            /\ Left(Create(opens), Boxes, 1, m.file) /\ m.file.pos \in Nat
            /\ m.file.opens = opens /\ m.frames = <<>> /\ m.times = <<>>
<1> DEFINE c == Create(opens)
           b == Cell("box", 0, 0)
           f == WriteFile(c, Boxes, 1)
           m == NewMp4(opens)
<1>1. c \in Logs /\ c.pos = 0 /\ Len(c.data) = 0 /\ c.opens = opens
  BY DEF Create, Logs
<1> HIDE DEF c
<1>2. b \in LogCells
  BY DEF Cell, LogCells, LogNames
<1>3. Boxes \in Seq(LogCells) /\ Len(Boxes) = 1 /\ Len(Boxes) > 0
  <2> HIDE DEF b
  <2>1. <<b>> \in Seq(LogCells) /\ Len(<<b>>) = 1
    BY <1>2
  <2> QED
    BY <2>1 DEF Boxes, b
<1>4. Left(c, Boxes, 1, f)
  <2>1. c.pos \in Nat
    BY <1>1
  <2> QED
    BY <1>1, <1>3, <2>1, WriteLeaves
<1>5. m = [saving |-> TRUE, file |-> f, base |-> -1, getIdr |-> FALSE, frames |-> <<>>,
           last |-> -1, chunks |-> <<>>, toChunk |-> <<>>, times |-> <<>>,
           cur |-> 0, connected |-> 0, num |-> 0, torn |-> FALSE]
  BY DEF NewMp4, c
<1> HIDE DEF f, m
<1>6. f \in Logs /\ f.pos \in Nat /\ f.opens = opens
  BY <1>1, <1>3, <1>4 DEF Left, Wrote
<1>7. /\ m \in Mp4Records /\ m.saving /\ m.base = -1 /\ ~m.getIdr /\ m.file = f
      /\ m.frames = <<>> /\ m.times = <<>>
  BY <1>5, <1>6 DEF Mp4Records
<1> QED
  BY <1>4, <1>6, <1>7 DEF m, f, c

-----------------------------------------------------------------------------
(* Recordings while the disk does not fail.                                *)

\* What a write adds to the end of a file.
Extended(f, s, g) ==
  /\ g \in Logs /\ g.opens /\ g.pos = Len(g.data)
  /\ Len(g.data) = Len(f.data) + Len(s)
  /\ \A i \in 1..Len(f.data) : g.data[i] = f.data[i]
  /\ \A i \in 1..Len(s) : g.data[Len(f.data) + i] = s[i]

LEMMA WellWrites ==
  ASSUME NEW f \in Logs, f.opens, f.pos = Len(f.data), NEW s \in Seq(LogCells),
         Len(s) > 0, NEW n \in Nat, n >= Len(s), NEW g, Left(f, s, n, g)
  PROVE  Extended(f, s, g)
<1>1. Len(f.data) \in Nat /\ Len(s) \in Nat
  BY LogIs, LenProperties
<1>2. /\ g \in Logs /\ g.opens = f.opens
      /\ \A i \in 1..Len(f.data) :
           \/ g.data[i] = f.data[i]
           \/ i - f.pos \in 1..Len(s) /\ g.data[i] = s[i - f.pos]
      /\ \/ g.pos = f.pos
         \/ \A i \in 1..Len(s) : g.data[f.pos + i] = s[i]
      /\ g.pos = f.pos + Len(s) /\ Len(g.data) = Larger(Len(f.data), f.pos + Len(s))
  BY DEF Left, Wrote
<1>3. Len(g.data) = Len(f.data) + Len(s) /\ g.pos = Len(g.data)
  BY <1>1, <1>2 DEF Larger
<1>4. \A i \in 1..Len(f.data) : g.data[i] = f.data[i]
  BY <1>1, <1>2
<1>5. \A i \in 1..Len(s) : g.data[Len(f.data) + i] = s[i]
  BY <1>1, <1>2
<1> QED
  BY <1>2, <1>3, <1>4, <1>5 DEF Extended

\* The pictures in data, by the times from a first one on.
IsPicture(c) == c.is \in {"idr", "slice"}
Picture(c, b) == [unit |-> c.unit, ts |-> c.time + b]
Shown(d, b) == {Picture(d[i], b) : i \in {j \in 1..Len(d) : IsPicture(d[j])}}

\* Cells that take the place of others, and more, are pictures or not.
LEMMA NothingShown ==
  ASSUME NEW d \in Seq(LogCells), \A i \in 1..Len(d) : ~IsPicture(d[i]), NEW b
  PROVE  Shown(d, b) = {}
  BY DEF Shown

LEMMA ShownGrows ==
  ASSUME NEW d \in Seq(LogCells), NEW e \in Seq(LogCells), Len(e) >= Len(d),
         \A i \in 1..Len(d) : e[i] = d[i] \/ (~IsPicture(e[i]) /\ ~IsPicture(d[i])),
         NEW b
  PROVE  Shown(e, b) = Shown(d, b) \cup
           {Picture(e[i], b) : i \in {j \in (Len(d) + 1)..Len(e) : IsPicture(e[j])}}
<1> DEFINE N == {Picture(e[i], b) : i \in {j \in (Len(d) + 1)..Len(e) : IsPicture(e[j])}}
           P(x, i) == Picture(x[i], b)
<1>1. Len(d) \in Nat /\ Len(e) \in Nat
  BY LenProperties
<1>2. ASSUME NEW p PROVE p \in Shown(e, b) <=> \E i \in 1..Len(e) : IsPicture(e[i]) /\ p = P(e, i)
  BY DEF Shown
<1>3. ASSUME NEW p PROVE p \in Shown(d, b) <=> \E i \in 1..Len(d) : IsPicture(d[i]) /\ p = P(d, i)
  BY DEF Shown
<1>4. ASSUME NEW p
      PROVE  p \in N <=> \E i \in (Len(d) + 1)..Len(e) : IsPicture(e[i]) /\ p = P(e, i)
  OBVIOUS
<1>5. ASSUME NEW i \in 1..Len(d)
      PROVE  (IsPicture(e[i]) <=> IsPicture(d[i])) /\ (IsPicture(e[i]) => P(e, i) = P(d, i))
  OBVIOUS
<1> HIDE DEF N, P
<1>6. ASSUME NEW p PROVE p \in Shown(e, b) <=> p \in Shown(d, b) \/ p \in N
  <2>1. ASSUME p \in Shown(e, b) PROVE p \in Shown(d, b) \/ p \in N
    <3>1. PICK i \in 1..Len(e) : IsPicture(e[i]) /\ p = P(e, i)
      BY <2>1, <1>2
    <3>2. CASE i <= Len(d)
      <4>1. i \in 1..Len(d)
        BY <3>2, <1>1
      <4> QED
        BY <3>1, <4>1, <1>3, <1>5
    <3>3. CASE ~(i <= Len(d))
      <4>1. i \in (Len(d) + 1)..Len(e)
        BY <3>3, <1>1
      <4> QED
        BY <3>1, <4>1, <1>4
    <3> QED
      BY <3>2, <3>3
  <2>2. ASSUME p \in Shown(d, b) PROVE p \in Shown(e, b)
    <3>1. PICK i \in 1..Len(d) : IsPicture(d[i]) /\ p = P(d, i)
      BY <2>2, <1>3
    <3>2. i \in 1..Len(e)
      BY <1>1
    <3> QED
      BY <3>1, <3>2, <1>2, <1>5
  <2>3. ASSUME p \in N PROVE p \in Shown(e, b)
    <3>1. PICK i \in (Len(d) + 1)..Len(e) : IsPicture(e[i]) /\ p = P(e, i)
      BY <2>3, <1>4
    <3>2. i \in 1..Len(e)
      BY <1>1
    <3> QED
      BY <3>1, <3>2, <1>2
  <2> QED
    BY <2>1, <2>2, <2>3
<1>7. Shown(e, b) = Shown(d, b) \cup N
  BY <1>6
<1> QED
  BY <1>7 DEF N

\* One picture more behind, or none.
OneMore(d, e, k) ==
  /\ Len(e) >= Len(d) /\ k \in (Len(d) + 1)..Len(e)
  /\ \A i \in 1..Len(d) : e[i] = d[i] \/ (~IsPicture(e[i]) /\ ~IsPicture(d[i]))
  /\ \A i \in (Len(d) + 1)..Len(e) : i # k => ~IsPicture(e[i])

LEMMA OneMoreShown ==
  ASSUME NEW d \in Seq(LogCells), NEW e \in Seq(LogCells), NEW b, NEW k, OneMore(d, e, k)
  PROVE  Shown(e, b) = Shown(d, b) \cup (IF IsPicture(e[k]) THEN {Picture(e[k], b)} ELSE {})
<1> DEFINE N == {Picture(e[i], b) : i \in {j \in (Len(d) + 1)..Len(e) : IsPicture(e[j])}}
<1>1. N = IF IsPicture(e[k]) THEN {Picture(e[k], b)} ELSE {}
  <2>1. CASE IsPicture(e[k])
    <3>1. {j \in (Len(d) + 1)..Len(e) : IsPicture(e[j])} = {k}
      BY <2>1 DEF OneMore
    <3> QED
      BY <2>1, <3>1
  <2>2. CASE ~IsPicture(e[k])
    <3>1. {j \in (Len(d) + 1)..Len(e) : IsPicture(e[j])} = {}
      BY <2>2 DEF OneMore
    <3> QED
      BY <2>2, <3>1
  <2> QED
    BY <2>1, <2>2
<1>2. Shown(e, b) = Shown(d, b) \cup N
  <2>1. /\ Len(e) >= Len(d)
        /\ \A i \in 1..Len(d) : e[i] = d[i] \/ (~IsPicture(e[i]) /\ ~IsPicture(d[i]))
    BY DEF OneMore
  <2> QED
    BY <2>1, ShownGrows
<1> HIDE DEF N
<1> QED
  BY <1>1, <1>2

LEMMA NothingMoreShown ==
  ASSUME NEW d \in Seq(LogCells), NEW e \in Seq(LogCells), Len(e) = Len(d),
         \A i \in 1..Len(d) : e[i] = d[i] \/ (~IsPicture(e[i]) /\ ~IsPicture(d[i])),
         NEW b
  PROVE  Shown(e, b) = Shown(d, b)
<1> DEFINE N == {Picture(e[i], b) : i \in {j \in (Len(d) + 1)..Len(e) : IsPicture(e[j])}}
<1>1. Len(d) \in Nat /\ Len(e) >= Len(d)
  BY LenProperties
<1>2. (Len(d) + 1)..Len(e) = {}
  BY <1>1
<1>3. N = {}
  BY <1>2
<1>4. Shown(e, b) = Shown(d, b) \cup N
  BY <1>1, ShownGrows
<1> HIDE DEF N
<1> QED
  BY <1>3, <1>4

\* What a unit shows.
Newest(u) == IF u.type \in {"idr", "slice"} THEN {[unit |-> u.n, ts |-> u.ts]} ELSE {}

LEMMA WellIs ==
  /\ Well.header = 4 /\ Well.tag = 2 /\ Well.time = 1 /\ Well.offset = 1
  /\ Well.duration = 1 /\ Well.size = 1 /\ OutFits(Well)
  BY DEF Well, OutFits

LEMMA FlvTagIs ==
  ASSUME NEW w, NEW t \in Int, NEW u, UnitFits(u), u.type # "sps"
  PROVE  /\ Tag(w, u, t) \in Seq(LogCells) /\ Len(Tag(w, u, t)) = 2
         /\ IsPicture(Tag(w, u, t)[1]) <=> u.type \in {"idr", "slice"}
         /\ Tag(w, u, t)[1].unit = u.n /\ Tag(w, u, t)[1].time = t
         /\ ~IsPicture(Tag(w, u, t)[2])
<1> DEFINE k == IF u.type = "pps" THEN "config" ELSE u.type
           c == Cell(k, u.n, t)
           d == Cell("back", u.n, t)
<1>1. /\ u.n \in Nat /\ u.type \in {"pps", "idr", "slice"}
  BY DEF UnitFits
<1>2. k \in {"config", "idr", "slice"} /\ (k \in {"idr", "slice"} <=> u.type \in {"idr", "slice"})
  BY <1>1
<1>3. Tag(w, u, t) = <<c, d>>
  BY DEF Tag
<1> HIDE DEF k
<1>4. /\ c \in LogCells /\ c.is = k /\ c.unit = u.n /\ c.time = t
      /\ d \in LogCells /\ d.is = "back"
  BY <1>1, <1>2 DEF Cell, LogCells, LogNames
<1> HIDE DEF c, d
<1>5. <<c, d>> \in Seq(LogCells) /\ Len(<<c, d>>) = 2 /\ <<c, d>>[1] = c /\ <<c, d>>[2] = d
  BY <1>4
<1> QED
  BY <1>2, <1>3, <1>4, <1>5 DEF IsPicture

\* A unit that a recording in FLV writes, at the end of its file.
WellWritten(w, u, y) ==
  /\ y.file \in Logs /\ y.file.opens /\ y.file.pos = Len(y.file.data)
  /\ Shown(y.file.data, w.first) = Shown(w.file.data, w.first) \cup Newest(u)

LEMMA WellPacket ==
  ASSUME NEW w \in FlvRecords, w.file.opens, w.file.pos = Len(w.file.data),
         Len(w.file.data) >= 4, ~IsPicture(w.file.data[2]), NEW u, UnitFits(u),
         NEW y \in FlvRecords, TagWritten(w, u, Well, y)
  PROVE  WellWritten(w, u, y)
<1> DEFINE d == w.file.data
           e == y.file.data
           t == u.ts - w.first
           s == Tag(w, u, t)
           p == Len(d)
<1>1. /\ w.file \in Logs /\ y.file \in Logs /\ d \in Seq(LogCells) /\ e \in Seq(LogCells)
      /\ p \in Nat /\ Len(e) \in Nat /\ w.first \in Int /\ u.ts \in Nat /\ u.n \in Nat
      /\ u.type \in {"sps", "pps", "idr", "slice"}
  BY FlvRecordIs, LogIs DEF UnitFits
<1>2. t \in Int /\ t + w.first = u.ts
  BY <1>1
<1>3. PICK g \in Logs :
        /\ IF u.type = "sps" THEN g = w.file ELSE Left(w.file, s, Well.tag, g)
        /\ y.file.pos = g.pos /\ y.file.opens = g.opens
        /\ Len(g.data) >= 2 => Len(e) = Len(g.data)
        /\ \A i \in 1..Len(g.data) : e[i] = g.data[i] \/ (i = 2 /\ e[i].is = "duration")
  BY DEF TagWritten
<1> HIDE DEF t, s
<1>4. CASE u.type = "sps"
  <2>1. g = w.file
    BY <1>3, <1>4
  <2>2. y.file.opens /\ y.file.pos = p /\ Len(e) = p
    BY <1>3, <2>1
  <2>3. \A i \in 1..Len(d) : e[i] = d[i] \/ (~IsPicture(e[i]) /\ ~IsPicture(d[i]))
    BY <1>3, <2>1 DEF IsPicture
  <2>5. Len(e) = Len(d)
    BY <2>2
  <2> HIDE DEF d, e, p
  <2>6. Shown(e, w.first) = Shown(d, w.first)
    BY <1>1, <2>3, <2>5, NothingMoreShown
  <2>7. Newest(u) = {}
    BY <1>4 DEF Newest
  <2> QED
    BY <1>1, <2>2, <2>6, <2>7 DEF WellWritten, d, e, p
<1>5. CASE u.type # "sps"
  <2>1. /\ s \in Seq(LogCells) /\ Len(s) = 2 /\ Len(s) > 0
        /\ IsPicture(s[1]) <=> u.type \in {"idr", "slice"}
        /\ s[1].unit = u.n /\ s[1].time = t
        /\ ~IsPicture(s[2])
    BY <1>2, <1>5, FlvTagIs DEF s
  <2>2. Left(w.file, s, 2, g)
    BY <1>3, <1>5, WellIs
  <2>3. Extended(w.file, s, g)
    <3> DEFINE f == w.file
               n == 2
    <3>1. f \in Logs /\ f.opens /\ f.pos = Len(f.data) /\ n \in Nat /\ n >= Len(s)
      BY <1>1, <2>1
    <3>2. Left(f, s, n, g)
      BY <2>2
    <3> HIDE DEF f, n
    <3>3. Extended(f, s, g)
      BY <2>1, <3>1, <3>2, WellWrites
    <3> QED
      BY <3>3 DEF f
  <2>4. /\ g.opens /\ g.pos = Len(g.data) /\ Len(g.data) = p + 2
        /\ \A i \in 1..p : g.data[i] = d[i]
        /\ g.data[p + 1] = s[1] /\ g.data[p + 2] = s[2]
    BY <2>1, <2>3 DEF Extended
  <2>5. y.file.opens /\ y.file.pos = Len(e) /\ Len(e) = p + 2
    BY <1>1, <1>3, <2>4
  <2>6. ASSUME NEW i \in 1..p PROVE e[i] = d[i] \/ (~IsPicture(e[i]) /\ ~IsPicture(d[i]))
    <3>1. i \in 1..Len(g.data) /\ g.data[i] = d[i]
      BY <1>1, <2>4
    <3> QED
      BY <1>3, <3>1 DEF IsPicture
  <2>7. e[p + 1] = s[1] /\ e[p + 2] = s[2]
    <3>1. p + 1 \in 1..Len(g.data) /\ p + 2 \in 1..Len(g.data) /\ p + 1 # 2 /\ p + 2 # 2
      BY <1>1, <2>4
    <3> QED
      BY <1>3, <2>4, <3>1
  <2>8. /\ Len(e) >= p /\ p + 1 \in (p + 1)..Len(e)
        /\ \A i \in (p + 1)..Len(e) : i # p + 1 => i = p + 2
    <3> HIDE DEF d, e, p
    <3> QED
      BY <1>1, <2>5
  <2>9. \A i \in (p + 1)..Len(e) : i # p + 1 => ~IsPicture(e[i])
    BY <2>1, <2>7, <2>8
  <2> DEFINE k == p + 1
  <2>10. Shown(e, w.first) = Shown(d, w.first) \cup
           (IF IsPicture(e[k]) THEN {Picture(e[k], w.first)} ELSE {})
    <3> HIDE DEF d, e, k
    <3>1. OneMore(d, e, k)
      BY <2>6, <2>8, <2>9 DEF k, OneMore
    <3> QED
      BY <1>1, <3>1, OneMoreShown
  <2>11. (IF IsPicture(e[k]) THEN {Picture(e[k], w.first)} ELSE {}) = Newest(u)
    <3>1. Picture(e[k], w.first) = [unit |-> u.n, ts |-> u.ts]
      BY <1>2, <2>1, <2>7 DEF Picture
    <3> QED
      BY <2>1, <2>7, <3>1 DEF Newest
  <2> QED
    BY <1>1, <2>5, <2>10, <2>11 DEF WellWritten
<1> QED
  BY <1>4, <1>5

\* A recording in FLV of which every write got out.
FlvWell(w) ==
  /\ w.saving /\ w.file.opens /\ w.file.pos = Len(w.file.data)
  /\ w.meta => w.headed
  /\ ~w.meta => Len(w.file.data) = 0
  /\ ~w.keyed => Shown(w.file.data, w.first) = {}

LEMMA EmptyIsWell ==
  ASSUME NEW w \in FlvRecords, w.saving, w.file.opens, w.file.pos = Len(w.file.data),
         Len(w.file.data) = 0, ~w.meta, ~w.keyed
  PROVE  FlvWell(w)
<1>1. w.file.data \in Seq(LogCells)
  BY FlvRecordIs, LogIs
<1>2. \A i \in 1..Len(w.file.data) : ~IsPicture(w.file.data[i])
  OBVIOUS
<1>3. Shown(w.file.data, w.first) = {}
  BY <1>1, <1>2, NothingShown
<1> QED
  BY <1>3 DEF FlvWell

LEMMA WellHeader ==
  ASSUME NEW w \in FlvRecords, w.saving, w.file.opens, w.file.pos = Len(w.file.data),
         Len(w.file.data) = 0, ~w.meta, ~w.keyed
  PROVE  FlvWell(GenerateMetaData(w, Well)) /\ ~GenerateMetaData(w, Well).keyed
<1> DEFINE f == WriteFile(w.file, Header, 4)
           b == f.pos = 4
           y == [w EXCEPT !.file = f, !.meta = TRUE, !.headed = b]
<1>1. Header \in Seq(LogCells) /\ Len(Header) = 4 /\ w.file \in Logs /\ Len(Header) > 0
  BY HeaderCells, FlvRecordIs
<1>2. Left(w.file, Header, 4, f) /\ Extended(w.file, Header, f)
  <2> DEFINE n == 4
             g == w.file
  <2>1. /\ g \in Logs /\ g.pos \in Nat /\ g.opens /\ g.pos = Len(g.data)
        /\ n \in Nat /\ n >= Len(Header)
    BY <1>1
  <2>2. f = WriteFile(g, Header, n)
    OBVIOUS
  <2> HIDE DEF f, n, g
  <2>3. Left(g, Header, n, f)
    BY <1>1, <2>1, <2>2, WriteLeaves
  <2>4. Extended(g, Header, f)
    BY <1>1, <2>1, <2>3, WellWrites
  <2> QED
    BY <2>3, <2>4 DEF g, n
<1> HIDE DEF f
<1>3. Extended(w.file, Header, f)
  BY <1>2
<1>4. /\ f \in Logs /\ f.opens /\ f.pos = Len(f.data) /\ Len(f.data) = 4 /\ b
      /\ \A i \in 1..4 : f.data[i] = Header[i]
  BY <1>1, <1>3 DEF Extended
<1>5. \A i \in 1..4 : ~IsPicture(Header[i])
  <2>1. PICK h1, h2, h3, h4 \in LogCells :
          /\ Header[1] = h1 /\ Header[2] = h2 /\ Header[3] = h3 /\ Header[4] = h4
          /\ h1.is = "flv" /\ h2.is = "duration" /\ h3.is = "size" /\ h4.is = "back"
    BY HeaderCells
  <2> QED
    BY <2>1 DEF IsPicture
<1>6. Shown(f.data, w.first) = {}
  <2>1. f.data \in Seq(LogCells) /\ \A i \in 1..Len(f.data) : ~IsPicture(f.data[i])
    BY <1>4, <1>5, LogIs
  <2> QED
    BY <2>1, NothingShown
<1>7. w.good => GenerateMetaData(w, Well) = y
  BY <1>1, WellIs DEF GenerateMetaData, f
<1>8. b \in BOOLEAN
  OBVIOUS
<1> HIDE DEF b
<1>9. /\ y.file = f /\ y.meta /\ y.headed = b /\ y.saving = w.saving /\ y.keyed = w.keyed
      /\ y.first = w.first
  BY <1>4, <1>8 DEF FlvRecords
<1> HIDE DEF y
<1>10. FlvWell(y) /\ ~y.keyed
  BY <1>4, <1>6, <1>9 DEF FlvWell
<1>11. CASE w.good
  BY <1>7, <1>10, <1>11
<1>12. CASE ~w.good
  BY <1>12, EmptyIsWell DEF GenerateMetaData
<1> QED
  BY <1>11, <1>12

LEMMA WithSetsIs ==
  ASSUME NEW w \in FlvRecords, NEW s \in Nat, NEW p \in Nat, NEW b \in BOOLEAN, NEW t \in Int
  PROVE  LET y == WithSets(w, s, p, b, t)
         IN /\ y \in FlvRecords /\ y.saving = w.saving /\ y.file = w.file
            /\ y.meta = w.meta /\ y.keyed = w.keyed /\ y.sps = s /\ y.pps = p
  BY DEF FlvRecords, WithSets

LEMMA WellTaken ==
  ASSUME NEW w \in FlvRecords, ~Get(w), ~w.meta, ~w.keyed, FlvWell(w), NEW u, UnitFits(u)
  PROVE  FlvWell(TakeSet(w, u, Well)) /\ ~TakeSet(w, u, Well).keyed
<1>1. /\ u.n \in Nat /\ u.ts \in Int /\ u.good \in BOOLEAN
      /\ w.sps \in Nat /\ w.pps \in Nat /\ w.good \in BOOLEAN
  BY FlvRecordIs DEF UnitFits
<1>2. /\ w.saving /\ w.file.opens /\ w.file.pos = Len(w.file.data) /\ Len(w.file.data) = 0
  BY DEF FlvWell
<1>3. CASE u.type = "sps"
  <2> DEFINE y == [w EXCEPT !.sps = u.n, !.good = u.good, !.first = u.ts]
             a == u.n
             p == w.pps
             b == u.good
             t == u.ts
             z == WithSets(w, a, p, b, t)
  <2>1. TakeSet(w, u, Well) = y
    BY <1>3 DEF TakeSet
  <2>2. y = z
    BY <1>1 DEF FlvRecords, WithSets
  <2>3. a \in Nat /\ p \in Nat /\ b \in BOOLEAN /\ t \in Int
    BY <1>1
  <2> HIDE DEF a, p, b, t, y
  <2>4. /\ z \in FlvRecords /\ z.saving = w.saving /\ z.file = w.file
        /\ z.meta = w.meta /\ z.keyed = w.keyed
    BY <2>3, WithSetsIs
  <2> HIDE DEF z
  <2>5. FlvWell(z) /\ ~z.keyed
    BY <1>2, <2>4, EmptyIsWell
  <2> QED
    BY <2>1, <2>2, <2>5
<1>4. CASE u.type = "pps"
  <2> DEFINE y == [w EXCEPT !.pps = u.n, !.first = u.ts]
             a == w.sps
             p == u.n
             b == w.good
             t == u.ts
             z == WithSets(w, a, p, b, t)
  <2>1. TakeSet(w, u, Well) = IF w.sps # 0 THEN GenerateMetaData(y, Well) ELSE y
    BY <1>4, "sps" # "pps" DEF TakeSet
  <2>2. y = z
    BY <1>1 DEF FlvRecords, WithSets
  <2>3. a \in Nat /\ p \in Nat /\ b \in BOOLEAN /\ t \in Int
    BY <1>1
  <2> HIDE DEF a, p, b, t, y
  <2>4. /\ z \in FlvRecords /\ z.saving = w.saving /\ z.file = w.file
        /\ z.meta = w.meta /\ z.keyed = w.keyed
    BY <2>3, WithSetsIs
  <2> HIDE DEF z
  <2>5. FlvWell(z) /\ ~z.keyed
    BY <1>2, <2>4, EmptyIsWell
  <2>6. FlvWell(GenerateMetaData(z, Well)) /\ ~GenerateMetaData(z, Well).keyed
    BY <1>2, <2>4, WellHeader
  <2> QED
    BY <2>1, <2>2, <2>5, <2>6
<1>5. CASE u.type \notin {"sps", "pps"}
  BY <1>5 DEF TakeSet
<1> QED
  BY <1>3, <1>4, <1>5

\* A unit in a recording of which every write gets out.
FlvShows(w, u, y) ==
  /\ FlvWell(y)
  /\ w.keyed => y.keyed
  /\ y.keyed /\ ~w.keyed => u.type = "idr"
  /\ Shown(y.file.data, y.first) = IF y.keyed
                                   THEN Shown(w.file.data, w.first) \cup Newest(u) ELSE {}

LEMMA WellProcessed ==
  ASSUME NEW w, NEW n \in Nat, NEW ts \in Nat, FlvFits(w, n, ts), FlvWell(w),
         NEW u, UnitFits(u)
  PROVE  FlvShows(w, u, ProcessPacket(w, u, Well))
<1> DEFINE y == ProcessPacket(w, u, Well)
<1>1. /\ w \in FlvRecords /\ w.idx.pos \in Nat /\ (~w.meta => ~w.keyed)
      /\ w.saving /\ w.file.opens /\ w.file.pos = Len(w.file.data) /\ w.file.pos \in Nat
      /\ w.meta => HeadedFits(w, n, ts)
  BY DEF FlvFits, FlvWell
<1>2. CASE ~w.meta \/ ~(w.keyed \/ u.type = "idr")
  <2>1. y = w
    BY <1>2 DEF ProcessPacket
  <2>2. ~w.keyed
    BY <1>1, <1>2
  <2> HIDE DEF y
  <2> QED
    BY <2>1, <2>2 DEF FlvShows, FlvWell, y
<1>3. CASE w.meta /\ (w.keyed \/ u.type = "idr")
  <2>1. PacketLeft(w, u, y) /\ TagWritten(w, u, Well, y)
    BY <1>1, <1>3, PacketLeaves, WellIs
  <2> HIDE DEF y
  <2>2. /\ y \in FlvRecords
        /\ y = [w EXCEPT !.file = y.file, !.idx = y.idx, !.torn = y.torn,
                         !.keyed = TRUE, !.tail = y.file.pos]
        /\ y.file.pos \in Nat
    BY <2>1 DEF PacketLeft
  <2>3. y.keyed /\ y.saving /\ y.meta /\ y.first = w.first /\ y.headed = w.headed
    <3> DEFINE F == y.file
               I == y.idx
               B == y.torn
               e == y.file.pos
               z == [w EXCEPT !.file = F, !.idx = I, !.torn = B, !.keyed = TRUE, !.tail = e]
    <3>1. y = z
      BY <2>2
    <3> HIDE DEF F, I, B, e
    <3>2. z.keyed = TRUE /\ z.saving = w.saving /\ z.meta = w.meta /\ z.first = w.first
          /\ z.headed = w.headed
      BY <1>1 DEF FlvRecords
    <3> HIDE DEF z
    <3> QED
      BY <1>1, <1>3, <3>1, <3>2
  <2>4. Len(w.file.data) >= 4 /\ ~IsPicture(w.file.data[2])
    <3>1. Len(w.file.data) >= 4 /\ Tiles(w)
      BY <1>1, <1>3 DEF HeadedFits
    <3>2. 2 \in 1..Start
      BY StartIs
    <3>3. w.file.data[2].is = Header[2].is /\ Header[2].is = "duration"
      BY <3>1, <3>2, HeaderCells DEF Tiles
    <3> QED
      BY <3>1, <3>3 DEF IsPicture
  <2>5. WellWritten(w, u, y)
    BY <1>1, <2>1, <2>2, <2>4, WellPacket
  <2>6. w.headed
    BY <1>3 DEF FlvWell
  <2> QED
    <3>1. /\ y.file.opens /\ y.file.pos = Len(y.file.data)
          /\ Shown(y.file.data, y.first) = Shown(w.file.data, w.first) \cup Newest(u)
      BY <2>3, <2>5 DEF WellWritten
    <3>2. FlvWell(y)
      BY <2>3, <2>6, <3>1 DEF FlvWell
    <3>3. ~w.keyed => u.type = "idr"
      BY <1>3
    <3> QED
      BY <2>3, <3>1, <3>2, <3>3 DEF FlvShows, y
<1> QED
  BY <1>2, <1>3

LEMMA WellAdded ==
  ASSUME NEW w, NEW n \in Nat, NEW ts \in Nat, FlvFits(w, n, ts), FlvWell(w),
         NEW u, UnitFits(u), u.n > n, u.ts >= ts
  PROVE  FlvShows(w, u, AddTimedPacket(w, u, Well))
<1> DEFINE v == [w EXCEPT !.duration = u.ts - w.first]
           x == IF Get(w) THEN v ELSE TakeSet(v, u, Well)
           y == IF Get(x) THEN ProcessPacket(x, u, Well) ELSE x
<1>1. w \in FlvRecords /\ w.first \in Int /\ u.ts \in Nat /\ u.n \in Nat
      /\ (w.meta => Get(w)) /\ (~w.meta => ~w.keyed) /\ w.saving
  BY FlvRecordIs DEF FlvFits, FlvWell, Get, UnitFits
<1>2. FlvFits(v, n, ts) /\ v \in FlvRecords
  <2>1. u.ts - w.first \in Int
    BY <1>1
  <2>2. FlvFits(v, n, ts)
    BY <2>1, TimeGoesBy
  <2> HIDE DEF v
  <2> QED
    BY <2>2 DEF FlvFits
<1>3. /\ v.saving /\ v.sps = w.sps /\ v.pps = w.pps /\ v.file = w.file /\ v.first = w.first
      /\ v.meta = w.meta /\ v.keyed = w.keyed /\ v.headed = w.headed
  BY <1>1 DEF FlvRecords
<1>4. AddTimedPacket(w, u, Well) = y
  BY DEF AddTimedPacket
<1> HIDE DEF v
<1>5. Get(v) = Get(w) /\ FlvWell(v)
  BY <1>1, <1>3 DEF Get, FlvWell
<1>6. CASE Get(w)
  <2>1. x = v /\ y = ProcessPacket(v, u, Well)
    BY <1>5, <1>6
  <2>2. FlvShows(v, u, ProcessPacket(v, u, Well))
    BY <1>2, <1>5, WellProcessed
  <2> HIDE DEF x, y
  <2> QED
    BY <1>3, <1>4, <2>1, <2>2 DEF FlvShows
<1>7. CASE ~Get(w)
  <2>1. FlvFits(x, n, ts) /\ FlvWell(x) /\ ~x.keyed
    <3>1. x = TakeSet(v, u, Well)
      BY <1>7
    <3>2. ~Get(v) /\ ~v.meta /\ ~v.keyed
      BY <1>1, <1>3, <1>5, <1>7
    <3>3. FlvWell(TakeSet(v, u, Well)) /\ ~TakeSet(v, u, Well).keyed
      BY <1>2, <1>5, <3>2, WellTaken
    <3>4. FlvFits(TakeSet(v, u, Well), n, ts)
      BY <1>2, <1>3, <3>2, TakeSetFits, WellIs
    <3> HIDE DEF x
    <3> QED
      BY <3>1, <3>3, <3>4
  <2>2. Get(x) => u.type \in {"sps", "pps"}
    <3>1. u.type \notin {"sps", "pps"} => TakeSet(v, u, Well) = v
      BY DEF TakeSet
    <3>2. x = TakeSet(v, u, Well) /\ ~Get(v)
      BY <1>5, <1>7
    <3> HIDE DEF x
    <3> QED
      BY <3>1, <3>2
  <2> HIDE DEF x
  <2>3. y = x
    <3>1. ~x.keyed /\ u.type \in {"sps", "pps"} => ProcessPacket(x, u, Well) = x
      BY DEF ProcessPacket
    <3> QED
      BY <2>1, <2>2, <3>1
  <2>4. ~w.keyed
    BY <1>1, <1>7
  <2> HIDE DEF y
  <2> QED
    BY <1>4, <2>1, <2>3, <2>4 DEF FlvShows, FlvWell
<1> QED
  BY <1>6, <1>7

\* A recording in MP4 of which every write got out.
Mp4Well(m) ==
  /\ m.saving /\ m.file.opens /\ m.file.pos = Len(m.file.data)
  /\ m.base = -1 => ~m.getIdr
  /\ ~m.getIdr => \A i \in 1..Len(m.file.data) : ~IsPicture(m.file.data[i])

Mp4Shows(m, u, y) ==
  /\ Mp4Well(y)
  /\ y.getIdr = (m.getIdr \/ u.type = "idr")
  /\ Shown(y.file.data, y.base) = Shown(m.file.data, m.base) \cup
                                    (IF y.getIdr THEN Newest(u) ELSE {})

BothThere(f, c, d, h) ==
  /\ h \in Logs /\ h.opens /\ h.pos = Len(h.data)
  /\ Len(h.data) = Len(f.data) + 2
  /\ \A i \in 1..Len(f.data) : h.data[i] = f.data[i]
  /\ h.data[Len(f.data) + 1] = c /\ h.data[Len(f.data) + 2] = d

LEMMA BothOut ==
  ASSUME NEW f \in Logs, f.opens, f.pos = Len(f.data), NEW c \in LogCells, NEW d \in LogCells,
         NEW g, Left(f, <<c>>, 1, g), NEW h, Left(g, <<d>>, 2, h)
  PROVE  BothThere(f, c, d, h) /\ h.pos # g.pos
<1> DEFINE s == <<c>>
           r == <<d>>
           n == 1
           m == 2
           p == Len(f.data)
<1>1. /\ s \in Seq(LogCells) /\ Len(s) = 1 /\ s[1] = c /\ n \in Nat /\ n >= Len(s)
      /\ r \in Seq(LogCells) /\ Len(r) = 1 /\ r[1] = d /\ m \in Nat /\ m >= Len(r)
      /\ Len(s) > 0 /\ Len(r) > 0 /\ p \in Nat /\ f.pos = p
  BY LogIs
<1>2. Left(f, s, n, g) /\ Left(g, r, m, h)
  OBVIOUS
<1> HIDE DEF s, r, n, m
<1>3. Extended(f, s, g)
  BY <1>1, <1>2, WellWrites
<1>4. /\ g \in Logs /\ g.opens /\ g.pos = Len(g.data) /\ Len(g.data) = p + 1
      /\ \A i \in 1..p : g.data[i] = f.data[i]
      /\ g.data[p + 1] = c
  BY <1>1, <1>3 DEF Extended
<1>5. Extended(g, r, h)
  BY <1>1, <1>2, <1>4, WellWrites
<1> HIDE DEF p
<1>6. /\ h \in Logs /\ h.opens /\ h.pos = Len(h.data) /\ Len(h.data) = p + 2
      /\ \A i \in 1..(p + 1) : h.data[i] = g.data[i]
      /\ h.data[p + 2] = d
  <2>1. /\ h \in Logs /\ h.opens /\ h.pos = Len(h.data) /\ Len(h.data) = (p + 1) + 1
        /\ \A i \in 1..(p + 1) : h.data[i] = g.data[i]
        /\ h.data[(p + 1) + 1] = d
    BY <1>1, <1>4, <1>5 DEF Extended
  <2>2. (p + 1) + 1 = p + 2
    BY <1>1
  <2> QED
    BY <2>1, <2>2
<1>7. \A i \in 1..p : i \in 1..(p + 1)
  BY <1>1
<1>8. p + 1 \in 1..(p + 1)
  BY <1>1
<1>9. (\A i \in 1..p : h.data[i] = f.data[i]) /\ h.data[p + 1] = c
  BY <1>4, <1>6, <1>7, <1>8
<1>10. h.pos # g.pos
  BY <1>1, <1>4, <1>6
<1> QED
  BY <1>6, <1>9, <1>10 DEF p, BothThere

LEMMA WellMp4 ==
  ASSUME NEW m \in Mp4Records, m.file.pos \in Nat, Mp4Well(m), NEW u, UnitFits(u)
  PROVE  Mp4Shows(m, u, AddToMp4(m, u, Well))
<1> DEFINE y == AddToMp4(m, u, Well)
           v == Begun(m, u)
           t == u.ts - v.base
           d == m.file.data
           b == v.base
<1>1. /\ v \in Mp4Records /\ v.file = m.file /\ v.saving = m.saving
      /\ v.base = (IF m.base = -1 THEN u.ts ELSE m.base)
      /\ v.getIdr = (m.getIdr \/ (m.file.opens /\ u.type = "idr"))
      /\ IF ~v.getIdr \/ u.type \in {"sps", "pps"} THEN y = v
         ELSE u.type \in {"idr", "slice"} /\ Mp4Kept(v, y, Stored(v, u, u.ts - v.base, Well))
  <2>1. BegunIs(m, u, v) /\ StoredBy(u, Well, v, y)
    BY AddToMp4Is, WellIs
  <2> HIDE DEF v, y
  <2> QED
    BY <2>1, Zenon DEF BegunIs, StoredBy
<1>2. /\ m.saving /\ m.file.opens /\ m.file.pos = Len(d) /\ (m.base = -1 => ~m.getIdr)
      /\ (~m.getIdr => \A i \in 1..Len(d) : ~IsPicture(d[i]))
  BY DEF Mp4Well
<1>3. /\ m.file \in Logs /\ d \in Seq(LogCells) /\ Len(d) \in Nat /\ m.base \in Int
      /\ m.getIdr \in BOOLEAN /\ u.ts \in Nat /\ u.n \in Nat
      /\ u.type \in {"sps", "pps", "idr", "slice"}
  BY Mp4RecordIs, LogIs DEF UnitFits
<1> HIDE DEF y, v, d
<1>4. /\ b \in Int /\ b # -1 /\ t \in Int /\ t + b = u.ts
      /\ v.getIdr = (m.getIdr \/ u.type = "idr")
  BY <1>1, <1>2, <1>3
<1>5. Shown(d, b) = Shown(d, m.base)
  <2>1. CASE m.base = -1
    <3>1. \A i \in 1..Len(d) : ~IsPicture(d[i])
      BY <1>2, <2>1
    <3> QED
      BY <1>3, <3>1, NothingShown
  <2>2. CASE m.base # -1
    BY <1>1, <2>2
  <2> QED
    BY <2>1, <2>2
<1> HIDE DEF b, t
<1>6. CASE ~v.getIdr \/ u.type \in {"sps", "pps"}
  <2>1. y = v
    BY <1>1, <1>6
  <2>2. (IF y.getIdr THEN Newest(u) ELSE {}) = {}
    BY <1>6, <2>1 DEF Newest
  <2>3. Mp4Well(y)
    BY <1>1, <1>2, <1>4, <2>1 DEF Mp4Well, b, d
  <2>4. Shown(y.file.data, y.base) = Shown(m.file.data, m.base)
    BY <1>1, <1>5, <2>1 DEF b, d
  <2> QED
    BY <1>4, <2>1, <2>2, <2>3, <2>4 DEF Mp4Shows, y
<1>7. CASE ~(~v.getIdr \/ u.type \in {"sps", "pps"})
  <2> DEFINE h == Stored(v, u, t, Well)
             g == Sized(v, u, t, Well)
             k == Cell("length", u.n, t)
             c == Cell(u.type, u.n, t)
             e == h.data
             p == Len(d)
  <2>1. u.type \in {"idr", "slice"} /\ Mp4Kept(v, y, h)
    BY <1>1, <1>7 DEF b, t
  <2>2. Left(v.file, <<k>>, 1, g) /\ Left(g, <<c>>, 2, h)
    BY <1>1, <1>4, <2>1, StoredIs, WellIs
  <2>3. /\ k \in LogCells /\ k.is = "length"
        /\ c \in LogCells /\ c.is = u.type /\ c.unit = u.n /\ c.time = t
    BY <1>3, <1>4, <2>1 DEF Cell, LogCells, LogNames
  <2> HIDE DEF h, g, k, c
  <2>4. /\ h \in Logs /\ h.opens /\ h.pos = Len(e) /\ Len(e) = p + 2
        /\ \A i \in 1..p : e[i] = d[i]
        /\ e[p + 1] = k /\ e[p + 2] = c
    <3> DEFINE f == m.file
    <3>1. f \in Logs /\ f.opens /\ f.pos = Len(f.data) /\ d = f.data
      BY <1>2, <1>3 DEF d
    <3>2. Left(f, <<k>>, 1, g) /\ Left(g, <<c>>, 2, h)
      BY <1>1, <2>2
    <3> HIDE DEF f, d
    <3>3. /\ h \in Logs /\ h.opens /\ h.pos = Len(h.data)
          /\ Len(h.data) = Len(f.data) + 2
          /\ \A i \in 1..Len(f.data) : h.data[i] = f.data[i]
          /\ h.data[Len(f.data) + 1] = k /\ h.data[Len(f.data) + 2] = c
      <4>1. BothThere(f, k, c, h)
        BY <2>3, <3>1, <3>2, BothOut
      <4> QED
        BY <4>1 DEF BothThere
    <3> QED
      BY <3>1, <3>3
  <2>5. e \in Seq(LogCells)
    BY <2>4, LogIs
  <2> HIDE DEF e, p
  <2>6. OneMore(d, e, p + 2)
    <3>1. p \in Nat
      BY <1>3 DEF p
    <3>2. \A i \in (p + 1)..Len(e) : i # p + 2 => i = p + 1
      BY <2>4, <3>1
    <3>3. ~IsPicture(k)
      BY <2>3 DEF IsPicture
    <3>4. Len(e) >= p /\ p + 2 \in (p + 1)..Len(e)
      BY <2>4, <3>1
    <3> QED
      BY <2>4, <3>2, <3>3, <3>4 DEF OneMore, p
  <2>7. Shown(e, b) = Shown(d, b) \cup
          (IF IsPicture(e[p + 2]) THEN {Picture(e[p + 2], b)} ELSE {})
    BY <1>3, <2>5, <2>6, OneMoreShown
  <2>8. (IF IsPicture(e[p + 2]) THEN {Picture(e[p + 2], b)} ELSE {}) = Newest(u)
    <3>1. IsPicture(c) /\ Picture(c, b) = [unit |-> u.n, ts |-> u.ts]
      BY <1>4, <2>1, <2>3 DEF IsPicture, Picture
    <3> QED
      BY <2>1, <2>4, <3>1 DEF Newest
  <2>9. /\ y.file = h /\ y.saving = v.saving /\ y.base = v.base /\ y.getIdr = v.getIdr
        /\ v.getIdr
    BY <1>7, <2>1 DEF Mp4Kept
  <2>10. Mp4Well(y)
    BY <1>1, <1>2, <1>4, <2>4, <2>9 DEF Mp4Well, b, e
  <2>11. Shown(y.file.data, y.base) = Shown(m.file.data, m.base) \cup Newest(u)
    BY <1>5, <2>7, <2>8, <2>9 DEF b, d, e
  <2> QED
    BY <1>4, <2>9, <2>10, <2>11 DEF Mp4Shows, y
<1> QED
  BY <1>6, <1>7 DEF y

\* Whether a file could be opened does not change.
LEMMA FlvStaysOpen ==
  ASSUME NEW w, NEW n \in Nat, NEW ts \in Nat, FlvFits(w, n, ts), w.saving,
         NEW out, OutFits(out), NEW u, UnitFits(u), u.n > n, u.ts >= ts
  PROVE  AddTimedPacket(w, u, out).file.opens = w.file.opens
<1> DEFINE v == [w EXCEPT !.duration = u.ts - w.first]
           x == IF Get(w) THEN v ELSE TakeSet(v, u, out)
           y == IF Get(x) THEN ProcessPacket(x, u, out) ELSE x
<1>1. w \in FlvRecords /\ w.first \in Int /\ u.ts \in Nat
  BY FlvRecordIs DEF FlvFits, UnitFits
<1>2. FlvFits(v, n, ts) /\ v \in FlvRecords
  <2>1. u.ts - w.first \in Int
    BY <1>1
  <2>2. FlvFits(v, n, ts)
    BY <2>1, TimeGoesBy
  <2> HIDE DEF v
  <2> QED
    BY <2>2 DEF FlvFits
<1>3. v.saving /\ v.sps = w.sps /\ v.pps = w.pps /\ v.file = w.file
  BY <1>1 DEF FlvRecords
<1>4. AddTimedPacket(w, u, out) = y
  BY DEF AddTimedPacket
<1> HIDE DEF v
<1>5. Get(v) = Get(w)
  BY <1>3 DEF Get
<1>6. FlvFits(x, n, ts) /\ x.saving
  BY <1>2, <1>3, <1>5, TakeSetFits
<1>7. x.file.opens = w.file.opens
  <2>1. ASSUME ~Get(w) PROVE TakeSet(v, u, out).file.opens = v.file.opens
    <3>1. v.sps = w.sps /\ v.file \in Logs /\ v.file.pos = 0
      BY <1>2, <1>3, <1>5, <2>1, FlvRecordIs DEF FlvFits, Get
    <3> DEFINE z == [v EXCEPT !.pps = u.n, !.first = u.ts]
    <3>2. z.file = v.file
      BY <1>2 DEF FlvRecords
    <3>3. [v EXCEPT !.sps = u.n, !.good = u.good, !.first = u.ts].file = v.file
      BY <1>2 DEF FlvRecords
    <3>4. GenerateMetaData(z, out).file.opens = z.file.opens
      <4> DEFINE f == WriteFile(z.file, Header, out.header)
      <4>1. Left(v.file, Header, out.header, WriteFile(v.file, Header, out.header))
        <5>1. /\ Header \in Seq(LogCells) /\ Len(Header) > 0 /\ out.header \in Nat
              /\ v.file.pos \in Nat
          BY <3>1, HeaderCells DEF OutFits
        <5> QED
          BY <3>1, <5>1, WriteLeaves
      <4>2. f.opens = z.file.opens
        BY <3>2, <4>1 DEF Left, Wrote
      <4>3. [z EXCEPT !.file = f, !.meta = TRUE, !.headed = f.pos = Len(Header)].file = f
        <5> HIDE DEF f
        <5> QED
          BY <1>2 DEF FlvRecords
      <4>4. CASE ~z.good
        BY <4>4 DEF GenerateMetaData
      <4>5. CASE z.good
        <5>1. GenerateMetaData(z, out)
                = [z EXCEPT !.file = f, !.meta = TRUE, !.headed = f.pos = Len(Header)]
          BY <4>5 DEF GenerateMetaData
        <5> HIDE DEF f, z
        <5> QED
          BY <4>2, <4>3, <5>1
      <4> QED
        BY <4>4, <4>5
    <3>5. CASE u.type = "sps"
      BY <3>3, <3>5 DEF TakeSet
    <3>6. CASE u.type = "pps"
      <4>1. TakeSet(v, u, out) = IF v.sps # 0 THEN GenerateMetaData(z, out) ELSE z
        BY <3>6, "sps" # "pps" DEF TakeSet
      <4> HIDE DEF z
      <4> QED
        BY <3>2, <3>4, <4>1
    <3>7. CASE u.type \notin {"sps", "pps"}
      BY <3>7 DEF TakeSet
    <3> QED
      BY <3>5, <3>6, <3>7
  <2> QED
    BY <1>3, <2>1
<1> HIDE DEF x
<1>8. ProcessPacket(x, u, out).file.opens = x.file.opens
  <2>1. CASE ~x.meta \/ ~(x.keyed \/ u.type = "idr")
    BY <2>1 DEF ProcessPacket
  <2>2. CASE x.meta /\ (x.keyed \/ u.type = "idr")
    <3> DEFINE z == ProcessPacket(x, u, out)
    <3>1. x \in FlvRecords /\ x.idx.pos \in Nat /\ x.file.pos \in Nat
      BY <1>6 DEF FlvFits
    <3>2. TagWritten(x, u, out, z)
      BY <1>6, <2>2, <3>1, PacketLeaves
    <3> HIDE DEF z
    <3>3. PICK g \in Logs :
            /\ IF u.type = "sps" THEN g = x.file
               ELSE Left(x.file, Tag(x, u, u.ts - x.first), out.tag, g)
            /\ z.file.opens = g.opens
      BY <3>2 DEF TagWritten
    <3>4. g.opens = x.file.opens
      BY <3>3 DEF Left, Wrote
    <3> QED
      BY <3>3, <3>4 DEF z
  <2> QED
    BY <2>1, <2>2
<1> QED
  BY <1>4, <1>7, <1>8

LEMMA Mp4StaysOpen ==
  ASSUME NEW m \in Mp4Records, m.file.pos \in Nat, NEW out, OutFits(out),
         NEW u, UnitFits(u)
  PROVE  /\ AddToMp4(m, u, out).file.opens = m.file.opens
         /\ AddToMp4(m, u, out).saving = m.saving
<1> DEFINE y == AddToMp4(m, u, out)
           v == Begun(m, u)
           t == u.ts - v.base
           f == Sized(v, u, t, out)
           g == Stored(v, u, t, out)
<1>1. BegunIs(m, u, v) /\ StoredBy(u, out, v, y)
  BY AddToMp4Is
<1> HIDE DEF y, v
<1>2. v \in Mp4Records /\ v.file = m.file /\ v.saving = m.saving
  BY <1>1 DEF BegunIs
<1>3. CASE ~v.getIdr \/ u.type \in {"sps", "pps"}
  <2>1. y = v
    BY <1>1, <1>3 DEF StoredBy
  <2> QED
    BY <1>2, <2>1 DEF y
<1>4. CASE ~(~v.getIdr \/ u.type \in {"sps", "pps"})
  <2>1. u.type \in {"idr", "slice"} /\ Mp4Kept(v, y, g)
    BY <1>1, <1>4 DEF StoredBy
  <2>2. t \in Int
    BY <1>2, Mp4RecordIs DEF UnitFits
  <2> HIDE DEF t
  <2>3. /\ Left(v.file, <<Cell("length", u.n, t)>>, out.time, f)
        /\ Left(f, <<Cell(u.type, u.n, t)>>, out.tag, g)
    BY <1>2, <2>1, <2>2, StoredIs
  <2> HIDE DEF f, g
  <2>4. f.opens = v.file.opens /\ g.opens = f.opens
    BY <2>3 DEF Left, Wrote
  <2>5. y.file = g /\ y.saving = v.saving
    BY <2>1 DEF Mp4Kept
  <2> QED
    BY <1>2, <2>4, <2>5 DEF y
<1> QED
  BY <1>3, <1>4

-----------------------------------------------------------------------------
(* The times that the tables of a recording in MP4 give its samples.       *)

\* E says how many durations there are up to each entry of the table, which has all
\* from each sample to the next.
InEntry(E, e, k) == E[e - 1] < k /\ k <= E[e]

TimesUpTo(fr, tm, E) ==
  /\ E \in [0..Len(tm) -> Nat] /\ E[0] = 0 /\ E[Len(tm)] = Len(fr) - 1
  /\ \A e \in 0..Len(tm) : E[e] <= Len(fr) - 1
  /\ \A e \in 1..Len(tm) : E[e] = E[e - 1] + tm[e].count
  /\ \A e \in 1..Len(tm), k \in 1..(Len(fr) - 1) :
       InEntry(E, e, k) => fr[k + 1].time = fr[k].time + tm[e].val
  /\ \A k \in 1..(Len(fr) - 1) : \E e \in 1..Len(tm) : InEntry(E, e, k)

TimesFit(fr, tm) == IF fr = <<>> THEN tm = <<>> ELSE \E E : TimesUpTo(fr, tm, E)

LEMMA TimesBegin ==
  ASSUME NEW gr \in Seq(SampleFrames), Len(gr) = 1 PROVE TimesFit(gr, <<>>)
<1> DEFINE E == [i \in 0..0 |-> 0]
<1>1. Len(<<>>) = 0 /\ gr # <<>>
  BY EmptySeq
<1>2. E \in [0..0 -> Nat] /\ E[0] = 0
  OBVIOUS
<1> HIDE DEF E
<1>3. TimesUpTo(gr, <<>>, E)
  BY <1>1, <1>2 DEF TimesUpTo
<1> QED
  BY <1>1, <1>3 DEF TimesFit

\* Frames that only grow keep their times.
LEMMA TimesStay ==
  ASSUME NEW fr \in Seq(SampleFrames), NEW gr \in Seq(SampleFrames), Len(gr) = Len(fr),
         \A i \in 1..Len(fr) : gr[i].time = fr[i].time, NEW tm, TimesFit(fr, tm)
  PROVE  TimesFit(gr, tm)
<1>1. Len(fr) \in Nat /\ (fr = <<>> <=> Len(fr) = 0) /\ (gr = <<>> <=> Len(gr) = 0)
  BY LenProperties, EmptySeq
<1>2. CASE fr = <<>>
  BY <1>1, <1>2 DEF TimesFit
<1>3. CASE fr # <<>>
  <2>1. PICK E : TimesUpTo(fr, tm, E)
    BY <1>3 DEF TimesFit
  <2>2. \A k \in 1..(Len(fr) - 1) : k \in 1..Len(fr) /\ k + 1 \in 1..Len(fr)
    BY <1>1
  <2>3. TimesUpTo(gr, tm, E)
    BY <2>1, <2>2 DEF TimesUpTo
  <2> QED
    BY <1>1, <1>3, <2>3 DEF TimesFit
<1> QED
  BY <1>2, <1>3

\* The table has one more duration, in an entry of its own or in the last.
OneMoreTime(tm, v, um) ==
  LET n == Len(tm)
  IN \/ /\ Len(um) = n + 1 /\ um[n + 1].count = 1 /\ um[n + 1].val = v
        /\ \A e \in 1..n : um[e] = tm[e]
     \/ /\ n >= 1 /\ Len(um) = n /\ um[n].count = tm[n].count + 1
        /\ um[n].val = v /\ tm[n].val = v
        /\ \A e \in 1..n : e # n => um[e] = tm[e]

LEMMA CountedAdds ==
  ASSUME NEW tm \in Seq(Counts), NEW v \in Int
  PROVE  OneMoreTime(tm, v, Counted(tm, v))
<1> DEFINE n == Len(tm)
<1>1. CASE tm = <<>> \/ Last(tm).val # v
  <2> DEFINE c == [count |-> 1, val |-> v]
             um == Append(tm, c)
  <2>1. c \in Counts /\ c.count = 1 /\ c.val = v
    BY DEF Counts
  <2> HIDE DEF c
  <2>2. /\ Len(um) = n + 1 /\ um[n + 1] = c /\ \A e \in 1..n : um[e] = tm[e]
    BY <2>1, AppendProperties
  <2>3. Counted(tm, v) = um
    BY <1>1 DEF Counted, c
  <2> HIDE DEF um
  <2> QED
    BY <2>1, <2>2, <2>3 DEF OneMoreTime
<1>2. CASE ~(tm = <<>> \/ Last(tm).val # v)
  <2> DEFINE y == [tm[n] EXCEPT !.count = @ + 1]
             um == [tm EXCEPT ![n] = y]
  <2>1. n \in Nat /\ n >= 1 /\ n \in 1..Len(tm) /\ tm[n] \in Counts /\ tm[n].val = v
    BY <1>2, LastIs
  <2>2. y \in Counts /\ y.count = tm[n].count + 1 /\ y.val = tm[n].val
    BY <2>1 DEF Counts
  <2>3. Counted(tm, v) = um
    BY <1>2 DEF Counted
  <2> HIDE DEF y
  <2>4. Len(um) = n /\ um[n] = y /\ \A e \in 1..n : e # n => um[e] = tm[e]
    <3>1. DOMAIN tm = 1..n
      BY LenProperties
    <3>2. Len(um) = n
      BY <2>1, <2>2, ExceptSeq
    <3>3. n \in DOMAIN tm
      BY <2>1, <3>1
    <3>4. um[n] = y /\ \A e \in DOMAIN tm : e # n => um[e] = tm[e]
      <4> HIDE DEF n
      <4> QED
        BY <3>3
    <3> HIDE DEF um, n
    <3> QED
      BY <3>1, <3>2, <3>4
  <2> HIDE DEF um
  <2> QED
    BY <2>1, <2>2, <2>3, <2>4 DEF OneMoreTime
<1> QED
  BY <1>1, <1>2

LEMMA TimesGrow ==
  ASSUME NEW fr \in Seq(SampleFrames), fr # <<>>, NEW tm \in Seq(Counts), TimesFit(fr, tm),
         NEW gr \in Seq(SampleFrames), Len(gr) = Len(fr) + 1,
         \A i \in 1..Len(fr) : gr[i].time = fr[i].time,
         NEW v \in Int, gr[Len(gr)].time = fr[Len(fr)].time + v,
         NEW um, OneMoreTime(tm, v, um)
  PROVE  TimesFit(gr, um)
<1> DEFINE n == Len(fr)
           L == Len(tm)
           M == Len(um)
<1>1. n \in Nat /\ n >= 1 /\ L \in Nat /\ gr # <<>>
  BY LenProperties, EmptySeq
<1>2. PICK E : TimesUpTo(fr, tm, E)
  BY DEF TimesFit
<1>3. /\ E \in [0..L -> Nat] /\ E[0] = 0 /\ E[L] = n - 1
      /\ \A e \in 0..L : E[e] <= n - 1
      /\ \A e \in 1..L : E[e] = E[e - 1] + tm[e].count
      /\ \A e \in 1..L, k \in 1..(n - 1) :
           InEntry(E, e, k) => fr[k + 1].time = fr[k].time + tm[e].val
      /\ \A k \in 1..(n - 1) : \E e \in 1..L : InEntry(E, e, k)
  BY <1>2 DEF TimesUpTo
<1>4. \A e \in 1..L : tm[e] \in Counts
  BY ElementOfSeq
<1>5. /\ \A k \in 1..(n - 1) : gr[k].time = fr[k].time /\ gr[k + 1].time = fr[k + 1].time
      /\ gr[n + 1].time = gr[n].time + v /\ Len(gr) = n + 1
  <2>1. \A k \in 1..(n - 1) : k \in 1..n /\ k + 1 \in 1..n
    BY <1>1
  <2>2. n \in 1..n
    BY <1>1
  <2> QED
    BY <2>1, <2>2
<1> DEFINE G == [e \in 0..M |-> IF e = M THEN n ELSE E[e]]
<1> HIDE DEF n
\* An entry of its own.
<1>6. CASE /\ M = L + 1 /\ um[L + 1].count = 1 /\ um[L + 1].val = v
           /\ \A e \in 1..L : um[e] = tm[e]
  <2>1. \A e \in 0..L : e \in 0..M /\ e # M
    BY <1>1, <1>6
  <2>2. \A e \in 0..M : e # M => e \in 0..L
    BY <1>1, <1>6
  <2>3. /\ G \in [0..M -> Nat] /\ (\A e \in 0..L : G[e] = E[e]) /\ G[M] = n
    BY <1>1, <1>3, <1>6, <2>1, <2>2
  <2> HIDE DEF G, M, L
  <2>4. \A e \in 1..M : e \in 1..L \/ (e = M /\ e - 1 = L)
    <3>1. L \in Nat /\ M = L + 1
      BY <1>1, <1>6
    <3> QED
      BY <3>1
  <2>5. \A e \in 1..L : e \in 0..L /\ e - 1 \in 0..L /\ e \in 1..M
    BY <1>1, <1>6
  <2>6. 0 \in 0..L /\ L \in 0..L /\ M \in 1..M
    BY <1>1, <1>6
  <2>7. ASSUME NEW e \in 1..M PROVE G[e] = G[e - 1] + um[e].count
    <3>1. CASE e \in 1..L
      BY <1>3, <1>6, <2>3, <2>5, <3>1
    <3>2. CASE e = M /\ e - 1 = L
      <4>1. G[e] = n /\ G[e - 1] = n - 1 /\ um[e].count = 1
        BY <1>3, <1>6, <2>3, <2>6, <3>2
      <4> QED
        BY <1>1, <4>1
    <3> QED
      BY <2>4, <3>1, <3>2
  <2>8. \A k \in 1..n : k \in 1..(n - 1) \/ k = n
    BY <1>1
  <2>9. ASSUME NEW e \in 1..M, NEW k \in 1..n, InEntry(G, e, k)
        PROVE  gr[k + 1].time = gr[k].time + um[e].val
    <3>1. CASE e \in 1..L
      <4>1. InEntry(E, e, k) /\ E[e] \in Nat /\ E[e] <= n - 1
        <5>1. InEntry(E, e, k) /\ E[e] \in Nat
          BY <1>3, <2>3, <2>5, <2>9, <3>1 DEF InEntry
        <5>2. E[e] <= n - 1
          BY <1>3, <2>5, <3>1
        <5> QED
          BY <5>1, <5>2
      <4>2. k \in 1..(n - 1)
        BY <1>1, <4>1 DEF InEntry
      <4> QED
        BY <1>3, <1>5, <1>6, <3>1, <4>1, <4>2
    <3>2. CASE e = M /\ e - 1 = L
      <4>1. k = n
        <5>1. G[e - 1] = n - 1
          BY <1>3, <2>3, <2>6, <3>2
        <5> QED
          BY <1>1, <2>9, <5>1 DEF InEntry
      <4> QED
        BY <1>5, <1>6, <3>2, <4>1
    <3> QED
      BY <2>4, <3>1, <3>2
  <2>10. ASSUME NEW k \in 1..n PROVE \E e \in 1..M : InEntry(G, e, k)
    <3>1. CASE k \in 1..(n - 1)
      <4>1. PICK e \in 1..L : InEntry(E, e, k)
        BY <1>3, <3>1
      <4>2. e \in 1..M /\ InEntry(G, e, k)
        BY <2>3, <2>5, <4>1 DEF InEntry
      <4> QED
        BY <4>2
    <3>2. CASE k = n
      <4>1. G[M] = n /\ G[M - 1] = n - 1
        <5>1. M - 1 = L
          BY <1>1, <1>6
        <5> QED
          BY <1>3, <2>3, <2>6, <5>1
      <4>2. InEntry(G, M, k)
        BY <1>1, <3>2, <4>1 DEF InEntry
      <4> QED
        BY <2>6, <4>2
    <3> QED
      BY <2>8, <3>1, <3>2
  <2>11. Len(gr) - 1 = n /\ G[0] = 0 /\ Len(um) = M
    BY <1>1, <1>3, <1>5, <2>3, <2>6 DEF M
  <2>12. ASSUME NEW e \in 0..M PROVE G[e] <= n
    <3>1. L \in Nat /\ M = L + 1
      BY <1>1, <1>6
    <3>2. e \in 0..L \/ e = M
      BY <3>1
    <3>3. CASE e \in 0..L
      <4>1. G[e] = E[e] /\ E[e] \in Nat /\ E[e] <= n - 1
        BY <1>3, <2>3, <3>3
      <4> QED
        BY <1>1, <4>1
    <3>4. CASE e = M
      BY <1>1, <2>3, <3>4
    <3> QED
      BY <3>2, <3>3, <3>4
  <2>13. TimesUpTo(gr, um, G)
    BY <2>3, <2>7, <2>9, <2>10, <2>11, <2>12 DEF TimesUpTo
  <2> QED
    BY <1>1, <2>13 DEF TimesFit
\* The last entry counts it too.
<1>7. CASE /\ L >= 1 /\ M = L /\ um[L].count = tm[L].count + 1
           /\ um[L].val = v /\ tm[L].val = v
           /\ \A e \in 1..L : e # L => um[e] = tm[e]
  <2>1. \A e \in 0..L : e \in 0..M
    BY <1>7
  <2>2. 0 \in 0..L /\ L \in 0..L /\ L \in 1..L /\ L - 1 \in 0..L /\ L - 1 # L /\ 0 # L
    BY <1>1, <1>7
  <2>3. /\ G \in [0..L -> Nat] /\ (\A e \in 0..L : e # L => G[e] = E[e]) /\ G[L] = n
    BY <1>1, <1>3, <1>7, <2>2
  <2> HIDE DEF G, M, L
  <2>4. \A e \in 1..L : e \in 0..L /\ e - 1 \in 0..L /\ e - 1 # L
    BY <1>1
  <2>5. E[L] = E[L - 1] + tm[L].count /\ tm[L].count \in Nat /\ E[L - 1] \in Nat
    BY <1>3, <1>4, <2>2 DEF Counts
  <2>6. ASSUME NEW e \in 1..L PROVE G[e] = G[e - 1] + um[e].count
    <3>1. CASE e # L
      BY <1>3, <1>7, <2>3, <2>4, <3>1
    <3>2. CASE e = L
      <4>1. G[e] = n /\ G[e - 1] = E[L - 1] /\ um[e].count = tm[L].count + 1
        BY <1>7, <2>2, <2>3, <3>2
      <4>2. n - 1 = E[L - 1] + tm[L].count
        BY <1>3, <2>5
      <4>3. \A a, b \in Nat : n - 1 = a + b => n = a + (b + 1)
        BY <1>1
      <4>4. n = E[L - 1] + (tm[L].count + 1)
        BY <2>5, <4>2, <4>3
      <4> QED
        BY <4>1, <4>4
    <3> QED
      BY <3>1, <3>2
  <2>7. \A k \in 1..n : k \in 1..(n - 1) \/ k = n
    BY <1>1
  <2>8. ASSUME NEW e \in 1..L, NEW k \in 1..n, InEntry(G, e, k)
        PROVE  gr[k + 1].time = gr[k].time + um[e].val
    <3>1. CASE k = n /\ e = L
      BY <1>5, <1>7, <3>1
    <3>2. CASE k \in 1..(n - 1) /\ e = L
      <4>1. InEntry(E, e, k)
        BY <1>1, <1>3, <2>2, <2>3, <2>8, <3>2 DEF InEntry
      <4>2. fr[k + 1].time = fr[k].time + tm[L].val
        BY <1>3, <2>2, <3>2, <4>1
      <4>3. gr[k].time = fr[k].time /\ gr[k + 1].time = fr[k + 1].time
        BY <1>5, <3>2
      <4> QED
        BY <1>7, <3>2, <4>2, <4>3
    <3>3. CASE e # L
      <4>1. InEntry(E, e, k) /\ E[e] \in Nat /\ E[e] <= n - 1
        <5>1. InEntry(E, e, k) /\ E[e] \in Nat
          BY <1>3, <2>3, <2>4, <2>8, <3>3 DEF InEntry
        <5>2. E[e] <= n - 1
          BY <1>3, <2>4
        <5> QED
          BY <5>1, <5>2
      <4>2. k \in 1..(n - 1)
        BY <1>1, <4>1 DEF InEntry
      <4> QED
        BY <1>3, <1>5, <1>7, <3>3, <4>1, <4>2
    <3> QED
      BY <2>7, <3>1, <3>2, <3>3
  <2>9. ASSUME NEW k \in 1..n PROVE \E e \in 1..L : InEntry(G, e, k)
    <3>1. CASE k \in 1..(n - 1)
      <4>1. PICK e \in 1..L : InEntry(E, e, k)
        BY <1>3, <3>1
      <4>2. InEntry(G, e, k)
        <5>1. CASE e = L
          BY <1>1, <1>3, <2>2, <2>3, <4>1, <5>1 DEF InEntry
        <5>2. CASE e # L
          BY <2>3, <2>4, <4>1, <5>2 DEF InEntry
        <5> QED
          BY <5>1, <5>2
      <4> QED
        BY <4>2
    <3>2. CASE k = n
      <4>1. G[L] = n /\ G[L - 1] <= n - 1 /\ G[L - 1] \in Nat
        <5>1. G[L - 1] = E[L - 1]
          BY <2>2, <2>3
        <5> QED
          BY <1>1, <1>3, <2>3, <2>5, <5>1
      <4>2. InEntry(G, L, k)
        BY <1>1, <3>2, <4>1 DEF InEntry
      <4> QED
        BY <2>2, <4>2
    <3> QED
      BY <2>7, <3>1, <3>2
  <2>10. Len(gr) - 1 = n /\ G[0] = 0 /\ Len(um) = L
    BY <1>1, <1>3, <1>5, <1>7, <2>2, <2>3 DEF M
  <2>11. ASSUME NEW e \in 0..L PROVE G[e] <= n
    BY <1>1, <1>3, <2>3
  <2>12. TimesUpTo(gr, um, G)
    BY <2>3, <2>6, <2>8, <2>9, <2>10, <2>11 DEF TimesUpTo
  <2> QED
    BY <1>1, <2>12 DEF TimesFit
<1> QED
  BY <1>6, <1>7 DEF OneMoreTime, L, M

LEMMA DurationIs ==
  ASSUME NEW m, NEW E, TimesUpTo(m.frames, m.times, E), m.times \in Seq(Counts),
         NEW k \in 1..(Len(m.frames) - 1)
  PROVE  /\ DurationOf(m, k) \in Int
         /\ m.frames[k + 1].time = m.frames[k].time + DurationOf(m, k)
<1> DEFINE tm == m.times
           L == Len(tm)
           R(f) == [e \in 0..L |-> IF e = 0 THEN 0 ELSE f[e - 1] + tm[e].count]
           f == CHOOSE x : x = R(x)
           P(e) == f[e - 1] < k /\ k <= f[e]
           D == DOMAIN tm
           d == CHOOSE e \in D : P(e)
<1>1. DurationOf(m, k) = tm[d].val
  BY DEF DurationOf
<1>2. /\ E \in [0..L -> Nat] /\ E[0] = 0 /\ L \in Nat
      /\ \A e \in 1..L : E[e] = E[e - 1] + tm[e].count
      /\ \A e \in 1..L :
           InEntry(E, e, k) => m.frames[k + 1].time = m.frames[k].time + tm[e].val
      /\ \E e \in 1..L : InEntry(E, e, k)
  BY LenProperties DEF TimesUpTo
<1>3. D = 1..L /\ \A e \in D : tm[e].val \in Int
  <2>1. D = 1..L /\ \A e \in D : tm[e] \in Counts
    BY LenProperties, ElementOfSeq
  <2> QED
    BY <2>1 DEF Counts
<1> HIDE DEF tm, D, L
<1>4. E = R(E)
  <2>1. ASSUME NEW e \in 0..L PROVE E[e] = IF e = 0 THEN 0 ELSE E[e - 1] + tm[e].count
    <3>1. e = 0 \/ e \in 1..L
      BY <1>2
    <3> QED
      BY <1>2, <3>1
  <2> QED
    BY <1>2, <2>1
<1>5. f = R(f)
  <2> HIDE DEF R
  <2>1. \E x : x = R(x)
    BY <1>4
  <2> QED
    BY <2>1
<1> HIDE DEF f
<1> DEFINE T == {n \in Nat : n <= L => f[n] = E[n]}
<1>6. 0 \in T
  <2>1. f[0] = 0
    BY <1>2, <1>5
  <2> QED
    BY <1>2, <2>1
<1>7. ASSUME NEW n \in Nat, n \in T PROVE n + 1 \in T
  <2> SUFFICES ASSUME n + 1 <= L PROVE f[n + 1] = E[n + 1]
    OBVIOUS
  <2>1. n + 1 \in 1..L /\ n + 1 \in 0..L /\ (n + 1) - 1 = n /\ n <= L /\ n + 1 # 0
    BY <1>2
  <2>2. f[n + 1] = f[n] + tm[n + 1].count
    BY <1>5, <2>1
  <2>3. E[n + 1] = E[n] + tm[n + 1].count
    BY <1>2, <2>1
  <2> QED
    BY <1>7, <2>1, <2>2, <2>3
<1>8. \A n \in Nat : n \in T
  <2> HIDE DEF T
  <2> QED
    BY <1>6, <1>7, NaturalsByStep
<1>9. \A n \in 0..L : f[n] = E[n]
  BY <1>2, <1>8
<1>10. ASSUME NEW e \in 1..L PROVE P(e) <=> InEntry(E, e, k)
  <2>1. e \in 0..L /\ e - 1 \in 0..L
    BY <1>2
  <2> QED
    BY <1>9, <2>1 DEF InEntry
<1> HIDE DEF P
<1>11. d \in D /\ P(d)
  <2>1. \E e \in D : P(e)
    BY <1>2, <1>3, <1>10
  <2> QED
    BY <2>1
<1> HIDE DEF d
<1> QED
  BY <1>1, <1>2, <1>3, <1>10, <1>11

\* A player shows each sample as long behind the first as it was added.
LEMMA TimeIs ==
  ASSUME NEW m, m.frames \in Seq(SampleFrames), m.times \in Seq(Counts),
         TimesFit(m.frames, m.times), NEW k \in 1..Len(m.frames)
  PROVE  /\ TimeOf(m, k) \in Int
         /\ m.frames[k].time = m.frames[1].time + TimeOf(m, k)
<1> DEFINE fr == m.frames
           D(i) == DurationOf(m, i)
           R(f) == [i \in 1..k |-> IF i = 1 THEN 0 ELSE f[i - 1] + D(i - 1)]
           f == CHOOSE x : x = R(x)
           g == [i \in 1..k |-> fr[i].time - fr[1].time]
<1>1. TimeOf(m, k) = f[k]
  BY DEF TimeOf
<1>2. Len(fr) \in Nat /\ Len(m.times) \in Nat /\ k \in Nat /\ 1 <= k /\ k <= Len(fr)
      /\ fr # <<>>
  BY LenProperties, EmptySeq
<1>3. PICK E : TimesUpTo(fr, m.times, E)
  BY <1>2 DEF TimesFit
<1>4. \A i \in 1..k : fr[i].time \in Int
  <2>1. \A i \in 1..k : fr[i] \in SampleFrames
    BY <1>2, ElementOfSeq
  <2> QED
    BY <2>1 DEF SampleFrames
<1>5. \A i \in 1..(Len(fr) - 1) : D(i) \in Int /\ fr[i + 1].time = fr[i].time + D(i)
  BY <1>3, DurationIs
<1> HIDE DEF fr, D
<1>6. 1 \in 1..k /\ \A i \in 1..k : i # 1 => i - 1 \in 1..k
  BY <1>2
<1>7. ASSUME NEW i \in 1..k, i # 1 PROVE fr[i].time = fr[i - 1].time + D(i - 1) /\ D(i - 1) \in Int
  <2>1. i - 1 \in 1..(Len(fr) - 1) /\ (i - 1) + 1 = i
    BY <1>2, <1>7
  <2> QED
    BY <1>5, <2>1
<1>8. g = R(g)
  <2>1. ASSUME NEW i \in 1..k PROVE g[i] = IF i = 1 THEN 0 ELSE g[i - 1] + D(i - 1)
    <3>1. CASE i = 1
      BY <1>4, <1>6, <3>1
    <3>2. CASE i # 1
      <4>1. g[i] = fr[i].time - fr[1].time /\ g[i - 1] = fr[i - 1].time - fr[1].time
        BY <1>6, <3>2
      <4> QED
        BY <1>4, <1>6, <1>7, <3>2, <4>1
    <3> QED
      BY <3>1, <3>2
  <2> QED
    BY <2>1
<1>9. f = R(f)
  <2> HIDE DEF R, g
  <2>1. \E x : x = R(x)
    BY <1>8
  <2> QED
    BY <2>1
<1> HIDE DEF f
<1> DEFINE T == {n \in Nat : n + 1 <= k => /\ f[n + 1] \in Int
                                        /\ fr[n + 1].time = fr[1].time + f[n + 1]}
<1>10. 0 \in T
  <2>1. f[1] = 0
    BY <1>6, <1>9
  <2> QED
    BY <1>4, <1>6, <2>1
<1>11. ASSUME NEW n \in Nat, n \in T PROVE n + 1 \in T
  <2> SUFFICES ASSUME (n + 1) + 1 <= k
               PROVE  /\ f[(n + 1) + 1] \in Int
                      /\ fr[(n + 1) + 1].time = fr[1].time + f[(n + 1) + 1]
    OBVIOUS
  <2> DEFINE j == (n + 1) + 1
  <2>1. j \in 1..k /\ j # 1 /\ j - 1 = n + 1 /\ n + 1 <= k /\ n + 1 \in 1..k
    BY <1>2
  <2> HIDE DEF j
  <2>2. fr[j].time = fr[n + 1].time + D(n + 1) /\ D(n + 1) \in Int
    BY <1>7, <2>1
  <2>3. f[j] = f[n + 1] + D(n + 1)
    BY <1>9, <2>1
  <2>4. f[n + 1] \in Int /\ fr[n + 1].time = fr[1].time + f[n + 1]
    BY <1>11, <2>1
  <2> QED
    BY <1>4, <1>6, <2>1, <2>2, <2>3, <2>4 DEF j
<1>12. \A n \in Nat : n \in T
  <2> HIDE DEF T
  <2> QED
    BY <1>10, <1>11, NaturalsByStep
<1>13. k - 1 \in Nat /\ (k - 1) + 1 = k
  BY <1>2
<1>14. f[k] \in Int /\ fr[k].time = fr[1].time + f[k]
  BY <1>12, <1>13
<1> QED
  BY <1>1, <1>14 DEF fr

\* The pictures of a sample come a millisecond apart.
PicturesTimed(d, x) ==
  \A i \in 1..x.size :
    IsPicture(d[x.offset + i]) => d[x.offset + i].time = x.time + (i \div 2) - 1

\* The samples have all pictures of the data, up to the time top.
Sampled(d, fr, last, top) ==
  /\ \A j \in 1..Len(fr) : fr[j].offset + fr[j].size <= Len(d) /\ PicturesTimed(d, fr[j])
  /\ \A i \in 1..Len(d) :
       IsPicture(d[i]) => \E j \in 1..Len(fr) : i - fr[j].offset \in 1..fr[j].size
  /\ fr # <<>> => /\ fr[Len(fr)].offset + fr[Len(fr)].size = Len(d)
                  /\ last = fr[Len(fr)].time + (fr[Len(fr)].size \div 2)
                  /\ fr[Len(fr)].time <= top

PairBehind(d, e, k, c) ==
  /\ Len(e) = Len(d) + 2 /\ \A i \in 1..Len(d) : e[i] = d[i]
  /\ e[Len(d) + 1] = k /\ e[Len(d) + 2] = c

LEMMA OldPicturesTimed ==
  ASSUME NEW d, NEW e, Len(d) \in Nat, \A i \in 1..Len(d) : e[i] = d[i],
         NEW x \in SampleFrames, x.offset + x.size <= Len(d), PicturesTimed(d, x)
  PROVE  PicturesTimed(e, x)
<1>1. x.offset \in Nat /\ x.size \in Nat
  BY DEF SampleFrames
<1>2. \A i \in 1..x.size : x.offset + i \in 1..Len(d)
  BY <1>1
<1> QED
  BY <1>2 DEF PicturesTimed

LEMMA SampleBegins ==
  ASSUME NEW d, Len(d) \in Nat, NEW e, NEW k, NEW c, PairBehind(d, e, k, c),
         ~IsPicture(k), NEW t \in Int, c.time = t,
         NEW fr \in Seq(SampleFrames), NEW last, NEW top, Sampled(d, fr, last, top),
         NEW x \in SampleFrames, x.offset = Len(d), x.size = 2, x.time = t,
         NEW gr \in Seq(SampleFrames), gr = Append(fr, x)
  PROVE  Sampled(e, gr, t + 1, t)
<1> DEFINE n == Len(fr)
           p == Len(d)
<1>1. n \in Nat /\ Len(gr) = n + 1 /\ gr[n + 1] = x /\ (\A j \in 1..n : gr[j] = fr[j])
  BY LenProperties, AppendProperties
<1>2. /\ Len(e) = p + 2 /\ \A i \in 1..p : e[i] = d[i]
      /\ e[p + 1] = k /\ e[p + 2] = c
  BY DEF PairBehind
<1>3. \A j \in 1..n : fr[j] \in SampleFrames
  BY ElementOfSeq
<1>4. /\ \A j \in 1..n : fr[j].offset + fr[j].size <= p /\ PicturesTimed(d, fr[j])
      /\ \A i \in 1..p :
           IsPicture(d[i]) => \E j \in 1..n : i - fr[j].offset \in 1..fr[j].size
  BY DEF Sampled
<1> HIDE DEF n, p
<1>5. p \in Nat /\ x.offset = p
  BY DEF p
<1>6. PicturesTimed(e, x)
  <2>1. \A i \in 1..2 : i = 1 \/ i = 2
    OBVIOUS
  <2>2. ASSUME NEW i \in 1..2, IsPicture(e[p + i]) PROVE e[p + i].time = t + (i \div 2) - 1
    <3>1. i = 2
      BY <1>2, <2>1, <2>2
    <3>2. e[p + i].time = t
      BY <1>2, <3>1
    <3> QED
      BY <3>1, <3>2
  <2> QED
    BY <1>5, <2>2 DEF PicturesTimed
<1>7. ASSUME NEW j \in 1..(n + 1)
      PROVE  gr[j].offset + gr[j].size <= p + 2 /\ PicturesTimed(e, gr[j])
  <2>1. CASE j \in 1..n
    <3>1. gr[j] = fr[j] /\ fr[j] \in SampleFrames /\ fr[j].offset + fr[j].size <= p
          /\ PicturesTimed(d, fr[j])
      BY <1>1, <1>3, <1>4, <2>1
    <3>2. PicturesTimed(e, fr[j])
      BY <1>2, <1>5, <3>1, OldPicturesTimed DEF p
    <3>3. fr[j].offset + fr[j].size <= p + 2
      BY <1>5, <3>1 DEF SampleFrames
    <3> QED
      BY <3>1, <3>2, <3>3
  <2>2. CASE j = n + 1
    BY <1>1, <1>5, <1>6, <2>2
  <2> QED
    BY <1>1, <2>1, <2>2
<1>8. ASSUME NEW i \in 1..(p + 2), IsPicture(e[i])
      PROVE  \E j \in 1..(n + 1) : i - gr[j].offset \in 1..gr[j].size
  <2>1. i \in 1..p \/ i = p + 1 \/ i = p + 2
    BY <1>5
  <2>2. CASE i \in 1..p
    <3>1. PICK j \in 1..n : i - fr[j].offset \in 1..fr[j].size
      BY <1>2, <1>4, <1>8, <2>2
    <3>2. j \in 1..(n + 1) /\ gr[j] = fr[j]
      BY <1>1, <3>1
    <3> QED
      BY <3>1, <3>2
  <2>3. CASE i = p + 1
    BY <1>2, <1>8, <2>3
  <2>4. CASE i = p + 2
    <3>1. n + 1 \in 1..(n + 1)
      BY <1>1
    <3>2. i - gr[n + 1].offset = 2 /\ gr[n + 1].size = 2
      BY <1>1, <1>5, <2>4
    <3>3. \A a, b : a = 2 /\ b = 2 => a \in 1..b
      OBVIOUS
    <3>4. i - gr[n + 1].offset \in 1..gr[n + 1].size
      BY <3>2, <3>3
    <3> QED
      BY <3>1, <3>4
  <2> QED
    BY <2>1, <2>2, <2>3, <2>4
<1>9. /\ gr[n + 1].offset + gr[n + 1].size = p + 2
      /\ t + 1 = gr[n + 1].time + (gr[n + 1].size \div 2) /\ gr[n + 1].time <= t
  BY <1>1, <1>5
<1> QED
  BY <1>1, <1>2, <1>7, <1>8, <1>9 DEF Sampled

\* The last sample has one more unit.
LastGrown(fr, gr) ==
  LET n == Len(fr)
  IN /\ gr \in Seq(SampleFrames) /\ Len(gr) = n
     /\ \A j \in 1..n : j # n => gr[j] = fr[j]
     /\ gr[n].offset = fr[n].offset /\ gr[n].size = fr[n].size + 2
     /\ gr[n].time = fr[n].time

LEMMA SumsGrow ==
  ASSUME NEW o \in Nat, NEW s \in Nat, NEW b \in Int, NEW t, NEW p \in Nat,
         o + s = p, t = b + (s \div 2)
  PROVE  /\ o + (s + 2) = p + 2 /\ t + 1 = b + ((s + 2) \div 2)
         /\ \A i \in 1..(p + 2) : i \in 1..p \/ i = p + 1 \/ i = p + 2
         /\ \A i \in 1..(s + 2) :
              \/ i \in 1..s
              \/ o + i = p + 1
              \/ o + i = p + 2 /\ t = b + (i \div 2) - 1
         /\ \A i \in 1..p : i - o \in 1..s => i - o \in 1..(s + 2)
         /\ (p + 2) - o \in 1..(s + 2)
<1>1. (s + 2) \div 2 = (s \div 2) + 1 /\ s \div 2 \in Int
  OBVIOUS
<1>2. ASSUME NEW i \in 1..(s + 2)
      PROVE  i \in 1..s \/ o + i = p + 1 \/ (o + i = p + 2 /\ t = b + (i \div 2) - 1)
  <2>1. i \in 1..s \/ i = s + 1 \/ i = s + 2
    OBVIOUS
  <2>2. CASE i = s + 2
    BY <1>1, <2>2
  <2> QED
    BY <2>1, <2>2
<1> QED
  BY <1>1, <1>2

LEMMA StillWithin ==
  ASSUME NEW x \in SampleFrames, NEW p \in Nat, x.offset + x.size <= p
  PROVE  x.offset + x.size <= p + 2
<1>1. x.offset \in Nat /\ x.size \in Nat
  BY DEF SampleFrames
<1> QED
  BY <1>1

LEMMA SampleGrows ==
  ASSUME NEW d, Len(d) \in Nat, NEW e, NEW k, NEW c, PairBehind(d, e, k, c),
         ~IsPicture(k), NEW t \in Int, c.time = t,
         NEW fr \in Seq(SampleFrames), fr # <<>>, NEW top \in Int, top <= t,
         Sampled(d, fr, t, top), NEW gr, LastGrown(fr, gr)
  PROVE  Sampled(e, gr, t + 1, t)
<1>0. PICK n, p, x, y : n = Len(fr) /\ p = Len(d) /\ x = fr[n] /\ y = gr[n]
  OBVIOUS
<1>1. /\ n \in Nat /\ n \in 1..n /\ p \in Nat
      /\ \A j \in 1..n : fr[j] \in SampleFrames
  BY <1>0, LastIs, ElementOfSeq
<1>2. /\ Len(e) = p + 2 /\ \A i \in 1..p : e[i] = d[i]
      /\ e[p + 1] = k /\ e[p + 2] = c
  BY <1>0 DEF PairBehind
<1>3. /\ Len(gr) = n /\ \A j \in 1..n : j # n => gr[j] = fr[j]
      /\ y.offset = x.offset /\ y.size = x.size + 2 /\ y.time = x.time
  BY <1>0 DEF LastGrown
<1>4. /\ \A j \in 1..n : fr[j].offset + fr[j].size <= p /\ PicturesTimed(d, fr[j])
      /\ \A i \in 1..p :
           IsPicture(d[i]) => \E j \in 1..n : i - fr[j].offset \in 1..fr[j].size
  BY <1>0 DEF Sampled
<1>5. /\ x \in SampleFrames /\ PicturesTimed(d, x) /\ x.offset + x.size <= p
      /\ x.offset + x.size = p /\ t = x.time + (x.size \div 2) /\ x.time <= top
  <2>1. x.offset + x.size = p /\ t = x.time + (x.size \div 2) /\ x.time <= top
    BY <1>0 DEF Sampled
  <2> QED
    BY <1>0, <1>1, <1>4, <2>1
<1>6. PICK o, s, b : o = x.offset /\ s = x.size /\ b = x.time
  OBVIOUS
<1>7. o \in Nat /\ s \in Nat /\ b \in Int
  BY <1>5, <1>6 DEF SampleFrames
<1>8. o + s = p /\ t = b + (s \div 2) /\ b <= t
  <2>1. o + s = p /\ t = b + (s \div 2) /\ b <= top
    BY <1>5, <1>6
  <2> QED
    BY <1>7, <2>1
<1>9. /\ o + (s + 2) = p + 2 /\ t + 1 = b + ((s + 2) \div 2)
      /\ \A i \in 1..(p + 2) : i \in 1..p \/ i = p + 1 \/ i = p + 2
      /\ \A i \in 1..(s + 2) :
           \/ i \in 1..s
           \/ o + i = p + 1
           \/ o + i = p + 2 /\ t = b + (i \div 2) - 1
      /\ \A i \in 1..p : i - o \in 1..s => i - o \in 1..(s + 2)
      /\ (p + 2) - o \in 1..(s + 2)
  BY <1>1, <1>7, <1>8, SumsGrow
<1>10. y.offset = o /\ y.size = s + 2 /\ y.time = b
  BY <1>3, <1>6
<1>11. PicturesTimed(e, y)
  <2>1. PicturesTimed(e, x)
    BY <1>0, <1>2, <1>5, OldPicturesTimed
  <2>2. ASSUME NEW i \in 1..(s + 2), IsPicture(e[o + i])
        PROVE  e[o + i].time = b + (i \div 2) - 1
    <3>1. CASE i \in 1..s
      BY <1>6, <2>1, <2>2, <3>1 DEF PicturesTimed
    <3>2. CASE o + i = p + 1
      BY <1>2, <2>2, <3>2
    <3>3. CASE o + i = p + 2 /\ t = b + (i \div 2) - 1
      BY <1>2, <3>3
    <3> QED
      BY <1>9, <3>1, <3>2, <3>3
  <2> QED
    BY <1>10, <2>2 DEF PicturesTimed
<1>12. ASSUME NEW j \in 1..n
       PROVE  gr[j].offset + gr[j].size <= p + 2 /\ PicturesTimed(e, gr[j])
  <2>1. CASE j # n
    <3>1. gr[j] = fr[j] /\ fr[j] \in SampleFrames /\ fr[j].offset + fr[j].size <= p
          /\ PicturesTimed(d, fr[j])
      BY <1>1, <1>3, <1>4, <2>1
    <3>2. PicturesTimed(e, fr[j])
      BY <1>0, <1>2, <3>1, OldPicturesTimed
    <3>3. fr[j].offset + fr[j].size <= p + 2
      BY <1>1, <3>1, StillWithin
    <3> QED
      BY <3>1, <3>2, <3>3
  <2>2. CASE j = n
    <3>1. y.offset + y.size = p + 2
      BY <1>9, <1>10
    <3>2. p + 2 <= p + 2
      BY <1>1
    <3> QED
      BY <1>0, <1>11, <2>2, <3>1, <3>2
  <2> QED
    BY <2>1, <2>2
<1>13. ASSUME NEW i \in 1..(p + 2), IsPicture(e[i])
       PROVE  \E j \in 1..n : i - gr[j].offset \in 1..gr[j].size
  <2>1. CASE i \in 1..p
    <3>1. PICK j \in 1..n : i - fr[j].offset \in 1..fr[j].size
      BY <1>2, <1>4, <1>13, <2>1
    <3>2. CASE j # n
      BY <1>3, <3>1, <3>2
    <3>3. CASE j = n
      <4>1. i - o \in 1..s
        BY <1>0, <1>6, <3>1, <3>3
      <4>2. i - o \in 1..(s + 2)
        BY <1>9, <2>1, <4>1
      <4> QED
        BY <1>0, <1>1, <1>10, <4>2
    <3> QED
      BY <3>2, <3>3
  <2>2. CASE i = p + 1
    BY <1>2, <1>13, <2>2
  <2>3. CASE i = p + 2
    BY <1>0, <1>1, <1>9, <1>10, <2>3
  <2> QED
    BY <1>9, <2>1, <2>2, <2>3
<1>14. /\ gr[n].offset + gr[n].size = p + 2
       /\ t + 1 = gr[n].time + (gr[n].size \div 2) /\ gr[n].time <= t
  BY <1>0, <1>8, <1>9, <1>10
<1> QED
  BY <1>2, <1>3, <1>12, <1>13, <1>14 DEF Sampled

\* A packet of which all gets out.
AddedAt(v, x, l, y) ==
  /\ y \in Mp4Records /\ y.file = v.file /\ y.last = l /\ y.frames = Append(v.frames, x)
  /\ y.times = IF v.frames = <<>> THEN v.times
               ELSE Counted(v.times, Larger(0, x.time - Last(v.frames).time))

LEMMA FrameTimed ==
  ASSUME NEW v \in Mp4Records, NEW x \in SampleFrames, NEW l \in Int
  PROVE  AddedAt(v, x, l, [GetVideoDecodeTime(GetChunkInfo(v, x), x)
                             EXCEPT !.frames = Append(@, x), !.last = l])
<1> DEFINE g == GetChunkInfo(v, x)
           w == GetVideoDecodeTime(g, x)
           q == IF g.frames = <<>> THEN g.times
                ELSE Counted(g.times, Larger(0, x.time - Last(g.frames).time))
           s == Append(w.frames, x)
           y == [w EXCEPT !.frames = s, !.last = l]
<1>1. g \in Mp4Records /\ g.frames = v.frames /\ g.file = v.file /\ g.times = v.times
  BY GetChunkInfoIs
<1>2. w = [g EXCEPT !.times = q]
  BY DEF GetVideoDecodeTime
<1> HIDE DEF g, q
<1>3. w \in Mp4Records
  <2>1. w \in Mp4Records
    BY <1>1, DecodeTimeIs
  <2> QED
    BY <2>1
<1> HIDE DEF w
<1>4. w.times = q /\ w.frames = v.frames /\ w.file = v.file
  BY <1>1, <1>2 DEF Mp4Records
<1>5. s \in Seq(SampleFrames)
  BY <1>3, Mp4RecordIs, AppendProperties
<1> HIDE DEF s
<1>6. /\ y \in Mp4Records /\ y.file = w.file /\ y.last = l /\ y.frames = s
      /\ y.times = w.times
  BY <1>3, <1>5 DEF Mp4Records
<1>7. s = Append(v.frames, x)
  BY <1>4 DEF s
<1>8. q = IF v.frames = <<>> THEN v.times
          ELSE Counted(v.times, Larger(0, x.time - Last(v.frames).time))
  BY <1>1 DEF q
<1> HIDE DEF y
<1>9. /\ y \in Mp4Records /\ y.file = v.file /\ y.last = l
      /\ y.frames = Append(v.frames, x) /\ y.times = q
  BY <1>4, <1>6, <1>7
<1>10. AddedAt(v, x, l, y)
  BY <1>8, <1>9 DEF AddedAt
<1> QED
  BY <1>10 DEF y, w, g, s

LEMMA AddedTimed ==
  ASSUME NEW v \in Mp4Records, TimesFit(v.frames, v.times), NEW x \in SampleFrames,
         NEW t \in Int, x.time = t, NEW top \in Int, top <= t,
         v.frames # <<>> => v.frames[Len(v.frames)].time <= top,
         NEW fr, fr = Append(v.frames, x),
         NEW tm, tm = IF v.frames = <<>> THEN v.times
                      ELSE Counted(v.times, Larger(0, x.time - Last(v.frames).time))
  PROVE  TimesFit(fr, tm)
<1>1. /\ v.frames \in Seq(SampleFrames) /\ v.times \in Seq(Counts)
      /\ fr \in Seq(SampleFrames) /\ Len(fr) = Len(v.frames) + 1 /\ fr[Len(fr)] = x
      /\ \A i \in 1..Len(v.frames) : fr[i] = v.frames[i]
  BY Mp4RecordIs, AppendProperties
<1>2. CASE v.frames = <<>>
  <2>1. tm = <<>> /\ Len(fr) = 1
    <3>1. v.times = <<>>
      BY <1>2 DEF TimesFit
    <3>2. Len(v.frames) = 0
      BY <1>2
    <3> QED
      BY <1>1, <1>2, <3>1, <3>2
  <2> QED
    BY <1>1, <2>1, TimesBegin
<1>3. CASE v.frames # <<>>
  <2>1. PICK z : z = v.frames[Len(v.frames)]
    OBVIOUS
  <2>2. z \in SampleFrames /\ Last(v.frames) = z
    BY <1>1, <1>3, <2>1, LastIs
  <2>3. z.time \in Int /\ z.time <= top
    BY <1>3, <2>1, <2>2 DEF SampleFrames
  <2>4. /\ Larger(0, t - z.time) = t - z.time /\ t - z.time \in Int
        /\ t = z.time + (t - z.time)
    BY <2>3 DEF Larger
  <2>5. PICK k : k = t - z.time
    OBVIOUS
  <2>6. k \in Int /\ t = z.time + k /\ tm = Counted(v.times, k)
    BY <1>3, <2>2, <2>4, <2>5
  <2>7. OneMoreTime(v.times, k, tm)
    BY <1>1, <2>6, CountedAdds
  <2>8. fr[Len(fr)].time = v.frames[Len(v.frames)].time + k
    BY <1>1, <2>1, <2>6
  <2>9. \A i \in 1..Len(v.frames) : fr[i].time = v.frames[i].time
    BY <1>1
  <2> QED
    BY <1>1, <1>3, <2>6, <2>7, <2>8, <2>9, TimesGrow
<1> QED
  BY <1>2, <1>3

LEMMA PacketTimed ==
  ASSUME NEW m \in Mp4Records, m.file.opens, m.file.pos = Len(m.file.data), NEW t \in Int,
         NEW u, UnitFits(u), u.type \in {"idr", "slice"}, NEW top \in Int, top <= t,
         Sampled(m.file.data, m.frames, m.last, top), TimesFit(m.frames, m.times)
  PROVE  LET y == AddPacket(m, u, t, Well)
         IN Sampled(y.file.data, y.frames, y.last, t) /\ TimesFit(y.frames, y.times)
<1> DEFINE k == Cell("length", u.n, t)
           c == Cell(u.type, u.n, t)
           size == Sized(m, u, t, Well)
           data == Stored(m, u, t, Well)
           frame == [offset |-> m.file.pos, size |-> 2, time |-> t]
           b == m.torn \/ Well.time = 0
           v == [m EXCEPT !.file = data, !.torn = b]
           l == t + 1
           y == [GetVideoDecodeTime(GetChunkInfo(v, frame), frame)
                   EXCEPT !.frames = Append(@, frame), !.last = l]
           z == [v EXCEPT !.frames[Len(m.frames)].size = @ + 2, !.last = l,
                         !.torn = @ \/ m.file.pos # Last(m.frames).offset
                                                    + Last(m.frames).size]
<1>1. AddPacket(m, u, t, Well) = IF data.pos = size.pos THEN v
                                 ELSE IF m.frames = <<>> \/ t # m.last THEN y ELSE z
  BY Zenon DEF AddPacket, Sized, Stored
<1>2. /\ Left(m.file, <<k>>, 1, size) /\ Left(size, <<c>>, 2, data)
      /\ data \in Logs /\ m.file \in Logs /\ m.file.pos \in Nat
  <2>1. m.file \in Logs /\ m.file.pos \in Nat
    BY Mp4RecordIs, LogIs
  <2> QED
    BY <2>1, StoredIs, WellIs
<1>3. k \in LogCells /\ c \in LogCells /\ ~IsPicture(k) /\ c.time = t
  BY DEF Cell, LogCells, LogNames, UnitFits, IsPicture
<1>4. b \in BOOLEAN
  BY Mp4RecordIs
<1>5. /\ frame \in SampleFrames /\ frame.offset = Len(m.file.data) /\ frame.size = 2
      /\ frame.time = t /\ l = t + 1 /\ l \in Int
  BY <1>2 DEF SampleFrames
<1>6. PICK f : f = m.file
  OBVIOUS
<1> HIDE DEF data, size, b, frame, k, c, l
<1>7. BothThere(f, k, c, data) /\ data.pos # size.pos
  <2>1. /\ f \in Logs /\ f.opens /\ f.pos = Len(f.data)
        /\ Left(f, <<k>>, 1, size) /\ Left(size, <<c>>, 2, data)
    BY <1>2, <1>6
  <2> QED
    BY <1>3, <2>1, BothOut
<1>8. PairBehind(f.data, data.data, k, c) /\ Len(f.data) \in Nat
  <2>1. Len(f.data) \in Nat
    BY <1>2, <1>6, LogIs
  <2> QED
    BY <1>7, <2>1 DEF BothThere, PairBehind
<1>9. /\ v \in Mp4Records /\ v.file = data /\ v.frames = m.frames /\ v.times = m.times
  BY <1>2, <1>4 DEF Mp4Records
<1> HIDE DEF v
<1>10. PICK fr, tm : fr = m.frames /\ tm = m.times
  OBVIOUS
<1>11. /\ fr \in Seq(SampleFrames) /\ tm \in Seq(Counts) /\ TimesFit(fr, tm)
       /\ Sampled(f.data, fr, m.last, top)
  BY <1>6, <1>10, Mp4RecordIs
<1>12. CASE m.frames = <<>> \/ t # m.last
  <2>1. AddPacket(m, u, t, Well) = y
    BY <1>1, <1>7, <1>12
  <2>2. /\ y \in Mp4Records /\ y.file = data /\ y.last = l /\ y.frames = Append(fr, frame)
        /\ y.times = IF v.frames = <<>> THEN v.times
                     ELSE Counted(v.times, Larger(0, frame.time - Last(v.frames).time))
    <3>1. /\ y \in Mp4Records /\ y.file = v.file /\ y.last = l
          /\ y.frames = Append(v.frames, frame)
          /\ y.times = IF v.frames = <<>> THEN v.times
                       ELSE Counted(v.times, Larger(0, frame.time - Last(v.frames).time))
      <4>1. AddedAt(v, frame, l, y)
        BY <1>5, <1>9, FrameTimed
      <4> HIDE DEF y
      <4> QED
        BY <4>1 DEF AddedAt
    <3> HIDE DEF y
    <3> QED
      BY <1>9, <1>10, <3>1
  <2> HIDE DEF y
  <2>3. y.frames \in Seq(SampleFrames)
    BY <2>2, Mp4RecordIs
  <2>4. Sampled(y.file.data, y.frames, y.last, t)
    <3>1. PICK e, gr : e = data.data /\ gr = Append(fr, frame)
      OBVIOUS
    <3>2. gr \in Seq(SampleFrames) /\ PairBehind(f.data, e, k, c)
      BY <1>8, <2>2, <2>3, <3>1
    <3>3. frame.offset = Len(f.data)
      BY <1>5, <1>6
    <3>4. Sampled(e, gr, t + 1, t)
      BY <1>3, <1>5, <1>8, <1>11, <3>1, <3>2, <3>3, SampleBegins
    <3> QED
      BY <1>5, <2>2, <3>1, <3>4
  <2>5. TimesFit(y.frames, y.times)
    <3>1. v.frames # <<>> => v.frames[Len(v.frames)].time <= top
      BY <1>9, <1>10, <1>11 DEF Sampled
    <3>2. TimesFit(v.frames, v.times) /\ y.frames = Append(v.frames, frame)
      BY <1>9, <1>10, <1>11, <2>2
    <3> QED
      BY <1>5, <1>9, <2>2, <3>1, <3>2, AddedTimed
  <2> QED
    BY <2>1, <2>4, <2>5
<1>13. CASE m.frames # <<>> /\ t = m.last
  <2> DEFINE r == [fr EXCEPT ![Len(fr)].size = @ + 2]
             e == v.torn \/ m.file.pos # Last(m.frames).offset + Last(m.frames).size
  <2>1. AddPacket(m, u, t, Well) = z
    BY <1>1, <1>7, <1>13
  <2>2. fr # <<>> /\ e \in BOOLEAN
    BY <1>4, <1>9, <1>10, <1>13, Mp4RecordIs
  <2>3. /\ r \in Seq(SampleFrames) /\ Len(r) = Len(fr)
        /\ \A i \in 1..Len(fr) :
             r[i] = IF i = Len(fr) THEN [fr[i] EXCEPT !.size = @ + 2] ELSE fr[i]
    BY <1>11, <2>2, LastFrameGrows
  <2>4. z = [v EXCEPT !.frames = r, !.last = l, !.torn = e]
    BY <1>9, <1>10
  <2> HIDE DEF r, e, z
  <2>5. /\ z \in Mp4Records /\ z.file = data /\ z.frames = r /\ z.last = l
        /\ z.times = tm
    BY <1>5, <1>9, <1>10, <2>2, <2>3, <2>4 DEF Mp4Records
  <2>6. LastGrown(fr, r) /\ \A i \in 1..Len(fr) : r[i].time = fr[i].time
    <3>1. \A i \in 1..Len(fr) : fr[i] \in SampleFrames
      BY <1>11, ElementOfSeq
    <3>2. Len(fr) \in 1..Len(fr)
      BY <1>11, <2>2, LastIs
    <3>3. \A x \in SampleFrames : LET w == [x EXCEPT !.size = @ + 2]
                                  IN /\ w.offset = x.offset /\ w.size = x.size + 2
                                     /\ w.time = x.time
      BY DEF SampleFrames
    <3>4. PICK n : n = Len(fr)
      OBVIOUS
    <3>5. /\ r[n].offset = fr[n].offset /\ r[n].size = fr[n].size + 2
          /\ r[n].time = fr[n].time
      BY <2>3, <3>1, <3>2, <3>3, <3>4
    <3>6. \A i \in 1..n : i # n => r[i] = fr[i]
      BY <2>3, <3>4
    <3> QED
      BY <2>3, <3>4, <3>5, <3>6 DEF LastGrown
  <2>7. Sampled(z.file.data, z.frames, z.last, t)
    <3>1. PICK g : g = data.data
      OBVIOUS
    <3>2. PairBehind(f.data, g, k, c) /\ Sampled(f.data, fr, t, top)
      BY <1>8, <1>11, <1>13, <3>1
    <3>3. Sampled(g, r, t + 1, t)
      BY <1>3, <1>8, <1>11, <2>2, <2>6, <3>2, SampleGrows
    <3> QED
      BY <1>5, <2>5, <3>1, <3>3
  <2>8. TimesFit(z.frames, z.times)
    BY <1>11, <2>3, <2>5, <2>6, TimesStay
  <2> QED
    BY <2>1, <2>7, <2>8
<1> QED
  BY <1>12, <1>13

\* What the tables of a recording of which all gets out say at a time.
Mp4Timed(m, ts) ==
  /\ Sampled(m.file.data, m.frames, m.last, ts - m.base)
  /\ TimesFit(m.frames, m.times)
  /\ m.frames # <<>> => m.getIdr

LEMMA WellTimed ==
  ASSUME NEW m \in Mp4Records, m.file.pos \in Nat, Mp4Well(m), NEW ts \in Nat, Mp4Timed(m, ts),
         NEW u, UnitFits(u), u.ts >= ts
  PROVE  Mp4Timed(AddToMp4(m, u, Well), u.ts)
<1> DEFINE b == IF m.base = -1 THEN u.ts ELSE m.base
           g == m.getIdr \/ (m.file.opens /\ u.type = "idr")
           v == [m EXCEPT !.base = b, !.getIdr = g]
           y == AddToMp4(m, u, Well)
<1>1. /\ m.base \in Int /\ m.getIdr \in BOOLEAN /\ m.file \in Logs /\ m.frames \in Seq(SampleFrames)
      /\ u.ts \in Int /\ u.type \in {"sps", "pps", "idr", "slice"}
  BY Mp4RecordIs DEF UnitFits
<1>2. b \in Int /\ g \in BOOLEAN
  BY <1>1
<1>3. y = IF ~v.getIdr \/ u.type \in {"sps", "pps"} THEN v
          ELSE AddPacket(v, u, u.ts - v.base, Well)
  BY DEF AddToMp4
<1>4. PICK top : top = ts - b
  OBVIOUS
<1>5. top \in Int /\ top <= u.ts - b /\ u.ts - b \in Int
  <2> HIDE DEF b
  <2>1. PICK s : s = u.ts
    OBVIOUS
  <2>2. s \in Int /\ s >= ts
    BY <1>1, <2>1
  <2>3. top \in Int /\ top <= s - b /\ s - b \in Int
    BY <1>2, <1>4, <2>2
  <2> QED
    BY <2>1, <2>3
<1>6. Sampled(m.file.data, m.frames, m.last, top)
  <2>1. CASE m.base = -1
    <3>1. m.frames = <<>>
      BY <2>1 DEF Mp4Timed, Mp4Well
    <3> QED
      BY <3>1 DEF Mp4Timed, Sampled
  <2>2. CASE m.base # -1
    BY <1>4, <2>2 DEF Mp4Timed
  <2> QED
    BY <2>1, <2>2
<1>7. TimesFit(m.frames, m.times) /\ (m.frames # <<>> => g) /\ m.file.opens
      /\ m.file.pos = Len(m.file.data)
  BY DEF Mp4Timed, Mp4Well
<1> HIDE DEF b, g
<1>8. /\ v \in Mp4Records /\ v.file = m.file /\ v.frames = m.frames /\ v.last = m.last
      /\ v.times = m.times /\ v.base = b /\ v.getIdr = g
  BY <1>1, <1>2 DEF Mp4Records
<1> HIDE DEF v, y
<1>9. CASE ~v.getIdr \/ u.type \in {"sps", "pps"}
  <2>1. y = v
    BY <1>3, <1>9
  <2>2. Sampled(m.file.data, m.frames, m.last, u.ts - b)
    <3>1. ASSUME m.frames # <<>> PROVE m.frames[Len(m.frames)].time <= u.ts - b
      <4>1. PICK x : x = m.frames[Len(m.frames)]
        OBVIOUS
      <4>2. x.time \in Int /\ x.time <= top
        <5>1. x \in SampleFrames
          BY <1>1, <3>1, <4>1, LastIs
        <5> QED
          BY <1>6, <3>1, <4>1, <5>1 DEF Sampled, SampleFrames
      <4>3. x.time <= u.ts - b
        BY <1>5, <4>2
      <4> QED
        BY <4>1, <4>3
    <3> QED
      BY <1>6, <3>1 DEF Sampled
  <2> QED
    BY <1>7, <1>8, <2>1, <2>2 DEF Mp4Timed, y
<1>10. CASE ~(~v.getIdr \/ u.type \in {"sps", "pps"})
  <2>1. u.type \in {"idr", "slice"} /\ v.getIdr
    BY <1>1, <1>10
  <2>2. PICK t : t = u.ts - b
    OBVIOUS
  <2>3. y = AddPacket(v, u, t, Well) /\ t \in Int /\ top <= t
    BY <1>3, <1>5, <1>8, <1>10, <2>2
  <2>4. Sampled(y.file.data, y.frames, y.last, t) /\ TimesFit(y.frames, y.times)
    <3>1. /\ v.file.opens /\ v.file.pos = Len(v.file.data)
          /\ Sampled(v.file.data, v.frames, v.last, top) /\ TimesFit(v.frames, v.times)
      BY <1>6, <1>7, <1>8
    <3> QED
      BY <1>5, <1>8, <2>1, <2>3, <3>1, PacketTimed
  <2>5. y.base = b /\ y.getIdr
    <3>1. Mp4Kept(v, y, Stored(v, u, t, Well))
      <4>1. v.file.pos \in Nat
        BY <1>8
      <4> QED
        BY <1>8, <2>1, <2>3, <4>1, AddPacketIs, WellIs
    <3> QED
      BY <1>8, <2>1, <3>1 DEF Mp4Kept
  <2> QED
    BY <2>2, <2>4, <2>5 DEF Mp4Timed, y
<1> QED
  BY <1>9, <1>10 DEF y

-----------------------------------------------------------------------------
(* Theorem of two recordings of one stream.                                *)

Writing(w) == Saving(w) /\ w.file.opens

\* The pictures of units up to n; those of one from the other's first on, which are
\* the same, and at the same times.
UpTo(S, n) == \A p \in S : p.unit \in Int /\ p.unit <= n
Common(A, B) == {p \in A : \E q \in B : q.unit <= p.unit}
Alike(A, B) == Common(A, B) = Common(B, A)
Agree(A, B) == \A p \in A, q \in B : p.unit = q.unit => p.ts = q.ts

AllWell(n, ts, w, m) ==
  /\ Writing(w) => FlvWell(w) /\ UpTo(Shown(w.file.data, w.first), n)
  /\ Writing(m) =>
       Mp4Well(m) /\ Mp4Timed(m, ts) /\ UpTo(Shown(m.file.data, m.base), n)
  /\ Writing(w) /\ Writing(m) =>
       LET A == Shown(w.file.data, w.first)
           B == Shown(m.file.data, m.base)
       IN Alike(A, B) /\ Agree(A, B)

FramesHold ==
  /\ FlvFileHolds
  /\ fails \in Nat
  /\ mp4 # None => mp4 \in Mp4Records /\ mp4.file.pos \in Nat
  /\ fails = 0 => AllWell(unit, now, flv, mp4)

LEMMA NewFlvIs ==
  ASSUME NEW opens \in BOOLEAN
  PROVE  LET w == NewFlv(opens)
         IN /\ w \in FlvRecords /\ w.saving /\ ~w.meta /\ ~w.keyed /\ w.file.opens = opens
            /\ w.file.pos = 0 /\ Len(w.file.data) = 0
<1> DEFINE c == Create(opens)
           w == NewFlv(opens)
<1>1. c \in Logs /\ c.pos = 0 /\ Len(c.data) = 0 /\ c.opens = opens
  BY DEF Create, Logs
<1>2. w = [saving |-> TRUE, file |-> c, idx |-> c, sps |-> 0, pps |-> 0, good |-> FALSE,
           first |-> 0, duration |-> 0, meta |-> FALSE, keyed |-> FALSE,
           headed |-> FALSE, torn |-> FALSE, tail |-> 0]
  BY DEF NewFlv
<1> HIDE DEF c, w
<1>3. w \in FlvRecords /\ w.saving /\ ~w.meta /\ ~w.keyed /\ w.file = c
  BY <1>1, <1>2 DEF FlvRecords
<1> QED
  BY <1>1, <1>3 DEF w

LEMMA CommonGrows ==
  ASSUME NEW A, NEW B, NEW N, NEW n \in Nat, Alike(A, B), UpTo(A, n), UpTo(B, n),
         \A p \in N : p.unit = n + 1
  PROVE  \A p \in Common(A \cup N, B \cup N) : p \in Common(B \cup N, A \cup N)
<1> SUFFICES ASSUME NEW p \in A \cup N, NEW q \in B \cup N, q.unit <= p.unit
             PROVE  p \in B \cup N /\ \E r \in A \cup N : r.unit <= p.unit
  BY DEF Common
<1>1. CASE p \in N
  <2>1. p.unit <= p.unit
    BY <1>1
  <2> QED
    BY <1>1, <2>1
<1>2. CASE p \in A
  <2>1. q \in B
    <3>1. CASE q \in N
      BY <1>2, <3>1 DEF UpTo
    <3> QED
      BY <3>1
  <2>2. p \in Common(B, A)
    BY <1>2, <2>1 DEF Alike, Common
  <2> QED
    BY <2>2 DEF Common
<1> QED
  BY <1>1, <1>2

LEMMA AlikeStays ==
  ASSUME NEW A, NEW B, NEW N, NEW n \in Nat, Alike(A, B), Agree(A, B), UpTo(A, n), UpTo(B, n),
         \A p \in N : p.unit = n + 1, \A p \in N, q \in N : p = q,
         NEW K \in BOOLEAN, NEW G \in BOOLEAN, ~K => A = {}, ~G => B = {},
         NEW C, C = (IF K THEN A \cup N ELSE {}), NEW D, D = B \cup (IF G THEN N ELSE {})
  PROVE  Alike(C, D) /\ Agree(C, D)
<1>1. CASE ~K \/ ~G
  <2>1. C = {} \/ D = {}
    BY <1>1
  <2> QED
    BY <2>1 DEF Alike, Common, Agree
<1>2. CASE K /\ G
  <2>1. C = A \cup N /\ D = B \cup N
    BY <1>2
  <2>2. Alike(B, A)
    BY DEF Alike
  <2>3. /\ \A p \in Common(C, D) : p \in Common(D, C)
        /\ \A p \in Common(D, C) : p \in Common(C, D)
    BY <2>1, <2>2, CommonGrows
  <2>4. ASSUME NEW p \in A \cup N, NEW q \in B \cup N, p.unit = q.unit PROVE p.ts = q.ts
    <3>1. CASE p \in A /\ q \in B
      BY <2>4, <3>1 DEF Agree
    <3>2. CASE p \in N /\ q \in N
      BY <3>2
    <3>3. CASE p \in A /\ q \in N
      BY <2>4, <3>3 DEF UpTo
    <3>4. CASE p \in N /\ q \in B
      BY <2>4, <3>4 DEF UpTo
    <3> QED
      BY <3>1, <3>2, <3>3, <3>4
  <2> QED
    BY <2>1, <2>3, <2>4 DEF Alike, Agree
<1> QED
  BY <1>1, <1>2

LEMMA UpToNext ==
  ASSUME NEW A, NEW n \in Nat, UpTo(A, n), NEW u, UnitFits(u), u.n = n + 1
  PROVE  UpTo(A \cup Newest(u), u.n) /\ UpTo({}, u.n) /\ UpTo(A \cup {}, u.n)
<1>1. \A p \in Newest(u) : p.unit = u.n
  BY DEF Newest
<1>2. u.n \in Int
  BY DEF UnitFits
<1> QED
  BY <1>1, <1>2 DEF UpTo

\* A unit of which every write gets out.
LEMMA UnitWell ==
  ASSUME NEW n \in Nat, NEW ts \in Nat, NEW w, NEW m, AllWell(n, ts, w, m),
         w # None => FlvFits(w, n, ts),
         m # None => m \in Mp4Records /\ m.file.pos \in Nat,
         NEW u, UnitFits(u), u.n = n + 1, u.ts >= ts
  PROVE  AllWell(u.n, u.ts, IF Saving(w) THEN AddTimedPacket(w, u, Well) ELSE w,
                            IF Saving(m) THEN AddToMp4(m, u, Well) ELSE m)
<1> DEFINE x == IF Saving(w) THEN AddTimedPacket(w, u, Well) ELSE w
           y == IF Saving(m) THEN AddToMp4(m, u, Well) ELSE m
           A == Shown(w.file.data, w.first)
           B == Shown(m.file.data, m.base)
           N == Newest(u)
<1>1. u.n \in Nat /\ u.n > n /\ u.n # 0
  BY DEF UnitFits
<1>2. OutFits(Well)
  BY WellIs
<1>3. Writing(x) => Writing(w) /\ FlvFits(w, n, ts) /\ x = AddTimedPacket(w, u, Well)
  <2>1. CASE Saving(w)
    <3>1. w # None /\ w.saving /\ FlvFits(w, n, ts) /\ x = AddTimedPacket(w, u, Well)
      BY <2>1 DEF Saving
    <3>2. x.file.opens = w.file.opens
      BY <1>1, <1>2, <3>1, FlvStaysOpen
    <3> HIDE DEF x
    <3> QED
      BY <2>1, <3>1, <3>2 DEF Writing
  <2>2. CASE ~Saving(w)
    BY <2>2 DEF Writing
  <2> QED
    BY <2>1, <2>2
<1>4. Writing(y) => /\ Writing(m) /\ m \in Mp4Records /\ m.file.pos \in Nat
                    /\ y = AddToMp4(m, u, Well)
  <2>1. CASE Saving(m)
    <3>1. m \in Mp4Records /\ m.file.pos \in Nat /\ y = AddToMp4(m, u, Well)
      BY <2>1 DEF Saving
    <3>2. y.file.opens = m.file.opens
      BY <1>2, <3>1, Mp4StaysOpen
    <3> HIDE DEF y
    <3> QED
      BY <2>1, <3>1, <3>2 DEF Writing
  <2>2. CASE ~Saving(m)
    BY <2>2 DEF Writing
  <2> QED
    BY <2>1, <2>2
<1> HIDE DEF x, y
<1>5. /\ Writing(w) => FlvWell(w) /\ UpTo(A, n)
      /\ Writing(m) => Mp4Well(m) /\ Mp4Timed(m, ts) /\ UpTo(B, n)
      /\ Writing(w) /\ Writing(m) => Alike(A, B) /\ Agree(A, B)
  BY DEF AllWell
<1>6. Writing(x) => FlvShows(w, u, x)
  BY <1>1, <1>3, <1>5, WellAdded
<1>7. Writing(y) => Mp4Shows(m, u, y) /\ Mp4Timed(y, u.ts)
  BY <1>4, <1>5, WellMp4, WellTimed
<1> DEFINE K == x.keyed
           G == y.getIdr
           C == Shown(x.file.data, x.first)
           D == Shown(y.file.data, y.base)
<1>8. Writing(x) => /\ FlvWell(x) /\ (w.keyed => K) /\ (K /\ ~w.keyed => u.type = "idr")
                    /\ C = IF K THEN A \cup N ELSE {}
  BY <1>6 DEF FlvShows
<1>9. Writing(y) => /\ Mp4Well(y) /\ G = (m.getIdr \/ u.type = "idr")
                    /\ D = B \cup (IF G THEN N ELSE {}) /\ Mp4Timed(y, u.ts)
  BY <1>7 DEF Mp4Shows
<1>10. /\ Writing(w) => (~w.keyed => A = {})
       /\ Writing(y) => (~m.getIdr => B = {})
  <2>1. Writing(w) => (~w.keyed => A = {})
    BY <1>5 DEF FlvWell
  <2>2. ASSUME Writing(y), ~m.getIdr PROVE B = {}
    <3>1. m.file.data \in Seq(LogCells)
      BY <1>4, <2>2, Mp4RecordIs, LogIs
    <3> QED
      BY <1>4, <1>5, <2>2, <3>1, NothingShown DEF Mp4Well
  <2> QED
    BY <2>1, <2>2
<1> HIDE DEF K, G, A, B, C, D
<1>11. ASSUME Writing(x) PROVE UpTo(C, u.n)
  BY <1>3, <1>5, <1>8, <1>11, UpToNext DEF N
<1>12. ASSUME Writing(y) PROVE UpTo(D, u.n)
  BY <1>4, <1>5, <1>9, <1>12, UpToNext DEF N
<1>13. ASSUME Writing(x), Writing(y) PROVE Alike(C, D) /\ Agree(C, D)
  <2> DEFINE k == K = TRUE
             g == G = TRUE
  <2>1. /\ Alike(A, B) /\ Agree(A, B) /\ UpTo(A, n) /\ UpTo(B, n)
        /\ Writing(w) /\ Writing(m)
    BY <1>3, <1>4, <1>5, <1>13
  <2>2. (~k => A = {}) /\ (~g => B = {})
    BY <1>8, <1>9, <1>10, <1>13, <2>1
  <2>3. /\ \A p \in N : p.unit = n + 1
        /\ \A p \in N, q \in N : p = q
    BY DEF N, Newest
  <2>4. C = (IF k THEN A \cup N ELSE {}) /\ D = B \cup (IF g THEN N ELSE {})
    <3>1. C = IF K THEN A \cup N ELSE {}
      BY <1>8, <1>13
    <3>2. D = B \cup (IF G THEN N ELSE {})
      BY <1>9, <1>13
    <3> QED
      BY <3>1, <3>2
  <2>5. k \in BOOLEAN /\ g \in BOOLEAN
    OBVIOUS
  <2> HIDE DEF k, g
  <2> QED
    BY <2>1, <2>2, <2>3, <2>4, <2>5, AlikeStays
<1> QED
  BY <1>1, <1>8, <1>9, <1>11, <1>12, <1>13 DEF AllWell, K, G, C, D, x, y

LEMMA FramesStay ==
  ASSUME RecordingAssumption, FramesHold, [Next]_vars
  PROVE  FramesHold'
<1>1. /\ unit \in Nat /\ now \in Nat /\ (flv # None => FlvFits(flv, unit, now))
      /\ fails \in Nat
      /\ mp4 # None => mp4 \in Mp4Records /\ mp4.file.pos \in Nat
      /\ fails = 0 => AllWell(unit, now, flv, mp4)
  BY DEF FramesHold, FlvFileHolds
<1>2. FlvFileHolds'
  BY FlvFileStays DEF FramesHold
<1>3. CASE RecordFlv
  <2>1. PICK opens \in BOOLEAN : flv' = NewFlv(opens)
    BY <1>3 DEF RecordFlv
  <2>2. UNCHANGED <<unit, now, fails, mp4>>
    BY <1>3 DEF RecordFlv
  <2>3. /\ flv' \in FlvRecords /\ flv'.saving /\ ~flv'.meta /\ ~flv'.keyed
        /\ flv'.file.pos = 0 /\ Len(flv'.file.data) = 0
    BY <2>1, NewFlvIs
  <2>4. ASSUME fails = 0 PROVE AllWell(unit, now, flv', mp4)
    <3> DEFINE A == Shown(flv'.file.data, flv'.first)
    <3>1. Writing(flv') => FlvWell(flv')
      BY <2>3, EmptyIsWell DEF Writing
    <3>2. Writing(flv') => A = {}
      BY <2>3, <3>1 DEF FlvWell
    <3>3. Writing(mp4) => /\ Mp4Well(mp4) /\ Mp4Timed(mp4, now)
                          /\ UpTo(Shown(mp4.file.data, mp4.base), unit)
      BY <1>1, <2>4 DEF AllWell
    <3> HIDE DEF A
    <3>4. Writing(flv') => /\ UpTo(A, unit)
                           /\ Alike(A, Shown(mp4.file.data, mp4.base))
                           /\ Agree(A, Shown(mp4.file.data, mp4.base))
      BY <3>2 DEF UpTo, Alike, Common, Agree
    <3> QED
      BY <2>3, <3>1, <3>3, <3>4 DEF AllWell, A
  <2> QED
    BY <1>1, <1>2, <2>2, <2>4 DEF FramesHold
<1>4. CASE RecordMp4
  <2>1. PICK opens \in BOOLEAN : mp4' = NewMp4(opens)
    BY <1>4 DEF RecordMp4
  <2>2. UNCHANGED <<unit, now, fails, flv>>
    BY <1>4 DEF RecordMp4
  <2> DEFINE m == mp4'
             c == Create(opens)
  <2>3. /\ m \in Mp4Records /\ m.saving /\ m.base = -1 /\ ~m.getIdr
        /\ Left(c, Boxes, 1, m.file) /\ m.file.pos \in Nat /\ m.file.opens = opens
        /\ m.frames = <<>> /\ m.times = <<>>
    BY <2>1, NewMp4Is
  <2>4. ASSUME Writing(m)
        PROVE  Mp4Well(m) /\ Mp4Timed(m, now) /\ Shown(m.file.data, m.base) = {}
    <3> DEFINE b == Cell("box", 0, 0)
    <3>1. c \in Logs /\ c.opens /\ c.pos = 0 /\ Len(c.data) = 0
      BY <2>3, <2>4 DEF Create, Logs, Writing
    <3> HIDE DEF c
    <3>2. b \in LogCells /\ ~IsPicture(b)
      BY DEF Cell, LogCells, LogNames, IsPicture
    <3>3. Boxes \in Seq(LogCells) /\ Len(Boxes) = 1 /\ Boxes[1] = b /\ Len(Boxes) > 0
      <4> HIDE DEF b
      <4>1. <<b>> \in Seq(LogCells) /\ Len(<<b>>) = 1 /\ <<b>>[1] = b
        BY <3>2
      <4> QED
        BY <4>1 DEF Boxes, b
    <3> DEFINE n == 1
    <3>4. n \in Nat /\ n >= Len(Boxes) /\ Left(c, Boxes, n, m.file)
      BY <2>3, <3>3
    <3> HIDE DEF n, b
    <3>5. Extended(c, Boxes, m.file)
      <4> HIDE DEF m
      <4> QED
        BY <3>1, <3>3, <3>4, WellWrites
    <3>6. /\ m.file \in Logs /\ m.file.opens /\ m.file.pos = Len(m.file.data)
          /\ Len(m.file.data) = 1 /\ m.file.data[1] = b
      BY <3>1, <3>3, <3>5 DEF Extended
    <3>7. m.file.data \in Seq(LogCells) /\ \A i \in 1..Len(m.file.data) : ~IsPicture(m.file.data[i])
      BY <3>2, <3>6, LogIs
    <3>8. Shown(m.file.data, m.base) = {}
      BY <3>7, NothingShown
    <3>9. Mp4Timed(m, now)
      <4> HIDE DEF m
      <4>1. Sampled(m.file.data, m.frames, m.last, now - m.base)
        <5>1. Len(m.frames) = 0
          BY <2>3
        <5> QED
          BY <2>3, <3>7, <5>1 DEF Sampled
      <4>2. TimesFit(m.frames, m.times)
        BY <2>3 DEF TimesFit
      <4> QED
        BY <2>3, <4>1, <4>2 DEF Mp4Timed
    <3> QED
      BY <2>3, <3>6, <3>7, <3>8, <3>9 DEF Mp4Well
  <2> HIDE DEF m
  <2>5. ASSUME fails = 0 PROVE AllWell(unit, now, flv, m)
    <3> DEFINE A == Shown(flv.file.data, flv.first)
               B == Shown(m.file.data, m.base)
    <3>1. Writing(flv) => FlvWell(flv) /\ UpTo(A, unit)
      BY <1>1, <2>2, <2>5 DEF AllWell
    <3>2. Writing(m) => Mp4Well(m) /\ Mp4Timed(m, now) /\ B = {}
      BY <2>4
    <3> HIDE DEF A, B
    <3>3. Writing(m) => UpTo(B, unit) /\ Alike(A, B) /\ Agree(A, B)
      BY <3>2 DEF UpTo, Alike, Common, Agree
    <3> QED
      BY <3>1, <3>2, <3>3 DEF AllWell, A, B
  <2> QED
    BY <1>1, <1>2, <2>2, <2>3, <2>5 DEF FramesHold, m
<1>5. CASE NextUnit
  <2>1. PICK u, out : out \in Fates /\ UnitTaken(u, out)
    BY <1>1, <1>5, UnitIsTaken
  <2>2. /\ UnitFits(u) /\ u.n = unit + 1 /\ u.ts >= now /\ unit' = u.n /\ now' = u.ts
        /\ fails' = IF out = Well THEN fails ELSE fails + 1
        /\ flv' = IF Saving(flv) THEN AddTimedPacket(flv, u, out) ELSE flv
        /\ mp4' = IF Saving(mp4) THEN AddToMp4(mp4, u, out) ELSE mp4
    BY <2>1 DEF UnitTaken
  <2>3. OutFits(out)
    BY <2>1, FatesFit
  <2>4. mp4' # None => mp4' \in Mp4Records /\ mp4'.file.pos \in Nat
    <3>1. CASE Saving(mp4)
      <4>1. mp4 \in Mp4Records /\ mp4.file.pos \in Nat
        BY <1>1, <3>1 DEF Saving
      <4>2. /\ AddToMp4(mp4, u, out) \in Mp4Records
            /\ AddToMp4(mp4, u, out).file.pos \in Nat
        BY <2>2, <2>3, <4>1, AddedToMp4
      <4> QED
        BY <2>2, <3>1, <4>2
    <3>2. CASE ~Saving(mp4)
      BY <1>1, <2>2, <3>2
    <3> QED
      BY <3>1, <3>2
  <2>5. ASSUME fails' = 0 PROVE AllWell(u.n, u.ts, flv', mp4')
    <3>1. out = Well /\ fails = 0
      BY <1>1, <2>2, <2>5
    <3>2. AllWell(u.n, u.ts, IF Saving(flv) THEN AddTimedPacket(flv, u, Well) ELSE flv,
                             IF Saving(mp4) THEN AddToMp4(mp4, u, Well) ELSE mp4)
      BY <1>1, <2>2, <3>1, UnitWell
    <3> QED
      BY <2>2, <3>1, <3>2
  <2>6. fails' \in Nat
    BY <1>1, <2>2
  <2> QED
    BY <1>2, <2>2, <2>4, <2>5, <2>6 DEF FramesHold
<1>6. CASE StopFlv
  <2>1. PICK out \in {Well, Nought}, spot \in {-1, 0, 1} : flv' = CloseFlv(flv, out, spot)
    BY <1>6 DEF StopFlv
  <2>2. UNCHANGED <<unit, now, fails, mp4>> /\ flv # None /\ flv.saving
    BY <1>6 DEF StopFlv, Saving
  <2>3. OutFits(out)
    BY <2>1, FatesFit
  <2>4. ~flv'.saving
    BY <1>1, <2>1, <2>2, <2>3, CloseFlvFits
  <2>5. ~Writing(flv')
    BY <2>4 DEF Writing, Saving
  <2>6. fails = 0 => AllWell(unit, now, flv', mp4)
    BY <1>1, <2>5 DEF AllWell
  <2> QED
    BY <1>1, <1>2, <2>2, <2>6 DEF FramesHold
<1>7. CASE StopMp4
  <2>1. mp4' = CloseMp4(mp4) /\ UNCHANGED <<unit, now, fails, flv>> /\ mp4 # None
    BY <1>7 DEF StopMp4, Saving
  <2>2. mp4' \in Mp4Records /\ mp4'.file = mp4.file /\ ~mp4'.saving
    BY <1>1, <2>1, CloseMp4Is
  <2>3. ~Writing(mp4')
    BY <2>2 DEF Writing, Saving
  <2>4. fails = 0 => AllWell(unit, now, flv, mp4')
    BY <1>1, <2>3 DEF AllWell
  <2> QED
    BY <1>1, <1>2, <2>1, <2>2, <2>4 DEF FramesHold
<1>8. CASE UNCHANGED vars
  BY <1>1, <1>2, <1>8 DEF vars, FramesHold
<1> QED
  BY <1>3, <1>4, <1>5, <1>6, <1>7, <1>8 DEF Next

\* P has the pictures of B, with their places in samples; and those of A.
HasAll(P, B) ==
  /\ \A q \in P : [unit |-> q.unit, ts |-> q.ts + q.place] \in B
  /\ \A p \in B : \E q \in P : q.unit = p.unit
ShowSame(A, P) ==
  /\ UnitsFrom(A, P) = UnitsFrom(P, A)
  /\ \A p \in A, q \in P : p.unit = q.unit => p.ts = q.ts + q.place

\* The pictures that a player of the file in MP4 shows are those in its data.
LEMMA Mp4PicturesAre ==
  ASSUME mp4 \in Mp4Records, NEW ts, Mp4Timed(mp4, ts)
  PROVE  HasAll(Mp4Pictures, Shown(mp4.file.data, mp4.base))
<1>1. PICK m : m = mp4
  OBVIOUS
<1>2. PICK d, fr, b : d = m.file.data /\ fr = m.frames /\ b = m.base
  OBVIOUS
<1>3. /\ m \in Mp4Records /\ d \in Seq(LogCells) /\ fr \in Seq(SampleFrames) /\ b \in Int
      /\ DOMAIN d = 1..Len(d) /\ DOMAIN fr = 1..Len(fr) /\ m.times \in Seq(Counts)
      /\ \A i \in 1..Len(d) : d[i] \in LogCells
  BY <1>1, <1>2, Mp4RecordIs, LogIs, LenProperties
<1>4. Mp4Timed(m, ts) /\ TimesFit(m.frames, m.times)
  BY <1>1 DEF Mp4Timed
<1> DEFINE T(k) == b + fr[1].time + TimeOf(m, k)
           Pl(k, i) == (i - fr[k].offset) \div 2 - 1
           In(k, i) == IsPicture(d[i]) /\ i - fr[k].offset \in 1..fr[k].size
           Pic(k, i) == [unit |-> d[i].unit, ts |-> T(k), place |-> Pl(k, i)]
<1>5. /\ \A q \in Mp4Pictures : \E k \in 1..Len(fr), i \in 1..Len(d) : In(k, i) /\ q = Pic(k, i)
      /\ \A k \in 1..Len(fr), i \in 1..Len(d) : In(k, i) => Pic(k, i) \in Mp4Pictures
  <2> DEFINE F == {r \in (1..Len(fr)) \X (1..Len(d)) : In(r[1], r[2])}
             Q(r) == Pic(r[1], r[2])
  <2>1. Mp4Pictures = {Q(r) : r \in F}
    <3>1. F = {r \in (DOMAIN fr) \X (DOMAIN d) :
                 /\ r[2] - fr[r[1]].offset \in 1..fr[r[1]].size
                 /\ d[r[2]].is \in {"idr", "slice"}}
      BY <1>3 DEF IsPicture
    <3> HIDE DEF F
    <3> QED
      BY <1>1, <1>2, <3>1 DEF Mp4Pictures
  <2>2. \A k \in 1..Len(fr), i \in 1..Len(d) : In(k, i) => <<k, i>> \in F /\ Q(<<k, i>>) = Pic(k, i)
    OBVIOUS
  <2>3. \A r \in F : r[1] \in 1..Len(fr) /\ r[2] \in 1..Len(d) /\ In(r[1], r[2])
    OBVIOUS
  <2>4. \A r : Q(r) = Pic(r[1], r[2])
    OBVIOUS
  <2> HIDE DEF F, Q, In, Pic
  <2> QED
    BY <2>1, <2>2, <2>3, <2>4
<1>6. ASSUME NEW k \in 1..Len(fr), NEW i \in 1..Len(d), In(k, i)
      PROVE  T(k) + Pl(k, i) = d[i].time + b
  <2>1. TimeOf(m, k) \in Int /\ fr[k].time = fr[1].time + TimeOf(m, k)
    BY <1>2, <1>3, <1>4, TimeIs
  <2>2. PicturesTimed(d, fr[k])
    BY <1>2, <1>4 DEF Mp4Timed, Sampled
  <2>3. PICK x, y : x = fr[k] /\ y = fr[1]
    OBVIOUS
  <2>4. x.offset \in Nat /\ x.time \in Int /\ y.time \in Int
    <3>1. Len(fr) \in Nat
      BY <1>3, LenProperties
    <3>2. 1 \in 1..Len(fr)
      BY <3>1
    <3>3. x \in SampleFrames /\ y \in SampleFrames
      BY <1>3, <2>3, <3>2, ElementOfSeq
    <3> QED
      BY <3>3 DEF SampleFrames
  <2>5. PICK j : j = i - x.offset
    OBVIOUS
  <2>6. j \in 1..x.size /\ x.offset + j = i /\ IsPicture(d[i])
    BY <1>6, <2>3, <2>4, <2>5
  <2>7. d[i].time = x.time + (j \div 2) - 1
    BY <2>2, <2>3, <2>6 DEF PicturesTimed
  <2>8. PICK h, g : h = j \div 2 /\ g = TimeOf(m, k)
    OBVIOUS
  <2>9. h \in Int /\ g \in Int /\ x.time = y.time + g /\ d[i].time = x.time + h - 1
    <3>1. j \in Int
      BY <2>4, <2>5
    <3> QED
      BY <2>1, <2>3, <2>7, <2>8, <3>1
  <2>10. b + y.time + g + (h - 1) = d[i].time + b
    <3>1. PICK o, v, w : o = y.time /\ v = x.time /\ w = d[i].time
      OBVIOUS
    <3>2. /\ o \in Int /\ g \in Int /\ h \in Int /\ b \in Int
          /\ v = o + g /\ w = v + h - 1
      BY <1>3, <2>4, <2>9, <3>1
    <3>3. b + o + g + (h - 1) = w + b
      BY <3>2
    <3> QED
      BY <3>1, <3>3
  <2> QED
    BY <2>3, <2>5, <2>8, <2>10
<1> HIDE DEF T, Pl
<1>7. ASSUME NEW q \in Mp4Pictures
      PROVE  [unit |-> q.unit, ts |-> q.ts + q.place] \in Shown(d, b)
  <2>1. PICK k \in 1..Len(fr), i \in 1..Len(d) : In(k, i) /\ q = Pic(k, i)
    BY <1>5
  <2>2. [unit |-> q.unit, ts |-> q.ts + q.place] = Picture(d[i], b)
    BY <1>6, <2>1 DEF Picture
  <2> QED
    BY <2>1, <2>2 DEF Shown
<1>8. ASSUME NEW p \in Shown(d, b) PROVE \E q \in Mp4Pictures : q.unit = p.unit
  <2>1. PICK i \in 1..Len(d) : IsPicture(d[i]) /\ p = Picture(d[i], b)
    BY DEF Shown
  <2>2. PICK k \in 1..Len(fr) : i - fr[k].offset \in 1..fr[k].size
    BY <1>2, <1>4, <2>1 DEF Mp4Timed, Sampled
  <2>3. Pic(k, i) \in Mp4Pictures
    BY <1>5, <2>1, <2>2
  <2>4. Pic(k, i).unit = p.unit
    BY <2>1 DEF Picture
  <2> QED
    BY <2>3, <2>4
<1>9. HasAll(Mp4Pictures, Shown(d, b))
  BY <1>7, <1>8 DEF HasAll
<1> QED
  BY <1>1, <1>2, <1>9

LEMMA AlikeShown ==
  ASSUME NEW A, NEW B, NEW P, Alike(A, B), Agree(A, B), HasAll(P, B)
  PROVE  ShowSame(A, P)
<1>0. \A p \in B : \E q \in P : q.unit = p.unit
  BY DEF HasAll
<1>1. ASSUME NEW q \in P PROVE \E r \in B : r.unit = q.unit /\ r.ts = q.ts + q.place
  <2>1. PICK r \in B : r = [unit |-> q.unit, ts |-> q.ts + q.place]
    BY DEF HasAll
  <2> QED
    BY <2>1
<1>2. ASSUME NEW p \in A, NEW q \in P, q.unit <= p.unit PROVE p.unit \in UnitsFrom(P, A)
  <2>1. PICK r \in B : r.unit = q.unit
    BY <1>1
  <2>2. p \in Common(B, A)
    BY <1>2, <2>1 DEF Alike, Common
  <2>3. p \in B /\ \E s \in A : s.unit <= p.unit
    BY <2>2 DEF Common
  <2>4. PICK z \in P : z.unit = p.unit
    BY <1>0, <2>3
  <2> QED
    BY <2>3, <2>4 DEF UnitsFrom
<1>3. ASSUME NEW q \in P, NEW p \in A, p.unit <= q.unit PROVE q.unit \in UnitsFrom(A, P)
  <2>1. PICK r \in B : r.unit = q.unit
    BY <1>1
  <2>2. r \in Common(A, B)
    BY <1>3, <2>1 DEF Alike, Common
  <2>3. r \in A /\ \E s \in B : s.unit <= r.unit
    BY <2>2 DEF Common
  <2>4. PICK s \in B : s.unit <= r.unit
    BY <2>3
  <2>5. PICK z \in P : z.unit = s.unit
    BY <1>0, <2>4
  <2> QED
    BY <2>1, <2>3, <2>4, <2>5 DEF UnitsFrom
<1>4. UnitsFrom(A, P) = UnitsFrom(P, A)
  <2>1. \A x \in UnitsFrom(A, P) : x \in UnitsFrom(P, A)
    BY <1>2 DEF UnitsFrom
  <2>2. \A x \in UnitsFrom(P, A) : x \in UnitsFrom(A, P)
    BY <1>3 DEF UnitsFrom
  <2> QED
    BY <2>1, <2>2
<1>5. ASSUME NEW p \in A, NEW q \in P, p.unit = q.unit PROVE p.ts = q.ts + q.place
  <2>1. PICK r \in B : r.unit = q.unit /\ r.ts = q.ts + q.place
    BY <1>1
  <2> QED
    BY <1>5, <2>1 DEF Agree
<1> QED
  BY <1>4, <1>5 DEF ShowSame

\* Recordings of one stream in FLV and in MP4, whichever was begun first and whatever
\* units came before the other, hold the same pictures from the later beginning on, as
\* long as the disk does not fail.  The times that the tables of MP4 give them are
\* those of the tags of FLV, but that units a millisecond apart are one sample.
THEOREM RecordingsShowTheSame == Spec => []SameFrames
<1>1. Init => FramesHold
  <2>1. ~Writing(None)
    BY DEF Writing, Saving
  <2>2. AllWell(0, 0, None, None)
    BY <2>1 DEF AllWell
  <2> QED
    BY <2>2 DEF Init, FramesHold, FlvFileHolds
<1>2. FramesHold /\ [Next]_vars => FramesHold'
  BY RecordingAssumption, FramesStay
<1>3. FramesHold => SameFrames
  <2> SUFFICES ASSUME FramesHold, fails = 0, Saving(flv), Saving(mp4),
                      flv.file.opens, mp4.file.opens
               PROVE  ShowSame(FlvPictures, Mp4Pictures)
    BY DEF SameFrames, ShowSame
  <2> DEFINE A == Shown(flv.file.data, flv.first)
             B == Shown(mp4.file.data, mp4.base)
  <2>1. /\ flv.file \in Logs /\ mp4 \in Mp4Records
        /\ Alike(A, B) /\ Agree(A, B) /\ Mp4Timed(mp4, now)
    BY FlvRecordIs DEF FramesHold, FlvFileHolds, FlvFits, Saving, AllWell, Writing
  <2>2. FlvPictures = A
    <3> DEFINE d == flv.file.data
    <3>1. DOMAIN d = 1..Len(d)
      BY <2>1, LogIs
    <3>2. ToSet(d) = {d[i] : i \in DOMAIN d}
      BY DEF ToSet
    <3> HIDE DEF d
    <3>3. {[unit |-> c.unit, ts |-> c.time + flv.first] :
             c \in {x \in ToSet(d) : x.is \in {"idr", "slice"}}} = Shown(d, flv.first)
      BY <3>1, <3>2 DEF Shown, IsPicture, Picture
    <3> QED
      BY <3>3 DEF FlvPictures, d
  <2>3. HasAll(Mp4Pictures, B)
    BY <2>1, Mp4PicturesAre
  <2> HIDE DEF A, B
  <2> QED
    BY <2>1, <2>2, <2>3, AlikeShown
<1> QED
  BY <1>1, <1>2, <1>3, PTL DEF Spec

-----------------------------------------------------------------------------
(* The tables of a recording in MP4.                                       *)

\* The entry of the table of chunks that is about chunk c.
IsRun(runs, c, e) ==
  /\ e \in DOMAIN runs /\ runs[e].chunk <= c
  /\ \A j \in DOMAIN runs : runs[j].chunk <= c => j <= e

\* Sample k behind sample b is where a chunk begins, or behind the one before it.
InPlace(fr, start, b, k) ==
  fr[b + k].offset = IF k = 1 THEN start ELSE fr[b + k - 1].offset + fr[b + k - 1].size

\* Chunks that hold the first samples, up to the one with the number top; B says how
\* many are before each.
ChunkIs(fr, chunks, runs, B, top, c) ==
  \E e : /\ IsRun(runs, c, e)
         /\ B[c + 1] = B[c] + runs[e].samples /\ B[c + 1] <= top
         /\ \A k \in 1..runs[e].samples : InPlace(fr, chunks[c], B[c], k)

Tabled(fr, chunks, runs, B, top) ==
  /\ B \in [1..(Len(chunks) + 1) -> Nat] /\ B[1] = 0 /\ B[Len(chunks) + 1] = top
  /\ \A e \in DOMAIN runs : runs[e].chunk <= Len(chunks)
  /\ \A c \in 1..Len(chunks) : ChunkIs(fr, chunks, runs, B, top, c)

Ended(m, chunks, runs) ==
  /\ chunks = Append(m.chunks, m.cur)
  /\ runs = IF m.toChunk = <<>> \/ Last(m.toChunk).samples # m.num
            THEN Append(m.toChunk, [chunk |-> Len(chunks), samples |-> m.num])
            ELSE m.toChunk

\* And the chunk that holds those after them.
ChunksFit(m) ==
  LET n == Len(m.frames)
  IN /\ m.num <= n
     /\ \E B : Tabled(m.frames, m.chunks, m.toChunk, B, n - m.num)
     /\ \A k \in 1..m.num : InPlace(m.frames, m.cur, n - m.num, k)
     /\ m.frames # <<>> => m.num >= 1 /\ m.connected = m.frames[n].offset + 2

LEMMA TabledStays ==
  ASSUME NEW fr, NEW chunks \in Seq(Nat), NEW runs \in Seq(ChunkRuns), NEW B, NEW top \in Nat,
         Tabled(fr, chunks, runs, B, top), NEW gr, \A i \in 1..top : gr[i] = fr[i]
  PROVE  Tabled(gr, chunks, runs, B, top)
<1>1. Len(chunks) \in Nat /\ B \in [1..(Len(chunks) + 1) -> Nat]
  BY LenProperties DEF Tabled
<1>2. ASSUME NEW c \in 1..Len(chunks) PROVE ChunkIs(gr, chunks, runs, B, top, c)
  <2>1. PICK e : /\ IsRun(runs, c, e)
                 /\ B[c + 1] = B[c] + runs[e].samples /\ B[c + 1] <= top
                 /\ \A k \in 1..runs[e].samples : InPlace(fr, chunks[c], B[c], k)
    BY DEF Tabled, ChunkIs
  <2>2. B[c] \in Nat /\ runs[e].samples \in Nat
    <3>1. c \in 1..(Len(chunks) + 1) /\ e \in DOMAIN runs
      BY <1>1, <2>1 DEF IsRun
    <3>2. runs[e] \in ChunkRuns
      BY <3>1, LenProperties, ElementOfSeq
    <3> QED
      BY <1>1, <3>1, <3>2 DEF ChunkRuns
  <2> DEFINE b == B[c]
             s == runs[e].samples
  <2>3. ASSUME NEW k \in 1..s PROVE InPlace(gr, chunks[c], b, k)
    <3>1. b \in Nat /\ s \in Nat /\ b + s <= top
      BY <2>1, <2>2
    <3> HIDE DEF b, s
    <3>2. b + k \in 1..top /\ (k # 1 => b + k - 1 \in 1..top)
      BY <3>1
    <3>3. InPlace(fr, chunks[c], b, k)
      BY <2>1 DEF b, s
    <3> QED
      BY <3>2, <3>3 DEF InPlace
  <2> QED
    BY <2>1, <2>3 DEF ChunkIs
<1> QED
  BY <1>2 DEF Tabled

\* A chunk that ends is one more, and takes an entry if it does not have as many
\* samples as the one before it.
LEMMA ChunkEnds ==
  ASSUME NEW m \in Mp4Records, ChunksFit(m), NEW chunks, NEW runs, Ended(m, chunks, runs)
  PROVE  \E C : Tabled(m.frames, chunks, runs, C, Len(m.frames))
<1> DEFINE fr == m.frames
           top == Len(fr)
           n == Len(m.chunks)
           old == m.toChunk
           last == Len(old)
           num == m.num
<1>1. /\ m.chunks \in Seq(Nat) /\ old \in Seq(ChunkRuns) /\ num \in Nat /\ m.cur \in Nat
      /\ fr \in Seq(SampleFrames)
  BY Mp4RecordIs
<1>2. top \in Nat /\ n \in Nat /\ last \in Nat /\ DOMAIN old = 1..last
  BY <1>1, LenProperties
<1>3. num <= top /\ \A k \in 1..num : InPlace(fr, m.cur, top - num, k)
  BY DEF ChunksFit
<1>4. PICK B : Tabled(fr, m.chunks, old, B, top - num)
  BY DEF ChunksFit
<1>5. /\ B \in [1..(n + 1) -> Nat] /\ B[1] = 0 /\ B[n + 1] = top - num
      /\ \A e \in 1..last : old[e].chunk <= n
      /\ \A c \in 1..n : ChunkIs(fr, m.chunks, old, B, top - num, c)
  BY <1>2, <1>4 DEF Tabled
<1>6. /\ Len(chunks) = n + 1 /\ chunks[n + 1] = m.cur
      /\ \A c \in 1..n : chunks[c] = m.chunks[c]
  BY <1>1, AppendProperties DEF Ended
<1>7. \A e \in 1..last : old[e] \in ChunkRuns
  BY <1>1, <1>2, ElementOfSeq
\* The table is the old one, or has an entry for the new chunk.
<1>8. /\ \A e \in 1..last : runs[e] = old[e]
      /\ \/ last # 0 /\ DOMAIN runs = 1..last /\ old[last].samples = num
         \/ /\ DOMAIN runs = 1..(last + 1)
            /\ runs[last + 1].chunk = n + 1 /\ runs[last + 1].samples = num
  <2> DEFINE x == [chunk |-> n + 1, samples |-> num]
  <2>1. x \in ChunkRuns /\ x.chunk = n + 1 /\ x.samples = num
    BY <1>1, <1>2 DEF ChunkRuns
  <2>2. runs = IF old = <<>> \/ Last(old).samples # num THEN Append(old, x) ELSE old
    BY <1>6 DEF Ended
  <2> HIDE DEF x
  <2>3. CASE old = <<>> \/ Last(old).samples # num
    <3>1. runs = Append(old, x)
      BY <2>2, <2>3
    <3>2. /\ Len(runs) = last + 1 /\ runs \in Seq(ChunkRuns) /\ runs[last + 1] = x
          /\ \A e \in 1..last : runs[e] = old[e]
      BY <1>1, <2>1, <3>1, AppendProperties
    <3>3. DOMAIN runs = 1..(last + 1)
      BY <3>2, LenProperties
    <3> QED
      BY <2>1, <3>2, <3>3
  <2>4. CASE ~(old = <<>> \/ Last(old).samples # num)
    <3>1. runs = old /\ last # 0 /\ Last(old) = old[last]
      <4>1. last >= 1 /\ Last(old) = old[last]
        BY <1>1, <2>4, LastIs
      <4> QED
        BY <2>2, <2>4, <4>1
    <3> QED
      BY <1>2, <2>4, <3>1
  <2> QED
    BY <2>3, <2>4
<1> DEFINE C == [c \in 1..(n + 2) |-> IF c = n + 2 THEN top ELSE B[c]]
<1>9. C \in [1..(n + 2) -> Nat] /\ C[n + 2] = top /\ \A c \in 1..(n + 1) : C[c] = B[c]
  <2>1. \A c \in 1..(n + 2) : c # n + 2 => c \in 1..(n + 1)
    BY <1>2
  <2>2. \A c \in 1..(n + 1) : c \in 1..(n + 2) /\ c # n + 2
    BY <1>2
  <2>3. n + 2 \in 1..(n + 2)
    BY <1>2
  <2> QED
    BY <1>2, <1>5, <2>1, <2>2, <2>3
<1> HIDE DEF C, fr, top, n, old, last, num
<1>10. ASSUME NEW e \in DOMAIN runs PROVE runs[e].chunk <= n + 1
  <2>1. CASE e \in 1..last
    BY <1>2, <1>5, <1>7, <1>8, <2>1 DEF ChunkRuns
  <2>2. CASE e \notin 1..last
    <3>1. e = last + 1 /\ runs[e].chunk = n + 1
      BY <1>2, <1>8, <2>2
    <3> QED
      BY <1>2, <3>1
  <2> QED
    BY <2>1, <2>2
<1>11. ASSUME NEW c \in 1..n PROVE ChunkIs(fr, chunks, runs, C, top, c)
  <2>1. PICK e : /\ IsRun(old, c, e)
                 /\ B[c + 1] = B[c] + old[e].samples /\ B[c + 1] <= top - num
                 /\ \A k \in 1..old[e].samples : InPlace(fr, m.chunks[c], B[c], k)
    BY <1>5 DEF ChunkIs
  <2>2. e \in 1..last /\ e \in DOMAIN runs /\ runs[e] = old[e]
    BY <1>2, <1>8, <2>1 DEF IsRun
  <2>3. IsRun(runs, c, e)
    <3>1. ASSUME NEW j \in DOMAIN runs, runs[j].chunk <= c PROVE j <= e
      <4>1. j \in 1..last
        BY <1>2, <1>8, <3>1
      <4> QED
        BY <1>2, <1>8, <2>1, <3>1, <4>1 DEF IsRun
    <3>2. runs[e].chunk <= c
      BY <2>1, <2>2 DEF IsRun
    <3> QED
      BY <2>2, <3>1, <3>2 DEF IsRun
  <2>4. c \in 1..(n + 1) /\ c + 1 \in 1..(n + 1)
    BY <1>2
  <2>5. B[c + 1] \in Nat /\ B[c + 1] <= top
    BY <1>1, <1>2, <1>3, <1>5, <2>1, <2>4 DEF num
  <2>6. /\ C[c + 1] = C[c] + runs[e].samples /\ C[c + 1] <= top
        /\ \A k \in 1..runs[e].samples : InPlace(fr, chunks[c], C[c], k)
    BY <1>6, <1>9, <2>1, <2>2, <2>4, <2>5
  <2> QED
    BY <2>3, <2>6 DEF ChunkIs
<1>12. ChunkIs(fr, chunks, runs, C, top, n + 1)
  <2>1. PICK e \in DOMAIN runs : runs[e].samples = num /\ \A j \in DOMAIN runs : j <= e
    <3>1. CASE last # 0 /\ DOMAIN runs = 1..last /\ old[last].samples = num
      <4>1. last \in 1..last
        BY <1>2, <3>1
      <4> QED
        BY <1>2, <1>8, <3>1, <4>1
    <3>2. CASE DOMAIN runs = 1..(last + 1) /\ runs[last + 1].samples = num
      <4>1. last + 1 \in 1..(last + 1)
        BY <1>2
      <4> QED
        BY <1>2, <3>2, <4>1
    <3> QED
      BY <1>8, <3>1, <3>2
  <2>2. IsRun(runs, n + 1, e)
    BY <1>10, <2>1 DEF IsRun
  <2>3. n + 1 \in 1..(n + 1) /\ (n + 1) + 1 = n + 2
    BY <1>2
  <2>4. C[n + 1] = top - num /\ C[(n + 1) + 1] = top
    BY <1>5, <1>9, <2>3
  <2>5. top = (top - num) + num /\ top <= top
    BY <1>1, <1>2 DEF num
  <2> QED
    BY <1>3, <1>6, <2>1, <2>2, <2>4, <2>5 DEF ChunkIs
<1>13. \A c \in 1..(n + 1) : c \in 1..n \/ c = n + 1
  BY <1>2
<1>14. (n + 1) + 1 = n + 2 /\ 1 \in 1..(n + 1)
  BY <1>2
<1>15. Tabled(fr, chunks, runs, C, top)
  <2>1. C \in [1..(Len(chunks) + 1) -> Nat] /\ C[1] = 0 /\ C[Len(chunks) + 1] = top
    BY <1>5, <1>6, <1>9, <1>14
  <2>2. \A c \in 1..Len(chunks) : ChunkIs(fr, chunks, runs, C, top, c)
    BY <1>6, <1>11, <1>12, <1>13
  <2> QED
    BY <1>6, <1>10, <2>1, <2>2 DEF Tabled
<1> QED
  BY <1>15 DEF fr, top

SameTables(m, y) ==
  /\ y.chunks = m.chunks /\ y.toChunk = m.toChunk /\ y.cur = m.cur
  /\ y.connected = m.connected

\* What getChunkInfo makes of one more frame.
FrameAdded(m, x, y) ==
  /\ y.frames = Append(m.frames, x) /\ y.connected = x.offset + x.size
  /\ \/ /\ m.frames # <<>> /\ x.offset # m.connected
        /\ Ended(m, y.chunks, y.toChunk) /\ y.cur = x.offset /\ y.num = 1
     \/ /\ m.frames = <<>> \/ x.offset = m.connected
        /\ y.chunks = m.chunks /\ y.toChunk = m.toChunk /\ y.num = m.num + 1
        /\ y.cur = IF m.frames = <<>> THEN x.offset ELSE m.cur

FrameGrown(m, y) ==
  /\ m.frames # <<>> /\ y.frames = [m.frames EXCEPT ![Len(m.frames)].size = @ + 2]
  /\ SameTables(m, y) /\ y.num = m.num

LEMMA OneBefore ==
  ASSUME NEW n \in Nat, NEW num \in Nat, num <= n, NEW k \in 1..num
  PROVE  /\ (n - num) + k \in 1..n
         /\ k # 1 => (n - num) + k - 1 \in 1..n /\ (n - num) + k - 1 # n
  OBVIOUS

LEMMA AddedFits ==
  ASSUME NEW m \in Mp4Records, ChunksFit(m), NEW x \in SampleFrames, x.size = 2,
         m.frames # <<>> /\ x.offset = m.connected =>
           x.offset = m.frames[Len(m.frames)].offset + m.frames[Len(m.frames)].size,
         NEW y \in Mp4Records, FrameAdded(m, x, y)
  PROVE  ChunksFit(y)
<1> DEFINE fr == m.frames
           n == Len(fr)
           gr == y.frames
           num == m.num
<1>1. /\ fr \in Seq(SampleFrames) /\ num \in Nat /\ n \in Nat /\ x.offset \in Nat
      /\ m.chunks \in Seq(Nat) /\ m.toChunk \in Seq(ChunkRuns)
      /\ y.chunks \in Seq(Nat) /\ y.toChunk \in Seq(ChunkRuns)
  BY Mp4RecordIs, LenProperties DEF SampleFrames
<1>2. /\ gr \in Seq(SampleFrames) /\ Len(gr) = n + 1 /\ gr[n + 1] = x
      /\ \A i \in 1..n : gr[i] = fr[i]
  BY <1>1, AppendProperties DEF FrameAdded
<1>3. /\ num <= n
      /\ \E B : Tabled(fr, m.chunks, m.toChunk, B, n - num)
      /\ \A k \in 1..num : InPlace(fr, m.cur, n - num, k)
      /\ fr # <<>> => num >= 1 /\ m.connected = fr[n].offset + 2
  BY DEF ChunksFit
<1>4. fr = <<>> <=> n = 0
  BY <1>1, EmptySeq
<1>5. gr # <<>> /\ y.connected = gr[n + 1].offset + 2
  <2>1. gr # <<>>
    BY <1>1, <1>2, EmptySeq
  <2> QED
    BY <1>2, <2>1 DEF FrameAdded
<1>6. CASE /\ fr # <<>> /\ x.offset # m.connected
           /\ Ended(m, y.chunks, y.toChunk) /\ y.cur = x.offset /\ y.num = 1
  <2>1. PICK C : Tabled(fr, y.chunks, y.toChunk, C, n)
    BY <1>6, ChunkEnds
  <2> HIDE DEF fr, n, gr
  <2>2. Tabled(gr, y.chunks, y.toChunk, C, n)
    BY <1>1, <1>2, <2>1, TabledStays
  <2>3. y.num <= n + 1 /\ (n + 1) - y.num = n /\ y.num >= 1
    BY <1>1, <1>6
  <2>4. \A k \in 1..y.num : InPlace(gr, y.cur, n, k)
    <3>1. InPlace(gr, x.offset, n, 1)
      BY <1>2 DEF InPlace
    <3> QED
      BY <1>6, <3>1
  <2>5. /\ y.num <= Len(gr) /\ \E B : Tabled(gr, y.chunks, y.toChunk, B, Len(gr) - y.num)
        /\ \A k \in 1..y.num : InPlace(gr, y.cur, Len(gr) - y.num, k)
        /\ y.num >= 1 /\ y.connected = gr[Len(gr)].offset + 2
    BY <1>2, <1>5, <2>2, <2>3, <2>4
  <2> QED
    BY <2>5 DEF ChunksFit, gr
<1>7. CASE /\ fr = <<>> \/ x.offset = m.connected
           /\ y.chunks = m.chunks /\ y.toChunk = m.toChunk /\ y.num = num + 1
           /\ y.cur = IF fr = <<>> THEN x.offset ELSE m.cur
  <2>1. PICK C : Tabled(fr, m.chunks, m.toChunk, C, n - num)
    BY <1>3
  <2>2. fr # <<>> => x.offset = fr[n].offset + fr[n].size
    BY <1>7
  <2> HIDE DEF fr, n, gr, num
  <2>3. n - num \in Nat /\ \A i \in 1..(n - num) : i \in 1..n
    BY <1>1, <1>3
  <2>4. Tabled(gr, y.chunks, y.toChunk, C, n - num)
    BY <1>1, <1>2, <1>7, <2>1, <2>3, TabledStays
  <2>5. /\ num + 1 <= n + 1 /\ (n + 1) - (num + 1) = n - num /\ num + 1 >= 1
    BY <1>1, <1>3
  <2>6. ASSUME NEW k \in 1..(num + 1) PROVE InPlace(gr, y.cur, n - num, k)
    <3>1. CASE fr = <<>>
      <4>1. n = 0 /\ num = 0 /\ k = 1 /\ (n - num) + k = n + 1
        BY <1>1, <1>3, <1>4, <3>1
      <4> QED
        BY <1>2, <1>7, <3>1, <4>1 DEF InPlace
    <3>2. CASE fr # <<>> /\ k = num + 1
      <4>1. /\ k # 1 /\ (n - num) + k = n + 1 /\ (n - num) + k - 1 = n /\ n \in 1..n
        BY <1>1, <1>3, <1>4, <3>2
      <4> QED
        BY <1>2, <2>2, <3>2, <4>1 DEF InPlace
    <3>3. CASE fr # <<>> /\ k # num + 1
      <4>1. k \in 1..num
        BY <1>1, <3>3
      <4>2. /\ k \in 1..num /\ (n - num) + k \in 1..n
            /\ k # 1 => (n - num) + k - 1 \in 1..n
        BY <1>1, <1>3, <4>1, OneBefore
      <4>3. InPlace(fr, m.cur, n - num, k)
        BY <1>3, <4>2
      <4> QED
        BY <1>2, <1>7, <3>3, <4>2, <4>3 DEF InPlace
    <3> QED
      BY <3>1, <3>2, <3>3
  <2>7. /\ y.num <= Len(gr) /\ \E B : Tabled(gr, y.chunks, y.toChunk, B, Len(gr) - y.num)
        /\ \A k \in 1..y.num : InPlace(gr, y.cur, Len(gr) - y.num, k)
        /\ y.num >= 1 /\ y.connected = gr[Len(gr)].offset + 2
    BY <1>2, <1>5, <1>7, <2>4, <2>5, <2>6
  <2> QED
    BY <2>7 DEF ChunksFit, gr
<1> QED
  BY <1>6, <1>7 DEF FrameAdded

\* The last frame grows, and no frame is behind it.
LEMMA GrownFits ==
  ASSUME NEW m \in Mp4Records, ChunksFit(m), NEW y \in Mp4Records, FrameGrown(m, y)
  PROVE  ChunksFit(y)
<1> DEFINE fr == m.frames
           n == Len(fr)
           gr == y.frames
           num == m.num
<1>1. /\ fr \in Seq(SampleFrames) /\ fr # <<>> /\ num \in Nat /\ n \in Nat
      /\ m.chunks \in Seq(Nat) /\ m.toChunk \in Seq(ChunkRuns)
  BY Mp4RecordIs, LenProperties DEF FrameGrown
<1>2. /\ gr \in Seq(SampleFrames) /\ Len(gr) = n
      /\ \A i \in 1..n : gr[i] = IF i = n THEN [fr[i] EXCEPT !.size = @ + 2] ELSE fr[i]
  BY <1>1, LastFrameGrows DEF FrameGrown
<1>3. /\ num <= n
      /\ \E B : Tabled(fr, m.chunks, m.toChunk, B, n - num)
      /\ \A k \in 1..num : InPlace(fr, m.cur, n - num, k)
      /\ num >= 1 /\ m.connected = fr[n].offset + 2
  BY <1>1 DEF ChunksFit
<1>4. SameTables(m, y) /\ y.num = num
  BY DEF FrameGrown
<1>5. PICK C : Tabled(fr, m.chunks, m.toChunk, C, n - num)
  BY <1>3
<1>6. \A i \in 1..n : fr[i] \in SampleFrames
  BY <1>1, ElementOfSeq
<1> HIDE DEF fr, n, gr, num
<1>7. /\ \A i \in 1..n : gr[i].offset = fr[i].offset
      /\ \A i \in 1..n : i # n => gr[i] = fr[i]
  BY <1>2, <1>6 DEF SampleFrames
<1>8. n - num \in Nat /\ \A i \in 1..(n - num) : i \in 1..n /\ i # n
  BY <1>1, <1>3
<1>9. Tabled(gr, y.chunks, y.toChunk, C, n - num)
  BY <1>1, <1>4, <1>5, <1>7, <1>8, TabledStays DEF SameTables
<1>10. ASSUME NEW k \in 1..num PROVE InPlace(gr, y.cur, n - num, k)
  <2>1. /\ (n - num) + k \in 1..n
        /\ k # 1 => (n - num) + k - 1 \in 1..n /\ (n - num) + k - 1 # n
    BY <1>1, <1>3, OneBefore
  <2>2. InPlace(fr, m.cur, n - num, k)
    BY <1>3
  <2> QED
    BY <1>4, <1>7, <2>1, <2>2 DEF InPlace, SameTables
<1>11. y.connected = gr[n].offset + 2
  <2>1. n \in 1..n
    BY <1>1, <1>3
  <2> QED
    BY <1>3, <1>4, <1>7, <2>1 DEF SameTables
<1>12. /\ y.num <= Len(gr) /\ \E B : Tabled(gr, y.chunks, y.toChunk, B, Len(gr) - y.num)
       /\ \A k \in 1..y.num : InPlace(gr, y.cur, Len(gr) - y.num, k)
       /\ y.num >= 1 /\ y.connected = gr[Len(gr)].offset + 2
  BY <1>2, <1>3, <1>4, <1>9, <1>10, <1>11
<1> QED
  BY <1>12 DEF ChunksFit, gr

-----------------------------------------------------------------------------
(* The samples of a recording in MP4.                                      *)

\* The units of a frame, each behind its length, are in front of the position.
FrameFits(f, x) ==
  /\ x.size >= 2 /\ x.offset + x.size <= f.pos
  /\ f.data[x.offset + 1].is = "length" /\ f.data[x.offset + 1].time = x.time
  /\ f.data[x.offset + x.size].is # "length"
  /\ \A i \in (x.offset + 1)..(x.offset + x.size - 1) :
       f.data[i].is = "length" => f.data[i + 1].unit = f.data[i].unit

\* What a write at the position leaves alone, and what the two for a unit make.
Kept(f, g) ==
  /\ g.pos \in Nat /\ g.pos >= f.pos /\ g.pos <= Len(g.data)
  /\ \A i \in 1..f.pos : g.data[i] = f.data[i]

PairWritten(f, k, c, g) ==
  /\ Kept(f, g) /\ g.pos = f.pos + 2
  /\ g.data[f.pos + 1] = k /\ g.data[f.pos + 2] = c

LEMMA WroteKeeps ==
  ASSUME NEW f \in Logs, f.pos \in Nat, f.pos <= Len(f.data), NEW s \in Seq(LogCells),
         NEW g, Wrote(f, s, g)
  PROVE  Kept(f, g)
<1>1. Len(f.data) \in Nat /\ Len(g.data) \in Nat /\ Len(s) \in Nat
  BY LogIs, LenProperties DEF Wrote
<1>2. /\ Len(g.data) >= Len(f.data)
      /\ \A i \in 1..Len(f.data) :
           \/ g.data[i] = f.data[i]
           \/ i - f.pos \in 1..Len(s) /\ g.data[i] = s[i - f.pos]
      /\ \/ g.pos = f.pos
         \/ g.pos = f.pos + Len(s) /\ g.pos <= Len(g.data)
  BY DEF Wrote
<1>3. g.pos \in Nat /\ g.pos >= f.pos /\ g.pos <= Len(g.data)
  BY <1>1, <1>2
<1>4. ASSUME NEW i \in 1..f.pos PROVE g.data[i] = f.data[i]
  <2>1. i \in 1..Len(f.data) /\ ~(i - f.pos \in 1..Len(s))
    BY <1>1
  <2> QED
    BY <1>2, <2>1
<1> QED
  BY <1>3, <1>4 DEF Kept

LEMMA KeptBoth ==
  ASSUME NEW f, f.pos \in Nat, NEW g, Kept(f, g), NEW h, Kept(g, h) PROVE Kept(f, h)
<1>1. g.pos \in Nat /\ g.pos >= f.pos /\ h.pos \in Nat /\ h.pos >= g.pos
  BY DEF Kept
<1>2. h.pos >= f.pos /\ \A i \in 1..f.pos : i \in 1..g.pos
  BY <1>1
<1> QED
  BY <1>2 DEF Kept

LEMMA FrameStays ==
  ASSUME NEW f, f.pos \in Nat, NEW g, Kept(f, g), NEW x \in SampleFrames, FrameFits(f, x)
  PROVE  FrameFits(g, x)
<1>1. /\ x.offset \in Nat /\ x.size \in Nat /\ x.size >= 2
      /\ x.offset + x.size <= f.pos
  BY DEF SampleFrames, FrameFits
<1>2. g.pos \in Nat /\ g.pos >= f.pos /\ \A i \in 1..f.pos : g.data[i] = f.data[i]
  BY DEF Kept
<1>3. /\ x.offset + 1 \in 1..f.pos /\ x.offset + x.size \in 1..f.pos
      /\ x.offset + x.size <= g.pos
      /\ \A i \in (x.offset + 1)..(x.offset + x.size - 1) : i \in 1..f.pos /\ i + 1 \in 1..f.pos
  BY <1>1, <1>2
<1> QED
  BY <1>2, <1>3 DEF FrameFits

\* A unit is a frame, or a part of the one in front of it.
UnitCells(u, t, k, c) ==
  /\ k.is = "length" /\ k.unit = u.n /\ k.time = t
  /\ c.is # "length" /\ c.unit = u.n

LEMMA UnitIsFrame ==
  ASSUME NEW f, f.pos \in Nat, NEW u, NEW t, NEW k, NEW c, UnitCells(u, t, k, c),
         NEW g, PairWritten(f, k, c, g),
         NEW x, x.offset = f.pos, x.size = 2, x.time = t
  PROVE  FrameFits(g, x)
<1> DEFINE p == f.pos
<1>1. /\ p \in Nat /\ g.pos = p + 2 /\ g.data[p + 1] = k /\ g.data[p + 2] = c
      /\ x.offset = p /\ x.size = 2
  BY DEF PairWritten
<1>2. /\ k.is = "length" /\ k.unit = u.n /\ k.time = t
      /\ c.is # "length" /\ c.unit = u.n
  BY DEF UnitCells
<1> HIDE DEF p
<1>3. \A i \in (p + 1)..(p + 2 - 1) : i = p + 1 /\ i + 1 = p + 2
  BY <1>1
<1>4. /\ g.data[p + 1].is = "length" /\ g.data[p + 1].time = x.time
      /\ g.data[p + 2].is # "length"
      /\ \A i \in (p + 1)..(p + 2 - 1) : g.data[i + 1].unit = g.data[i].unit
  BY <1>1, <1>2, <1>3
<1>5. x.size >= 2 /\ p + 2 <= g.pos
  BY <1>1
<1> QED
  BY <1>1, <1>4, <1>5 DEF FrameFits

LEMMA UnitJoinsFrame ==
  ASSUME NEW f, f.pos \in Nat, NEW u, NEW t, NEW k, NEW c, UnitCells(u, t, k, c),
         NEW g, PairWritten(f, k, c, g), NEW x \in SampleFrames, FrameFits(f, x),
         x.offset + x.size = f.pos
  PROVE  FrameFits(g, [x EXCEPT !.size = @ + 2])
<1> DEFINE a == x.offset
           z == f.pos
           y == [x EXCEPT !.size = @ + 2]
<1>1. /\ a \in Nat /\ x.size \in Nat /\ z \in Nat /\ z >= a + 2 /\ a + x.size = z
      /\ y.offset = a /\ y.size = x.size + 2 /\ y.time = x.time
  BY DEF SampleFrames, FrameFits
<1>2. FrameFits(g, x)
  BY FrameStays DEF PairWritten
<1> HIDE DEF a, y
<1>3. /\ g.data[a + 1].is = "length" /\ g.data[a + 1].time = x.time
      /\ g.data[z].is # "length"
      /\ \A i \in (a + 1)..(z - 1) :
           g.data[i].is = "length" => g.data[i + 1].unit = g.data[i].unit
  BY <1>1, <1>2 DEF FrameFits, a
<1>4. /\ g.pos = z + 2 /\ g.data[z + 1] = k /\ g.data[z + 2] = c
      /\ k.is = "length" /\ k.unit = u.n /\ c.is # "length" /\ c.unit = u.n
  BY DEF PairWritten, UnitCells
<1> HIDE DEF z
<1>5. \A i \in (a + 1)..(z + 2 - 1) :
        i \in (a + 1)..(z - 1) \/ i = z \/ (i = z + 1 /\ i + 1 = z + 2)
  BY <1>1
<1>6. \A i \in (a + 1)..(z + 2 - 1) :
        g.data[i].is = "length" => g.data[i + 1].unit = g.data[i].unit
  BY <1>3, <1>4, <1>5
<1>7. y.size >= 2 /\ y.offset + y.size = z + 2 /\ z + 2 <= g.pos
  BY <1>1, <1>4
<1> QED
  BY <1>1, <1>3, <1>4, <1>6, <1>7 DEF FrameFits, y

LEMMA PairIsWritten ==
  ASSUME NEW f \in Logs, f.pos \in Nat, f.pos <= Len(f.data), NEW k \in LogCells,
         NEW c \in LogCells, NEW g, Left(f, <<k>>, 1, g), NEW n \in Nat,
         NEW h, Left(g, <<c>>, n, h), h.pos # g.pos
  PROVE  PairWritten(f, k, c, h)
<1> DEFINE s == <<k>>
           r == <<c>>
           p == f.pos
           one == 1
<1>1. /\ s \in Seq(LogCells) /\ Len(s) = 1 /\ s[1] = k
      /\ r \in Seq(LogCells) /\ Len(r) = 1 /\ r[1] = c /\ one >= Len(s) /\ p \in Nat
  OBVIOUS
<1>2. Left(f, s, one, g) /\ Left(g, r, n, h)
  OBVIOUS
<1> HIDE DEF s, r, one
<1>3. Wrote(f, s, g) /\ Wrote(g, r, h) /\ (~g.opens => h = g) /\ g.opens = f.opens
  BY <1>2 DEF Left, Wrote
<1>4. g \in Logs /\ f.opens
  BY <1>3 DEF Wrote
<1>5. Kept(f, g) /\ g.pos = p + 1 /\ g.data[p + 1] = k
  <2>1. Kept(f, g)
    BY <1>1, <1>3, WroteKeeps
  <2>2. g.pos = p + 1
    BY <1>1, <1>2, <1>4 DEF Left
  <2>3. \A i \in 1..Len(s) : g.data[p + i] = s[i]
    BY <1>1, <1>3, <2>2 DEF Wrote
  <2> QED
    BY <1>1, <2>1, <2>2, <2>3
<1>6. Kept(g, h) /\ h.pos = g.pos + 1 /\ h.data[g.pos + 1] = c
  <2>1. g.pos \in Nat /\ g.pos <= Len(g.data)
    BY <1>5 DEF Kept
  <2>2. Kept(g, h)
    BY <1>1, <1>3, <1>4, <2>1, WroteKeeps
  <2>3. h.pos = g.pos + Len(r) /\ \A i \in 1..Len(r) : h.data[g.pos + i] = r[i]
    BY <1>3 DEF Wrote
  <2> QED
    BY <1>1, <2>2, <2>3
<1>7. Kept(f, h)
  BY <1>1, <1>5, <1>6, KeptBoth
<1>8. h.data[p + 1] = k
  <2>1. p + 1 \in 1..g.pos
    BY <1>1, <1>5
  <2> QED
    BY <1>5, <1>6, <2>1 DEF Kept
<1>9. h.pos = p + 2 /\ h.data[p + 2] = c
  <2>1. (p + 1) + 1 = p + 2
    BY <1>1
  <2> QED
    BY <1>5, <1>6, <2>1
<1> QED
  BY <1>7, <1>8, <1>9 DEF PairWritten

\* The next frame.
LEMMA FrameIsAdded ==
  ASSUME NEW m \in Mp4Records, NEW x \in SampleFrames, NEW k \in Int
  PROVE  LET y == [GetVideoDecodeTime(GetChunkInfo(m, x), x)
                     EXCEPT !.frames = Append(@, x), !.last = k]
         IN y \in Mp4Records /\ FrameAdded(m, x, y) /\ y.torn = m.torn /\ y.file = m.file
<1> DEFINE ends == m.frames # <<>> /\ x.offset # m.connected
           w == EndChunkInfo(m)
           v == IF ends THEN w ELSE m
           c == IF ends \/ m.frames = <<>> THEN x.offset ELSE v.cur
           n == (IF ends THEN 0 ELSE v.num) + 1
           j == x.offset + x.size
           g == GetChunkInfo(m, x)
           d == GetVideoDecodeTime(g, x)
           s == Append(d.frames, x)
           y == [d EXCEPT !.frames = s, !.last = k]
<1>1. g = [v EXCEPT !.cur = c, !.num = n, !.connected = j]
  BY DEF GetChunkInfo
<1>2. /\ g \in Mp4Records /\ g.frames = m.frames /\ g.file = m.file /\ g.torn = m.torn
  BY GetChunkInfoIs
<1>3. x.offset \in Nat /\ x.size \in Nat
  BY DEF SampleFrames
<1>4. ASSUME ends
      PROVE  /\ w \in Mp4Records /\ Ended(m, w.chunks, w.toChunk)
  <2> DEFINE a == Append(m.chunks, m.cur)
             b == IF m.toChunk = <<>> \/ Last(m.toChunk).samples # m.num
                  THEN Append(m.toChunk, [chunk |-> Len(a), samples |-> m.num])
                  ELSE m.toChunk
  <2>1. w = [m EXCEPT !.chunks = a, !.toChunk = b]
    BY DEF EndChunkInfo
  <2>2. w \in Mp4Records
    <3>1. ChunkEnded(m, EndChunkInfo(m))
      BY EndChunkIs
    <3> QED
      BY <3>1 DEF ChunkEnded
  <2> HIDE DEF w, a, b
  <2>3. w.chunks = a /\ w.toChunk = b
    BY <2>1 DEF Mp4Records
  <2> QED
    BY <2>2, <2>3 DEF Ended, a, b
<1>5. v \in Mp4Records /\ v.cur \in Nat /\ v.num \in Nat
      /\ IF ends THEN Ended(m, v.chunks, v.toChunk) ELSE v = m
  <2>1. v \in Mp4Records /\ IF ends THEN Ended(m, v.chunks, v.toChunk) ELSE v = m
    <3>1. CASE ends
      BY <1>4, <3>1
    <3>2. CASE ~ends
      BY <3>2
    <3> QED
      BY <3>1, <3>2
  <2> HIDE DEF v
  <2> QED
    BY <2>1, Mp4RecordIs
<1>6. c = (IF ends \/ m.frames = <<>> THEN x.offset ELSE v.cur)
      /\ n = (IF ends THEN 0 ELSE v.num) + 1 /\ j = x.offset + x.size
      /\ (ends <=> m.frames # <<>> /\ x.offset # m.connected)
  OBVIOUS
<1> HIDE DEF v, ends, g
<1>7. c \in Nat /\ n \in Nat /\ j \in Nat
  BY <1>3, <1>5
<1> HIDE DEF c, n, j
<1>8. /\ g.chunks = v.chunks /\ g.toChunk = v.toChunk /\ g.cur = c /\ g.num = n
      /\ g.connected = j
  BY <1>1, <1>5, <1>7 DEF Mp4Records
<1>9. d \in Mp4Records /\ d = [g EXCEPT !.times = d.times]
  BY <1>2, DecodeTimeIs
<1> HIDE DEF d
<1>10. /\ d.chunks = g.chunks /\ d.toChunk = g.toChunk /\ d.cur = g.cur /\ d.num = g.num
       /\ d.connected = g.connected /\ d.frames = g.frames /\ d.file = g.file
       /\ d.torn = g.torn
  <2> DEFINE q == d.times
  <2>1. q \in Seq(Counts) /\ d = [g EXCEPT !.times = q]
    BY <1>9, Mp4RecordIs
  <2> HIDE DEF q
  <2> QED
    BY <1>2, <2>1 DEF Mp4Records
<1>11. s = Append(m.frames, x) /\ s \in Seq(SampleFrames)
  <2>1. d.frames \in Seq(SampleFrames) /\ d.frames = m.frames
    BY <1>2, <1>9, <1>10, Mp4RecordIs
  <2> QED
    BY <2>1, AppendProperties
<1> HIDE DEF s
<1>12. /\ y \in Mp4Records /\ y.frames = s /\ y.chunks = d.chunks /\ y.toChunk = d.toChunk
       /\ y.cur = d.cur /\ y.num = d.num /\ y.connected = d.connected /\ y.torn = d.torn
       /\ y.file = d.file
  BY <1>9, <1>11 DEF Mp4Records
<1>13. y = [d EXCEPT !.frames = Append(@, x), !.last = k]
  BY DEF s
<1> HIDE DEF y
<1>14. /\ y.frames = Append(m.frames, x) /\ y.connected = x.offset + x.size
       /\ y.chunks = v.chunks /\ y.toChunk = v.toChunk /\ y.cur = c /\ y.num = n
  BY <1>6, <1>8, <1>10, <1>11, <1>12
<1>15. FrameAdded(m, x, y)
  <2>1. CASE ends
    BY <1>5, <1>6, <1>14, <2>1 DEF FrameAdded
  <2>2. CASE ~ends
    <3>1. /\ y.chunks = m.chunks /\ y.toChunk = m.toChunk /\ y.num = m.num + 1
          /\ y.cur = IF m.frames = <<>> THEN x.offset ELSE m.cur
          /\ m.frames = <<>> \/ x.offset = m.connected
      BY <1>5, <1>6, <1>14, <2>2
    <3> QED
      BY <1>14, <3>1 DEF FrameAdded
  <2> QED
    BY <2>1, <2>2
<1>16. y \in Mp4Records /\ y.torn = m.torn /\ y.file = m.file
  BY <1>2, <1>10, <1>12
<1> QED
  BY <1>13, <1>15, <1>16 DEF d, g

\* The samples and the tables of a file that a failed write did not tear.
SamplesFit(m) ==
  /\ m.file.pos <= Len(m.file.data)
  /\ \A j \in 1..Len(m.frames) : FrameFits(m.file, m.frames[j])

Mp4Fits(m) == ~m.torn => ChunksFit(m) /\ SamplesFit(m)

LEMMA SamplesStay ==
  ASSUME NEW m \in Mp4Records, m.file.pos \in Nat, SamplesFit(m),
         NEW g, Kept(m.file, g)
  PROVE  g.pos <= Len(g.data) /\ \A j \in 1..Len(m.frames) : FrameFits(g, m.frames[j])
<1>1. ASSUME NEW j \in 1..Len(m.frames) PROVE FrameFits(g, m.frames[j])
  <2>1. m.frames[j] \in SampleFrames
    BY Mp4RecordIs, ElementOfSeq
  <2>2. FrameFits(m.file, m.frames[j])
    BY DEF SamplesFit
  <2> QED
    BY <2>1, <2>2, FrameStays
<1> QED
  BY <1>1 DEF Kept

LEMMA FrameAddedFits ==
  ASSUME NEW m \in Mp4Records, m.file.pos \in Nat, ChunksFit(m), SamplesFit(m),
         NEW u, NEW t, NEW k, NEW c, UnitCells(u, t, k, c),
         NEW x \in SampleFrames, x.offset = m.file.pos, x.size = 2, x.time = t,
         NEW y \in Mp4Records, PairWritten(m.file, k, c, y.file), FrameAdded(m, x, y)
  PROVE  ChunksFit(y) /\ SamplesFit(y)
<1> DEFINE n == Len(m.frames)
           f == m.frames[n]
<1>1. m.frames \in Seq(SampleFrames) /\ n \in Nat
  BY Mp4RecordIs, LenProperties
<1>2. ASSUME m.frames # <<>>, x.offset = m.connected
      PROVE  x.offset = f.offset + f.size
  <2>1. n \in 1..n
    BY <1>1, <1>2, EmptySeq
  <2>2. f \in SampleFrames /\ FrameFits(m.file, f)
    BY <1>1, <2>1, ElementOfSeq DEF SamplesFit
  <2>3. m.connected = f.offset + 2
    BY <1>2 DEF ChunksFit
  <2> QED
    BY <1>2, <2>2, <2>3 DEF FrameFits, SampleFrames
<1>3. ChunksFit(y)
  BY <1>2, AddedFits
<1>4. /\ y.file.pos <= Len(y.file.data)
      /\ \A j \in 1..n : FrameFits(y.file, m.frames[j])
  BY SamplesStay DEF PairWritten
<1>5. FrameFits(y.file, x)
  BY UnitIsFrame
<1> HIDE DEF n, f
<1>6. /\ Len(y.frames) = n + 1 /\ y.frames[n + 1] = x
      /\ \A i \in 1..n : y.frames[i] = m.frames[i]
  BY <1>1, AppendProperties DEF FrameAdded, n
<1>7. \A j \in 1..(n + 1) : j \in 1..n \/ j = n + 1
  BY <1>1
<1>8. \A j \in 1..Len(y.frames) : FrameFits(y.file, y.frames[j])
  BY <1>4, <1>5, <1>6, <1>7
<1> QED
  BY <1>3, <1>4, <1>8 DEF SamplesFit

LEMMA FrameGrownFits ==
  ASSUME NEW m \in Mp4Records, m.file.pos \in Nat, ChunksFit(m), SamplesFit(m),
         NEW u, NEW t, NEW k, NEW c, UnitCells(u, t, k, c),
         m.file.pos = m.frames[Len(m.frames)].offset + m.frames[Len(m.frames)].size,
         NEW y \in Mp4Records, PairWritten(m.file, k, c, y.file), FrameGrown(m, y)
  PROVE  ChunksFit(y) /\ SamplesFit(y)
<1> DEFINE n == Len(m.frames)
           f == m.frames[n]
           x == [f EXCEPT !.size = @ + 2]
<1>1. m.frames \in Seq(SampleFrames) /\ m.frames # <<>> /\ n \in Nat
  BY Mp4RecordIs, LenProperties DEF FrameGrown
<1>2. n \in 1..n /\ f \in SampleFrames /\ FrameFits(m.file, f)
  <2>1. n \in 1..n
    BY <1>1, EmptySeq
  <2> QED
    BY <1>1, <2>1, ElementOfSeq DEF SamplesFit
<1>3. ChunksFit(y)
  BY GrownFits
<1>4. /\ y.file.pos <= Len(y.file.data)
      /\ \A j \in 1..n : FrameFits(y.file, m.frames[j])
  BY SamplesStay DEF PairWritten
<1>5. FrameFits(y.file, x)
  <2> HIDE DEF f
  <2>1. m.file.pos = f.offset + f.size
    BY DEF f
  <2> QED
    BY <1>2, <2>1, UnitJoinsFrame
<1>6. /\ Len(y.frames) = n
      /\ \A i \in 1..n : y.frames[i] = IF i = n THEN x ELSE m.frames[i]
  BY <1>1, LastFrameGrows DEF FrameGrown
<1> HIDE DEF n, f, x
<1>7. \A j \in 1..Len(y.frames) : FrameFits(y.file, y.frames[j])
  BY <1>4, <1>5, <1>6
<1> QED
  BY <1>3, <1>4, <1>7 DEF SamplesFit

LEMMA AddPacketFits ==
  ASSUME NEW m \in Mp4Records, m.file.pos \in Nat, Mp4Fits(m), NEW t \in Int,
         NEW out, OutFits(out), NEW u, UnitFits(u), u.type \in {"idr", "slice"}
  PROVE  Mp4Fits(AddPacket(m, u, t, out))
<1> DEFINE k == Cell("length", u.n, t)
           c == Cell(u.type, u.n, t)
           size == Sized(m, u, t, out)
           data == Stored(m, u, t, out)
           frame == [offset |-> m.file.pos, size |-> 2, time |-> t]
           b == m.torn \/ out.time = 0
           v == [m EXCEPT !.file = data, !.torn = b]
           l == t + 1
           y == [GetVideoDecodeTime(GetChunkInfo(v, frame), frame)
                   EXCEPT !.frames = Append(@, frame), !.last = l]
           z == [v EXCEPT !.frames[Len(m.frames)].size = @ + 2, !.last = l,
                         !.torn = @ \/ m.file.pos # Last(m.frames).offset
                                                    + Last(m.frames).size]
<1>1. AddPacket(m, u, t, out) = IF data.pos = size.pos THEN v
                                ELSE IF m.frames = <<>> \/ t # m.last THEN y ELSE z
  BY Zenon DEF AddPacket, Sized, Stored
<1>2. /\ Left(m.file, <<k>>, out.time, size) /\ Left(size, <<c>>, out.tag, data)
      /\ size \in Logs /\ size.pos \in Nat /\ data \in Logs /\ data.pos \in Nat
      /\ <<k>> \in Seq(LogCells) /\ <<c>> \in Seq(LogCells)
  BY StoredIs
<1>3. k \in LogCells /\ c \in LogCells /\ UnitCells(u, t, k, c)
  BY DEF Cell, LogCells, LogNames, UnitCells, UnitFits
<1>4. b \in BOOLEAN /\ m.file \in Logs /\ out.time \in {0, 1} /\ out.tag \in Nat
  BY Mp4RecordIs DEF OutFits
<1>5. /\ frame \in SampleFrames /\ frame.offset = m.file.pos /\ frame.size = 2
      /\ frame.time = t /\ l \in Int
  BY DEF SampleFrames
<1>6. b <=> m.torn \/ out.time = 0
  OBVIOUS
<1> HIDE DEF data, size, b, frame, k, c, l
<1>7. /\ v \in Mp4Records /\ v.file = data /\ v.torn = b /\ v.frames = m.frames
      /\ SameTables(m, v) /\ v.num = m.num
  BY <1>2, <1>4 DEF Mp4Records, SameTables
<1> HIDE DEF v
<1>8. ASSUME ~b PROVE ChunksFit(m) /\ SamplesFit(m) /\ ChunksFit(v)
  <2>1. ChunksFit(m) /\ SamplesFit(m)
    BY <1>6, <1>8 DEF Mp4Fits
  <2> QED
    BY <1>7, <2>1 DEF ChunksFit, SameTables
<1>9. ASSUME ~b, data.pos # size.pos PROVE PairWritten(m.file, k, c, data)
  <2> DEFINE one == out.time
             n == out.tag
             f == m.file
  <2>1. one = 1 /\ n \in Nat
    BY <1>4, <1>6, <1>9
  <2>2. f \in Logs /\ f.pos \in Nat /\ f.pos <= Len(f.data)
    BY <1>4, <1>8, <1>9 DEF SamplesFit
  <2>3. Left(f, <<k>>, one, size) /\ Left(size, <<c>>, n, data)
    BY <1>2
  <2> HIDE DEF one, n, f
  <2>4. PairWritten(f, k, c, data)
    BY <1>3, <1>9, <2>1, <2>2, <2>3, PairIsWritten
  <2> QED
    BY <2>4 DEF f
<1>10. CASE data.pos = size.pos
  <2>1. AddPacket(m, u, t, out) = v
    BY <1>1, <1>10
  <2>2. ASSUME ~v.torn PROVE SamplesFit(v)
    <3>1. SamplesFit(m)
      BY <1>7, <1>8, <2>2
    <3>2. Kept(m.file, data)
      <4> DEFINE s == <<k>>
                 r == <<c>>
                 f == m.file
      <4>1. /\ s \in Seq(LogCells) /\ r \in Seq(LogCells)
            /\ Wrote(f, s, size) /\ Wrote(size, r, data)
        BY <1>2 DEF Left
      <4>2. f \in Logs /\ f.pos \in Nat /\ f.pos <= Len(f.data)
        BY <1>4, <3>1 DEF SamplesFit
      <4> HIDE DEF s, r, f
      <4>3. Kept(f, size)
        BY <4>1, <4>2, WroteKeeps
      <4>4. Kept(size, data)
        <5>1. size.pos <= Len(size.data)
          BY <4>3 DEF Kept
        <5> QED
          BY <1>2, <4>1, <5>1, WroteKeeps
      <4>5. Kept(f, data)
        BY <4>2, <4>3, <4>4, KeptBoth
      <4> QED
        BY <4>5 DEF f
    <3>3. data.pos <= Len(data.data) /\ \A j \in 1..Len(m.frames) : FrameFits(data, m.frames[j])
      BY <3>1, <3>2, SamplesStay
    <3> QED
      BY <1>7, <3>3 DEF SamplesFit
  <2> QED
    BY <1>7, <1>8, <2>1, <2>2 DEF Mp4Fits
<1>11. CASE data.pos # size.pos /\ (m.frames = <<>> \/ t # m.last)
  <2>1. AddPacket(m, u, t, out) = y
    BY <1>1, <1>11
  <2>2. y \in Mp4Records /\ FrameAdded(v, frame, y) /\ y.torn = v.torn /\ y.file = v.file
    BY <1>5, <1>7, FrameIsAdded
  <2> HIDE DEF y
  <2>3. FrameAdded(m, frame, y)
    BY <1>7, <2>2 DEF FrameAdded, SameTables, Ended
  <2>4. ASSUME ~y.torn PROVE ChunksFit(y) /\ SamplesFit(y)
    <3>1. ChunksFit(m) /\ SamplesFit(m) /\ PairWritten(m.file, k, c, y.file)
      BY <1>7, <1>8, <1>9, <1>11, <2>2, <2>4
    <3> QED
      BY <1>3, <1>5, <2>2, <2>3, <3>1, FrameAddedFits
  <2> QED
    BY <2>1, <2>4 DEF Mp4Fits
<1>12. CASE data.pos # size.pos /\ m.frames # <<>> /\ t = m.last
  <2> DEFINE q == m.frames
             r == [q EXCEPT ![Len(q)].size = @ + 2]
             e == v.torn \/ m.file.pos # Last(m.frames).offset + Last(m.frames).size
  <2>1. AddPacket(m, u, t, out) = z
    BY <1>1, <1>12
  <2>2. r \in Seq(SampleFrames) /\ e \in BOOLEAN
    BY <1>4, <1>7, <1>12, LastFrameGrows, Mp4RecordIs
  <2>3. z = [v EXCEPT !.frames = r, !.last = l, !.torn = e]
    BY <1>7
  <2>4. e <=> v.torn \/ m.file.pos # Last(m.frames).offset + Last(m.frames).size
    OBVIOUS
  <2>5. r = [m.frames EXCEPT ![Len(m.frames)].size = @ + 2]
    OBVIOUS
  <2> HIDE DEF r, e, z
  <2>6. /\ z \in Mp4Records /\ z.file = data /\ z.torn = e /\ z.frames = r
        /\ SameTables(v, z) /\ z.num = v.num
    BY <1>5, <1>7, <2>2, <2>3 DEF Mp4Records, SameTables
  <2>7. FrameGrown(m, z)
    BY <1>7, <1>12, <2>5, <2>6 DEF FrameGrown, SameTables
  <2>8. ASSUME ~z.torn PROVE ChunksFit(z) /\ SamplesFit(z)
    <3>1. /\ ChunksFit(m) /\ SamplesFit(m) /\ PairWritten(m.file, k, c, z.file)
      BY <1>7, <1>8, <1>9, <1>12, <2>4, <2>6, <2>8
    <3>2. m.file.pos = m.frames[Len(m.frames)].offset + m.frames[Len(m.frames)].size
      <4>1. Last(m.frames) = m.frames[Len(m.frames)]
        BY <1>12, LastIs, Mp4RecordIs
      <4> QED
        BY <2>4, <2>6, <2>8, <4>1
    <3> QED
      BY <1>3, <2>6, <2>7, <3>1, <3>2, FrameGrownFits
  <2> QED
    BY <2>1, <2>8 DEF Mp4Fits
<1> QED
  BY <1>10, <1>11, <1>12

LEMMA AddMp4Fits ==
  ASSUME NEW m \in Mp4Records, m.file.pos \in Nat, Mp4Fits(m), NEW out, OutFits(out),
         NEW u, UnitFits(u)
  PROVE  Mp4Fits(AddToMp4(m, u, out))
<1> DEFINE b == IF m.base = -1 THEN u.ts ELSE m.base
           g == m.getIdr \/ (m.file.opens /\ u.type = "idr")
           v == [m EXCEPT !.base = b, !.getIdr = g]
           y == AddToMp4(m, u, out)
           t == u.ts - v.base
<1>1. /\ m.base \in Int /\ m.getIdr \in BOOLEAN /\ m.file \in Logs
      /\ u.ts \in Int /\ u.type \in {"sps", "pps", "idr", "slice"}
  BY Mp4RecordIs DEF UnitFits
<1>2. b \in Int /\ g \in BOOLEAN
  BY <1>1
<1>3. y = IF ~v.getIdr \/ u.type \in {"sps", "pps"} THEN v ELSE AddPacket(v, u, t, out)
  BY DEF AddToMp4
<1> HIDE DEF b, g
<1>4. /\ v \in Mp4Records /\ v.file = m.file /\ v.base = b /\ v.torn = m.torn
      /\ v.frames = m.frames /\ v.num = m.num /\ SameTables(m, v)
  BY <1>2 DEF Mp4Records, SameTables
<1> HIDE DEF v
<1>5. t \in Int
  BY <1>1, <1>2, <1>4
<1> HIDE DEF y, t
<1>6. Mp4Fits(v)
  BY <1>4 DEF Mp4Fits, ChunksFit, SamplesFit, SameTables
<1>7. CASE ~v.getIdr \/ u.type \in {"sps", "pps"}
  BY <1>3, <1>6, <1>7 DEF y
<1>8. CASE ~(~v.getIdr \/ u.type \in {"sps", "pps"})
  <2>1. u.type \in {"idr", "slice"} /\ v.file.pos \in Nat
    BY <1>1, <1>4, <1>8
  <2>2. Mp4Fits(AddPacket(v, u, t, out))
    BY <1>4, <1>5, <1>6, <2>1, AddPacketFits
  <2> QED
    BY <1>3, <1>8, <2>2 DEF y
<1> QED
  BY <1>7, <1>8

-----------------------------------------------------------------------------
(* What a player finds by the tables.                                      *)

LEMMA SamplesAre ==
  ASSUME NEW m \in Mp4Records, NEW c, NEW e, IsRun(m.toChunk, c, e)
  PROVE  SamplesIn(m, c) = m.toChunk[e].samples
<1> DEFINE D == DOMAIN m.toChunk
           P(i) == /\ m.toChunk[i].chunk <= c
                   /\ \A j \in D : m.toChunk[j].chunk <= c => j <= i
           x == CHOOSE i \in D : P(i)
<1>1. D \subseteq Int
  BY Mp4RecordIs, LenProperties
<1>2. e \in D /\ P(e)
  BY DEF IsRun
<1>3. x \in D /\ P(x)
  <2> HIDE DEF D, P
  <2> QED
    BY <1>2
<1>4. SamplesIn(m, c) = m.toChunk[x].samples
  BY DEF SamplesIn
<1> HIDE DEF x, D
<1>5. x <= e /\ e <= x
  BY <1>2, <1>3
<1>6. x = e
  BY <1>1, <1>2, <1>3, <1>5
<1> QED
  BY <1>4, <1>6

\* The number of samples before a chunk is the sum over those in front of it.
LEMMA SumIs ==
  ASSUME NEW m, NEW c \in Nat, c >= 1, NEW B, B[1] = 0,
         \A i \in 2..c : B[i] = B[i - 1] + SamplesIn(m, i - 1)
  PROVE  SamplesBefore(m, c) = B[c]
<1> DEFINE E(f) == [i \in 1..c |-> IF i = 1 THEN 0 ELSE f[i - 1] + SamplesIn(m, i - 1)]
           f == CHOOSE x : x = E(x)
           b == [i \in 1..c |-> B[i]]
<1>1. SamplesBefore(m, c) = f[c]
  BY DEF SamplesBefore
<1>2. b = E(b)
  <2>1. ASSUME NEW i \in 1..c PROVE b[i] = IF i = 1 THEN 0 ELSE b[i - 1] + SamplesIn(m, i - 1)
    <3>1. CASE i = 1
      BY <3>1
    <3>2. CASE i # 1
      <4>1. i \in 2..c /\ i - 1 \in 1..c
        BY <3>2
      <4> QED
        BY <3>2, <4>1
    <3> QED
      BY <3>1, <3>2
  <2> QED
    BY <2>1
<1>3. f = E(f)
  <2> HIDE DEF E, b
  <2>1. \E x : x = E(x)
    BY <1>2
  <2> QED
    BY <2>1
<1> HIDE DEF f
<1> DEFINE T == {n \in Nat : n + 1 <= c => f[n + 1] = B[n + 1]}
<1>4. 0 \in T
  <2>1. f[1] = 0
    BY <1>3
  <2> QED
    BY <2>1
<1>5. ASSUME NEW n \in Nat, n \in T PROVE n + 1 \in T
  <2> SUFFICES ASSUME (n + 1) + 1 <= c PROVE f[(n + 1) + 1] = B[(n + 1) + 1]
    OBVIOUS
  <2> DEFINE k == (n + 1) + 1
  <2>1. k \in 2..c /\ k \in 1..c /\ k # 1 /\ k - 1 = n + 1 /\ n + 1 <= c
    OBVIOUS
  <2> HIDE DEF k
  <2>2. f[k] = f[k - 1] + SamplesIn(m, k - 1)
    BY <1>3, <2>1
  <2>3. B[k] = B[k - 1] + SamplesIn(m, k - 1)
    BY <2>1
  <2>4. f[n + 1] = B[n + 1]
    BY <1>5, <2>1
  <2> QED
    BY <2>1, <2>2, <2>3, <2>4 DEF k
<1>6. \A n \in Nat : n \in T
  <2> HIDE DEF T
  <2> QED
    BY <1>4, <1>5, NaturalsByStep
<1>7. c - 1 \in Nat /\ (c - 1) + 1 = c
  OBVIOUS
<1> QED
  BY <1>1, <1>6, <1>7

\* A sample is looked for where it is, if those before it are.
LEMMA PlaceIs ==
  ASSUME NEW m, NEW c, NEW k \in Nat, k >= 1, NEW b \in Nat, SamplesBefore(m, c) = b,
         \A i \in 1..k : InPlace(m.frames, m.chunks[c], b, i)
  PROVE  PlaceOf(m, c, k) = m.frames[b + k].offset
<1> DEFINE s == m.chunks[c]
           fr == m.frames
           E(f) == [i \in 1..k |-> IF i = 1 THEN s ELSE f[i - 1] + fr[b + i - 1].size]
           f == CHOOSE x : x = E(x)
           g == [i \in 1..k |-> fr[b + i].offset]
<1>1. PlaceOf(m, c, k) = f[k]
  BY DEF PlaceOf
<1>2. \A i \in 1..k : InPlace(fr, s, b, i)
  OBVIOUS
<1> HIDE DEF s, fr
<1>3. /\ fr[b + 1].offset = s
      /\ \A i \in 1..k : i # 1 => fr[b + i].offset = fr[b + i - 1].offset + fr[b + i - 1].size
  <2>1. 1 \in 1..k
    OBVIOUS
  <2> QED
    BY <1>2, <2>1 DEF InPlace
<1>4. g = E(g)
  <2>1. ASSUME NEW i \in 1..k
        PROVE  g[i] = IF i = 1 THEN s ELSE g[i - 1] + fr[b + i - 1].size
    <3>1. CASE i = 1
      BY <1>3, <3>1
    <3>2. CASE i # 1
      <4>1. i - 1 \in 1..k /\ b + (i - 1) = b + i - 1
        BY <3>2
      <4>2. g[i - 1] = fr[b + i - 1].offset
        BY <4>1
      <4> QED
        BY <1>3, <3>2, <4>2
    <3> QED
      BY <3>1, <3>2
  <2> QED
    BY <2>1
<1>5. f = E(f)
  <2> HIDE DEF E, g
  <2>1. \E x : x = E(x)
    BY <1>4
  <2> QED
    BY <2>1
<1> HIDE DEF f
<1> DEFINE T == {n \in Nat : n + 1 <= k => f[n + 1] = fr[b + (n + 1)].offset}
<1>6. 0 \in T
  <2>1. f[1] = s
    BY <1>5
  <2> QED
    BY <1>3, <2>1
<1>7. ASSUME NEW n \in Nat, n \in T PROVE n + 1 \in T
  <2> SUFFICES ASSUME (n + 1) + 1 <= k PROVE f[(n + 1) + 1] = fr[b + ((n + 1) + 1)].offset
    OBVIOUS
  <2> DEFINE j == (n + 1) + 1
  <2>1. /\ j \in 1..k /\ j # 1 /\ j - 1 = n + 1 /\ n + 1 <= k
        /\ b + j - 1 = b + (n + 1)
    OBVIOUS
  <2> HIDE DEF j
  <2>2. f[j] = f[j - 1] + fr[b + j - 1].size
    BY <1>5, <2>1
  <2>3. fr[b + j].offset = fr[b + j - 1].offset + fr[b + j - 1].size
    BY <1>3, <2>1
  <2>4. f[n + 1] = fr[b + (n + 1)].offset
    BY <1>7, <2>1
  <2> QED
    BY <2>1, <2>2, <2>3, <2>4 DEF j
<1>8. \A n \in Nat : n \in T
  <2> HIDE DEF T
  <2> QED
    BY <1>6, <1>7, NaturalsByStep
<1>9. k - 1 \in Nat /\ (k - 1) + 1 = k
  OBVIOUS
<1>10. f[k] = fr[b + k].offset
  BY <1>8, <1>9
<1> QED
  BY <1>1, <1>10 DEF fr

SampleFound(m, c, k) ==
  LET p == PlaceOf(m, c, k)
      frame == m.frames[SamplesBefore(m, c) + k]
  IN /\ p = frame.offset
     /\ p + frame.size <= Len(m.file.data)
     /\ m.file.data[p + 1].is = "length"
     /\ m.file.data[p + 1].time = frame.time
     /\ \A i \in (p + 1)..(p + frame.size - 1) :
          m.file.data[i].is = "length"
            => m.file.data[i + 1].unit = m.file.data[i].unit

LEMMA TablesLead ==
  ASSUME NEW m \in Mp4Records, m.file.pos \in Nat, SamplesFit(m), NEW B,
         Tabled(m.frames, m.chunks, m.toChunk, B, Len(m.frames)), Len(m.chunks) >= 1
  PROVE  Found(m)
<1> DEFINE n == Len(m.chunks)
           top == Len(m.frames)
           runs == m.toChunk
<1>1. /\ n \in Nat /\ top \in Nat /\ m.frames \in Seq(SampleFrames) /\ n >= 1
      /\ runs \in Seq(ChunkRuns) /\ m.file \in Logs /\ Len(m.file.data) \in Nat
  BY Mp4RecordIs, LenProperties, LogIs
<1>2. /\ B \in [1..(n + 1) -> Nat] /\ B[1] = 0 /\ B[n + 1] = top
      /\ \A c \in 1..n : ChunkIs(m.frames, m.chunks, runs, B, top, c)
  BY DEF Tabled
<1> HIDE DEF n, top
<1>3. ASSUME NEW c \in 1..n
      PROVE  /\ B[c] \in Nat /\ SamplesIn(m, c) \in Nat
             /\ B[c + 1] = B[c] + SamplesIn(m, c) /\ B[c + 1] <= top
             /\ \A k \in 1..SamplesIn(m, c) : InPlace(m.frames, m.chunks[c], B[c], k)
  <2>1. PICK e : /\ IsRun(runs, c, e)
                 /\ B[c + 1] = B[c] + runs[e].samples /\ B[c + 1] <= top
                 /\ \A k \in 1..runs[e].samples : InPlace(m.frames, m.chunks[c], B[c], k)
    BY <1>2 DEF ChunkIs
  <2>2. SamplesIn(m, c) = runs[e].samples
    BY <2>1, SamplesAre
  <2>3. runs[e].samples \in Nat
    <3>1. runs[e] \in ChunkRuns
      BY <1>1, <2>1, LenProperties, ElementOfSeq DEF IsRun
    <3> QED
      BY <3>1 DEF ChunkRuns
  <2>4. c \in 1..(n + 1)
    BY <1>1
  <2> QED
    BY <1>2, <2>1, <2>2, <2>3, <2>4
<1>4. ASSUME NEW c \in 1..n PROVE SamplesBefore(m, c) = B[c]
  <2>1. ASSUME NEW i \in 2..c PROVE B[i] = B[i - 1] + SamplesIn(m, i - 1)
    <3> DEFINE j == i - 1
    <3>1. j \in 1..n /\ j + 1 = i
      BY <1>1
    <3> HIDE DEF j
    <3>2. B[j + 1] = B[j] + SamplesIn(m, j)
      BY <1>3, <3>1
    <3> QED
      BY <3>1, <3>2 DEF j
  <2>2. c \in Nat /\ c >= 1
    BY <1>1
  <2> QED
    BY <1>2, <2>1, <2>2, SumIs
<1>5. SamplesBefore(m, n) + SamplesIn(m, n) = top
  <2>1. n \in 1..n
    BY <1>1
  <2> QED
    BY <1>2, <1>3, <1>4, <2>1
<1>6. ASSUME NEW c \in 1..n, NEW k \in 1..SamplesIn(m, c) PROVE SampleFound(m, c, k)
  <2> DEFINE b == B[c]
             x == m.frames[b + k]
  <2>1. /\ b \in Nat /\ SamplesIn(m, c) \in Nat /\ b + SamplesIn(m, c) <= top
        /\ \A i \in 1..SamplesIn(m, c) : InPlace(m.frames, m.chunks[c], b, i)
        /\ SamplesBefore(m, c) = b
    BY <1>3, <1>4
  <2>2. /\ k \in Nat /\ k >= 1 /\ b + k \in 1..top
        /\ \A i \in 1..k : i \in 1..SamplesIn(m, c)
    BY <1>1, <2>1
  <2> HIDE DEF b
  <2>3. PlaceOf(m, c, k) = x.offset
    BY <2>1, <2>2, PlaceIs
  <2>4. x \in SampleFrames /\ FrameFits(m.file, x)
    BY <1>1, <2>2, ElementOfSeq DEF SamplesFit, top
  <2>5. x = m.frames[SamplesBefore(m, c) + k]
    BY <2>1
  <2> HIDE DEF x
  <2>6. x.offset + x.size <= Len(m.file.data)
    BY <1>1, <2>4 DEF FrameFits, SampleFrames, SamplesFit
  <2> QED
    BY <2>3, <2>4, <2>5, <2>6 DEF SampleFound, FrameFits
<1> QED
  BY <1>5, <1>6 DEF Found, SampleFound, n, top

LEMMA CloseMp4Finds ==
  ASSUME NEW m \in Mp4Records, m.file.pos \in Nat, Mp4Fits(m)
  PROVE  LET y == CloseMp4(m) IN y.file.opens /\ ~y.torn => Found(y)
<1> DEFINE v == EndChunkInfo(m)
           s == IF m.num > 1 THEN Counted(v.times, IF v.times = <<>> THEN 0 ELSE Last(v.times).val)
                ELSE v.times
           y == [v EXCEPT !.saving = FALSE, !.times = s]
           z == CloseMp4(m)
<1>1. z \in Mp4Records /\ z.file = m.file
  BY CloseMp4Is
<1>2. m.file.opens => z = y
  BY DEF CloseMp4
<1>3. /\ v \in Mp4Records /\ v.frames = m.frames /\ v.torn = m.torn
      /\ Ended(m, v.chunks, v.toChunk)
  <2> DEFINE a == Append(m.chunks, m.cur)
             b == IF m.toChunk = <<>> \/ Last(m.toChunk).samples # m.num
                  THEN Append(m.toChunk, [chunk |-> Len(a), samples |-> m.num])
                  ELSE m.toChunk
  <2>1. v = [m EXCEPT !.chunks = a, !.toChunk = b]
    BY DEF EndChunkInfo
  <2>2. v \in Mp4Records
    <3>1. ChunkEnded(m, EndChunkInfo(m))
      BY EndChunkIs
    <3> QED
      BY <3>1 DEF ChunkEnded
  <2> HIDE DEF v, a, b
  <2>3. v.chunks = a /\ v.toChunk = b /\ v.frames = m.frames /\ v.torn = m.torn
    BY <2>1 DEF Mp4Records
  <2> QED
    BY <2>2, <2>3 DEF Ended, a, b
<1> HIDE DEF v, s, z
<1>4. /\ y.frames = v.frames /\ y.chunks = v.chunks /\ y.toChunk = v.toChunk
      /\ y.torn = v.torn
  BY <1>3 DEF Mp4Records
<1> HIDE DEF y
<1>5. ASSUME z.file.opens, ~z.torn PROVE Found(z)
  <2>1. z = y /\ ~m.torn
    BY <1>1, <1>2, <1>3, <1>4, <1>5
  <2>2. ChunksFit(m) /\ SamplesFit(m)
    BY <2>1 DEF Mp4Fits
  <2>3. PICK C : Tabled(m.frames, v.chunks, v.toChunk, C, Len(m.frames))
    BY <1>3, <2>2, ChunkEnds
  <2>4. Tabled(z.frames, z.chunks, z.toChunk, C, Len(z.frames))
    BY <1>3, <1>4, <2>1, <2>3
  <2>5. Len(z.chunks) >= 1
    <3>1. Len(Append(m.chunks, m.cur)) = Len(m.chunks) + 1 /\ Len(m.chunks) \in Nat
      BY Mp4RecordIs, AppendProperties, LenProperties
    <3> QED
      BY <1>3, <1>4, <2>1, <3>1 DEF Ended
  <2>6. SamplesFit(z) /\ z.file.pos \in Nat
    BY <1>1, <1>3, <1>4, <2>1, <2>2 DEF SamplesFit
  <2> QED
    BY <1>1, <2>4, <2>5, <2>6, TablesLead
<1> QED
  BY <1>5 DEF z

LEMMA NewMp4Fits ==
  ASSUME NEW opens \in BOOLEAN
  PROVE  NewMp4(opens) \in Mp4Records /\ NewMp4(opens).file.pos \in Nat /\ Mp4Fits(NewMp4(opens))
<1> DEFINE m == NewMp4(opens)
           f == Create(opens)
           b == Cell("box", 0, 0)
           B == [i \in 1..1 |-> 0]
<1>1. m \in Mp4Records /\ m.file.pos \in Nat /\ Left(f, Boxes, 1, m.file)
  BY NewMp4Is
<1>2. /\ m.frames = <<>> /\ m.chunks = <<>> /\ m.toChunk = <<>> /\ m.num = 0
  BY DEF NewMp4
<1>3. f \in Logs /\ f.pos = 0 /\ Len(f.data) = 0 /\ f.pos \in Nat /\ f.pos <= Len(f.data)
  BY DEF Create, Logs
<1> HIDE DEF m, f
<1>4. Boxes \in Seq(LogCells)
  <2>1. b \in LogCells
    BY DEF Cell, LogCells, LogNames
  <2> HIDE DEF b
  <2>2. <<b>> \in Seq(LogCells)
    BY <2>1
  <2> QED
    BY <2>2 DEF Boxes, b
<1>5. m.file.pos <= Len(m.file.data)
  <2>1. Kept(f, m.file)
    BY <1>1, <1>3, <1>4, WroteKeeps DEF Left
  <2> QED
    BY <2>1 DEF Kept
<1>6. Len(m.frames) = 0 /\ Len(m.chunks) = 0 /\ DOMAIN m.toChunk = {}
  BY <1>2
<1>7. Tabled(m.frames, m.chunks, m.toChunk, B, 0)
  BY <1>6 DEF Tabled
<1> HIDE DEF B
<1>8. ChunksFit(m)
  <2>1. Tabled(m.frames, m.chunks, m.toChunk, B, Len(m.frames) - m.num)
    BY <1>2, <1>6, <1>7
  <2> QED
    BY <1>2, <1>6, <2>1 DEF ChunksFit
<1>9. SamplesFit(m)
  BY <1>5, <1>6 DEF SamplesFit
<1> QED
  BY <1>1, <1>8, <1>9 DEF Mp4Fits, m

-----------------------------------------------------------------------------
(* Theorem of the recording in MP4.                                        *)

Mp4FileHolds ==
  /\ unit \in Nat /\ now \in Nat
  /\ mp4 # None =>
       /\ mp4 \in Mp4Records /\ mp4.file.pos \in Nat
       /\ IF mp4.saving THEN Mp4Fits(mp4)
          ELSE mp4.file.opens /\ ~mp4.torn => Found(mp4)

LEMMA Mp4FileStays ==
  ASSUME RecordingAssumption, Mp4FileHolds, [Next]_vars
  PROVE  Mp4FileHolds'
<1>1. /\ unit \in Nat /\ now \in Nat
      /\ mp4 # None =>
           /\ mp4 \in Mp4Records /\ mp4.file.pos \in Nat
           /\ IF mp4.saving THEN Mp4Fits(mp4)
              ELSE mp4.file.opens /\ ~mp4.torn => Found(mp4)
  BY DEF Mp4FileHolds
<1>2. CASE RecordMp4
  <2>1. PICK opens \in BOOLEAN : mp4' = NewMp4(opens)
    BY <1>2 DEF RecordMp4
  <2>2. unit' = unit /\ now' = now
    BY <1>2 DEF RecordMp4
  <2>3. /\ NewMp4(opens) \in Mp4Records /\ NewMp4(opens).file.pos \in Nat
        /\ Mp4Fits(NewMp4(opens)) /\ NewMp4(opens).saving
    BY NewMp4Fits, NewMp4Is
  <2> QED
    BY <1>1, <2>1, <2>2, <2>3 DEF Mp4FileHolds
<1>3. CASE NextUnit
  <2>1. PICK u, out : out \in Fates /\ UnitTaken(u, out)
    BY <1>1, <1>3, UnitIsTaken
  <2>2. /\ UnitFits(u) /\ unit' = u.n /\ now' = u.ts
        /\ mp4' = IF Saving(mp4) THEN AddToMp4(mp4, u, out) ELSE mp4
    BY <2>1 DEF UnitTaken
  <2>3. OutFits(out)
    BY <2>1, FatesFit
  <2>4. unit' \in Nat /\ now' \in Nat
    BY <2>2 DEF UnitFits
  <2>5. CASE Saving(mp4)
    <3> DEFINE y == AddToMp4(mp4, u, out)
    <3>1. mp4 \in Mp4Records /\ mp4.file.pos \in Nat /\ Mp4Fits(mp4) /\ mp4.saving
      BY <1>1, <2>5 DEF Saving
    <3>2. y \in Mp4Records /\ y.file.pos \in Nat
      BY <2>2, <2>3, <3>1, AddedToMp4
    <3>3. Mp4Fits(y) /\ y.saving = mp4.saving
      BY <2>2, <2>3, <3>1, AddMp4Fits, Mp4StaysOpen
    <3>4. mp4' = y
      BY <2>2, <2>5
    <3> HIDE DEF y
    <3> QED
      BY <2>4, <3>1, <3>2, <3>3, <3>4 DEF Mp4FileHolds
  <2>6. CASE ~Saving(mp4)
    BY <1>1, <2>2, <2>4, <2>6 DEF Mp4FileHolds
  <2> QED
    BY <2>5, <2>6
<1>4. CASE StopMp4
  <2> DEFINE y == CloseMp4(mp4)
  <2>1. /\ mp4' = y /\ unit' = unit /\ now' = now
        /\ mp4 \in Mp4Records /\ mp4.file.pos \in Nat /\ Mp4Fits(mp4)
    BY <1>1, <1>4 DEF StopMp4, Saving
  <2>2. y \in Mp4Records /\ y.file = mp4.file /\ ~y.saving
    BY <2>1, CloseMp4Is
  <2>3. y.file.opens /\ ~y.torn => Found(y)
    BY <2>1, CloseMp4Finds
  <2> HIDE DEF y
  <2> QED
    BY <1>1, <2>1, <2>2, <2>3 DEF Mp4FileHolds
<1>5. CASE RecordFlv \/ StopFlv
  BY <1>1, <1>5 DEF RecordFlv, StopFlv, Mp4FileHolds
<1>6. CASE UNCHANGED vars
  BY <1>1, <1>6 DEF vars, Mp4FileHolds
<1> QED
  BY <1>2, <1>3, <1>4, <1>5, <1>6 DEF Next

\* The tables at the end of an MP4 file lead to each of its samples, whatever the
\* disk loses between them, as long as no sample was torn itself.
THEOREM SamplesAreFound == Spec => []Mp4Found
<1>1. Init => Mp4FileHolds
  BY DEF Init, Mp4FileHolds
<1>2. Mp4FileHolds /\ [Next]_vars => Mp4FileHolds'
  BY RecordingAssumption, Mp4FileStays
<1>3. Mp4FileHolds => Mp4Found
  BY DEF Mp4FileHolds, Mp4Found
<1> QED
  BY <1>1, <1>2, <1>3, PTL DEF Spec
=================================================================================
