------------------------- MODULE ReceptionStats_proofs -------------------------
(***************************************************************************)
(* Proofs about the reception statistics, for any even number of sequence  *)
(* numbers, of which the code has 2^16, and any number of packets and      *)
(* reports.                                                                *)
(***************************************************************************)
EXTENDS ReceptionStats, FiniteSetTheorems, TLAPS

-----------------------------------------------------------------------------
(* Arithmetic on the circle.                                               *)

LEMMA HalfOfWrap == Wrap \in Nat /\ Half \in Nat /\ Half > 0 /\ Wrap = 2 * Half
  BY ReceptionStatsAssumption DEF Half

LEMMA Division ==
  ASSUME NEW w \in Nat, w > 0, NEW a \in Int
  PROVE  /\ a % w \in 0..(w - 1)
         /\ a \div w \in Int
         /\ a = w * (a \div w) + (a % w)
  OBVIOUS

LEMMA NoMultipleBetween ==
  ASSUME NEW w \in Nat, w > 0, NEW n \in Int, NEW x \in (1 - w)..(w - 1), w * n = x
  PROVE  x = 0
  OBVIOUS

\* A step of less than a circle goes over its end once or not at all.
LEMMA StepOnCircle ==
  ASSUME NEW w \in Nat, w > 0, NEW a \in Int, NEW d \in 0..(w - 1)
  PROVE  (a + d) % w \in {(a % w) + d, (a % w) + d - w}
<1> DEFINE r == a % w
           s == (a + d) % w
           p == a \div w
           q == (a + d) \div w
           x == r + d - s
<1>1. r \in 0..(w - 1) /\ p \in Int /\ a = w * p + r
  BY Division
<1>2. s \in 0..(w - 1) /\ q \in Int /\ a + d = w * q + s
  BY Division
<1> HIDE DEF r, s, p, q
<1>3. w * (q - p) = x
  BY <1>1, <1>2
<1>4. x \in (1 - w)..(2 * w - 2)
  BY <1>1, <1>2
<1>5. CASE x < w
  <2>1. x = 0
    BY <1>1, <1>2, <1>3, <1>4, <1>5, NoMultipleBetween
  <2> QED
    BY <2>1, <1>1, <1>2 DEF r, s
<1>6. CASE x >= w
  <2>1. w * ((q - p) - 1) = x - w
    BY <1>1, <1>2, <1>3
  <2>2. (q - p) - 1 \in Int /\ x - w \in (1 - w)..(w - 1)
    BY <1>1, <1>2, <1>4, <1>6
  <2> HIDE DEF x
  <2>3. x - w = 0
    BY <2>1, <2>2, NoMultipleBetween
  <2> QED
    BY <2>3, <1>1, <1>2 DEF r, s, x
<1> QED
  BY <1>1, <1>2, <1>4, <1>5, <1>6

\* A whole circle changes nothing.
LEMMA WholeCircle ==
  ASSUME NEW k \in Int
  PROVE  (Wrap + k) % Wrap = k % Wrap
<1> DEFINE r == k % Wrap
           s == (Wrap + k) % Wrap
           p == k \div Wrap
           q == (Wrap + k) \div Wrap
<1>1. Wrap \in Nat /\ Wrap > 0
  BY HalfOfWrap
<1>2. r \in 0..(Wrap - 1) /\ p \in Int /\ k = Wrap * p + r
  BY <1>1, Division
<1>3. Wrap + k \in Int
  BY <1>1
<1>4. s \in 0..(Wrap - 1) /\ q \in Int /\ Wrap + k = Wrap * q + s
  BY <1>1, <1>3, Division
<1> HIDE DEF r, s, p, q
<1>5. q - p - 1 \in Int /\ r - s \in (1 - Wrap)..(Wrap - 1)
  BY <1>1, <1>2, <1>4
<1>6. Wrap * (q - p - 1) = r - s
  BY <1>1, <1>2, <1>4
<1>7. r - s = 0
  BY <1>1, <1>5, <1>6, NoMultipleBetween
<1>8. r = s
  BY <1>2, <1>4, <1>7
<1> QED
  BY <1>8 DEF r, s

\* Max and Min, of sets that need not be finite.
LEMMA MaxOf ==
  ASSUME NEW S \in SUBSET Int, NEW x \in S, \A y \in S : x >= y
  PROVE  Max(S) = x
<1>1. Max(S) \in S /\ \A y \in S : Max(S) >= y
  BY DEF Max
<1>2. Max(S) \in Int /\ x \in Int /\ Max(S) >= x /\ x >= Max(S)
  BY <1>1
<1> QED
  BY <1>2

LEMMA MinOf ==
  ASSUME NEW S \in SUBSET Int, NEW x \in S, \A y \in S : x <= y
  PROVE  Min(S) = x
<1>1. Min(S) \in S /\ \A y \in S : Min(S) <= y
  BY DEF Min
<1>2. Min(S) \in Int /\ x \in Int /\ Min(S) <= x /\ x <= Min(S)
  BY <1>1
<1> QED
  BY <1>2

-----------------------------------------------------------------------------
(* The extension of one number.                                            *)

Stats == [high: Nat, base: Nat, reset: Nat, count: Nat, total: Nat, init: BOOLEAN]

\* A packet ahead of the highest becomes the highest.
LEMMA AheadIsHighest ==
  ASSUME NEW c \in Stats, NEW m \in Int, NEW d \in 1..(Half - 1),
         c.high = Wrap + m
  PROVE  Extended(c, (m + d) % Wrap) = [c EXCEPT !.high = Wrap + (m + d)]
<1> DEFINE old == c.high % Wrap
           seq == (m + d) % Wrap
<1>1. old \in 0..(Wrap - 1) /\ seq \in 0..(Wrap - 1)
  BY HalfOfWrap, Division
<1>2. seq \in {old + d, old + d - Wrap}
  <2>1. old = m % Wrap
    BY WholeCircle, Zenon
  <2>2. Wrap \in Nat /\ Wrap > 0 /\ d \in 0..(Wrap - 1)
    BY HalfOfWrap
  <2>3. seq \in {(m % Wrap) + d, (m % Wrap) + d - Wrap}
    BY <2>2, StepOnCircle, Zenon
  <2> QED
    BY <2>1, <2>3, Zenon
<1> HIDE DEF old, seq
<1>3. SeqNumLT(old, seq)
  BY <1>1, <1>2, HalfOfWrap DEF SeqNumLT
<1>4. (IF seq < old THEN (c.high - old) + Wrap ELSE c.high - old) + seq = Wrap + (m + d)
  BY <1>1, <1>2, HalfOfWrap DEF Stats
<1>5. Wrap + (m + d) > c.high
  BY HalfOfWrap
<1> QED
  BY <1>3, <1>4, <1>5 DEF Extended, old, seq

\* Any other is at most the lowest.
LEMMA BehindIsLowest ==
  ASSUME NEW c \in Stats, NEW m \in Int, NEW d \in 0..(Half - 1),
         c.high = Wrap + m
  PROVE  Extended(c, (m - d) % Wrap)
           = [c EXCEPT !.base = IF c.total > 1 /\ @ > Wrap + (m - d)
                                THEN Wrap + (m - d) ELSE @]
<1> DEFINE old == c.high % Wrap
           seq == (m - d) % Wrap
<1>1. old \in 0..(Wrap - 1) /\ seq \in 0..(Wrap - 1)
  BY HalfOfWrap, Division
<1>2. old \in {seq + d, seq + d - Wrap}
  <2>1. m - d \in Int /\ (m - d) + d = m /\ d \in 0..(Wrap - 1) /\ Wrap > 0
    BY HalfOfWrap
  <2>2. ((m - d) + d) % Wrap \in {seq + d, seq + d - Wrap}
    BY <2>1, HalfOfWrap, StepOnCircle
  <2>3. old = m % Wrap
    BY WholeCircle
  <2> QED
    BY <2>1, <2>2, <2>3
<1> HIDE DEF old, seq
<1>3. ~SeqNumLT(old, seq)
  BY <1>1, <1>2, HalfOfWrap DEF SeqNumLT
<1>4. (IF seq - old > Half THEN (c.high - old) - Wrap ELSE c.high - old) + seq = Wrap + (m - d)
  BY <1>1, <1>2, HalfOfWrap DEF Stats
<1> QED
  BY <1>3, <1>4 DEF Extended, old, seq

-----------------------------------------------------------------------------
(* The inductive invariant.                                                *)

NotePlaces   == {"idle", "make", "seq", "count", "total", "extend"}
Counting     == {"count", "total", "extend"}
ReportPlaces == {"idle", "make", "high", "base", "total", "count", "clear", "store"}

Notes   == [pc: NotePlaces, seq: Int, of: Makers \union {None}, load: Nat]
Reports == [pc: ReportPlaces, high: Nat, base: Nat, total: Nat, reset: Nat,
            count: Nat, noted: SUBSET Int]

Types ==
  /\ at \in Makers \union {None}
  /\ twice \in BOOLEAN /\ clash \in BOOLEAN
  /\ counters \in [Makers -> Stats]
  /\ received \in 0..MaxPackets /\ begun \in 0..MaxReports
  /\ noted \in SUBSET Int
  /\ note \in Notes
  /\ report \in [Reporters -> Reports]

\* Who makes counters has found none; who uses some has found them, and those that
\* packets are counted in have begun a circle.
CountersAreMade ==
  /\ note.pc = "make" => at # "media" /\ noted = {}
  /\ at = None => /\ noted = {} /\ ~twice
                  /\ note.pc \in {"idle", "make"} /\ note.of = None
  /\ note.pc \in Counting => note.of \in Makers /\ counters[note.of].init
  /\ report["heartbeat"].pc # "make"
  /\ report["rtcp"].pc = "make" => at # "rtcp" /\ note.of # "rtcp"
  /\ \A r \in Reporters : report[r].pc \notin {"idle", "make"} => at # None
  /\ \A m \in Makers : counters[m].init => counters[m].high >= Wrap

\* The first packet begins the circle, and counts as one.
FirstIsKnown ==
  /\ note.pc # "idle" => note.seq \in 0..(Wrap - 1)
  /\ at # None /\ note.pc = "idle" => ~counters[at].init
  /\ at # None /\ counters[at].init =>
       counters[at].high = Wrap + note.seq /\ counters[at].base = Wrap + note.seq
  /\ note.pc \in Counting => counters[at].init
  /\ at # None => counters[at].total = IF note.pc = "extend" THEN 1 ELSE 0

\* Later ones find the highest and the lowest so far.
BoundsAreKnown ==
  /\ counters[at].init
  /\ counters[at].total >= IF note.pc = "extend" THEN 2 ELSE 1
  /\ \E low, high \in noted :
       /\ \A k \in noted : low <= k /\ k <= high
       /\ counters[at].base = Wrap + low
       /\ counters[at].high = Wrap + high
       /\ note.pc # "idle" => note.seq - high \in -(Half - 1)..(Half - 1)

CountersAreTrue ==
  ~twice =>
    /\ note.pc \in Counting => note.of = at
    /\ noted = {} => FirstIsKnown
    /\ noted # {} => BoundsAreKnown

IInv == Types /\ CountersAreMade /\ CountersAreTrue

LEMMA InitInv == Init => IInv
<1> SUFFICES ASSUME Init PROVE IInv
  OBVIOUS
<1> USE DEF Init, Makers, Reporters, Counting
<1>1. Zero \in Stats
  BY DEF Zero, Stats
<1>2. Rest \in Notes
  BY DEF Rest, Notes, NotePlaces
<1>3. Blank \in Reports
  BY DEF Blank, Reports, ReportPlaces
<1>4. Types
  <2>1. 0 \in 0..MaxPackets /\ 0 \in 0..MaxReports /\ {} \in SUBSET Int
    BY ReceptionStatsAssumption
  <2> QED
    BY <1>1, <1>2, <1>3, <2>1 DEF Types
<1>5. CountersAreMade
  BY ReceptionStatsAssumption DEF CountersAreMade, Zero, Blank, Rest
<1>6. CountersAreTrue
  BY ReceptionStatsAssumption DEF CountersAreTrue, FirstIsKnown, Rest
<1> QED
  BY <1>4, <1>5, <1>6 DEF IInv

-----------------------------------------------------------------------------
(* The media thread.                                                       *)

LEMMA OwnRemainder ==
  ASSUME NEW k \in 0..(Wrap - 1)
  PROVE  k % Wrap = k
<1>1. k % Wrap \in 0..(Wrap - 1) /\ k \div Wrap \in Int
      /\ Wrap * (k \div Wrap) = k - (k % Wrap)
  BY HalfOfWrap, Division
<1>2. k - (k % Wrap) \in (1 - Wrap)..(Wrap - 1)
  BY <1>1, HalfOfWrap
<1> QED
  BY <1>1, <1>2, HalfOfWrap, NoMultipleBetween

\* The first number that counters get.
LEMMA CircleBegins ==
  ASSUME NEW c \in Stats, NEW k \in Int
  PROVE  /\ InitSeqNum(c, k) \in Stats
         /\ InitSeqNum(c, k).init /\ InitSeqNum(c, k).high >= Wrap
         /\ InitSeqNum(c, k).total = c.total
         /\ k \in 0..(Wrap - 1) => /\ InitSeqNum(c, k).high = Wrap + k
                                    /\ InitSeqNum(c, k).base = Wrap + k
<1> DEFINE n == Wrap + (k % Wrap)
<1>1. n \in Nat /\ n >= Wrap
  BY HalfOfWrap, Division
<1>2. k \in 0..(Wrap - 1) => n = Wrap + k
  BY OwnRemainder
<1>3. InitSeqNum(c, k) = [c EXCEPT !.high = n, !.base = n, !.init = TRUE]
  BY DEF InitSeqNum
<1> HIDE DEF n
<1> QED
  BY <1>1, <1>2, <1>3 DEF Stats

LEMMA ReceiveInv ==
  ASSUME IInv, NEW k \in Numbers, Receive(k)
  PROVE  IInv'
<1> USE DEF IInv, Receive
<1>1. /\ note' = [note EXCEPT !.pc = IF at = None THEN "make" ELSE "seq", !.seq = k]
      /\ k \in Int
      /\ UNCHANGED <<at, twice, counters, noted, report>>
  BY HalfOfWrap DEF Numbers
<1>2. Types'
  <2>1. note' \in Notes
    BY <1>1 DEF Types, Notes, NotePlaces
  <2>2. received' \in 0..MaxPackets
    BY ReceptionStatsAssumption DEF Types
  <2> QED
    BY <2>1, <2>2 DEF Types
<1>3. /\ note'.pc = (IF at = None THEN "make" ELSE "seq") /\ note'.seq = k
      /\ note'.of = note.of /\ note.pc = "idle" /\ noted' = noted
  BY <1>1 DEF Types, Notes
<1>4. at = None => noted = {}
  BY DEF CountersAreMade
<1>5. CountersAreMade'
  <2> HIDE DEF Receive
  <2> QED
    BY <1>1, <1>3, <1>4, ReceptionStatsAssumption DEF CountersAreMade, Counting, Makers
<1>6. CountersAreTrue'
  <2> SUFFICES ASSUME ~twice PROVE CountersAreTrue'
    BY DEF CountersAreTrue
  <2>1. CASE noted = {}
    <3>1. k \in 0..(Wrap - 1)
      BY <2>1, ReceptionStatsAssumption
    <3> QED
      BY <1>1, <2>1, <3>1 DEF CountersAreTrue, FirstIsKnown, Counting, Types, Notes, NotePlaces
  <2>2. CASE noted # {}
    <3>1. PICK low \in noted, high \in noted :
            /\ \A n \in noted : low <= n /\ n <= high
            /\ counters[at].base = Wrap + low
            /\ counters[at].high = Wrap + high
      BY <2>2 DEF CountersAreTrue, BoundsAreKnown
    <3>2. Max(noted) = high
      BY <3>1, MaxOf DEF Types
    <3>3. k - high \in -(Half - 1)..(Half - 1)
      BY <2>2, <3>2
    <3>4. note'.pc # "extend" /\ note'.seq = k /\ note'.pc \notin Counting
      BY <1>1 DEF Types, Notes, Counting
    <3>5. counters[at].init /\ counters[at].total >= 1
      BY <2>2 DEF CountersAreTrue, BoundsAreKnown
    <3>6. BoundsAreKnown'
      BY <1>1, <3>1, <3>3, <3>4, <3>5 DEF BoundsAreKnown
    <3> QED
      BY <1>1, <2>2, <3>4, <3>6 DEF CountersAreTrue
  <2> QED
    BY <2>1, <2>2
<1> QED
  BY <1>2, <1>5, <1>6

LEMMA MakeInv ==
  ASSUME IInv, Make
  PROVE  IInv'
<1> USE DEF IInv
<1> DEFINE c == InitSeqNum(Zero, note.seq)
           d == [c EXCEPT !.reset = c.high]
<1>1. Zero \in Stats /\ note.seq \in Int
  BY DEF Zero, Stats, Types, Notes
<1>2. d \in Stats /\ d.init /\ d.high >= Wrap /\ d.total = 0
      /\ (note.seq \in 0..(Wrap - 1) => d.high = Wrap + note.seq /\ d.base = Wrap + note.seq)
  <2>1. c \in Stats /\ c.init /\ c.high >= Wrap /\ c.total = 0
        /\ (note.seq \in 0..(Wrap - 1) => c.high = Wrap + note.seq /\ c.base = Wrap + note.seq)
    BY <1>1, CircleBegins DEF Zero
  <2> HIDE DEF c
  <2> QED
    BY <2>1 DEF Stats
<1>3. /\ counters' = [counters EXCEPT !["media"] = d]
      /\ note' = [note EXCEPT !.pc = "seq"]
      /\ at' = "media" /\ twice' = (at # None) /\ note.pc = "make"
      /\ UNCHANGED <<received, noted, report, begun, clash>>
  BY DEF Make
<1> HIDE DEF d
<1>4. Types'
  BY <1>2, <1>3 DEF Types, Makers, Notes, NotePlaces
<1>5. CountersAreMade'
  BY <1>2, <1>3, ReceptionStatsAssumption DEF CountersAreMade, Types, Notes, Makers, Counting
<1>6. CountersAreTrue'
  <2> SUFFICES ASSUME ~twice' PROVE CountersAreTrue'
    BY DEF CountersAreTrue
  <2>1. ~twice /\ noted = {} /\ at = None
    BY <1>3 DEF CountersAreMade, Types
  <2>2. note.seq \in 0..(Wrap - 1)
    BY <1>3, <2>1 DEF CountersAreTrue, FirstIsKnown
  <2>3. counters'[at'] = d /\ note'.pc = "seq" /\ note'.seq = note.seq
    BY <1>3 DEF Types, Notes, Makers
  <2>4. FirstIsKnown'
    BY <1>2, <1>3, <2>2, <2>3 DEF FirstIsKnown, Counting
  <2> QED
    BY <1>3, <2>1, <2>3, <2>4 DEF CountersAreTrue, Counting
<1> QED
  BY <1>4, <1>5, <1>6

LEMMA NoteSeqInv ==
  ASSUME IInv, NoteSeq
  PROVE  IInv'
<1> USE DEF IInv, NoteSeq
<1> DEFINE c == IF counters[at].init THEN counters[at]
                                     ELSE InitSeqNum(counters[at], note.seq)
<1>1. at \in Makers /\ counters[at] \in Stats /\ note.seq \in Int /\ note.pc = "seq"
  BY DEF Types, CountersAreMade, Notes
<1>2. c \in Stats /\ c.init /\ c.high >= Wrap /\ c.total = counters[at].total
  BY <1>1, CircleBegins DEF CountersAreMade
<1>3. /\ counters' = [counters EXCEPT ![at] = c]
      /\ note' = [note EXCEPT !.pc = "count", !.of = at, !.load = c.count]
  OBVIOUS
<1>4. c.count \in Nat
  BY <1>2 DEF Stats
<1>5. ~counters[at].init /\ note.seq \in 0..(Wrap - 1)
        => c.high = Wrap + note.seq /\ c.base = Wrap + note.seq
  BY <1>1, CircleBegins
<1>6. counters[at].init => c = counters[at]
  OBVIOUS
<1> HIDE DEF c
<1>7. Types'
  <2>1. note' \in Notes
    BY <1>1, <1>3, <1>4 DEF Types, Notes, NotePlaces
  <2>2. counters' \in [Makers -> Stats]
    BY <1>2, <1>3 DEF Types
  <2> QED
    BY <2>1, <2>2 DEF Types
<1>8. counters'[at] = c /\ note'.pc = "count" /\ note'.of = at /\ note'.seq = note.seq
  BY <1>1, <1>3 DEF Types, Notes
<1>9. CountersAreMade'
  BY <1>1, <1>2, <1>3, <1>8 DEF CountersAreMade, Types, Notes, Makers
<1>10. CountersAreTrue'
  <2> SUFFICES ASSUME ~twice PROVE CountersAreTrue'
    BY DEF CountersAreTrue
  <2>1. CASE noted = {}
    <3>1. FirstIsKnown
      BY <2>1 DEF CountersAreTrue
    <3>2. FirstIsKnown'
      BY <1>1, <1>2, <1>5, <1>6, <1>8, <3>1 DEF FirstIsKnown
    <3> QED
      BY <1>8, <2>1, <3>2 DEF CountersAreTrue
  <2>2. CASE noted # {}
    <3>1. BoundsAreKnown
      BY <2>2 DEF CountersAreTrue
    <3>2. BoundsAreKnown'
      BY <1>6, <1>8, <3>1 DEF BoundsAreKnown
    <3> QED
      BY <1>8, <2>2, <3>2 DEF CountersAreTrue
  <2> QED
    BY <2>1, <2>2
<1> QED
  BY <1>7, <1>9, <1>10

LEMMA NoteCountInv ==
  ASSUME IInv, NoteCount
  PROVE  IInv'
<1> USE DEF IInv
<1>1. /\ counters' = [counters EXCEPT ![note.of].count = note.load + 1]
      /\ note' = [note EXCEPT !.pc = "total", !.load = 0]
      /\ note.pc = "count"
      /\ UNCHANGED <<at, twice, received, noted, report, begun, clash>>
  BY DEF NoteCount
<1>2. note.of \in Makers /\ note.load + 1 \in Nat
  BY <1>1 DEF Types, Notes, CountersAreMade, Counting
<1>3. note'.pc = "total" /\ note'.of = note.of /\ note'.seq = note.seq /\ note' \in Notes
  BY <1>1 DEF Types, Notes, NotePlaces
<1>4. counters' \in [Makers -> Stats]
  BY <1>1, <1>2 DEF Types, Stats
<1>5. \A m \in Makers : /\ counters'[m].high = counters[m].high
                        /\ counters'[m].base = counters[m].base
                        /\ counters'[m].total = counters[m].total
                        /\ counters'[m].init = counters[m].init
  BY <1>1, <1>2 DEF Types, Stats
<1>6. Types'
  BY <1>1, <1>3, <1>4 DEF Types
<1>7. CountersAreMade'
  BY <1>1, <1>2, <1>3, <1>5 DEF CountersAreMade, Counting
<1>8. CountersAreTrue'
  <2>1. note.pc = "count" /\ note.of \in Makers
    BY <1>1, <1>2
  <2> QED
    BY <2>1, <1>1, <1>3, <1>5 DEF CountersAreTrue, FirstIsKnown, BoundsAreKnown, Counting
<1> QED
  BY <1>6, <1>7, <1>8

LEMMA NoteTotalInv ==
  ASSUME IInv, NoteTotal
  PROVE  IInv'
<1> USE DEF IInv
<1>1. /\ counters' = [counters EXCEPT ![note.of].total = @ + 1]
      /\ note' = [note EXCEPT !.pc = "extend"]
      /\ note.pc = "total"
      /\ UNCHANGED <<at, twice, received, noted, report, begun, clash>>
  BY DEF NoteTotal
<1>2. note.of \in Makers
  BY <1>1 DEF CountersAreMade, Counting
<1>3. note'.pc = "extend" /\ note'.of = note.of /\ note'.seq = note.seq /\ note' \in Notes
  BY <1>1 DEF Types, Notes, NotePlaces
<1>4. counters' \in [Makers -> Stats]
  BY <1>1, <1>2 DEF Types, Stats
<1>5. \A m \in Makers : /\ counters'[m].high = counters[m].high
                        /\ counters'[m].base = counters[m].base
                        /\ counters'[m].init = counters[m].init
  BY <1>1, <1>2 DEF Types, Stats
<1>6. counters'[note.of].total = counters[note.of].total + 1 /\ counters[note.of].total \in Nat
  BY <1>1, <1>2 DEF Types, Stats
<1>7. Types'
  BY <1>1, <1>3, <1>4 DEF Types
<1>8. CountersAreMade'
  BY <1>1, <1>2, <1>3, <1>5 DEF CountersAreMade, Counting
<1>9. CountersAreTrue'
  <2> SUFFICES ASSUME ~twice PROVE CountersAreTrue'
    BY <1>1 DEF CountersAreTrue
  <2>1. note.of = at
    BY <1>1 DEF CountersAreTrue, Counting
  <2>2. CASE noted = {}
    <3>1. FirstIsKnown
      BY <2>2 DEF CountersAreTrue
    <3>2. counters'[at].total = 1
      BY <1>1, <1>2, <1>6, <2>1, <3>1, ReceptionStatsAssumption DEF FirstIsKnown, Makers
    <3>3. FirstIsKnown'
      BY <1>1, <1>2, <1>3, <1>5, <2>1, <3>1, <3>2 DEF FirstIsKnown, Counting
    <3> QED
      BY <1>1, <1>3, <2>1, <2>2, <3>3 DEF CountersAreTrue
  <2>3. CASE noted # {}
    <3>1. BoundsAreKnown
      BY <2>3 DEF CountersAreTrue
    <3>2. counters'[at].total >= 2
      BY <1>1, <1>6, <2>1, <3>1 DEF BoundsAreKnown
    <3>3. BoundsAreKnown'
      BY <1>1, <1>2, <1>3, <1>5, <2>1, <3>1, <3>2 DEF BoundsAreKnown
    <3> QED
      BY <1>1, <1>3, <2>1, <2>3, <3>3 DEF CountersAreTrue
  <2> QED
    BY <2>2, <2>3
<1> QED
  BY <1>7, <1>8, <1>9

\* Whatever the number, the counters keep their types and their circle.
LEMMA CircleIsKept ==
  ASSUME NEW c \in Stats, NEW seq \in 0..(Wrap - 1), c.init, c.high >= Wrap
  PROVE  /\ Extended(c, seq) \in Stats
         /\ Extended(c, seq).init
         /\ Extended(c, seq).high >= Wrap
<1> DEFINE old   == c.high % Wrap
           cycle == c.high - old
           q     == c.high \div Wrap
           up    == (IF seq < old THEN cycle + Wrap ELSE cycle) + seq
           down  == (IF seq - old > Half THEN cycle - Wrap ELSE cycle) + seq
<1>1. c.high \in Nat
  BY DEF Stats
<1>2. old \in 0..(Wrap - 1) /\ q \in Int /\ cycle = Wrap * q /\ cycle \in Int /\ cycle > 0
  BY <1>1, HalfOfWrap, Division
<1> HIDE DEF q
<1>3. cycle >= Wrap
  <2> HIDE DEF cycle
  <2>1. q >= 1
    BY <1>2, HalfOfWrap
  <2>2. Wrap * (q - 1) >= 0
    BY <1>2, <2>1, HalfOfWrap
  <2> QED
    BY <1>2, <2>2, HalfOfWrap
<1>4. Extended(c, seq) =
        IF SeqNumLT(old, seq)
        THEN [c EXCEPT !.high = IF up > @ THEN up ELSE @]
        ELSE [c EXCEPT !.base = IF c.total > 1 /\ @ > down THEN down ELSE @]
  BY DEF Extended
<1> HIDE DEF old, cycle
<1>5. up \in Nat /\ up >= Wrap /\ down \in Nat
  BY <1>2, <1>3, HalfOfWrap
<1> HIDE DEF up, down
<1>6. (IF up > c.high THEN up ELSE c.high) \in Nat /\ (IF up > c.high THEN up ELSE c.high) >= Wrap
  BY <1>1, <1>5
<1>7. (IF c.total > 1 /\ c.base > down THEN down ELSE c.base) \in Nat
  BY <1>5 DEF Stats
<1> QED
  BY <1>4, <1>6, <1>7 DEF Stats

LEMMA NoteExtendInv ==
  ASSUME IInv, NoteExtend
  PROVE  IInv'
<1> USE DEF IInv
<1> DEFINE c == counters[note.of]
           k == note.seq
           d == Extended(c, k % Wrap)
<1>1. /\ counters' = [counters EXCEPT ![note.of] = d]
      /\ noted' = noted \union {k}
      /\ note' = Rest
      /\ note.pc = "extend"
      /\ UNCHANGED <<at, twice, received, report, begun, clash>>
  BY DEF NoteExtend
<1>2. note.of \in Makers /\ c \in Stats /\ k \in Int /\ c.init /\ c.high >= Wrap
  BY <1>1 DEF Types, Notes, CountersAreMade, Counting
<1>3. d \in Stats /\ d.init /\ d.high >= Wrap
  BY SMTT(30), <1>2, HalfOfWrap, Division, CircleIsKept
<1>4. counters'[note.of] = d /\ (\A m \in Makers : m # note.of => counters'[m] = counters[m])
  BY <1>1, <1>2 DEF Types
<1>5. note'.pc = "idle" /\ note'.of = None /\ note' \in Notes
  BY <1>1 DEF Rest, Notes, NotePlaces
<1>6. at # None
  BY <1>1 DEF CountersAreMade
<1>7. Types'
  <2>1. counters' \in [Makers -> Stats] /\ noted' \in SUBSET Int
    BY <1>1, <1>2, <1>3 DEF Types
  <2> QED
    BY <1>1, <1>5, <2>1 DEF Types
<1>8. CountersAreMade'
  <2> HIDE DEF d
  <2> QED
    BY <1>1, <1>2, <1>3, <1>4, <1>5, <1>6, ReceptionStatsAssumption
    DEF CountersAreMade, Counting, Makers
<1>9. CountersAreTrue'
  <2> SUFFICES ASSUME ~twice PROVE BoundsAreKnown'
    BY <1>1, <1>5 DEF CountersAreTrue, Counting
  <2>1. note.of = at
    BY <1>1 DEF CountersAreTrue, Counting
  <2>2. CASE noted = {}
    <3>1. /\ c.high = Wrap + k /\ c.base = Wrap + k /\ c.total = 1
      BY <1>1, <1>2, <1>6, <2>1, <2>2 DEF CountersAreTrue, FirstIsKnown
    <3>2. d = c
      <4>1. 0 \in 0..(Half - 1) /\ k - 0 = k
        BY <1>2, HalfOfWrap
      <4>2. d = [c EXCEPT !.base = IF c.total > 1 /\ @ > Wrap + (k - 0)
                                   THEN Wrap + (k - 0) ELSE @]
        BY <1>2, <3>1, <4>1, BehindIsLowest
      <4> HIDE DEF d
      <4> QED
        BY <1>2, <3>1, <4>2 DEF Stats
    <3> HIDE DEF c, d
    <3>3. counters'[at] = c
      BY <1>4, <2>1, <3>2
    <3>4. noted' = {k}
      BY <1>1, <2>2
    <3> HIDE DEF k
    <3> QED
      BY <1>1, <1>2, <1>5, <3>1, <3>3, <3>4 DEF BoundsAreKnown
  <2>3. CASE noted # {}
    <3>1. PICK low \in noted, high \in noted :
            /\ \A n \in noted : low <= n /\ n <= high
            /\ c.base = Wrap + low
            /\ c.high = Wrap + high
            /\ k - high \in -(Half - 1)..(Half - 1)
      BY <1>1, <2>1, <2>3 DEF CountersAreTrue, BoundsAreKnown
    <3>2. low \in Int /\ high \in Int /\ noted \subseteq Int /\ low <= high
      BY <3>1 DEF Types
    <3>3. c.total > 1 /\ c.total \in Nat
      BY <1>1, <1>2, <2>1, <2>3 DEF CountersAreTrue, BoundsAreKnown, Stats
    <3>4. CASE k > high
      <4>1. d = [c EXCEPT !.high = Wrap + k]
        <5>1. k - high \in 1..(Half - 1) /\ high + (k - high) = k
          BY <1>2, <3>1, <3>2, <3>4, HalfOfWrap
        <5> QED
          BY <1>2, <3>1, <3>2, <5>1, AheadIsHighest
      <4> HIDE DEF d, c
      <4>2. d.high = Wrap + k /\ d.base = Wrap + low /\ d.total = c.total /\ d.init
        BY <1>2, <3>1, <4>1 DEF Stats
      <4>3. low \in noted' /\ k \in noted' /\ \A n \in noted' : low <= n /\ n <= k
        BY <1>1, <1>2, <3>1, <3>2, <3>4
      <4> HIDE DEF k
      <4> QED
        BY <1>1, <1>4, <1>5, <2>1, <3>3, <4>2, <4>3 DEF BoundsAreKnown
    <3>5. CASE k <= high
      <4>1. d = [c EXCEPT !.base = IF c.total > 1 /\ @ > Wrap + k
                                   THEN Wrap + k ELSE @]
        <5>1. high - k \in 0..(Half - 1) /\ high - (high - k) = k
          BY <1>2, <3>1, <3>2, <3>5, HalfOfWrap
        <5> QED
          BY <1>2, <3>1, <3>2, <5>1, BehindIsLowest
      <4> DEFINE l == IF low > k THEN k ELSE low
      <4> HIDE DEF d, c
      <4>2. d.high = Wrap + high /\ d.base = Wrap + l /\ d.total = c.total /\ d.init
        BY <1>2, <3>1, <3>2, <3>3, <4>1, HalfOfWrap DEF Stats
      <4>3. l \in noted' /\ high \in noted' /\ \A n \in noted' : l <= n /\ n <= high
        BY <1>1, <1>2, <3>1, <3>2, <3>5
      <4> HIDE DEF k, l
      <4> QED
        BY <1>1, <1>4, <1>5, <2>1, <3>3, <4>2, <4>3 DEF BoundsAreKnown
    <3> QED
      BY <1>2, <3>2, <3>4, <3>5
  <2> QED
    BY <2>2, <2>3
<1> QED
  BY <1>7, <1>8, <1>9

-----------------------------------------------------------------------------
(* The reporters.                                                          *)

\* A step of a reporter that leaves the counters alone.
LEMMA ReportMoves ==
  ASSUME IInv, NEW r \in Reporters, NEW b \in Reports,
         report' = [report EXCEPT ![r] = b],
         UNCHANGED <<at, twice, counters, received, noted, note>>,
         begun' \in 0..MaxReports, clash' \in BOOLEAN,
         b.pc = "make" => r = "rtcp" /\ at # "rtcp" /\ note.of # "rtcp",
         b.pc \notin {"idle", "make"} => at # None
  PROVE  IInv'
<1> USE DEF IInv
<1>1. report'[r] = b /\ (\A o \in Reporters : o # r => report'[o] = report[o])
  BY DEF Types
<1>2. Types'
  BY DEF Types
<1>3. CountersAreMade'
  BY <1>1 DEF CountersAreMade, Counting, Reporters
<1>4. CountersAreTrue'
  BY DEF CountersAreTrue, FirstIsKnown, BoundsAreKnown, Counting
<1> QED
  BY <1>2, <1>3, <1>4

\* Only what a report needs of the counters of a thread changes.
LEMMA CountersMove ==
  ASSUME IInv, NEW m \in Makers, NEW c \in Stats,
         counters' = [counters EXCEPT ![m] = c],
         c.high = counters[m].high, c.base = counters[m].base,
         c.total = counters[m].total, c.init = counters[m].init,
         NEW r \in Reporters, NEW b \in Reports,
         report' = [report EXCEPT ![r] = b], b.pc # "make", at # None,
         UNCHANGED <<at, twice, received, noted, note, begun, clash>>
  PROVE  IInv'
<1> USE DEF IInv
<1>1. report'[r] = b /\ (\A o \in Reporters : o # r => report'[o] = report[o])
  BY DEF Types
<1>2. \A o \in Makers : /\ counters'[o].high = counters[o].high
                        /\ counters'[o].base = counters[o].base
                        /\ counters'[o].total = counters[o].total
                        /\ counters'[o].init = counters[o].init
  BY DEF Types
<1>3. Types'
  BY DEF Types
<1>4. CountersAreMade'
  BY <1>1, <1>2 DEF CountersAreMade, Counting, Reporters
<1>5. CountersAreTrue'
  <2>1. at \in Makers
    BY DEF Types
  <2> QED
    BY <1>2, <2>1 DEF CountersAreTrue, FirstIsKnown, BoundsAreKnown, Counting
<1> QED
  BY <1>3, <1>4, <1>5

LEMMA MakeSRInv ==
  ASSUME IInv, NEW r \in Reporters, MakeSR(r)
  PROVE  IInv'
<1> USE DEF IInv
<1>1. /\ report[r].pc = "make"
      /\ counters' = [counters EXCEPT !["rtcp"] = Zero]
      /\ twice' = (at # None) /\ at' = "rtcp"
      /\ report' = [report EXCEPT ![r].pc = "high"]
      /\ UNCHANGED <<received, noted, note, begun, clash>>
  BY DEF MakeSR, Goes
<1>2. r = "rtcp" /\ at # "rtcp" /\ note.of # "rtcp"
  BY <1>1 DEF CountersAreMade, Reporters
<1>3. Zero \in Stats /\ ~Zero.init /\ Zero.total = 0
  BY DEF Zero, Stats
<1>4. report' \in [Reporters -> Reports]
      /\ report'["rtcp"].pc = "high" /\ report'["heartbeat"] = report["heartbeat"]
  BY <1>1, <1>2 DEF Types, Reports, ReportPlaces, Reporters
<1>5. Types'
  BY <1>1, <1>3, <1>4 DEF Types, Makers
<1>6. CountersAreMade'
  BY <1>1, <1>2, <1>3, <1>4, ReceptionStatsAssumption
  DEF CountersAreMade, Counting, Types, Makers, Reporters
<1>7. CountersAreTrue'
  <2> SUFFICES ASSUME at = None, ~twice PROVE CountersAreTrue'
    BY <1>1 DEF CountersAreTrue, CountersAreMade
  <2>1. noted = {} /\ note.pc \in {"idle", "make"} /\ FirstIsKnown
    BY DEF CountersAreMade, CountersAreTrue
  <2>2. counters'["rtcp"] = Zero
    BY <1>1 DEF Types, Makers
  <2>3. FirstIsKnown'
    BY <1>1, <1>3, <2>1, <2>2 DEF FirstIsKnown, Counting
  <2> QED
    BY <1>1, <2>1, <2>3 DEF CountersAreTrue, Counting
<1> QED
  BY <1>5, <1>6, <1>7

LEMMA ReporterInv ==
  ASSUME IInv, NEW r \in Reporters,
         \/ Begin(r) \/ ReadHigh(r) \/ ReadBase(r) \/ ReadTotal(r) \/ ReadCount(r)
         \/ ClearCount(r) \/ SetReset(r)
  PROVE  IInv'
<1> DEFINE b == report'[r]
<1>1. /\ report \in [Reporters -> Reports] /\ report[r] \in Reports
      /\ begun \in 0..MaxReports /\ clash \in BOOLEAN
      /\ noted \in SUBSET Int
  BY DEF IInv, Types
<1>2. report[r].pc \notin {"idle", "make"} =>
        at \in Makers /\ counters[at] \in Stats
        /\ counters[at].high \in Nat /\ counters[at].base \in Nat
        /\ counters[at].total \in Nat /\ counters[at].reset \in Nat
        /\ counters[at].count \in Nat
  BY DEF IInv, Types, CountersAreMade, Stats
<1>3. CASE Begin(r)
  <2>1. report' = [report EXCEPT ![r].pc = IF at = None THEN "make" ELSE "high"]
    BY <1>3 DEF Begin, Goes
  <2>2. b \in Reports /\ report' = [report EXCEPT ![r] = b]
        /\ b.pc = IF at = None THEN "make" ELSE "high"
    BY <1>1, <2>1 DEF Reports, ReportPlaces
  <2>3. begun' \in 0..MaxReports /\ clash' \in BOOLEAN
        /\ UNCHANGED <<at, twice, counters, received, noted, note>>
    BY <1>1, <1>3, ReceptionStatsAssumption DEF Begin
  <2>4. b.pc = "make" => r = "rtcp" /\ at # "rtcp" /\ note.of # "rtcp"
    BY <1>3, <2>2, ReceptionStatsAssumption DEF IInv, CountersAreMade, Begin, Reporters
  <2> HIDE DEF b
  <2> QED
    BY <2>2, <2>3, <2>4, ReportMoves
<1>4. CASE ReadHigh(r)
  <2>1. b \in Reports /\ report' = [report EXCEPT ![r] = b] /\ b.pc = "base" /\ at # None
        /\ UNCHANGED <<at, twice, counters, received, noted, note, begun, clash>>
    BY <1>1, <1>2, <1>4, ReceptionStatsAssumption DEF ReadHigh, Reports, ReportPlaces, Makers
  <2> HIDE DEF b
  <2> QED
    BY <1>1, <2>1, ReportMoves
<1>5. CASE ReadBase(r)
  <2>1. b \in Reports /\ report' = [report EXCEPT ![r] = b] /\ b.pc = "total" /\ at # None
        /\ UNCHANGED <<at, twice, counters, received, noted, note, begun, clash>>
    BY <1>1, <1>2, <1>5, ReceptionStatsAssumption DEF ReadBase, Reports, ReportPlaces, Makers
  <2> HIDE DEF b
  <2> QED
    BY <1>1, <2>1, ReportMoves
<1>6. CASE ReadTotal(r)
  <2>1. b \in Reports /\ report' = [report EXCEPT ![r] = b] /\ b.pc = "count" /\ at # None
        /\ UNCHANGED <<at, twice, counters, received, noted, note, begun, clash>>
    BY <1>1, <1>2, <1>6, ReceptionStatsAssumption DEF ReadTotal, Reports, ReportPlaces, Makers
  <2> HIDE DEF b
  <2> QED
    BY <1>1, <2>1, ReportMoves
<1>7. CASE ReadCount(r)
  <2>1. b \in Reports /\ report' = [report EXCEPT ![r] = b] /\ b.pc = "clear" /\ at # None
        /\ UNCHANGED <<at, twice, counters, received, noted, note, begun, clash>>
    BY <1>1, <1>2, <1>7, ReceptionStatsAssumption DEF ReadCount, Reports, ReportPlaces, Makers
  <2> HIDE DEF b
  <2> QED
    BY <1>1, <2>1, ReportMoves
<1>8. CASE ClearCount(r)
  <2> DEFINE c == [counters[at] EXCEPT !.count = 0]
  <2>1. at \in Makers /\ at # None
    BY <1>2, <1>8, ReceptionStatsAssumption DEF ClearCount, Makers
  <2>2. c \in Stats /\ counters' = [counters EXCEPT ![at] = c]
        /\ c.high = counters[at].high /\ c.base = counters[at].base
        /\ c.total = counters[at].total /\ c.init = counters[at].init
    BY <1>2, <1>8, <2>1 DEF ClearCount, Stats, IInv, Types
  <2>3. b \in Reports /\ report' = [report EXCEPT ![r] = b] /\ b.pc = "store"
    BY <1>1, <1>8 DEF ClearCount, Blank, Reports, ReportPlaces
  <2>4. UNCHANGED <<at, twice, received, noted, note, begun, clash>>
    BY <1>8 DEF ClearCount
  <2> HIDE DEF b, c
  <2> QED
    BY <2>1, <2>2, <2>3, <2>4, CountersMove
<1>9. CASE SetReset(r)
  <2> DEFINE c == [counters[at] EXCEPT !.reset = counters[at].high]
  <2>1. at \in Makers /\ at # None
    BY <1>2, <1>9, ReceptionStatsAssumption DEF SetReset, Makers
  <2>2. c \in Stats /\ counters' = [counters EXCEPT ![at] = c]
        /\ c.high = counters[at].high /\ c.base = counters[at].base
        /\ c.total = counters[at].total /\ c.init = counters[at].init
    BY <1>2, <1>9, <2>1 DEF SetReset, Stats, IInv, Types
  <2>3. b \in Reports /\ report' = [report EXCEPT ![r] = b] /\ b.pc = "idle"
    BY <1>1, <1>9 DEF SetReset, Blank, Reports, ReportPlaces
  <2>4. UNCHANGED <<at, twice, received, noted, note, begun, clash>>
    BY <1>9 DEF SetReset
  <2> HIDE DEF b, c
  <2> QED
    BY <2>1, <2>2, <2>3, <2>4, CountersMove
<1> QED
  BY <1>3, <1>4, <1>5, <1>6, <1>7, <1>8, <1>9

-----------------------------------------------------------------------------
(* The theorems.                                                           *)

LEMMA NextInv == IInv /\ [Next]_vars => IInv'
<1> SUFFICES ASSUME IInv, [Next]_vars PROVE IInv'
  OBVIOUS
<1>1. CASE \E k \in Numbers : Receive(k)
  BY <1>1, ReceiveInv
<1>2. CASE Make \/ NoteSeq \/ NoteCount \/ NoteTotal \/ NoteExtend
  BY <1>2, MakeInv, NoteSeqInv, NoteCountInv, NoteTotalInv, NoteExtendInv
<1>3. ASSUME NEW r \in Reporters,
             \/ Begin(r) \/ MakeSR(r) \/ ReadHigh(r) \/ ReadBase(r) \/ ReadTotal(r)
             \/ ReadCount(r) \/ ClearCount(r) \/ SetReset(r)
      PROVE  IInv'
  BY <1>3, MakeSRInv, ReporterInv
<1>4. CASE UNCHANGED vars
  BY <1>4 DEF vars, IInv, Types, CountersAreMade, CountersAreTrue, FirstIsKnown,
              BoundsAreKnown, Counting
<1> QED
  BY <1>1, <1>2, <1>3, <1>4 DEF Next

\* Whatever the packets and the order of the threads' accesses, the counters are in
\* one of the situations above (RTPReceptionStats.cpp, rtspClientSource.cpp).
THEOREM InvHolds == Spec => []IInv
  BY InitInv, NextInv, PTL DEF Spec

LEMMA InvTypeOK == IInv => TypeOK
<1> SUFFICES ASSUME IInv PROVE TypeOK
  OBVIOUS
<1>1. \A m \in Makers : counters[m] \in [high: Nat, base: Nat, reset: Nat, count: Nat,
                                         total: Nat, init: BOOLEAN]
  BY DEF IInv, Types, Stats
<1>2. note.pc \in NotePlaces /\ \A r \in Reporters : report[r].pc \in ReportPlaces
  BY DEF IInv, Types, Notes, Reports
<1>3. /\ note.pc \in Counting => note.of \in Makers
      /\ note.pc = "seq" => at # None
      /\ \A r \in Reporters : report[r].pc \notin {"idle", "make"} => at # None
  BY DEF IInv, CountersAreMade
<1> QED
  BY <1>1, <1>2, <1>3 DEF IInv, Types, TypeOK, NotePlaces, ReportPlaces, Counting

\* The counters, registers and places keep their types, and no thread uses counters
\* before there are some (addRtpDataToProcesser, processRtcpData, sendRR).
THEOREM TypeCorrect == Spec => []TypeOK
  BY InvHolds, InvTypeOK, PTL

LEMMA InvHighest == IInv => HighestIsTrue
<1> SUFFICES ASSUME IInv, note.pc = "idle", noted # {}, ~twice
             PROVE  /\ counters[at].high = Wrap + Max(noted)
                    /\ counters[at].base = Wrap + Min(noted)
  BY DEF HighestIsTrue
<1>1. PICK low \in noted, high \in noted :
        /\ \A n \in noted : low <= n /\ n <= high
        /\ counters[at].base = Wrap + low
        /\ counters[at].high = Wrap + high
  BY DEF IInv, CountersAreTrue, BoundsAreKnown
<1>2. noted \in SUBSET Int
  BY DEF IInv, Types
<1>3. Max(noted) = high
  BY <1>1, <1>2, MaxOf
<1>4. Min(noted) = low
  BY <1>1, <1>2, MinOf
<1> QED
  BY <1>1, <1>3, <1>4

\* However far the stream goes round the circle of sequence numbers, with losses and
\* reordering of less than half of it, the counters know the true highest and lowest
\* (noteIncomingPacket).
THEOREM HighestIsKnown == Spec => []HighestIsTrue
  BY InvHolds, InvHighest, PTL

-----------------------------------------------------------------------------
(* How many packets of a range are missing.                                *)

Above(N, n) == {k \in N : k > n}

LEMMA AboveType ==
  ASSUME NEW N \in SUBSET Int, IsFiniteSet(N), NEW n \in Int
  PROVE  /\ IsFiniteSet(Above(N, n))
         /\ Cardinality(Above(N, n)) \in Nat
         /\ Cardinality(N) \in Nat
         /\ Cardinality(Above(N, n)) <= Cardinality(N)
<1>1. Above(N, n) \in SUBSET N
  BY DEF Above
<1> QED
  BY <1>1, FS_Subset, FS_CardinalityType

LEMMA AboveGrows ==
  ASSUME NEW N \in SUBSET Int, IsFiniteSet(N), NEW M \in SUBSET N, NEW n \in Int
  PROVE  Cardinality(Above(M, n)) <= Cardinality(Above(N, n))
<1>1. Above(M, n) \in SUBSET Above(N, n)
  BY DEF Above
<1>2. IsFiniteSet(Above(N, n))
  BY AboveType
<1> QED
  BY <1>1, <1>2, FS_Subset

LEMMA AboveAdds ==
  ASSUME NEW N \in SUBSET Int, IsFiniteSet(N), NEW k \in Int, NEW n \in Int
  PROVE  Cardinality(Above(N \union {k}, n)) <= Cardinality(Above(N, n)) + 1
<1>1. IsFiniteSet(Above(N, n)) /\ Cardinality(Above(N, n)) \in Nat
  BY AboveType
<1>2. Cardinality(Above(N, n) \union {k}) <= Cardinality(Above(N, n)) + 1
      /\ IsFiniteSet(Above(N, n) \union {k})
      /\ Cardinality(Above(N, n) \union {k}) \in Nat
  <2> DEFINE A == Above(N, n)
  <2>1. IsFiniteSet(A) /\ Cardinality(A) \in Nat
    BY <1>1
  <2> HIDE DEF A
  <2>2. IsFiniteSet(A \cup {k})
        /\ Cardinality(A \cup {k}) = IF k \in A THEN Cardinality(A) ELSE Cardinality(A) + 1
    BY <2>1, FS_AddElement
  <2>3. Cardinality(A \cup {k}) <= Cardinality(A) + 1 /\ Cardinality(A \cup {k}) \in Nat
    BY <2>1, <2>2
  <2> QED
    BY <2>2, <2>3 DEF A
<1>3. Above(N \union {k}, n) \in SUBSET (Above(N, n) \union {k})
  BY DEF Above
<1>4. IsFiniteSet(Above(N \union {k}, n))
      /\ Cardinality(Above(N \union {k}, n)) <= Cardinality(Above(N, n) \union {k})
  BY <1>2, <1>3, FS_Subset
<1>5. Cardinality(Above(N \union {k}, n)) \in Nat
  BY <1>4, FS_CardinalityType
<1> HIDE DEF Above
<1> QED
  BY <1>1, <1>2, <1>4, <1>5

LEMMA AboveAll ==
  ASSUME NEW N \in SUBSET Int, NEW n \in Int, \A k \in N : k <= n
  PROVE  Cardinality(Above(N, n)) = 0
<1>1. Above(N, n) = {}
  <2> SUFFICES ASSUME NEW k \in N, k > n PROVE FALSE
    BY DEF Above
  <2> QED
    OBVIOUS
<1> QED
  BY <1>1, FS_EmptySet

\* In a range at least as many are missing as it has more numbers than were noted.
LEMMA MissingAreMany ==
  ASSUME NEW N \in SUBSET Int, IsFiniteSet(N), NEW low \in Int, NEW high \in Int
  PROVE  /\ Cardinality({k \in low..high : k \notin N}) \in Nat
         /\ high - low + 1 - Cardinality(Above(N, low - 1))
              <= Cardinality({k \in low..high : k \notin N})
<1> DEFINE I == low..high
           A == Above(N, low - 1)
           B == I \cap N
           D == I \ N
<1>1. IsFiniteSet(I) /\ Cardinality(I) = IF low > high THEN 0 ELSE high - low + 1
  BY FS_Interval
<1>2. B \in SUBSET A
  BY DEF Above
<1>3. low - 1 \in Int
  OBVIOUS
<1>4. IsFiniteSet(A) /\ Cardinality(A) \in Nat
  BY <1>3, AboveType
<1> HIDE DEF A, I
<1>5. IsFiniteSet(B) /\ Cardinality(B) <= Cardinality(A)
  BY <1>2, <1>4, FS_Subset
<1>6. IsFiniteSet(D) /\ Cardinality(D) = Cardinality(I) - Cardinality(B)
  BY <1>1, FS_Difference
<1>7. Cardinality(D) \in Nat /\ Cardinality(B) \in Nat /\ Cardinality(I) \in Int
  BY <1>1, <1>5, <1>6, FS_CardinalityType
<1>8. {k \in low..high : k \notin N} = D
  BY DEF I
<1> HIDE DEF B, D
<1>9. high - low + 1 - Cardinality(A) <= Cardinality(D)
  BY <1>1, <1>4, <1>5, <1>6, <1>7
<1> QED
  BY <1>7, <1>8, <1>9 DEF A

-----------------------------------------------------------------------------
(* What a report can miss.                                                 *)

\* Nothing that was noted escapes the total, which nobody but the media thread
\* writes; a report that reads the total has read the highest number before.
NotedAreCounted ==
  /\ IsFiniteSet(noted)
  /\ \A r \in Reporters : report[r].noted \subseteq noted
  /\ ~twice /\ at # None =>
       Cardinality(noted) + (IF note.pc = "extend" THEN 1 ELSE 0) <= counters[at].total
  /\ ~twice => \A r \in Reporters :
       report[r].pc \in {"count", "clear"} => Cardinality(report[r].noted) <= report[r].total

\* How many packets were noted that come after what the highest was at the reset.
Fresh(N, reset) == Cardinality(Above(N, reset - Wrap))

\* Those since the reset may be one more than the count: the packet that was counted
\* before the reset and raised the highest number after it.
FreshAreCounted(fresh) ==
  /\ note.pc \notin {"total", "extend"} => fresh <= counters[at].count + 1
  /\ note.pc \in {"total", "extend"} => fresh <= counters[at].count
  /\ note.pc = "count" => fresh <= note.load + 1

OneReporter ==
  \A r, o \in Reporters : r # o => report[r].pc = "idle" \/ report[o].pc = "idle"

Cleared == \E r \in Reporters : report[r].pc = "store"

CountedSinceReset ==
  ~clash =>
    /\ OneReporter
    /\ ~twice /\ at # None /\ counters[at].reset > 0 /\ ~Cleared =>
         FreshAreCounted(Fresh(noted, counters[at].reset))
    /\ ~twice => \A r \in Reporters : report[r].pc = "clear" /\ report[r].reset > 0 =>
                   Fresh(report[r].noted, report[r].reset) <= report[r].count + 1

LossInv == NotedAreCounted /\ CountedSinceReset

LEMMA LossInit == Init => LossInv
<1> SUFFICES ASSUME Init PROVE LossInv
  OBVIOUS
<1>1. NotedAreCounted
  BY FS_EmptySet DEF NotedAreCounted, Init, Blank, Reporters
<1>2. CountedSinceReset
  BY DEF CountedSinceReset, OneReporter, Init, Blank, Reporters
<1> QED
  BY <1>1, <1>2 DEF LossInv

\* The values that these compare.
LEMMA FreshType ==
  ASSUME NEW N \in SUBSET Int, IsFiniteSet(N), NEW reset \in Nat
  PROVE  Fresh(N, reset) \in Nat
<1>1. reset - Wrap \in Int
  BY HalfOfWrap
<1> QED
  BY <1>1, AboveType DEF Fresh

LEMMA LossTypes ==
  ASSUME IInv, LossInv
  PROVE  /\ noted \in SUBSET Int /\ IsFiniteSet(noted) /\ Cardinality(noted) \in Nat
         /\ note \in Notes /\ note.load \in Nat /\ note.pc \in NotePlaces
         /\ at # None => at \in Makers /\ counters[at] \in Stats
                         /\ counters[at].count \in Nat /\ counters[at].total \in Nat
                         /\ counters[at].reset \in Nat
                         /\ Fresh(noted, counters[at].reset) \in Nat
<1>1. noted \in SUBSET Int /\ IsFiniteSet(noted)
  BY DEF IInv, Types, LossInv, NotedAreCounted
<1>2. Cardinality(noted) \in Nat
  BY <1>1, FS_CardinalityType
<1>3. note \in Notes /\ note.load \in Nat /\ note.pc \in NotePlaces
  BY DEF IInv, Types, Notes
<1>4. at # None => at \in Makers /\ counters[at] \in Stats
                   /\ counters[at].count \in Nat /\ counters[at].total \in Nat
                   /\ counters[at].reset \in Nat
  BY DEF IInv, Types, Stats
<1>5. at # None => Fresh(noted, counters[at].reset) \in Nat
  BY <1>1, <1>4, FreshType
<1> QED
  BY <1>1, <1>2, <1>3, <1>4, <1>5

\* A step of the media thread that notes nothing.
LEMMA MediaLoss ==
  ASSUME IInv, LossInv, UNCHANGED <<at, twice, noted, report, clash>>,
         ~twice /\ at # None =>
           /\ Cardinality(noted) + (IF note'.pc = "extend" THEN 1 ELSE 0)
                <= counters'[at].total
           /\ counters'[at].reset = counters[at].reset,
         ~twice /\ at # None /\ FreshAreCounted(Fresh(noted, counters[at].reset)) =>
           FreshAreCounted(Fresh(noted, counters[at].reset))'
  PROVE  LossInv'
<1>1. NotedAreCounted'
  BY DEF LossInv, NotedAreCounted
<1>2. CountedSinceReset'
  BY DEF LossInv, CountedSinceReset, OneReporter, Cleared
<1> QED
  BY <1>1, <1>2 DEF LossInv

LEMMA ReceiveLoss ==
  ASSUME IInv, LossInv, NEW k \in Numbers, Receive(k)
  PROVE  LossInv'
<1>1. /\ note' = [note EXCEPT !.pc = IF at = None THEN "make" ELSE "seq", !.seq = k]
      /\ note.pc = "idle"
      /\ UNCHANGED <<at, twice, counters, noted, report, clash>>
  BY DEF Receive
<1>2. note'.pc \in {"make", "seq"}
  BY <1>1, LossTypes DEF Notes
<1>3. ~twice /\ at # None =>
           /\ Cardinality(noted) + (IF note'.pc = "extend" THEN 1 ELSE 0)
                <= counters'[at].total
           /\ counters'[at].reset = counters[at].reset
  BY <1>1, <1>2 DEF LossInv, NotedAreCounted
<1>4. ~twice /\ at # None /\ FreshAreCounted(Fresh(noted, counters[at].reset)) =>
           FreshAreCounted(Fresh(noted, counters[at].reset))'
  BY <1>1, <1>2 DEF FreshAreCounted
<1> QED
  BY <1>1, <1>3, <1>4, MediaLoss

LEMMA NoteSeqLoss ==
  ASSUME IInv, LossInv, NoteSeq
  PROVE  LossInv'
<1> DEFINE c == IF counters[at].init THEN counters[at]
                                     ELSE InitSeqNum(counters[at], note.seq)
<1>1. /\ counters' = [counters EXCEPT ![at] = c]
      /\ note' = [note EXCEPT !.pc = "count", !.of = at, !.load = c.count]
      /\ note.pc = "seq"
      /\ UNCHANGED <<at, twice, noted, report, clash>>
  BY DEF NoteSeq
<1>2. at # None /\ counters \in [Makers -> Stats]
  BY <1>1 DEF IInv, CountersAreMade, Types
<1>3. c.count = counters[at].count /\ c.total = counters[at].total
      /\ c.reset = counters[at].reset
  BY <1>2, LossTypes DEF InitSeqNum, Stats
<1> HIDE DEF c
<1>4. counters'[at] = c /\ note'.pc = "count" /\ note'.load = c.count
  BY <1>1, <1>2, LossTypes DEF Notes
<1>5. ~twice /\ at # None =>
           /\ Cardinality(noted) + (IF note'.pc = "extend" THEN 1 ELSE 0)
                <= counters'[at].total
           /\ counters'[at].reset = counters[at].reset
  BY <1>1, <1>3, <1>4 DEF LossInv, NotedAreCounted
<1>6. ~twice /\ at # None /\ FreshAreCounted(Fresh(noted, counters[at].reset)) =>
           FreshAreCounted(Fresh(noted, counters[at].reset))'
  BY <1>1, <1>3, <1>4 DEF FreshAreCounted
<1> QED
  BY <1>1, <1>5, <1>6, MediaLoss

LEMMA NoteCountLoss ==
  ASSUME IInv, LossInv, NoteCount
  PROVE  LossInv'
<1>1. /\ counters' = [counters EXCEPT ![note.of].count = note.load + 1]
      /\ note' = [note EXCEPT !.pc = "total", !.load = 0]
      /\ note.pc = "count"
      /\ UNCHANGED <<at, twice, noted, report, clash>>
  BY DEF NoteCount
<1>2. counters \in [Makers -> Stats] /\ (~twice => note.of = at)
  BY <1>1 DEF IInv, CountersAreTrue, Types, Counting
<1>3. ~twice /\ at # None => /\ counters'[at].total = counters[at].total
                             /\ counters'[at].reset = counters[at].reset
                             /\ counters'[at].count = note.load + 1
  BY <1>1, <1>2, LossTypes DEF Stats
<1>4. note'.pc = "total"
  BY <1>1, LossTypes DEF Notes
<1>5. ~twice /\ at # None =>
           /\ Cardinality(noted) + (IF note'.pc = "extend" THEN 1 ELSE 0)
                <= counters'[at].total
           /\ counters'[at].reset = counters[at].reset
  BY <1>1, <1>3, <1>4 DEF LossInv, NotedAreCounted
<1>6. ~twice /\ at # None /\ FreshAreCounted(Fresh(noted, counters[at].reset)) =>
           FreshAreCounted(Fresh(noted, counters[at].reset))'
  BY <1>1, <1>3, <1>4 DEF FreshAreCounted
<1> QED
  BY <1>1, <1>5, <1>6, MediaLoss

LEMMA NoteTotalLoss ==
  ASSUME IInv, LossInv, NoteTotal
  PROVE  LossInv'
<1>1. /\ counters' = [counters EXCEPT ![note.of].total = @ + 1]
      /\ note' = [note EXCEPT !.pc = "extend"]
      /\ note.pc = "total"
      /\ UNCHANGED <<at, twice, noted, report, clash>>
  BY DEF NoteTotal
<1>2. counters \in [Makers -> Stats] /\ (~twice => note.of = at)
  BY <1>1 DEF IInv, CountersAreTrue, Types, Counting
<1>3. ~twice /\ at # None => /\ counters'[at].total = counters[at].total + 1
                             /\ counters'[at].reset = counters[at].reset
                             /\ counters'[at].count = counters[at].count
  BY <1>1, <1>2, LossTypes DEF Stats
<1>4. note'.pc = "extend" /\ note'.load = note.load
  BY <1>1, LossTypes DEF Notes
<1>5. ~twice /\ at # None =>
           /\ Cardinality(noted) + (IF note'.pc = "extend" THEN 1 ELSE 0)
                <= counters'[at].total
           /\ counters'[at].reset = counters[at].reset
  <2>1. Cardinality(noted) \in Nat /\ (at # None => counters[at].total \in Nat)
    BY LossTypes
  <2>2. ~twice /\ at # None => Cardinality(noted) <= counters[at].total
    BY <1>1, <2>1 DEF LossInv, NotedAreCounted
  <2> SUFFICES ASSUME ~twice, at # None
               PROVE  Cardinality(noted) + 1 <= counters'[at].total
    BY <1>1, <1>3, <1>4
  <2> QED
    BY <1>3, <2>1, <2>2
<1>6. ~twice /\ at # None /\ FreshAreCounted(Fresh(noted, counters[at].reset)) =>
           FreshAreCounted(Fresh(noted, counters[at].reset))'
  BY <1>1, <1>3, <1>4 DEF FreshAreCounted
<1> QED
  BY <1>1, <1>5, <1>6, MediaLoss

LEMMA MakeLoss ==
  ASSUME IInv, LossInv, Make
  PROVE  LossInv'
<1> DEFINE c == InitSeqNum(Zero, note.seq)
           d == [c EXCEPT !.reset = c.high]
<1>1. /\ counters' = [counters EXCEPT !["media"] = d]
      /\ note' = [note EXCEPT !.pc = "seq"]
      /\ at' = "media" /\ twice' = (at # None)
      /\ UNCHANGED <<noted, report, clash>>
  BY DEF Make
<1>2. d.total = 0 /\ d.count = 0 /\ note'.pc = "seq"
  BY <1>1, LossTypes DEF InitSeqNum, Zero, Notes
<1> HIDE DEF d
<1>3. /\ IsFiniteSet(noted) /\ (\A r \in Reporters : report[r].noted \subseteq noted)
  BY DEF LossInv, NotedAreCounted
<1>4. CASE at # None
  BY <1>1, <1>3, <1>4 DEF LossInv, NotedAreCounted, CountedSinceReset, OneReporter
<1>5. CASE at = None
  <2>1. noted = {} /\ counters'[at'] = d
    BY <1>1, <1>5 DEF IInv, Types, CountersAreMade, Makers
  <2>2. \A r \in Reporters : report[r].pc \in {"idle", "make"}
    BY <1>5 DEF IInv, CountersAreMade
  <2>3. Cardinality(noted) = 0
    BY <2>1, FS_EmptySet
  <2>4. NotedAreCounted'
    BY <1>1, <1>2, <1>3, <2>1, <2>2, <2>3 DEF NotedAreCounted
  <2>5. ASSUME NEW reset PROVE Fresh(noted, reset) = 0
    <3>1. Above(noted, reset - Wrap) = {}
      BY <2>1 DEF Above
    <3> QED
      BY <3>1, FS_EmptySet DEF Fresh
  <2>6. FreshAreCounted(Fresh(noted, counters[at].reset))'
    BY <1>1, <1>2, <2>1, <2>5 DEF FreshAreCounted
  <2>7. CountedSinceReset'
    BY <1>1, <2>2, <2>6 DEF LossInv, CountedSinceReset, OneReporter
  <2> QED
    BY <2>4, <2>7 DEF LossInv
<1> QED
  BY <1>4, <1>5

LEMMA NoteExtendLoss ==
  ASSUME IInv, LossInv, NoteExtend
  PROVE  LossInv'
<1> DEFINE k == note.seq
           d == Extended(counters[note.of], k % Wrap)
<1>1. /\ counters' = [counters EXCEPT ![note.of] = d]
      /\ noted' = noted \union {k}
      /\ note' = Rest
      /\ note.pc = "extend"
      /\ UNCHANGED <<at, twice, report, clash>>
  BY DEF NoteExtend
<1>2. note.of \in Makers /\ counters[note.of] \in Stats /\ k \in Int
      /\ (~twice => note.of = at)
  BY <1>1 DEF IInv, Types, Notes, CountersAreMade, CountersAreTrue, Counting
<1>3. d.total = counters[note.of].total /\ d.count = counters[note.of].count
      /\ d.reset = counters[note.of].reset
  BY <1>2 DEF Extended, Stats
<1> HIDE DEF d
<1>4. ~twice => /\ counters'[at].total = counters[at].total
                /\ counters'[at].count = counters[at].count
                /\ counters'[at].reset = counters[at].reset
  BY <1>1, <1>2, <1>3 DEF IInv, Types
<1>5. note'.pc = "idle"
  BY <1>1 DEF Rest
<1>6. IsFiniteSet(noted) /\ noted \in SUBSET Int /\ Cardinality(noted) \in Nat
  BY LossTypes
<1>7. IsFiniteSet(noted') /\ Cardinality(noted') \in Nat
      /\ Cardinality(noted') <= Cardinality(noted) + 1
  <2>1. IsFiniteSet(noted')
        /\ Cardinality(noted') = IF k \in noted THEN Cardinality(noted) ELSE Cardinality(noted) + 1
    BY <1>1, <1>6, FS_AddElement
  <2> QED
    BY <1>6, <2>1
<1>8. NotedAreCounted'
  <2>1. \A r \in Reporters : report'[r].noted \subseteq noted'
    BY <1>1 DEF LossInv, NotedAreCounted
  <2>2. ASSUME ~twice, at # None PROVE Cardinality(noted') + 0 <= counters'[at].total
    <3>1. Cardinality(noted) + 1 <= counters[at].total /\ counters[at].total \in Nat
      BY <1>1, <2>2, LossTypes DEF LossInv, NotedAreCounted
    <3> QED
      BY <1>4, <1>6, <1>7, <2>2, <3>1
  <2>3. ~twice => \A r \in Reporters :
         report[r].pc \in {"count", "clear"} => Cardinality(report[r].noted) <= report[r].total
    BY DEF LossInv, NotedAreCounted
  <2> QED
    BY <1>1, <1>5, <1>7, <2>1, <2>2, <2>3 DEF NotedAreCounted
<1>9. CountedSinceReset'
  <2>1. ASSUME ~twice, at # None, FreshAreCounted(Fresh(noted, counters[at].reset))
        PROVE  FreshAreCounted(Fresh(noted, counters[at].reset))'
    <3> DEFINE n == counters[at].reset - Wrap
    <3>1. n \in Int /\ counters[at].count \in Nat
      BY <2>1, LossTypes, HalfOfWrap
    <3>2. Cardinality(Above(noted, n)) <= counters[at].count
      BY <1>1, <2>1 DEF FreshAreCounted, Fresh
    <3> HIDE DEF n
    <3>3. Cardinality(Above(noted', n)) <= Cardinality(Above(noted, n)) + 1
      BY <1>1, <1>2, <1>6, <3>1, AboveAdds
    <3>4. Cardinality(Above(noted, n)) \in Nat /\ Cardinality(Above(noted', n)) \in Nat
      <4>1. noted' \in SUBSET Int
        BY <1>1, <1>2, <1>6
      <4> QED
        BY <1>6, <1>7, <3>1, <4>1, AboveType
    <3>5. Cardinality(Above(noted', n)) <= counters[at].count + 1
      BY <3>1, <3>2, <3>3, <3>4
    <3> QED
      BY <1>1, <1>4, <1>5, <2>1, <3>5 DEF FreshAreCounted, Fresh, n
  <2>2. ~clash => OneReporter'
    BY <1>1 DEF LossInv, CountedSinceReset, OneReporter
  <2>3. ~clash /\ ~twice /\ at # None /\ counters'[at].reset > 0 /\ ~Cleared' =>
          FreshAreCounted(Fresh(noted, counters[at].reset))
    BY <1>1, <1>4 DEF LossInv, CountedSinceReset, Cleared
  <2>4. ~clash /\ ~twice => \A r \in Reporters : report'[r].pc = "clear" /\ report'[r].reset > 0 =>
                   Fresh(report'[r].noted, report'[r].reset) <= report'[r].count + 1
    BY <1>1 DEF LossInv, CountedSinceReset
  <2> QED
    BY <1>1, <2>1, <2>2, <2>3, <2>4 DEF CountedSinceReset
<1> QED
  BY <1>8, <1>9 DEF LossInv

\* A step of a reporter that leaves the counters and what is noted alone.
LEMMA ReportLoss ==
  ASSUME IInv, LossInv, NEW r \in Reporters, NEW b \in Reports,
         report[r].pc # "store", b.pc # "store", b.noted \subseteq noted,
         report' = [report EXCEPT ![r] = b],
         UNCHANGED <<at, twice, counters, noted, note>>,
         clash' \in BOOLEAN, ~clash' => ~clash,
         ~clash' => b.pc = "idle" \/ \A o \in Reporters : o # r => report[o].pc = "idle",
         ~twice /\ b.pc \in {"count", "clear"} => Cardinality(b.noted) <= b.total,
         ~clash /\ ~twice /\ b.pc = "clear" /\ b.reset > 0 =>
           Fresh(b.noted, b.reset) <= b.count + 1
  PROVE  LossInv'
<1>1. report'[r] = b /\ (\A o \in Reporters : o # r => report'[o] = report[o])
  BY DEF IInv, Types
<1>2. NotedAreCounted'
  BY <1>1 DEF LossInv, NotedAreCounted
<1>3. CountedSinceReset'
  <2> SUFFICES ASSUME ~clash' PROVE CountedSinceReset'
    BY DEF CountedSinceReset
  <2>1. OneReporter'
    BY <1>1 DEF LossInv, CountedSinceReset, OneReporter
  <2>2. Cleared' <=> Cleared
    BY <1>1 DEF Cleared
  <2>3. ~twice /\ at # None /\ counters[at].reset > 0 /\ ~Cleared =>
         FreshAreCounted(Fresh(noted, counters[at].reset))'
    BY DEF LossInv, CountedSinceReset, FreshAreCounted
  <2>4. ~twice => \A o \in Reporters : report'[o].pc = "clear" /\ report'[o].reset > 0 =>
                   Fresh(report'[o].noted, report'[o].reset) <= report'[o].count + 1
    BY <1>1 DEF LossInv, CountedSinceReset
  <2> QED
    BY <2>1, <2>2, <2>3, <2>4 DEF CountedSinceReset
<1> QED
  BY <1>2, <1>3 DEF LossInv

LEMMA ReporterTypes ==
  ASSUME IInv, LossInv, NEW r \in Reporters
  PROVE  /\ report \in [Reporters -> Reports] /\ report[r] \in Reports
         /\ report[r].noted \subseteq noted /\ report[r].noted \in SUBSET Int
         /\ report[r].pc # "idle" /\ ~clash =>
              \A o \in Reporters : o # r => report[o].pc = "idle"
         /\ report[r].pc \notin {"idle", "make"} => at # None
         /\ clash \in BOOLEAN
BY DEF IInv, Types, CountersAreMade, LossInv, NotedAreCounted, CountedSinceReset,
       OneReporter, Reports

LEMMA BeginLoss ==
  ASSUME IInv, LossInv, NEW r \in Reporters, Begin(r)
  PROVE  LossInv'
<1> DEFINE b == [report[r] EXCEPT !.pc = IF at = None THEN "make" ELSE "high"]
<1>1. report' = [report EXCEPT ![r] = b] /\ report[r].pc = "idle"
      /\ clash' = (clash \/ \E o \in Reporters : report[o].pc # "idle")
      /\ UNCHANGED <<at, twice, counters, noted, note>>
  BY DEF Begin, Goes
<1>2. b \in Reports /\ b.pc \in {"make", "high"} /\ b.noted = report[r].noted
  BY ReporterTypes DEF Reports, ReportPlaces
<1> HIDE DEF b
<1>3. b.noted \subseteq noted /\ clash' \in BOOLEAN
  BY <1>1, <1>2, ReporterTypes
<1> QED
  BY <1>1, <1>2, <1>3, ReportLoss

LEMMA ReadHighLoss ==
  ASSUME IInv, LossInv, NEW r \in Reporters, ReadHigh(r)
  PROVE  LossInv'
<1> DEFINE b == [report[r] EXCEPT !.pc = "base", !.high = counters[at].high, !.noted = noted]
<1>1. report' = [report EXCEPT ![r] = b] /\ report[r].pc = "high"
      /\ UNCHANGED <<at, twice, counters, noted, note, clash>>
  BY DEF ReadHigh
<1>2. counters[at].high \in Nat /\ report[r] \in Reports
  BY <1>1, ReporterTypes, LossTypes DEF Stats
<1>3. b \in Reports /\ b.pc = "base" /\ b.noted = noted
  BY <1>2, LossTypes DEF Reports, ReportPlaces
<1> HIDE DEF b
<1>4. ~clash => \A o \in Reporters : o # r => report[o].pc = "idle"
  BY <1>1, ReporterTypes
<1> QED
  BY <1>1, <1>3, <1>4, ReporterTypes, ReportLoss

LEMMA ReadBaseLoss ==
  ASSUME IInv, LossInv, NEW r \in Reporters, ReadBase(r)
  PROVE  LossInv'
<1> DEFINE b == [report[r] EXCEPT !.pc = "total", !.base = counters[at].base]
<1>1. report' = [report EXCEPT ![r] = b] /\ report[r].pc = "base"
      /\ UNCHANGED <<at, twice, counters, noted, note, clash>>
  BY DEF ReadBase
<1>2. counters[at].base \in Nat /\ report[r] \in Reports
  BY <1>1, ReporterTypes, LossTypes DEF Stats
<1>3. b \in Reports /\ b.pc = "total" /\ b.noted = report[r].noted
  BY <1>2 DEF Reports, ReportPlaces
<1> HIDE DEF b
<1>4. ~clash => \A o \in Reporters : o # r => report[o].pc = "idle"
  BY <1>1, ReporterTypes
<1>5. b.noted \subseteq noted
  BY <1>3, ReporterTypes
<1> QED
  BY <1>1, <1>3, <1>4, <1>5, ReporterTypes, ReportLoss

LEMMA ReadTotalLoss ==
  ASSUME IInv, LossInv, NEW r \in Reporters, ReadTotal(r)
  PROVE  LossInv'
<1> DEFINE b == [report[r] EXCEPT !.pc = "count", !.total = counters[at].total]
<1>1. report' = [report EXCEPT ![r] = b] /\ report[r].pc = "total"
      /\ UNCHANGED <<at, twice, counters, noted, note, clash>>
  BY DEF ReadTotal
<1>2. counters[at].total \in Nat /\ at # None /\ report[r] \in Reports
  BY <1>1, ReporterTypes, LossTypes
<1>3. b \in Reports /\ b.pc = "count" /\ b.noted = report[r].noted
      /\ b.total = counters[at].total
  BY <1>2 DEF Reports, ReportPlaces
<1> HIDE DEF b
<1>4. ~clash => \A o \in Reporters : o # r => report[o].pc = "idle"
  BY <1>1, ReporterTypes
<1>5. b.noted \subseteq noted
  BY <1>3, ReporterTypes
<1>6. ~twice => Cardinality(b.noted) <= b.total
  <2>1. Cardinality(b.noted) <= Cardinality(noted) /\ Cardinality(b.noted) \in Nat
        /\ Cardinality(noted) \in Nat
    BY <1>5, LossTypes, FS_Subset, FS_CardinalityType
  <2>2. ~twice => Cardinality(noted) <= counters[at].total
    BY <1>2, <2>1 DEF LossInv, NotedAreCounted
  <2> QED
    BY <1>2, <1>3, <2>1, <2>2
<1> QED
  BY <1>1, <1>3, <1>4, <1>5, <1>6, ReporterTypes, ReportLoss

LEMMA ReadCountLoss ==
  ASSUME IInv, LossInv, NEW r \in Reporters, ReadCount(r)
  PROVE  LossInv'
<1> DEFINE c == counters[at]
           b == [report[r] EXCEPT !.pc = "clear", !.reset = c.reset, !.count = c.count]
<1>1. report' = [report EXCEPT ![r] = b] /\ report[r].pc = "count"
      /\ UNCHANGED <<at, twice, counters, noted, note, clash>>
  BY DEF ReadCount
<1>2. c.count \in Nat /\ c.reset \in Nat /\ at # None /\ report[r] \in Reports
      /\ Fresh(noted, c.reset) \in Nat
  BY <1>1, ReporterTypes, LossTypes
<1>3. b \in Reports /\ b.pc = "clear" /\ b.noted = report[r].noted
      /\ b.total = report[r].total /\ b.reset = c.reset /\ b.count = c.count
  BY <1>2 DEF Reports, ReportPlaces
<1> HIDE DEF b
<1>4. ~clash => \A o \in Reporters : o # r => report[o].pc = "idle"
  BY <1>1, ReporterTypes
<1>5. b.noted \subseteq noted
  BY <1>3, ReporterTypes
<1>6. ~twice => Cardinality(b.noted) <= b.total
  BY <1>1, <1>3 DEF LossInv, NotedAreCounted
<1>7. ASSUME ~clash, ~twice, b.reset > 0
      PROVE  Fresh(b.noted, b.reset) <= b.count + 1
  <2>1. ~Cleared
    BY <1>1, <1>4, <1>7 DEF Cleared
  <2>2. FreshAreCounted(Fresh(noted, c.reset))
    BY <1>2, <1>3, <1>7, <2>1 DEF LossInv, CountedSinceReset
  <2>3. Fresh(noted, c.reset) <= c.count + 1
    BY <1>2, <2>2 DEF FreshAreCounted
  <2>4. Fresh(b.noted, c.reset) <= Fresh(noted, c.reset)
        /\ Fresh(b.noted, c.reset) \in Nat
    <3>1. c.reset - Wrap \in Int /\ IsFiniteSet(b.noted) /\ b.noted \in SUBSET Int
          /\ noted \in SUBSET Int /\ IsFiniteSet(noted)
      BY <1>2, <1>5, HalfOfWrap, LossTypes, FS_Subset
    <3> QED
      BY <1>2, <1>5, <3>1, AboveGrows, FreshType DEF Fresh
  <2> QED
    BY <1>2, <1>3, <2>3, <2>4
<1> QED
  BY <1>1, <1>3, <1>4, <1>5, <1>6, <1>7, ReporterTypes, ReportLoss

LEMMA MakeSRLoss ==
  ASSUME IInv, LossInv, NEW r \in Reporters, MakeSR(r)
  PROVE  LossInv'
<1> DEFINE b == [report[r] EXCEPT !.pc = "high"]
<1>1. report' = [report EXCEPT ![r] = b] /\ report[r].pc = "make"
      /\ counters' = [counters EXCEPT !["rtcp"] = Zero]
      /\ at' = "rtcp" /\ twice' = (at # None)
      /\ UNCHANGED <<noted, note, clash>>
  BY DEF MakeSR, Goes
<1>2. report[r] \in Reports /\ report \in [Reporters -> Reports]
  BY ReporterTypes
<1>3. b.pc = "high" /\ b.noted = report[r].noted
  BY <1>2 DEF Reports
<1> HIDE DEF b
<1>4. report'[r] = b /\ (\A o \in Reporters : o # r => report'[o] = report[o])
  BY <1>1, <1>2
<1>5. IsFiniteSet(noted) /\ (\A o \in Reporters : report'[o].noted \subseteq noted)
  BY <1>3, <1>4 DEF LossInv, NotedAreCounted
<1>6. ~clash => OneReporter'
  BY <1>1, <1>4 DEF LossInv, CountedSinceReset, OneReporter
<1>7. CASE at # None
  BY <1>1, <1>5, <1>6, <1>7 DEF LossInv, NotedAreCounted, CountedSinceReset
<1>8. CASE at = None
  <2>1. noted = {} /\ note.pc \in {"idle", "make"} /\ counters'[at'] = Zero
    BY <1>1, <1>8 DEF IInv, Types, CountersAreMade, Makers
  <2>2. \A o \in Reporters : report'[o].pc \in {"idle", "make", "high"}
    BY <1>3, <1>4, <1>8 DEF IInv, CountersAreMade
  <2>3. Cardinality(noted) = 0
    BY <2>1, FS_EmptySet
  <2>4. NotedAreCounted'
    BY <1>1, <1>5, <2>1, <2>2, <2>3 DEF NotedAreCounted, Zero
  <2>5. CountedSinceReset'
    BY <1>1, <1>6, <2>1, <2>2 DEF CountedSinceReset, Zero
  <2> QED
    BY <2>4, <2>5 DEF LossInv
<1> QED
  BY <1>7, <1>8

LEMMA ClearCountLoss ==
  ASSUME IInv, LossInv, NEW r \in Reporters, ClearCount(r)
  PROVE  LossInv'
<1> DEFINE b == [Blank EXCEPT !.pc = "store"]
<1>1. report' = [report EXCEPT ![r] = b] /\ report[r].pc = "clear"
      /\ counters' = [counters EXCEPT ![at].count = 0]
      /\ UNCHANGED <<at, twice, noted, note, clash>>
  BY DEF ClearCount
<1>2. b.pc = "store" /\ b.noted = {}
  BY DEF Blank
<1> HIDE DEF b
<1>3. report'[r] = b /\ (\A o \in Reporters : o # r => report'[o] = report[o])
  BY <1>1, ReporterTypes
<1>4. at # None /\ at \in Makers /\ counters'[at].total = counters[at].total
  BY <1>1, ReporterTypes, LossTypes DEF IInv, Types
<1>5. NotedAreCounted'
  BY <1>1, <1>2, <1>3, <1>4 DEF LossInv, NotedAreCounted
<1>6. CountedSinceReset'
  <2>1. Cleared'
    BY <1>2, <1>3 DEF Cleared
  <2>2. ~clash => OneReporter'
    BY <1>1, <1>2, <1>3 DEF LossInv, CountedSinceReset, OneReporter
  <2>3. ~clash => \A o \in Reporters : report'[o].pc # "clear"
    BY <1>1, <1>2, <1>3, ReporterTypes
  <2> QED
    BY <1>1, <2>1, <2>2, <2>3 DEF CountedSinceReset
<1> QED
  BY <1>5, <1>6 DEF LossInv

LEMMA SetResetLoss ==
  ASSUME IInv, LossInv, NEW r \in Reporters, SetReset(r)
  PROVE  LossInv'
<1>1. report' = [report EXCEPT ![r] = Blank] /\ report[r].pc = "store"
      /\ counters' = [counters EXCEPT ![at].reset = counters[at].high]
      /\ UNCHANGED <<at, twice, noted, note, clash>>
  BY DEF SetReset
<1>2. report'[r] = Blank /\ (\A o \in Reporters : o # r => report'[o] = report[o])
  BY <1>1, ReporterTypes
<1>3. at # None /\ at \in Makers /\ counters[at] \in Stats
      /\ counters'[at].total = counters[at].total
      /\ counters'[at].count = counters[at].count
      /\ counters'[at].reset = counters[at].high
  BY <1>1, ReporterTypes, LossTypes DEF IInv, Types, Stats
<1>4. NotedAreCounted'
  BY <1>1, <1>2, <1>3 DEF LossInv, NotedAreCounted, Blank
<1>5. ASSUME ~twice PROVE Fresh(noted, counters[at].high) = 0
  <2>1. CASE noted = {}
    <3>1. Above(noted, counters[at].high - Wrap) = {}
      BY <2>1 DEF Above
    <3> QED
      BY <3>1, FS_EmptySet DEF Fresh
  <2>2. CASE noted # {}
    <3>1. PICK high \in noted : (\A k \in noted : k <= high) /\ counters[at].high = Wrap + high
      BY <1>5, <2>2 DEF IInv, CountersAreTrue, BoundsAreKnown
    <3>2. noted \in SUBSET Int /\ counters[at].high - Wrap = high
      BY <3>1, LossTypes, HalfOfWrap
    <3> QED
      BY <3>1, <3>2, AboveAll DEF Fresh
  <2> QED
    BY <2>1, <2>2
<1>6. CountedSinceReset'
  <2>1. ~clash => OneReporter'
    BY <1>1, <1>2 DEF LossInv, CountedSinceReset, OneReporter, Blank
  <2>2. ~clash => \A o \in Reporters : report'[o].pc # "clear"
    BY <1>1, <1>2, ReporterTypes DEF Blank
  <2>3. ASSUME ~twice PROVE FreshAreCounted(Fresh(noted, counters[at].reset))'
    <3>1. Fresh(noted, counters[at].reset)' = 0
      BY <1>1, <1>3, <1>5, <2>3
    <3> QED
      BY <1>1, <1>3, <3>1, LossTypes DEF FreshAreCounted
  <2> QED
    BY <1>1, <2>1, <2>2, <2>3 DEF CountedSinceReset
<1> QED
  BY <1>4, <1>6 DEF LossInv

LEMMA LossNext == IInv /\ LossInv /\ [Next]_vars => LossInv'
<1> SUFFICES ASSUME IInv, LossInv, [Next]_vars PROVE LossInv'
  OBVIOUS
<1>1. CASE \E k \in Numbers : Receive(k)
  BY <1>1, ReceiveLoss
<1>2. CASE Make \/ NoteSeq \/ NoteCount \/ NoteTotal \/ NoteExtend
  BY <1>2, MakeLoss, NoteSeqLoss, NoteCountLoss, NoteTotalLoss, NoteExtendLoss
<1>3. ASSUME NEW r \in Reporters,
             \/ Begin(r) \/ MakeSR(r) \/ ReadHigh(r) \/ ReadBase(r) \/ ReadTotal(r)
             \/ ReadCount(r) \/ ClearCount(r) \/ SetReset(r)
      PROVE  LossInv'
  BY <1>3, BeginLoss, MakeSRLoss, ReadHighLoss, ReadBaseLoss, ReadTotalLoss,
     ReadCountLoss, ClearCountLoss, SetResetLoss
<1>4. CASE UNCHANGED vars
  BY <1>4 DEF vars, LossInv, NotedAreCounted, CountedSinceReset, OneReporter, Cleared,
              FreshAreCounted
<1> QED
  BY <1>1, <1>2, <1>3, <1>4 DEF Next

LEMMA LossHolds == IInv /\ LossInv => LossIsNotOverstated
<1> SUFFICES ASSUME IInv, LossInv, NEW r \in Reporters, Sends(r)
             PROVE  /\ report[r].high - report[r].base - report[r].total
                         <= Missing(r, report[r].base)
                    /\ ~clash /\ report[r].reset > 0 =>
                         report[r].high - report[r].reset - report[r].count
                           <= Missing(r, report[r].reset + 1) + 1
  BY DEF LossIsNotOverstated
<1> DEFINE b == report[r]
           N == b.noted
<1>1. b.high \in Nat /\ b.base \in Nat /\ b.total \in Nat /\ b.reset \in Nat
      /\ b.count \in Nat /\ b.pc = "clear" /\ ~twice
  BY ReporterTypes DEF Reports, Sends
<1>2. N \in SUBSET Int /\ IsFiniteSet(N)
  BY ReporterTypes, FS_Subset DEF LossInv, NotedAreCounted
<1>3. Cardinality(N) <= b.total
  BY <1>1 DEF LossInv, NotedAreCounted
<1>4. ~clash /\ b.reset > 0 => Cardinality(Above(N, b.reset - Wrap)) <= b.count + 1
  BY <1>1 DEF LossInv, CountedSinceReset, Fresh
<1>5. ASSUME NEW low \in Nat
      PROVE  /\ Missing(r, low) \in Nat
             /\ b.high - low + 1 - Cardinality(Above(N, low - Wrap - 1)) <= Missing(r, low)
             /\ Cardinality(Above(N, low - Wrap - 1)) \in Nat
             /\ Cardinality(Above(N, low - Wrap - 1)) <= Cardinality(N)
             /\ Cardinality(N) \in Nat
  <2> DEFINE l == low - Wrap
             h == b.high - Wrap
  <2>1. l \in Int /\ h \in Int /\ l - 1 \in Int /\ b.high - low = h - l
    BY <1>1, HalfOfWrap
  <2>2. Missing(r, low) = Cardinality({k \in l..h : k \notin N})
    BY DEF Missing
  <2> HIDE DEF l, h, b, N
  <2>3. /\ Cardinality({k \in l..h : k \notin N}) \in Nat
        /\ h - l + 1 - Cardinality(Above(N, l - 1)) <= Cardinality({k \in l..h : k \notin N})
    BY <1>2, <2>1, MissingAreMany
  <2>4. Cardinality(Above(N, l - 1)) \in Nat /\ Cardinality(Above(N, l - 1)) <= Cardinality(N)
        /\ Cardinality(N) \in Nat
    BY <1>2, <2>1, AboveType
  <2> QED
    BY <2>1, <2>2, <2>3, <2>4 DEF l
<1> HIDE DEF b, N
<1>6. b.high - b.base - b.total <= Missing(r, b.base)
  <2> DEFINE a == Cardinality(Above(N, b.base - Wrap - 1))
             m == Missing(r, b.base)
  <2>1. m \in Nat /\ b.high - b.base + 1 - a <= m /\ a \in Nat /\ a <= Cardinality(N)
        /\ Cardinality(N) \in Nat
    BY <1>1, <1>5
  <2> HIDE DEF a, m
  <2>2. b.high - b.base - b.total <= m
    BY <1>1, <1>3, <2>1
  <2> QED
    BY <2>2 DEF m
<1>7. ASSUME ~clash, b.reset > 0
      PROVE  b.high - b.reset - b.count <= Missing(r, b.reset + 1) + 1
  <2> DEFINE a == Cardinality(Above(N, (b.reset + 1) - Wrap - 1))
             m == Missing(r, b.reset + 1)
  <2>1. m \in Nat /\ b.high - (b.reset + 1) + 1 - a <= m /\ a \in Nat
    <3>1. b.reset + 1 \in Nat
      BY <1>1
    <3> QED
      BY <1>5, <3>1
  <2>2. a <= b.count + 1
    <3>1. (b.reset + 1) - Wrap - 1 = b.reset - Wrap
      BY <1>1, HalfOfWrap
    <3> QED
      BY <1>4, <1>7, <3>1
  <2> HIDE DEF a, m
  <2>3. b.high - b.reset - b.count <= m + 1
    BY <1>1, <2>1, <2>2
  <2> QED
    BY <2>3 DEF m
<1> QED
  BY <1>6, <1>7 DEF b

\* LossIsNotOverstated, for any even number of sequence numbers and any number of
\* packets and reports, across lost updates of the count: sendRR reports no loss in
\* all that is none, and since the last reset at most one too many.
THEOREM LossIsBounded == Spec => []LossIsNotOverstated
<1>1. Spec => []LossInv
  BY InvHolds, LossInit, LossNext, PTL DEF Spec
<1> QED
  BY <1>1, InvHolds, LossHolds, PTL
===============================================================================
