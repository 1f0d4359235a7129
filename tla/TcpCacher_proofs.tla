--------------------------- MODULE TcpCacher_proofs ----------------------------
(***************************************************************************)
(* Proofs about the reassembly of a socket's bytes, for messages of any    *)
(* sizes, segments of any sizes and any buffer: no byte is written or read *)
(* outside the allocated memory, but for the search that Overread stands   *)
(* for.                                                                    *)
(***************************************************************************)
EXTENDS TcpCacher, WellFoundedInduction, SequenceTheorems, TLAPS

-----------------------------------------------------------------------------
(* Least and greatest elements.                                            *)

LEMMA LeastExists ==
  ASSUME NEW S \in SUBSET Nat, S # {}
  PROVE  \E x \in S : \A y \in S : x <= y
<1> DEFINE R == {p \in Nat \X Nat : p[1] < p[2]}
<1>1. OpToRel(<, Nat) = R
  BY DEF OpToRel
<1>2. IsWellFoundedOn(R, Nat)
  BY <1>1, NatLessThanWellFounded
<1> HIDE DEF R
<1>3. PICK x \in S : \A y \in S : ~(<<y, x>> \in R)
  BY <1>2, WFMin, S # {}
<1>4. \A y \in S : ~(y < x)
  BY <1>3 DEF R
<1> QED
  BY <1>3, <1>4

LEMMA MinIsLeast ==
  ASSUME NEW S \in SUBSET Nat, S # {}
  PROVE  Min(S) \in S /\ \A y \in S : Min(S) <= y
BY LeastExists DEF Min

LEMMA MaxIsGreatest ==
  ASSUME NEW S \in SUBSET Nat, S # {}, NEW n \in Nat, \A x \in S : x <= n
  PROVE  Max(S) \in S /\ \A y \in S : Max(S) >= y
<1> DEFINE T == {d \in Nat : n - d \in S}
<1>1. T # {}
  <2>1. PICK x \in S : TRUE
    OBVIOUS
  <2>2. n - (n - x) = x /\ n - x \in Nat
    OBVIOUS
  <2> QED
    BY <2>2
<1>2. PICK t \in T : \A u \in T : t <= u
  BY <1>1, LeastExists
<1>3. \A y \in S : y <= n - t
  <2> SUFFICES ASSUME NEW y \in S PROVE y <= n - t
    OBVIOUS
  <2>1. n - (n - y) = y /\ n - y \in Nat
    OBVIOUS
  <2>2. t <= n - y
    BY <1>2, <2>1
  <2> QED
    BY <2>2
<1> QED
  BY <1>2, <1>3 DEF Max

LEMMA LargerOfTwo ==
  ASSUME NEW a \in Nat, NEW b \in Nat
  PROVE  Max({a, b}) \in {a, b} /\ Max({a, b}) >= a /\ Max({a, b}) >= b
<1>1. {a, b} \in SUBSET Nat /\ {a, b} # {} /\ a + b \in Nat
      /\ \A x \in {a, b} : x <= a + b
  OBVIOUS
<1> QED
  BY <1>1, MaxIsGreatest

-----------------------------------------------------------------------------
(* The inductive invariant.                                                *)

\* The bytes of the messages that were sent on this connection.
SentBytes ==
  {b \in [conn : Nat, no : 1..Len(sent),
          sort : {"frame", "request", "json", "junk"}, at : Nat, of : Nat] :
     b.sort # "junk" => b.of > 4}

\* The bytes under way, in the cacher and in what was found in it are of the
\* connection's own messages, and what was found is not empty.
BytesAreSent ==
  /\ wire \in Seq(SentBytes)
  /\ buf \in Seq(SentBytes)
  /\ phase # "idle" => list \in Seq(Seq(SentBytes) \ {<<>>})

NumbersOK == conn \in Nat /\ cur \in Nat

IInv == TypeOK /\ NumbersOK /\ BytesAreSent

LEMMA InitInv == Init => IInv
  BY TcpCacherAssumption
  DEF Init, IInv, TypeOK, NumbersOK, BytesAreSent, DataFit

LEMMA LargerSequences ==
  ASSUME NEW S, NEW T, S \subseteq T
  PROVE  Seq(S) \subseteq Seq(T)
<1> SUFFICES ASSUME NEW q \in Seq(S) PROVE q \in Seq(T)
  OBVIOUS
<1>1. Len(q) \in Nat /\ q = [i \in 1..Len(q) |-> q[i]] /\ \A i \in 1..Len(q) : q[i] \in S
  OBVIOUS
<1>2. q \in [1..Len(q) -> T]
  BY <1>1
<1> QED
  BY <1>1, <1>2, SeqDef

-----------------------------------------------------------------------------
(* The two analyzers.                                                      *)

\* The size of a frame is none below zero, whatever the sign of its lower byte.
LEMMA PkgSizeIsNat ==
  ASSUME NEW n \in Nat
  PROVE  PkgSize(n) \in Nat
<1>1. Byte \in Nat \ {0}
  BY TcpCacherAssumption
<1>2. n % Byte \in Nat
  BY <1>1
<1>3. Byte * Byte - Byte \in Nat
  <2>1. Byte * Byte >= Byte * 1
    BY <1>1
  <2> QED
    BY <1>1, <2>1
<1> QED
  BY <1>2, <1>3 DEF PkgSize

\* What an analyzer finds lies within the data and is not empty, what it drops
\* does, too.
WithinData(m) ==
  /\ m.valid \in BOOLEAN /\ m.from \in Nat /\ m.to \in Nat /\ m.junk \in Nat
  /\ m.valid => 1 <= m.from /\ m.from <= m.to /\ m.to <= Len(buf)
  /\ m.junk <= Len(buf)

LEMMA RtspStaysWithin ==
  ASSUME buf \in Seq(SentBytes), buf # <<>>
  PROVE  WithinData(ParseRtsp)
<1>1. Len(buf) \in Nat /\ Len(buf) >= 1 /\ buf[1] \in SentBytes
  OBVIOUS
<1>2. CASE Is(buf[1], "frame")
  <2>1. buf[1].of - 4 \in Nat
    BY <1>1, <1>2 DEF SentBytes, Is
  <2>2. PkgSize(buf[1].of - 4) \in Nat
    BY <2>1, PkgSizeIsNat
  <2>3. ParseRtsp = Nothing(0) \/ (/\ ParseRtsp = Message(1, PkgSize(buf[1].of - 4) + 4)
                                  /\ Len(buf) >= PkgSize(buf[1].of - 4) + 4)
    BY <1>2 DEF ParseRtsp
  <2>4. CASE ParseRtsp = Nothing(0)
    BY <1>1, <2>4 DEF WithinData, Nothing
  <2>5. CASE /\ ParseRtsp = Message(1, PkgSize(buf[1].of - 4) + 4)
             /\ Len(buf) >= PkgSize(buf[1].of - 4) + 4
    BY <1>1, <2>2, <2>5 DEF WithinData, Message
  <2> QED
    BY <2>3, <2>4, <2>5
<1>3. CASE ~Is(buf[1], "frame") /\ EmptyLines # {}
  <2>1. EmptyLines \in SUBSET Nat /\ \A x \in EmptyLines : x <= Len(buf) /\ x >= 5
    BY <1>1 DEF EmptyLines
  <2>2. Max(EmptyLines) \in EmptyLines
    BY <1>1, <1>3, <2>1, MaxIsGreatest
  <2>3. Max(EmptyLines) \in Nat /\ Max(EmptyLines) >= 5 /\ Max(EmptyLines) <= Len(buf)
    BY <2>1, <2>2
  <2>4. ParseRtsp = Nothing(0) \/ ParseRtsp = Message(1, Max(EmptyLines))
    BY <1>3 DEF ParseRtsp
  <2>5. CASE ParseRtsp = Nothing(0)
    BY <1>1, <2>5 DEF WithinData, Nothing
  <2>6. CASE ParseRtsp = Message(1, Max(EmptyLines))
    BY <1>1, <2>3, <2>6 DEF WithinData, Message
  <2> QED
    BY <2>4, <2>5, <2>6
<1>4. CASE ~Is(buf[1], "frame") /\ EmptyLines = {}
  BY <1>1, <1>4 DEF ParseRtsp, WithinData, Nothing
<1> QED
  BY <1>2, <1>3, <1>4

LEMMA JsonStaysWithin ==
  ASSUME buf \in Seq(SentBytes)
  PROVE  WithinData(ParseJson)
<1> DEFINE S == {k \in 1..(Len(buf) + 1) : ~Skips(k)}
           i == Min(S)
<1>1. Len(buf) \in Nat
  OBVIOUS
<1>2. S \in SUBSET Nat /\ S # {}
  <2>1. Len(buf) + 1 \in S
    BY <1>1 DEF Skips
  <2> QED
    BY <1>1, <2>1
<1>3. i \in S
  BY <1>2, MinIsLeast
<1>4. i \in 1..(Len(buf) + 1) /\ ~Skips(i)
  BY <1>3
<1> HIDE DEF S, i
<1>5. CASE i + 4 <= Len(buf)
  <2>1. Is(buf[i], "json") /\ buf[i] \in SentBytes
    BY <1>1, <1>4, <1>5 DEF Skips
  <2>2. buf[i].of \in Nat /\ buf[i].of > 4
    BY <2>1 DEF SentBytes, Is
  <2> QED
    BY <1>1, <1>4, <2>2 DEF ParseJson, WithinData, Nothing, Message, i, S
<1>6. CASE ~(i + 4 <= Len(buf))
  BY <1>1, <1>4, <1>6 DEF ParseJson, WithinData, Nothing, Message, i, S
<1> QED
  BY <1>5, <1>6

LEMMA FoundStaysWithin ==
  ASSUME buf \in Seq(SentBytes), buf # <<>>
  PROVE  WithinData(Found)
BY RtspStaysWithin, JsonStaysWithin DEF Found

-----------------------------------------------------------------------------
(* Every step.                                                             *)

\* A part of what is there is there.
LEMMA PartOf ==
  ASSUME NEW S, NEW q \in Seq(S), NEW m \in Nat \ {0}, NEW n \in 0..Len(q)
  PROVE  /\ SubSeq(q, m, n) \in Seq(S)
         /\ Len(SubSeq(q, m, n)) = IF m <= n THEN n - m + 1 ELSE 0
<1>1. \A i \in m..n : q[i] \in S
  OBVIOUS
<1> QED
  BY <1>1, SubSeqProperties

\* More was sent than before.
LEMMA MoreSent ==
  ASSUME sent \in Seq(Messages), NEW m \in Messages, sent' = Append(sent, m)
  PROVE  SentBytes \subseteq SentBytes'
<1>1. Len(sent') = Len(sent) + 1 /\ Len(sent) \in Nat
  OBVIOUS
<1> QED
  BY <1>1 DEF SentBytes

LEMMA SayInv ==
  ASSUME IInv, NEW m \in Messages, Say(m)
  PROVE  IInv'
<1> USE DEF IInv, TypeOK, DataFit, NumbersOK
<1>1. SentBytes \subseteq SentBytes'
  BY MoreSent DEF Say
<1>2. Bytes(Len(sent) + 1, m) \in Seq(SentBytes')
  <2>1. m.size \in Nat \ {0} /\ m.sort \in {"frame", "request", "json", "junk"}
        /\ (m.sort # "junk" => m.size > 4)
    BY TcpCacherAssumption
  <2>2. Len(sent') = Len(sent) + 1 /\ Len(sent) \in Nat
    BY DEF Say
  <2>3. \A i \in 1..m.size :
          [conn |-> conn, no |-> Len(sent) + 1, sort |-> m.sort, at |-> i, of |-> m.size]
            \in SentBytes'
    BY <2>1, <2>2 DEF SentBytes
  <2> QED
    BY <2>1, <2>3, SeqDef DEF Bytes
<1>3. wire' \in Seq(SentBytes')
  BY <1>1, <1>2, LargerSequences, ConcatProperties DEF Say, BytesAreSent
<1>4. buf' \in Seq(SentBytes') /\ (phase' # "idle" => list' \in Seq(Seq(SentBytes') \ {<<>>}))
  <2>1. Seq(SentBytes) \subseteq Seq(SentBytes')
    BY <1>1, LargerSequences
  <2>2. Seq(Seq(SentBytes) \ {<<>>}) \subseteq Seq(Seq(SentBytes') \ {<<>>})
    BY <2>1, LargerSequences
  <2> QED
    BY <2>1, <2>2 DEF Say, BytesAreSent, cacher, callback
<1>5. TypeOK'
  <2>1. sent' \in Seq(Messages) /\ DOMAIN sent \subseteq DOMAIN sent'
    BY DEF Say
  <2> QED
    BY <2>1 DEF Say, cacher, callback
<1>6. NumbersOK'
  BY DEF Say, cacher
<1> QED
  BY <1>3, <1>4, <1>5, <1>6 DEF BytesAreSent

\* appendBuffer writes within what is allocated, or nothing.
LEMMA AppendFits ==
  ASSUME IInv, NEW seg \in Seq(SentBytes), AppendBuffer(seg)
  PROVE  /\ cap' \in Default..(Default + Limit)
         /\ cur' \in Nat /\ buf' \in Seq(SentBytes)
         /\ cur' + Len(buf') <= cap'
         /\ fault' \in {"no", "refused", "cut", "overread"}
<1> USE DEF IInv, TypeOK, DataFit, NumbersOK
<1>1. /\ Default \in Nat /\ Limit \in Nat /\ cap \in Nat
      /\ buf \in Seq(SentBytes) /\ Len(buf) \in Nat /\ Len(seg) \in Nat
  BY TcpCacherAssumption DEF BytesAreSent
<1>2. buf \o seg \in Seq(SentBytes) /\ Len(buf \o seg) = Len(buf) + Len(seg)
  BY <1>1, ConcatProperties
<1>3. CASE Fits(Len(seg))
  <2>1. buf' = buf \o seg /\ UNCHANGED <<cap, cur, fault>>
    BY <1>3 DEF AppendBuffer
  <2>2. cur + Len(buf) + Len(seg) < cap
    BY <1>3 DEF Fits
  <2>3. cur' + Len(buf') <= cap'
    BY <1>1, <1>2, <2>1, <2>2
  <2> QED
    BY <1>2, <2>1, <2>3
<1>4. CASE ~Fits(Len(seg)) /\ fault' = "refused" /\ UNCHANGED cacher
  BY <1>1, <1>4 DEF cacher
<1>5. CASE /\ Len(buf) + Len(seg) <= cap \/ Len(buf) + Len(seg) < Limit
           /\ cap' = Max({cap, Len(buf) + Len(seg)})
           /\ cur' = 0 /\ buf' = buf \o seg /\ UNCHANGED fault
  <2>1. /\ cap' \in {cap, Len(buf) + Len(seg)}
        /\ cap' >= cap /\ cap' >= Len(buf) + Len(seg)
    BY <1>1, <1>5, LargerOfTwo
  <2> QED
    BY <1>1, <1>2, <1>5, <2>1
<1> QED
  BY <1>3, <1>4, <1>5 DEF AppendBuffer

LEMMA SegmentInv ==
  ASSUME IInv, NEW n \in 1..Len(wire), Segment(n)
  PROVE  IInv'
<1> USE DEF IInv, NumbersOK
<1>1. wire \in Seq(SentBytes) /\ Len(wire) \in Nat /\ SentBytes' = SentBytes
  BY DEF BytesAreSent, Segment, SentBytes
<1>2. SubSeq(wire, 1, n) \in Seq(SentBytes) /\ SubSeq(wire, n + 1, Len(wire)) \in Seq(SentBytes)
  BY <1>1, PartOf
<1>3. AppendBuffer(SubSeq(wire, 1, n))
  BY DEF Segment
<1>4. /\ cap' \in Default..(Default + Limit)
      /\ cur' \in Nat /\ buf' \in Seq(SentBytes)
      /\ cur' + Len(buf') <= cap'
      /\ fault' \in {"no", "refused", "cut", "overread"}
  BY <1>2, <1>3, AppendFits
<1>5. /\ UNCHANGED <<kind, conn, sent, done>> /\ phase' = "scan" /\ last' = n /\ list' = <<>>
      /\ wire' = SubSeq(wire, n + 1, Len(wire))
  BY DEF Segment
<1>6. <<>> \in Seq(Seq(SentBytes) \ {<<>>})
  OBVIOUS
<1> QED
  BY <1>1, <1>2, <1>4, <1>5, <1>6 DEF TypeOK, DataFit, BytesAreSent

\* Scanning moves on over data that are there.
LEMMA ScanInv ==
  ASSUME IInv, TakeMessage \/ TakeAsMessage \/ EndScan \/ Overread
  PROVE  IInv'
<1> USE DEF IInv, NumbersOK
<1>1. /\ buf \in Seq(SentBytes) /\ Len(buf) \in Nat /\ cap \in Nat /\ cur \in Nat
      /\ cur + Len(buf) <= cap
  BY TcpCacherAssumption DEF BytesAreSent, TypeOK, DataFit
<1>2. CASE TakeMessage
  <2>1. SentBytes' = SentBytes
    BY <1>2 DEF TakeMessage, peer, SentBytes
  <2>2. /\ Found.from \in Nat \ {0} /\ Found.to \in 0..Len(buf) /\ Found.from <= Found.to
    BY <1>1, <1>2, FoundStaysWithin DEF TakeMessage, WithinData
  <2> DEFINE from == Found.from
             to == Found.to
  <2>a. list' = Append(list, SubSeq(buf, from, to)) /\ buf' = SubSeq(buf, to + 1, Len(buf))
    BY <1>2 DEF TakeMessage
  <2>b. from \in Nat \ {0} /\ to \in 0..Len(buf) /\ from <= to
    BY <2>2
  <2>c. cur' = cur + to /\ UNCHANGED <<peer, cap, phase, last, done, fault>>
    BY <1>2 DEF TakeMessage
  <2> HIDE DEF from, to
  <2>3. SubSeq(buf, from, to) \in Seq(SentBytes) \ {<<>>}
    <3>1. SubSeq(buf, from, to) \in Seq(SentBytes) /\ Len(SubSeq(buf, from, to)) = to - from + 1
      BY <1>1, <2>b, PartOf
    <3>2. to - from + 1 # 0
      BY <1>1, <2>b
    <3>3. SubSeq(buf, from, to) # <<>>
      BY <3>1, <3>2
    <3> QED
      BY <3>1, <3>3
  <2>4. list' \in Seq(Seq(SentBytes) \ {<<>>})
    <3>1. list \in Seq(Seq(SentBytes) \ {<<>>})
      BY <1>2 DEF TakeMessage, BytesAreSent
    <3> QED
      BY <2>a, <2>3, <3>1, AppendProperties
  <2>5. buf' \in Seq(SentBytes) /\ Len(buf') = Len(buf) - to
    <3>1. to + 1 \in Nat \ {0} /\ Len(buf) \in 0..Len(buf)
      BY <1>1, <2>b
    <3>2. SubSeq(buf, to + 1, Len(buf)) \in Seq(SentBytes)
          /\ Len(SubSeq(buf, to + 1, Len(buf)))
               = IF to + 1 <= Len(buf) THEN Len(buf) - (to + 1) + 1 ELSE 0
      BY <1>1, <3>1, PartOf
    <3> QED
      BY <1>1, <2>a, <2>b, <3>2
  <2>6. cur' \in Nat /\ cur' + Len(buf') <= cap'
    BY <1>1, <2>b, <2>c, <2>5
  <2>7. TypeOK'
    BY <2>c, <2>6 DEF TypeOK, DataFit, peer
  <2> QED
    BY <1>1, <2>1, <2>c, <2>4, <2>5, <2>6, <2>7 DEF BytesAreSent, peer
<1>3. CASE EndScan
  <2> DEFINE junk == IF buf = <<>> THEN 0 ELSE Found.junk
  <2>1. junk \in 0..Len(buf)
    BY <1>1, FoundStaysWithin DEF WithinData
  <2>2. cur' = cur + junk /\ buf' = SubSeq(buf, junk + 1, Len(buf))
    BY <1>3 DEF EndScan
  <2> HIDE DEF junk
  <2>3. buf' \in Seq(SentBytes) /\ Len(buf') = Len(buf) - junk
    BY <1>1, <2>1, <2>2, PartOf
  <2>4. /\ UNCHANGED <<peer, cap, last, list, done, fault>> /\ phase = "scan"
        /\ phase' = "handle" /\ SentBytes' = SentBytes
    BY <1>3 DEF EndScan, peer, SentBytes
  <2>5. cur' \in Nat /\ cur' + Len(buf') <= cap'
    <3>1. cap' = cap
      BY <2>4
    <3>2. cur' = cur + junk /\ Len(buf') = Len(buf) - junk
      BY <2>2, <2>3
    <3> QED
      BY <1>1, <2>1, <3>1, <3>2
  <2>6. TypeOK'
    BY <2>4, <2>5 DEF TypeOK, DataFit, peer
  <2>7. wire' = wire /\ list' = list /\ wire \in Seq(SentBytes)
        /\ list \in Seq(Seq(SentBytes) \ {<<>>})
    BY <2>4 DEF BytesAreSent, peer
  <2>8. BytesAreSent'
    BY <2>3, <2>4, <2>7 DEF BytesAreSent
  <2>9. conn' = conn
    BY <2>4 DEF peer
  <2> QED
    BY <2>5, <2>6, <2>8, <2>9
<1>4. CASE Overread
  <2>1. /\ UNCHANGED <<peer, cacher, last, list, done>> /\ fault' = "overread"
        /\ phase' = "idle" /\ SentBytes' = SentBytes
    BY <1>4 DEF Overread, peer, SentBytes
  <2> QED
    BY <2>1 DEF TypeOK, DataFit, BytesAreSent, peer, cacher
<1>5. CASE TakeAsMessage
  <2>1. PICK n \in 4..Len(buf) : /\ list' = Append(list, SubSeq(buf, 1, n))
                                 /\ cur' = cur + n
                                 /\ buf' = SubSeq(buf, n + 1, Len(buf))
    BY <1>5 DEF TakeAsMessage
  <2>2. /\ UNCHANGED <<peer, cap, phase, last, done, fault>> /\ phase = "scan"
        /\ SentBytes' = SentBytes
    BY <1>5 DEF TakeAsMessage, peer, SentBytes
  <2>3. n \in 0..Len(buf) /\ n + 1 \in Nat \ {0} /\ Len(buf) \in 0..Len(buf) /\ 1 \in Nat \ {0}
    BY <1>1
  <2>4. SubSeq(buf, 1, n) \in Seq(SentBytes) \ {<<>>}
    <3>1. SubSeq(buf, 1, n) \in Seq(SentBytes)
          /\ Len(SubSeq(buf, 1, n)) = IF 1 <= n THEN n - 1 + 1 ELSE 0
      BY <1>1, <2>3, PartOf
    <3>2. Len(SubSeq(buf, 1, n)) # 0
      BY <1>1, <3>1
    <3> QED
      BY <3>1, <3>2
  <2>5. list' \in Seq(Seq(SentBytes) \ {<<>>})
    BY <2>1, <2>2, <2>4, AppendProperties DEF BytesAreSent
  <2>6. buf' \in Seq(SentBytes) /\ Len(buf') = Len(buf) - n
    <3>1. SubSeq(buf, n + 1, Len(buf)) \in Seq(SentBytes)
          /\ Len(SubSeq(buf, n + 1, Len(buf)))
               = IF n + 1 <= Len(buf) THEN Len(buf) - (n + 1) + 1 ELSE 0
      BY <1>1, <2>3, PartOf
    <3> QED
      BY <1>1, <2>1, <3>1
  <2>7. cur' \in Nat /\ cur' + Len(buf') <= cap'
    <3>1. cap' = cap /\ cur' = cur + n /\ Len(buf') = Len(buf) - n /\ n \in 0..Len(buf)
      BY <2>1, <2>2, <2>3, <2>6
    <3> QED
      BY <1>1, <3>1
  <2>8. TypeOK'
    BY <2>2, <2>7 DEF TypeOK, DataFit, peer
  <2> QED
    BY <1>1, <2>2, <2>5, <2>6, <2>7, <2>8 DEF BytesAreSent, peer
<1> QED
  BY <1>2, <1>3, <1>4, <1>5

\* The callbacks hand on what was found, and only that.
LEMMA HandleInv ==
  ASSUME IInv, HandleRtsp \/ HandleJson \/ Return
  PROVE  IInv'
<1> USE DEF IInv, NumbersOK
<1>1. /\ UNCHANGED <<peer, cacher, last, fault>> /\ SentBytes' = SentBytes
      /\ phase = "handle" /\ phase' \in {"idle", "handle"}
  BY DEF HandleRtsp, HandleJson, Return, peer, SentBytes
<1>2. list \in Seq(Seq(SentBytes) \ {<<>>})
  BY <1>1 DEF BytesAreSent
<1>3. list' \in Seq(Seq(SentBytes) \ {<<>>})
  <2>1. list # <<>> => Tail(list) \in Seq(Seq(SentBytes) \ {<<>>})
    BY <1>2, HeadTailProperties
  <2>2. <<>> \in Seq(Seq(SentBytes) \ {<<>>})
    OBVIOUS
  <2>3. CASE HandleRtsp
    <3>1. list' = <<>> \/ (list # <<>> /\ list' = Tail(list))
      BY <2>3 DEF HandleRtsp
    <3> QED
      BY <2>1, <2>2, <3>1
  <2>4. CASE HandleJson
    BY <2>1, <2>4 DEF HandleJson
  <2>5. CASE Return
    BY <1>2, <2>5 DEF Return
  <2> QED
    BY <2>3, <2>4, <2>5
<1>4. done' \subseteq DOMAIN sent
  <2>1. ASSUME HandleRtsp PROVE Head(list)[1].no \in DOMAIN sent
    <3>1. Head(list) \in Seq(SentBytes) \ {<<>>}
      BY <1>2, <2>1 DEF HandleRtsp
    <3>2. Head(list)[1] \in SentBytes
      BY <3>1
    <3>3. DOMAIN sent = 1..Len(sent)
      BY DEF TypeOK
    <3> QED
      BY <3>2, <3>3 DEF SentBytes
  <2>2. done \subseteq DOMAIN sent
    BY DEF TypeOK
  <2> QED
    BY <2>1, <2>2 DEF HandleRtsp, HandleJson, Return
<1> QED
  BY <1>1, <1>3, <1>4 DEF TypeOK, DataFit, BytesAreSent, peer, cacher

LEMMA CloseInv == IInv /\ Close => IInv'
  BY TcpCacherAssumption
  DEF IInv, TypeOK, DataFit, NumbersOK, BytesAreSent, Close, RemoveCacher

LEMMA TimeOutInv == IInv /\ TimeOut => IInv'
<1> SUFFICES ASSUME IInv, TimeOut PROVE IInv'
  OBVIOUS
<1>1. /\ UNCHANGED <<peer, phase, last, list, done>> /\ SentBytes' = SentBytes
      /\ cap' = Default /\ cur' = 0 /\ buf' = <<>> /\ phase = "idle"
      /\ fault' \in {fault, "cut"}
  BY DEF TimeOut, RemoveCacher, peer, SentBytes
<1>2. 0 + Len(buf') <= Default /\ Default \in Default..(Default + Limit)
  BY <1>1, TcpCacherAssumption
<1> QED
  BY <1>1, <1>2 DEF IInv, TypeOK, DataFit, NumbersOK, BytesAreSent, peer

LEMMA NextInv == IInv /\ [Next]_vars => IInv'
<1> SUFFICES ASSUME IInv, [Next]_vars PROVE IInv'
  OBVIOUS
<1>1. CASE UNCHANGED vars
  BY <1>1 DEF vars, peer, cacher, callback, IInv, TypeOK, DataFit, NumbersOK,
              BytesAreSent, SentBytes
<1> QED
  BY <1>1, SayInv, SegmentInv, ScanInv, HandleInv, CloseInv, TimeOutInv DEF Next

\* The data of the cacher always lie within the memory it has, whatever the client
\* sends and however TCP cuts it; and RTSP_handler takes no request for a whole one
\* that this client did not send.
THEOREM TypeCorrect == Spec => []TypeOK
<1>1. IInv => TypeOK
  BY DEF IInv
<1> QED
  BY <1>1, InitInv, NextInv, PTL DEF Spec

\* Nothing is read or handed on that another connection left behind.
THEOREM InvHolds == Spec => []IInv
  BY InitInv, NextInv, PTL DEF Spec

-----------------------------------------------------------------------------
(* The bytes that the client sent and that no message was made of yet.     *)

Flow == buf \o wire

\* The message of the i-th byte; after the last one, the one that would be next.
No(S, i) == IF i \in 1..Len(S) THEN S[i].no ELSE Len(sent) + 1

OfItsMessage(b) ==
  b.conn = conn /\ b.sort = sent[b.no].sort /\ b.of = sent[b.no].size /\ b.at \in 1..b.of

\* Two bytes lie as they were sent: in one message as many places apart, of two
\* messages with the rest of the first and the beginning of the second between them.
Placed(S, i, j) ==
  \/ S[i].no = S[j].no /\ S[j].at = S[i].at + (j - i)
  \/ S[i].no < S[j].no /\ i + (S[i].of - S[i].at) + S[j].at <= j

\* The bytes are the end of what was sent.
FlowFits(S) ==
  /\ \A i \in 1..Len(S) : OfItsMessage(S[i])
  /\ \A i, j \in 1..Len(S) : i <= j => Placed(S, i, j)
  /\ \A i \in 1..Len(S) : No(S, i + 1) <= S[i].no + 1
  /\ S # <<>> => S[Len(S)].at = S[Len(S)].of

\* What was found is whole, without a gap; after it comes only junk, before a message
\* that is there from its beginning.
GotWhole ==
  \A i \in DOMAIN got :
    /\ Number(i) \in (Number(i - 1) + 1)..Len(sent)
    /\ sent[Number(i)].sort # "junk"
    /\ got[i] = Bytes(Number(i), sent[Number(i)])
    /\ \A n \in (Number(i - 1) + 1)..(Number(i) - 1) : sent[n].sort = "junk"

GotBefore(S) ==
  /\ \A i \in DOMAIN got : Number(i) < No(S, 1)
  /\ \A n \in (Number(Len(got)) + 1)..(No(S, 1) - 1) : sent[n].sort = "junk"
  /\ S # <<>> /\ S[1].sort # "junk" => S[1].at = 1

\* There is at most one request that was not found.
SortsFit(S) ==
  /\ \A n \in DOMAIN sent : sent[n].sort \in SortsOf(kind)
  /\ \A n, k \in DOMAIN sent :
       /\ n >= No(S, 1) /\ sent[n].sort = "request"
       /\ k >= No(S, 1) /\ sent[k].sort = "request"
       => n = k

\* After the search, no end of a message is in the cacher.
NoEnd ==
  phase # "scan" /\ Len(buf) <= MaxRequest
    => \A i \in DOMAIN buf : buf[i].at = buf[i].of => buf[i].sort = "junk"

AllFits ==
  /\ got \in Seq(Seq(SentBytes) \ {<<>>})
  /\ FlowFits(Flow) /\ GotWhole /\ GotBefore(Flow) /\ SortsFit(Flow) /\ NoEnd

LEMMA ByteTypes ==
  ASSUME NEW b \in SentBytes, sent \in Seq(Messages)
  PROVE  /\ b.no \in 1..Len(sent) /\ b.no \in Nat /\ b.at \in Nat /\ b.of \in Nat
         /\ b.conn \in Nat /\ Len(sent) \in Nat
         /\ b.sort \in {"frame", "request", "json", "junk"}
  BY DEF SentBytes

LEMMA FlowType ==
  ASSUME IInv
  PROVE  /\ Flow \in Seq(SentBytes) /\ Len(Flow) = Len(buf) + Len(wire)
         /\ Len(Flow) \in Nat /\ Len(buf) \in Nat /\ Len(wire) \in Nat
         /\ \A i \in 1..Len(buf) : Flow[i] = buf[i]
         /\ \A i \in 1..Len(wire) : Flow[Len(buf) + i] = wire[i]
         /\ sent \in Seq(Messages) /\ Len(sent) \in Nat /\ DOMAIN sent = 1..Len(sent)
         /\ buf \in Seq(SentBytes) /\ wire \in Seq(SentBytes)
<1>1. buf \in Seq(SentBytes) /\ wire \in Seq(SentBytes) /\ sent \in Seq(Messages)
  BY DEF IInv, BytesAreSent, TypeOK
<1> QED
  BY <1>1, ConcatProperties DEF Flow

\* The end of a flow is one.
LEMMA SuffixFits ==
  ASSUME sent \in Seq(Messages), NEW S \in Seq(SentBytes), FlowFits(S),
         NEW k \in 0..Len(S), NEW T, T = SubSeq(S, k + 1, Len(S))
  PROVE  /\ T \in Seq(SentBytes) /\ Len(T) = Len(S) - k
         /\ \A i \in 1..Len(T) : T[i] = S[k + i]
         /\ FlowFits(T)
         /\ No(T, 1) = No(S, k + 1)
<1>1. Len(S) \in Nat /\ k \in Nat /\ k <= Len(S) /\ Len(sent) \in Nat
  OBVIOUS
<1>2. T \in Seq(SentBytes) /\ Len(T) = Len(S) - k /\ \A i \in 1..Len(T) : T[i] = S[k + i]
  <2>1. k + 1 \in Nat \ {0} /\ Len(S) \in 0..Len(S)
    BY <1>1
  <2>2. T \in Seq(SentBytes)
        /\ Len(T) = IF k + 1 <= Len(S) THEN Len(S) - (k + 1) + 1 ELSE 0
    BY <2>1, PartOf
  <2>3. Len(T) = Len(S) - k
    BY <1>1, <2>2
  <2>4. \A i \in 1..Len(T) : T[i] = S[(k + 1) + i - 1]
    BY <1>1, <2>2, <2>3
  <2>5. ASSUME NEW i \in 1..Len(T) PROVE T[i] = S[k + i]
    <3>1. (k + 1) + i - 1 = k + i
      BY <1>1, <2>3
    <3> QED
      BY <2>4, <3>1
  <2> QED
    BY <2>2, <2>3, <2>5
<1>3. \A i \in 1..Len(T) : k + i \in 1..Len(S)
  BY <1>1, <1>2
<1>4. ASSUME NEW i \in 1..(Len(T) + 1) PROVE No(T, i) = No(S, k + i)
  <2>1. i \in 1..Len(T) <=> k + i \in 1..Len(S)
    BY <1>1, <1>2
  <2> QED
    BY <1>2, <2>1 DEF No
<1>5. FlowFits(T)
  <2>1. \A i \in 1..Len(T) : OfItsMessage(T[i])
    BY <1>2, <1>3 DEF FlowFits
  <2>2. ASSUME NEW i \in 1..Len(T), NEW j \in 1..Len(T), i <= j PROVE Placed(T, i, j)
    <3>1. Placed(S, k + i, k + j)
      BY SMTT(30), <1>1, <1>2, <1>3, <2>2 DEF FlowFits
    <3>2. T[i] = S[k + i] /\ T[j] = S[k + j] /\ T[i] \in SentBytes /\ T[j] \in SentBytes
      BY <1>2
    <3>3. T[i].no \in Nat /\ T[j].no \in Nat /\ T[i].at \in Nat /\ T[j].at \in Nat
          /\ T[i].of \in Nat
      BY <3>2, ByteTypes
    <3>4. i \in Nat /\ j \in Nat /\ (k + j) - (k + i) = j - i
      BY <1>1, <1>2
    <3>5. \/ T[i].no = T[j].no /\ T[j].at = T[i].at + ((k + j) - (k + i))
          \/ T[i].no < T[j].no /\ (k + i) + (T[i].of - T[i].at) + T[j].at <= k + j
      BY <3>1, <3>2 DEF Placed
    <3> DEFINE a == T[i].at
               b == T[j].at
               o == T[i].of
    <3>6. (k + i) + (o - a) + b <= k + j => i + (o - a) + b <= j
      <4>1. a \in Nat /\ b \in Nat /\ o \in Nat
        BY <3>3
      <4> HIDE DEF a, b, o
      <4> QED
        BY <1>1, <3>4, <4>1
    <3> QED
      BY <3>4, <3>5, <3>6 DEF Placed
  <2>3. ASSUME NEW i \in 1..Len(T) PROVE No(T, i + 1) <= T[i].no + 1
    <3>1. i + 1 \in 1..(Len(T) + 1) /\ k + (i + 1) = (k + i) + 1
      BY <1>1, <1>2
    <3>2. No(T, i + 1) = No(S, (k + i) + 1) /\ T[i] = S[k + i]
      BY <1>2, <1>4, <3>1
    <3> QED
      BY <1>3, <3>2 DEF FlowFits
  <2>4. T # <<>> => T[Len(T)].at = T[Len(T)].of
    <3> SUFFICES ASSUME T # <<>> PROVE T[Len(T)].at = T[Len(T)].of
      OBVIOUS
    <3>1. Len(T) \in 1..Len(T) /\ k + Len(T) = Len(S) /\ S # <<>>
      BY <1>1, <1>2
    <3>2. T[Len(T)] = S[Len(S)]
      BY <1>2, <3>1
    <3> QED
      BY <3>1, <3>2 DEF FlowFits
  <2> QED
    BY <2>1, <2>2, <2>3, <2>4 DEF FlowFits
<1> QED
  BY <1>1, <1>2, <1>4, <1>5

\* What fits is of the right types.
LEMMA FitTypes ==
  ASSUME sent \in Seq(Messages), NEW S \in Seq(SentBytes), FlowFits(S),
         NEW i \in 1..Len(S)
  PROVE  /\ S[i] \in SentBytes /\ OfItsMessage(S[i])
         /\ S[i].no \in 1..Len(sent) /\ S[i].no \in Nat
         /\ S[i].at \in Nat /\ S[i].of \in Nat /\ 1 <= S[i].at /\ S[i].at <= S[i].of
         /\ Len(S) \in Nat /\ Len(sent) \in Nat /\ i \in Nat
         /\ S[i].sort = sent[S[i].no].sort
<1>1. S[i] \in SentBytes /\ OfItsMessage(S[i])
  BY DEF FlowFits
<1>2. S[i].at \in Nat /\ S[i].of \in Nat /\ S[i].no \in 1..Len(sent) /\ S[i].no \in Nat
  BY <1>1, ByteTypes
<1>3. S[i].at \in 1..S[i].of /\ S[i].sort = sent[S[i].no].sort
  BY <1>1 DEF OfItsMessage
<1> QED
  BY <1>1, <1>2, <1>3

\* The next bytes of a message are those that lie there, and all of them do.
LEMMA RestIsThere ==
  ASSUME sent \in Seq(Messages), NEW S \in Seq(SentBytes), FlowFits(S),
         NEW i \in 1..Len(S)
  PROVE  /\ i + (S[i].of - S[i].at) <= Len(S)
         /\ \A j \in i..(i + (S[i].of - S[i].at)) :
              S[j].no = S[i].no /\ S[j].at = S[i].at + (j - i)
<1> DEFINE a == S[i].at
           o == S[i].of
           n == Len(S)
           e == S[n].at
<1>1. a \in Nat /\ o \in Nat /\ 1 <= a /\ a <= o /\ n \in Nat /\ i \in Nat /\ n \in 1..n /\ i <= n
  BY FitTypes
<1>2. e \in Nat /\ 1 <= e /\ e = S[n].of
  BY <1>1, FitTypes DEF FlowFits
<1>3. i + (o - a) <= n
  <2>1. Placed(S, i, n)
    BY <1>1 DEF FlowFits
  <2>2. CASE S[i].no = S[n].no /\ e = a + (n - i)
    <3>1. S[n].of = o
      <4>1. OfItsMessage(S[i]) /\ OfItsMessage(S[n])
        BY <1>1, FitTypes
      <4> QED
        BY <2>2, <4>1 DEF OfItsMessage
    <3>2. o = e /\ e = a + (n - i)
      BY <1>2, <2>2, <3>1
    <3> HIDE DEF a, o, n, e
    <3> QED
      BY <1>1, <3>2
  <2>3. CASE i + (o - a) + e <= n
    <3> HIDE DEF a, o, n, e
    <3> QED
      BY <1>1, <1>2, <2>3
  <2> QED
    BY <2>1, <2>2, <2>3 DEF Placed
<1>4. ASSUME NEW j \in i..(i + (o - a))
      PROVE  S[j].no = S[i].no /\ S[j].at = a + (j - i)
  <2> DEFINE b == S[j].at
  <2>1. j \in 1..n /\ j \in Nat /\ i <= j /\ j <= i + (o - a)
    <3> HIDE DEF a, o, n
    <3> QED
      BY <1>1, <1>3
  <2>2. Placed(S, i, j) /\ b \in Nat /\ 1 <= b
    BY <2>1, FitTypes DEF FlowFits
  <2>3. ~(i + (o - a) + b <= j)
    <3> HIDE DEF a, o, n, b
    <3> QED
      BY <1>1, <2>1, <2>2
  <2> QED
    BY <2>2, <2>3 DEF Placed
<1> QED
  BY <1>3, <1>4

\* A message is followed by the beginning of the next.
LEMMA NextBegins ==
  ASSUME sent \in Seq(Messages), NEW S \in Seq(SentBytes), FlowFits(S),
         NEW i \in 1..Len(S), S[i].at = S[i].of, i < Len(S)
  PROVE  S[i + 1].at = 1 /\ S[i + 1].no = S[i].no + 1
<1> DEFINE a == S[i].at
           b == S[i + 1].at
           n == S[i].no
           m == S[i + 1].no
<1>1. i + 1 \in 1..Len(S) /\ i <= i + 1 /\ i \in Nat
  OBVIOUS
<1>2. a \in Nat /\ n \in Nat /\ b \in Nat /\ m \in Nat /\ 1 <= b /\ b <= S[i + 1].of
      /\ S[i + 1].of \in Nat
  BY <1>1, FitTypes
<1>3. Placed(S, i, i + 1) /\ m <= n + 1
  BY <1>1 DEF FlowFits, No
<1>4. CASE n = m /\ b = a + ((i + 1) - i)
  <2>1. S[i + 1].of = a
    BY <1>1, <1>4, FitTypes DEF OfItsMessage
  <2> HIDE DEF a, b, n, m
  <2>2. FALSE
    BY <1>1, <1>2, <1>4, <2>1
  <2> QED
    BY <2>2
<1>5. CASE n < m /\ i + (a - a) + b <= i + 1
  <2> HIDE DEF a, b, n, m
  <2>1. b = 1 /\ m = n + 1
    BY <1>1, <1>2, <1>3, <1>5
  <2> QED
    BY <2>1 DEF b, n, m
<1> QED
  BY <1>3, <1>4, <1>5 DEF Placed

\* Numbers do not go back.
LEMMA NumbersRise ==
  ASSUME sent \in Seq(Messages), NEW S \in Seq(SentBytes), FlowFits(S),
         NEW i \in 1..(Len(S) + 1), NEW j \in 1..(Len(S) + 1), i <= j
  PROVE  No(S, i) <= No(S, j) /\ No(S, i) \in Nat \ {0} /\ No(S, i) <= Len(sent) + 1
<1>1. Len(S) \in Nat /\ Len(sent) \in Nat
  OBVIOUS
<1>2. ASSUME NEW k \in 1..(Len(S) + 1)
      PROVE No(S, k) \in Nat \ {0} /\ No(S, k) <= Len(sent) + 1
  <2>1. CASE k \in 1..Len(S)
    BY <1>1, <2>1, FitTypes DEF No
  <2>2. CASE k \notin 1..Len(S)
    BY <1>1, <2>2 DEF No
  <2> QED
    BY <2>1, <2>2
<1>3. CASE j \in 1..Len(S)
  <2>1. i \in 1..Len(S) /\ Placed(S, i, j)
    BY <1>1, <1>3 DEF FlowFits
  <2>2. S[i].no <= S[j].no
    BY <1>3, <2>1, FitTypes DEF Placed
  <2> QED
    BY <1>2, <1>3, <2>1, <2>2 DEF No
<1>4. CASE j \notin 1..Len(S)
  BY <1>2, <1>4 DEF No
<1> QED
  BY <1>2, <1>3, <1>4

\* The messages of what is skipped are those between the first byte and the next.
LEMMA SkippedAreJunk ==
  ASSUME sent \in Seq(Messages), NEW S \in Seq(SentBytes), FlowFits(S),
         NEW i \in 1..(Len(S) + 1), \A p \in 1..(i - 1) : S[p].sort = "junk"
  PROVE  \A n \in No(S, 1)..(No(S, i) - 1) : sent[n].sort = "junk"
<1>1. Len(S) \in Nat /\ Len(sent) \in Nat /\ i \in Nat
  OBVIOUS
<1>2. SUFFICES ASSUME NEW n \in No(S, 1)..(No(S, i) - 1) PROVE sent[n].sort = "junk"
  OBVIOUS
<1>3. No(S, 1) \in Nat /\ No(S, i) \in Nat /\ n \in Nat /\ No(S, 1) <= n /\ n < No(S, i)
  <2>1. 1 \in 1..(Len(S) + 1)
    BY <1>1
  <2> QED
    BY <1>1, <2>1, NumbersRise
<1> DEFINE P == {p \in 1..i : No(S, p) <= n}
<1>4. 1 \in P /\ P \in SUBSET Nat /\ \A p \in P : p <= i
  BY <1>1, <1>3
<1>5. Max(P) \in P /\ \A p \in P : Max(P) >= p
  BY <1>1, <1>4, MaxIsGreatest
<1> DEFINE p == Max(P)
<1>6. p \in 1..i /\ No(S, p) <= n /\ p # i
  BY <1>3, <1>5
<1>7. p + 1 \in 1..i /\ ~(p + 1 \in P) /\ p \in 1..Len(S) /\ p \in 1..(i - 1)
  <2> HIDE DEF P
  <2>1. p \in Nat
    BY <1>1, <1>6
  <2>2. ~(p >= p + 1)
    BY <2>1
  <2> QED
    BY <1>1, <1>5, <1>6, <2>1, <2>2
<1>8. ~(No(S, p + 1) <= n)
  BY <1>7
<1> HIDE DEF P, p
<1>9. No(S, p) = S[p].no /\ S[p].no \in Nat /\ No(S, p + 1) <= S[p].no + 1
  BY <1>7, FitTypes DEF FlowFits, No
<1>10. No(S, p + 1) \in Nat
  <2>1. p + 1 \in 1..(Len(S) + 1)
    BY <1>1, <1>7
  <2> QED
    BY <1>1, <2>1, NumbersRise
<1>11. S[p].no = n
  BY SMTT(30), <1>3, <1>6, <1>8, <1>9, <1>10
<1> QED
  BY <1>7, <1>11, FitTypes

-----------------------------------------------------------------------------
(* The client sends.                                                       *)

LEMMA BytesType ==
  ASSUME NEW n, NEW m \in Messages
  PROVE  /\ Len(Bytes(n, m)) = m.size /\ m.size \in Nat \ {0}
         /\ \A i \in 1..m.size :
              /\ Bytes(n, m)[i].conn = conn /\ Bytes(n, m)[i].no = n
              /\ Bytes(n, m)[i].sort = m.sort
              /\ Bytes(n, m)[i].at = i /\ Bytes(n, m)[i].of = m.size
  BY TcpCacherAssumption DEF Bytes

\* What a step of the client leaves as it was.
SaysTo(m) ==
  /\ sent' = Append(sent, m)
  /\ wire' = wire \o Bytes(Len(sent) + 1, m)
  /\ UNCHANGED <<kind, conn, buf, phase, got, fault>>

LEMMA SayFlow ==
  ASSUME IInv, NEW m \in Messages, SaysTo(m)
  PROVE  /\ Len(Flow') = Len(Flow) + m.size
         /\ \A i \in 1..Len(Flow) : Flow'[i] = Flow[i]
         /\ \A i \in 1..m.size : Flow'[Len(Flow) + i] = Bytes(Len(sent) + 1, m)[i]
         /\ Len(sent') = Len(sent) + 1
         /\ \A n \in 1..Len(sent) : sent'[n] = sent[n]
         /\ sent'[Len(sent) + 1] = m
         /\ sent' \in Seq(Messages)
<1> DEFINE B == Bytes(Len(sent) + 1, m)
           SB == SentBytes \union {B[i] : i \in 1..m.size}
<1>1. Flow \in Seq(SentBytes) /\ buf \in Seq(SentBytes) /\ wire \in Seq(SentBytes)
      /\ sent \in Seq(Messages) /\ Len(Flow) \in Nat
  BY FlowType
<1>2. B \in Seq(SB) /\ Len(B) = m.size /\ m.size \in Nat \ {0}
  <2>1. m.size \in Nat \ {0}
    BY TcpCacherAssumption
  <2>2. B \in [1..m.size -> SB]
    BY <2>1 DEF Bytes
  <2> HIDE DEF B, SB
  <2>3. B \in Seq(SB)
    BY <2>1, <2>2, SeqDef
  <2> QED
    BY <2>1, <2>3, BytesType DEF B
<1>3. wire' = wire \o B /\ buf' = buf
  BY DEF SaysTo
<1>4. SentBytes \subseteq SB
  OBVIOUS
<1> HIDE DEF B, SB
<1>5. buf \in Seq(SB) /\ wire \in Seq(SB) /\ Flow \in Seq(SB)
  BY <1>1, <1>4, LargerSequences
<1>6. Flow' = Flow \o B
  BY SMTT(30), <1>2, <1>3, <1>5, ConcatAssociative DEF Flow
<1>7. /\ Len(Flow \o B) = Len(Flow) + Len(B)
      /\ \A i \in 1..(Len(Flow) + Len(B)) :
           (Flow \o B)[i] = IF i <= Len(Flow) THEN Flow[i] ELSE B[i - Len(Flow)]
  BY <1>2, <1>5, ConcatProperties
<1>8. \A i \in 1..Len(Flow) : Flow'[i] = Flow[i]
  BY <1>1, <1>2, <1>6, <1>7
<1>9. \A i \in 1..m.size : Flow'[Len(Flow) + i] = B[i]
  <2> SUFFICES ASSUME NEW i \in 1..m.size PROVE Flow'[Len(Flow) + i] = B[i]
    OBVIOUS
  <2>1. Len(Flow) + i \in 1..(Len(Flow) + Len(B)) /\ ~(Len(Flow) + i <= Len(Flow))
        /\ (Len(Flow) + i) - Len(Flow) = i
    BY <1>1, <1>2
  <2> QED
    BY <1>6, <1>7, <2>1
<1>10. /\ sent' \in Seq(Messages) /\ Len(sent') = Len(sent) + 1
       /\ \A n \in 1..Len(sent) : sent'[n] = sent[n]
       /\ sent'[Len(sent) + 1] = m
  BY <1>1, AppendProperties DEF SaysTo
<1> QED
  BY <1>2, <1>6, <1>7, <1>8, <1>9, <1>10 DEF B

LEMMA SayFlowFits ==
  ASSUME IInv, FlowFits(Flow), NEW m \in Messages, SaysTo(m)
  PROVE  /\ FlowFits(Flow)'
         /\ No(Flow, 1)' = No(Flow, 1)
         /\ Flow' # <<>> /\ Flow'[1].sort # "junk" =>
              Flow'[1].at = 1 \/ (Flow # <<>> /\ Flow'[1] = Flow[1])
<1> DEFINE k == Len(Flow)
           l == Len(sent)
           z == m.size
<1>0. sent \in Seq(Messages) /\ Flow \in Seq(SentBytes) /\ k \in Nat /\ l \in Nat
      /\ z \in Nat \ {0}
  BY FlowType, BytesType
<1>1. /\ Len(Flow') = k + z /\ Len(sent') = l + 1
      /\ \A i \in 1..k : Flow'[i] = Flow[i]
      /\ \A n \in 1..l : sent'[n] = sent[n]
      /\ sent'[l + 1] = m
  BY SayFlow
<1>2. \A i \in 1..z : /\ Flow'[k + i].conn = conn /\ Flow'[k + i].no = l + 1
                      /\ Flow'[k + i].sort = m.sort
                      /\ Flow'[k + i].at = i /\ Flow'[k + i].of = z
  <2> DEFINE B == Bytes(l + 1, m)
  <2>1. \A i \in 1..z : Flow'[k + i] = B[i]
    BY SayFlow
  <2>2. \A i \in 1..z : /\ B[i].conn = conn /\ B[i].no = l + 1 /\ B[i].sort = m.sort
                        /\ B[i].at = i /\ B[i].of = z
    BY BytesType
  <2> HIDE DEF B, k, z, l
  <2> QED
    BY <2>1, <2>2
<1>3. conn' = conn
  BY DEF SaysTo
<1>4. \A i \in 1..k : /\ Flow[i].no \in 1..l /\ Flow[i].at \in Nat /\ Flow[i].of \in Nat
                      /\ OfItsMessage(Flow[i]) /\ i + (Flow[i].of - Flow[i].at) <= k
  BY <1>0, FitTypes, RestIsThere
<1> HIDE DEF k, l, z
<1>5. ASSUME NEW i \in 1..(k + z), i \notin 1..k PROVE i - k \in 1..z /\ k + (i - k) = i
  BY <1>0, <1>5
<1>6. \A i \in 1..(k + z) : OfItsMessage(Flow[i])'
  <2> SUFFICES ASSUME NEW i \in 1..(k + z) PROVE OfItsMessage(Flow[i])'
    OBVIOUS
  <2>1. CASE i \in 1..k
    BY SMTT(30), <1>1, <1>3, <1>4, <2>1 DEF OfItsMessage
  <2>2. CASE i \notin 1..k
    <3>1. i - k \in 1..z /\ k + (i - k) = i
      BY <1>5, <2>2
    <3>2. Flow'[i].conn = conn /\ Flow'[i].no = l + 1 /\ Flow'[i].sort = m.sort
          /\ Flow'[i].at = i - k /\ Flow'[i].of = z
      BY <1>2, <3>1
    <3> QED
      BY <1>1, <1>3, <3>1, <3>2 DEF OfItsMessage, z
  <2> QED
    BY <2>1, <2>2
<1>7. ASSUME NEW i \in 1..(k + z), NEW j \in 1..(k + z), i <= j
      PROVE  Placed(Flow', i, j)
  <2>1. CASE j \in 1..k
    <3>1. i \in 1..k
      BY <1>0, <1>7, <2>1
    <3>2. Placed(Flow, i, j)
      BY <1>7, <2>1, <3>1 DEF FlowFits, k
    <3> QED
      BY <1>1, <2>1, <3>1, <3>2 DEF Placed
  <2>2. CASE j \notin 1..k /\ i \in 1..k
    <3>1. j - k \in 1..z /\ k + (j - k) = j
      BY <1>5, <2>2
    <3>2. Flow'[j].no = l + 1 /\ Flow'[j].at = j - k
      BY <1>2, <3>1
    <3> DEFINE a == Flow[i].at
               o == Flow[i].of
    <3>3. Flow[i].no < l + 1 /\ a \in Nat /\ o \in Nat /\ i + (o - a) <= k
      BY <1>0, <1>4, <2>2
    <3>4. Flow'[i] = Flow[i]
      BY <1>1, <2>2
    <3>5. i + (o - a) + (j - k) <= j
      <4> HIDE DEF a, o
      <4> QED
        BY <1>0, <3>3
    <3> QED
      BY <3>2, <3>3, <3>4, <3>5 DEF Placed
  <2>3. CASE j \notin 1..k /\ i \notin 1..k
    <3>1. j - k \in 1..z /\ k + (j - k) = j /\ i - k \in 1..z /\ k + (i - k) = i
      BY <1>5, <2>3
    <3>2. Flow'[j].no = l + 1 /\ Flow'[j].at = j - k /\ Flow'[i].no = l + 1
          /\ Flow'[i].at = i - k
      BY <1>2, <3>1
    <3>3. j - k = (i - k) + (j - i)
      BY <1>0
    <3> QED
      BY <3>2, <3>3 DEF Placed
  <2>4. i \in 1..k \/ i \notin 1..k
    OBVIOUS
  <2> QED
    BY <1>0, <1>7, <2>1, <2>2, <2>3
<1>8. ASSUME NEW i \in 1..(k + z) PROVE No(Flow, i + 1)' <= Flow'[i].no + 1
  <2>1. CASE i \in 1..k /\ i + 1 \in 1..k
    <3>1. No(Flow, i + 1) <= Flow[i].no + 1 /\ No(Flow, i + 1) = Flow[i + 1].no
      BY <2>1 DEF FlowFits, No, k
    <3>2. i + 1 \in 1..(k + z)
      BY <1>0, <2>1
    <3>3. No(Flow, i + 1)' = Flow[i + 1].no
      BY <1>1, <2>1, <3>2 DEF No
    <3> QED
      BY <1>1, <2>1, <3>1, <3>3
  <2>2. CASE i \in 1..k /\ i + 1 \notin 1..k
    <3>1. i = k /\ i + 1 = k + 1 /\ 1 \in 1..z /\ k + 1 \in 1..(k + z)
      BY <1>0, <2>2
    <3>2. No(Flow, i + 1)' = l + 1
      BY <1>1, <1>2, <3>1 DEF No
    <3>3. No(Flow, i + 1) = l + 1 /\ No(Flow, i + 1) <= Flow[i].no + 1
      BY <2>2 DEF FlowFits, No, k, l
    <3> QED
      BY <1>1, <2>2, <3>2, <3>3
  <2>3. CASE i \notin 1..k
    <3>1. i - k \in 1..z /\ k + (i - k) = i
      BY <1>5, <2>3
    <3>2. Flow'[i].no = l + 1
      BY <1>2, <3>1
    <3>3. No(Flow, i + 1)' \in {l + 1, l + 2}
      <4>1. CASE i + 1 \in 1..(k + z)
        <5>1. (i - k) + 1 \in 1..z /\ k + ((i - k) + 1) = i + 1
          BY <1>0, <3>1, <4>1
        <5> QED
          BY <1>1, <1>2, <4>1, <5>1 DEF No
      <4>2. CASE i + 1 \notin 1..(k + z)
        BY <1>0, <1>1, <4>2 DEF No
      <4> QED
        BY <4>1, <4>2
    <3> QED
      BY <1>0, <3>2, <3>3
  <2> QED
    BY <2>1, <2>2, <2>3
<1>9. Flow'[k + z].at = Flow'[k + z].of
  BY <1>0, <1>2
<1>10. FlowFits(Flow)'
  BY <1>1, <1>6, <1>7, <1>8, <1>9 DEF FlowFits
<1>11. No(Flow, 1)' = No(Flow, 1)
  <2>1. CASE k = 0
    <3>1. 1 \in 1..z /\ k + 1 = 1 /\ 1 \in 1..(k + z) /\ 1 \notin 1..k
      BY <1>0, <2>1
    <3> QED
      BY <1>1, <1>2, <3>1 DEF No, k, l
  <2>2. CASE k # 0
    <3>1. 1 \in 1..k /\ 1 \in 1..(k + z)
      BY <1>0, <2>2
    <3> QED
      BY <1>1, <3>1 DEF No, k
  <2> QED
    BY <2>1, <2>2
<1>12. Flow'[1].at = 1 \/ (Flow # <<>> /\ Flow'[1] = Flow[1])
  <2>1. CASE k = 0
    <3>1. 1 \in 1..z /\ k + 1 = 1
      BY <1>0, <2>1
    <3> QED
      BY <1>2, <3>1
  <2>2. CASE k # 0
    <3>1. 1 \in 1..k /\ Flow # <<>>
      BY <1>0, <2>2 DEF k
    <3> QED
      BY <1>1, <3>1
  <2> QED
    BY <2>1, <2>2
<1> QED
  BY <1>10, <1>11, <1>12

LEMMA NumberType ==
  ASSUME sent \in Seq(Messages), got \in Seq(Seq(SentBytes) \ {<<>>}), NEW i \in 0..Len(got)
  PROVE  /\ Number(i) \in Nat /\ Number(i) <= Len(sent) /\ Len(sent) \in Nat
         /\ Len(got) \in Nat /\ DOMAIN got = 1..Len(got)
         /\ i # 0 => Number(i) \in 1..Len(sent)
<1>1. CASE i = 0
  BY <1>1 DEF Number
<1>2. CASE i # 0
  <2>1. got[i] \in Seq(SentBytes) \ {<<>>}
    BY <1>2
  <2>2. got[i][1] \in SentBytes
    BY <2>1
  <2>3. got[i][1].no \in 1..Len(sent)
    BY <2>2, ByteTypes
  <2> QED
    BY <1>2, <2>3 DEF Number
<1> QED
  BY <1>1, <1>2

\* What was found lies before what was not.
LEMMA TakenIsBefore ==
  ASSUME IInv, AllFits, NEW n, Taken(n)
  PROVE  n \in Nat /\ n < No(Flow, 1)
<1>1. PICK i \in DOMAIN got : \E j \in DOMAIN got[i] : got[i][j].no = n
  BY DEF Taken
<1>2. sent \in Seq(Messages) /\ got \in Seq(Seq(SentBytes) \ {<<>>})
  BY FlowType DEF AllFits
<1>3. Number(i) \in 1..Len(sent) /\ Number(i) \in Nat
  BY <1>1, <1>2, NumberType
<1>4. got[i] = Bytes(Number(i), sent[Number(i)]) /\ Number(i) < No(Flow, 1)
  BY <1>1 DEF AllFits, GotWhole, GotBefore
<1>5. sent[Number(i)] \in Messages
  BY <1>2, <1>3
<1>6. n = Number(i)
  BY <1>1, <1>4, <1>5 DEF Bytes
<1> QED
  BY <1>3, <1>4, <1>6

LEMMA SayFits ==
  ASSUME IInv, AllFits, NEW m \in Messages, Say(m)
  PROVE  AllFits'
<1>1. SaysTo(m)
  BY DEF Say, SaysTo, cacher, callback
<1>2. /\ sent \in Seq(Messages) /\ got \in Seq(Seq(SentBytes) \ {<<>>})
      /\ Flow \in Seq(SentBytes) /\ Len(sent) \in Nat
      /\ DOMAIN sent = 1..Len(sent) /\ DOMAIN got = 1..Len(got) /\ Len(got) \in Nat
  BY FlowType DEF AllFits
<1>3. /\ FlowFits(Flow)'
      /\ No(Flow, 1)' = No(Flow, 1)
      /\ Flow' # <<>> /\ Flow'[1].sort # "junk" =>
           Flow'[1].at = 1 \/ (Flow # <<>> /\ Flow'[1] = Flow[1])
  BY <1>1, SayFlowFits DEF AllFits
<1>4. /\ Len(sent') = Len(sent) + 1 /\ sent' \in Seq(Messages)
      /\ \A n \in 1..Len(sent) : sent'[n] = sent[n]
      /\ sent'[Len(sent) + 1] = m
  BY <1>1, SayFlow
<1>5. UNCHANGED <<kind, conn, buf, phase, got>>
  BY <1>1 DEF SaysTo
<1>6. No(Flow, 1) \in Nat /\ No(Flow, 1) <= Len(sent) + 1
  <2>1. 1 \in 1..(Len(Flow) + 1)
    BY <1>2
  <2> QED
    BY <1>2, <2>1, NumbersRise DEF AllFits
<1>7. got' \in Seq(Seq(SentBytes') \ {<<>>})
  <2>1. Seq(SentBytes) \subseteq Seq(SentBytes')
    BY <1>1, <1>2, MoreSent, LargerSequences DEF SaysTo
  <2>2. Seq(Seq(SentBytes) \ {<<>>}) \subseteq Seq(Seq(SentBytes') \ {<<>>})
    BY <2>1, LargerSequences
  <2> QED
    BY <1>2, <1>5, <2>2
<1>8. \A i \in 0..Len(got) : Number(i)' = Number(i) /\ Number(i) \in Nat /\ Number(i) <= Len(sent)
  BY <1>2, <1>5, NumberType DEF Number
<1>9. GotWhole'
  <2> SUFFICES ASSUME NEW i \in 1..Len(got)
               PROVE  /\ Number(i) \in (Number(i - 1) + 1)..Len(sent')
                      /\ sent'[Number(i)].sort # "junk"
                      /\ got[i] = Bytes(Number(i), sent'[Number(i)])
                      /\ \A n \in (Number(i - 1) + 1)..(Number(i) - 1) : sent'[n].sort = "junk"
    <3>1. \A i \in 1..Len(got) : Number(i)' = Number(i) /\ Number(i - 1)' = Number(i - 1)
      BY <1>2, <1>8
    <3>2. ASSUME NEW n, NEW x PROVE Bytes(n, x)' = Bytes(n, x)
      BY <1>5 DEF Bytes
    <3> QED
      BY <1>2, <1>5, <3>1, <3>2 DEF GotWhole
  <2>1. /\ Number(i) \in (Number(i - 1) + 1)..Len(sent)
        /\ sent[Number(i)].sort # "junk"
        /\ got[i] = Bytes(Number(i), sent[Number(i)])
        /\ \A n \in (Number(i - 1) + 1)..(Number(i) - 1) : sent[n].sort = "junk"
    BY <1>2 DEF AllFits, GotWhole
  <2>2. Number(i - 1) \in Nat /\ Number(i) \in 1..Len(sent)
    BY <1>2, <1>8, NumberType
  <2>3. \A n \in (Number(i - 1) + 1)..(Number(i) - 1) : n \in 1..Len(sent)
    BY <1>2, <2>2
  <2> QED
    BY <1>2, <1>4, <2>1, <2>2, <2>3
<1>10. GotBefore(Flow)'
  <2>1. \A i \in 1..Len(got) : Number(i) < No(Flow, 1)
    BY <1>2 DEF AllFits, GotBefore
  <2>2. \A n \in (Number(Len(got)) + 1)..(No(Flow, 1) - 1) : sent[n].sort = "junk"
    BY DEF AllFits, GotBefore
  <2>3. Number(Len(got)) \in Nat
    BY <1>2, <1>8
  <2>4. \A n \in (Number(Len(got)) + 1)..(No(Flow, 1) - 1) : n \in 1..Len(sent)
    BY <1>2, <1>6, <2>3
  <2>5. Flow' # <<>> /\ Flow'[1].sort # "junk" => Flow'[1].at = 1
    BY <1>3 DEF AllFits, GotBefore
  <2>6. \A i \in 1..Len(got) : Number(i)' < No(Flow, 1)'
    BY <1>2, <1>3, <1>8, <2>1
  <2>7. Number(Len(got))' = Number(Len(got))
    BY <1>2, <1>5, <1>8 DEF Number
  <2>8. \A n \in (Number(Len(got)) + 1)..(No(Flow, 1) - 1) : sent'[n].sort = "junk"
    BY <1>4, <2>2, <2>4
  <2> QED
    BY <1>2, <1>3, <1>5, <2>5, <2>6, <2>7, <2>8 DEF GotBefore
<1>11. SortsFit(Flow)'
  <2>1. DOMAIN sent' = 1..(Len(sent) + 1)
    BY <1>4
  <2>2. m.sort \in SortsOf(kind)
        /\ (m.sort = "request" => \A n \in DOMAIN sent : sent[n].sort = "request" => Taken(n))
    BY DEF Say
  <2>3. \A n \in 1..(Len(sent) + 1) : n \in 1..Len(sent) \/ n = Len(sent) + 1
    BY <1>2
  <2>4. \A n \in DOMAIN sent' : sent'[n].sort \in SortsOf(kind)
    BY <1>2, <1>4, <2>1, <2>2, <2>3 DEF AllFits, SortsFit
  <2>5. ASSUME m.sort = "request", NEW n \in 1..Len(sent), n >= No(Flow, 1),
               sent[n].sort = "request"
        PROVE  FALSE
    <3>1. n < No(Flow, 1)
      BY <1>2, <2>2, <2>5, TakenIsBefore
    <3> QED
      BY <1>2, <1>6, <2>5, <3>1
  <2>6. \A n, k \in 1..Len(sent) :
       /\ n >= No(Flow, 1) /\ sent[n].sort = "request"
       /\ k >= No(Flow, 1) /\ sent[k].sort = "request"
       => n = k
    BY <1>2 DEF AllFits, SortsFit
  <2>7. \A n, k \in DOMAIN sent' :
       /\ n >= No(Flow, 1) /\ sent'[n].sort = "request"
       /\ k >= No(Flow, 1) /\ sent'[k].sort = "request"
       => n = k
    BY <1>4, <2>1, <2>3, <2>5, <2>6
  <2> QED
    BY <1>3, <1>5, <2>4, <2>7 DEF SortsFit
<1>12. NoEnd'
  BY <1>5 DEF AllFits, NoEnd
<1> QED
  BY <1>3, <1>7, <1>9, <1>10, <1>11, <1>12 DEF AllFits

-----------------------------------------------------------------------------
(* The other steps.                                                        *)

\* Steps that leave what was sent, found and is under way as it is.
LEMMA SameFlowFits ==
  ASSUME AllFits, UNCHANGED <<kind, conn, sent, got>>, Flow' = Flow, NoEnd'
  PROVE  AllFits'
<1>1. SentBytes' = SentBytes
  BY DEF SentBytes
<1>2. FlowFits(Flow)'
  BY DEF AllFits, FlowFits, OfItsMessage, Placed, No
<1>3. GotWhole'
  <2>1. ASSUME NEW i PROVE Number(i)' = Number(i)
    BY DEF Number
  <2>2. ASSUME NEW n, NEW m PROVE Bytes(n, m)' = Bytes(n, m)
    BY DEF Bytes
  <2> QED
    BY <2>1, <2>2 DEF AllFits, GotWhole
<1>4. GotBefore(Flow)'
  BY DEF AllFits, GotBefore, Number, No
<1>5. SortsFit(Flow)'
  BY DEF AllFits, SortsFit, No
<1> QED
  BY <1>1, <1>2, <1>3, <1>4, <1>5 DEF AllFits

LEMMA SegmentFits ==
  ASSUME IInv, AllFits, NEW n \in 1..Len(wire), Segment(n), fault' = "no"
  PROVE  AllFits'
<1> DEFINE seg == SubSeq(wire, 1, n)
           rest == SubSeq(wire, n + 1, Len(wire))
<1>1. wire \in Seq(SentBytes) /\ buf \in Seq(SentBytes) /\ Len(wire) \in Nat
  BY FlowType
<1>2. buf' = buf \o seg /\ wire' = rest
  BY DEF Segment, AppendBuffer
<1>3. seg \in Seq(SentBytes) /\ rest \in Seq(SentBytes) /\ wire = seg \o rest
  <2>1. n \in 1..Len(wire) /\ n + 1 \in Nat \ {0} /\ n \in 0..Len(wire)
        /\ Len(wire) \in 0..Len(wire)
    BY <1>1
  <2>2. /\ seg \in Seq(SentBytes) /\ Len(seg) = n
        /\ rest \in Seq(SentBytes) /\ Len(rest) = Len(wire) - n
    <3>1. Len(seg) = IF 1 <= n THEN n - 1 + 1 ELSE 0
      BY <1>1, <2>1, PartOf
    <3>2. Len(rest) = IF n + 1 <= Len(wire) THEN Len(wire) - (n + 1) + 1 ELSE 0
      BY <1>1, <2>1, PartOf
    <3> QED
      BY <1>1, <2>1, <3>1, <3>2, PartOf
  <2>3. \A i \in 1..n : seg[i] = wire[i]
    BY <1>1, <2>1, <2>2
  <2>4. \A i \in 1..(Len(wire) - n) : rest[i] = wire[n + i]
    <3> SUFFICES ASSUME NEW i \in 1..(Len(wire) - n) PROVE rest[i] = wire[n + i]
      OBVIOUS
    <3>1. rest[i] = wire[(n + 1) + i - 1] /\ (n + 1) + i - 1 = n + i
      BY <1>1, <2>1, <2>2
    <3> QED
      BY <3>1
  <2> HIDE DEF seg, rest
  <2>5. /\ seg \o rest \in Seq(SentBytes) /\ Len(seg \o rest) = Len(seg) + Len(rest)
        /\ \A i \in 1..(Len(seg) + Len(rest)) :
             (seg \o rest)[i] = IF i <= Len(seg) THEN seg[i] ELSE rest[i - Len(seg)]
    BY <2>2, ConcatProperties
  <2>6. Len(seg \o rest) = Len(wire)
    BY <1>1, <2>1, <2>2, <2>5
  <2>7. ASSUME NEW i \in 1..Len(wire) PROVE (seg \o rest)[i] = wire[i]
    <3>1. CASE i <= n
      BY <1>1, <2>1, <2>2, <2>3, <2>5, <3>1
    <3>2. CASE ~(i <= n)
      <4>1. i - n \in 1..(Len(wire) - n) /\ n + (i - n) = i
        BY <1>1, <2>1, <3>2
      <4>2. (seg \o rest)[i] = rest[i - n]
        BY <1>1, <2>1, <2>2, <2>5, <3>2
      <4> QED
        BY <2>4, <4>1, <4>2
    <3> QED
      BY <3>1, <3>2
  <2>8. wire = seg \o rest
    BY <1>1, <2>5, <2>6, <2>7, SeqEqual
  <2> QED
    BY <2>2, <2>8
<1> HIDE DEF seg, rest
<1>4. Flow' = Flow
  BY SMTT(30), <1>1, <1>2, <1>3, ConcatAssociative DEF Flow
<1>5. UNCHANGED <<kind, conn, sent, got>> /\ phase' = "scan"
  BY DEF Segment
<1>6. NoEnd'
  BY <1>5 DEF NoEnd
<1> QED
  BY <1>4, <1>5, <1>6, SameFlowFits

LEMMA HandleFits ==
  ASSUME AllFits, HandleRtsp \/ HandleJson \/ Return
  PROVE  AllFits'
<1>1. UNCHANGED <<kind, conn, sent, got, buf, wire>> /\ phase = "handle"
  BY DEF HandleRtsp, HandleJson, Return, peer, cacher
<1>2. Flow' = Flow /\ NoEnd'
  BY <1>1 DEF AllFits, NoEnd, Flow
<1> QED
  BY <1>1, <1>2, SameFlowFits

\* A time-out that leaves the connection clean found nothing to drop.
LEMMA TimeOutFits ==
  ASSUME AllFits, TimeOut, fault' = "no"
  PROVE  AllFits'
<1>1. buf = <<>> /\ buf' = <<>> /\ UNCHANGED <<kind, conn, sent, wire, got>>
  BY DEF TimeOut, RemoveCacher, peer
<1>2. Flow' = Flow
  BY <1>1 DEF Flow
<1>3. NoEnd'
  BY <1>1 DEF NoEnd
<1> QED
  BY <1>1, <1>2, <1>3, SameFlowFits

LEMMA CloseFits ==
  ASSUME IInv, Close
  PROVE  AllFits'
<1>1. /\ sent' = <<>> /\ wire' = <<>> /\ buf' = <<>> /\ got' = <<>>
      /\ phase' = "idle"
  BY DEF Close, RemoveCacher
<1>2. Flow' = <<>> /\ Len(Flow') = 0
  BY <1>1 DEF Flow
<1>3. FlowFits(Flow)'
  BY <1>2 DEF FlowFits
<1>4. GotWhole'
  BY <1>1 DEF GotWhole
<1>5. No(Flow, 1)' = 1 /\ Number(Len(got))' = 0
  BY <1>1, <1>2 DEF No, Number
<1>6. GotBefore(Flow)'
  <2>1. ~(\E n : n \in (Number(Len(got))' + 1)..(No(Flow, 1)' - 1))
    BY <1>5
  <2> QED
    BY <1>1, <1>2, <2>1 DEF GotBefore
<1>7. SortsFit(Flow)' /\ NoEnd'
  BY <1>1 DEF SortsFit, NoEnd
<1> QED
  BY <1>1, <1>3, <1>4, <1>6, <1>7 DEF AllFits

LEMMA FitsInit == Init => AllFits
<1> SUFFICES ASSUME Init PROVE AllFits
  OBVIOUS
<1>1. sent = <<>> /\ wire = <<>> /\ buf = <<>> /\ got = <<>>
  BY DEF Init
<1>2. Flow = <<>> /\ Len(Flow) = 0
  BY <1>1 DEF Flow
<1>3. FlowFits(Flow) /\ GotWhole /\ SortsFit(Flow) /\ NoEnd
  BY <1>1, <1>2 DEF FlowFits, GotWhole, SortsFit, NoEnd
<1>4. No(Flow, 1) = 1 /\ Number(Len(got)) = 0
  BY <1>1, <1>2 DEF No, Number
<1>5. GotBefore(Flow)
  <2>1. ~(\E n : n \in (Number(Len(got)) + 1)..(No(Flow, 1) - 1))
    BY <1>4
  <2> QED
    BY <1>1, <1>2, <2>1 DEF GotBefore
<1> QED
  BY <1>1, <1>3, <1>5 DEF AllFits

-----------------------------------------------------------------------------
(* What the analyzers find and what they drop.                             *)

LEMMA AfterJunk ==
  ASSUME sent \in Seq(Messages), NEW S \in Seq(SentBytes), FlowFits(S),
         S # <<>> /\ S[1].sort # "junk" => S[1].at = 1,
         NEW j \in 1..Len(S), S[j].sort # "junk", j > 1 => S[j - 1].sort = "junk"
  PROVE  S[j].at = 1
<1>1. CASE j = 1
  <2>1. S # <<>>
    BY <1>1
  <2> QED
    BY <1>1, <2>1
<1>2. CASE j # 1
  <2> DEFINE i == j - 1
             a == S[i].at
             o == S[i].of
             b == S[j].at
  <2>1. i \in 1..Len(S) /\ i <= j /\ j > 1 /\ i \in Nat /\ j \in Nat /\ j = i + 1
    BY <1>2
  <2>2. S[i].sort = "junk" /\ S[i].sort = sent[S[i].no].sort /\ S[j].sort = sent[S[j].no].sort
        /\ a \in Nat /\ o \in Nat /\ a <= o /\ b \in Nat /\ 1 <= b
    BY <2>1, FitTypes
  <2>3. Placed(S, i, j)
    BY <2>1 DEF FlowFits
  <2> HIDE DEF i
  <2>4. i + (o - a) + b <= j
    BY <2>2, <2>3 DEF Placed
  <2> HIDE DEF a, o, b
  <2>5. b = 1
    BY <2>1, <2>2, <2>4
  <2> QED
    BY <2>5 DEF b
<1> QED
  BY <1>1, <1>2

\* The facts about the data that the following lemmas use.
LEMMA DataTypes ==
  ASSUME IInv, AllFits, NEW i \in 1..Len(buf)
  PROVE  /\ buf[i] = Flow[i] /\ i \in 1..Len(Flow) /\ i \in Nat
         /\ buf[i].no \in 1..Len(sent) /\ buf[i].at \in Nat /\ buf[i].of \in Nat
         /\ 1 <= buf[i].at /\ buf[i].at <= buf[i].of
         /\ buf[i].sort = sent[buf[i].no].sort /\ buf[i].of = sent[buf[i].no].size
         /\ buf[i].sort \in SortsOf(kind)
         /\ buf[i].sort # "junk" => buf[i].of > 4
<1>1. Flow \in Seq(SentBytes) /\ Len(Flow) = Len(buf) + Len(wire) /\ Len(wire) \in Nat
      /\ buf[i] = Flow[i] /\ sent \in Seq(Messages) /\ DOMAIN sent = 1..Len(sent)
      /\ Len(buf) \in Nat
  BY FlowType
<1>2. i \in 1..Len(Flow) /\ i \in Nat
  BY <1>1
<1>3. FlowFits(Flow) /\ SortsFit(Flow)
  BY DEF AllFits
<1>4. /\ Flow[i] \in SentBytes /\ OfItsMessage(Flow[i])
      /\ Flow[i].no \in 1..Len(sent) /\ Flow[i].at \in Nat /\ Flow[i].of \in Nat
      /\ 1 <= Flow[i].at /\ Flow[i].at <= Flow[i].of
      /\ Flow[i].sort = sent[Flow[i].no].sort
  BY <1>1, <1>2, <1>3, FitTypes
<1>5. Flow[i].of = sent[Flow[i].no].size
  BY <1>4 DEF OfItsMessage
<1>6. Flow[i].sort \in SortsOf(kind)
  BY <1>1, <1>3, <1>4 DEF SortsFit
<1>7. Flow[i].sort # "junk" => Flow[i].of > 4
  BY <1>4 DEF SentBytes
<1> QED
  BY <1>1, <1>2, <1>4, <1>5, <1>6, <1>7

LEMMA FirstBegins ==
  ASSUME IInv, AllFits, buf # <<>>, buf[1].sort # "junk"
  PROVE  buf[1].at = 1
<1>1. buf \in Seq(SentBytes) /\ Len(buf) \in Nat
  BY FlowType
<1>2. 1 \in 1..Len(buf)
  BY <1>1
<1>3. buf[1] = Flow[1] /\ 1 \in 1..Len(Flow)
  BY <1>2, DataTypes
<1>4. Flow # <<>>
  BY <1>3
<1> QED
  BY <1>3, <1>4 DEF AllFits, GotBefore

\* Where a message begins in the data, its bytes follow.
LEMMA MessageFollows ==
  ASSUME IInv, AllFits, NEW i \in 1..Len(buf), buf[i].at = 1, NEW j \in i..Len(buf),
         j < i + buf[i].of
  PROVE  buf[j].no = buf[i].no /\ buf[j].at = 1 + (j - i) /\ buf[j].of = buf[i].of
<1> DEFINE o == buf[i].of
<1>1. Flow \in Seq(SentBytes) /\ sent \in Seq(Messages) /\ FlowFits(Flow)
  BY FlowType DEF AllFits
<1>2. i \in Nat /\ o \in Nat /\ buf[i] = Flow[i] /\ i \in 1..Len(Flow) /\ Len(buf) \in Nat
  BY DataTypes, FlowType
<1>3. j \in 1..Len(buf) /\ j \in Nat
  BY <1>2
<1>4. buf[j] = Flow[j] /\ buf[j].of = sent[buf[j].no].size
  BY <1>3, DataTypes
<1>5. j \in i..(i + (o - 1))
  <2> HIDE DEF o
  <2>1. j < i + o
    BY DEF o
  <2> QED
    BY <1>2, <1>3, <2>1
<1>6. Flow[j].no = Flow[i].no /\ Flow[j].at = Flow[i].at + (j - i)
  BY <1>1, <1>2, <1>5, RestIsThere
<1> QED
  BY <1>2, <1>4, <1>6, DataTypes

\* Then an end of a message before that of this one would be its own.
LEMMA NoEndInside ==
  ASSUME IInv, AllFits, NEW i \in 1..Len(buf), buf[i].at = 1, Len(buf) < i + buf[i].of - 1,
         NEW j \in i..Len(buf)
  PROVE  buf[j].at # buf[j].of
<1> DEFINE o == buf[i].of
<1>1. i \in Nat /\ o \in Nat /\ Len(buf) \in Nat /\ j \in Nat /\ i <= j /\ j <= Len(buf)
  BY DataTypes, FlowType
<1>2. Len(buf) < i + o - 1
  OBVIOUS
<1>3. j < i + o /\ 1 + (j - i) # o
  <2> HIDE DEF o
  <2> QED
    BY <1>1, <1>2
<1> QED
  BY <1>3, MessageFollows

LEMMA SkipsAreJunk ==
  ASSUME IInv, AllFits, kind = "json", NEW i \in 1..(Len(buf) + 1),
         \A k \in 1..(i - 1) : Skips(k)
  PROVE  \A k \in 1..(i - 1) : buf[k].sort = "junk"
<1> DEFINE J == {k \in 1..(i - 1) : buf[k].sort # "junk"}
<1>1. SUFFICES ASSUME J # {} PROVE FALSE
  OBVIOUS
<1>2. Len(buf) \in Nat /\ i \in Nat /\ Flow \in Seq(SentBytes) /\ sent \in Seq(Messages)
      /\ FlowFits(Flow)
  BY FlowType DEF AllFits
<1>3. PICK j \in J : \A k \in J : j <= k
  <2>1. J \in SUBSET Nat
    BY <1>2
  <2> HIDE DEF J
  <2> QED
    BY <1>1, <2>1, LeastExists
<1>4. j \in 1..(i - 1) /\ j \in 1..Len(buf) /\ buf[j].sort # "junk" /\ j \in Nat
  BY <1>2, <1>3
<1>5. j > 1 => buf[j - 1].sort = "junk"
  <2> SUFFICES ASSUME j > 1, buf[j - 1].sort # "junk" PROVE FALSE
    OBVIOUS
  <2>1. j - 1 \in 1..(i - 1) /\ j - 1 \in J /\ ~(j <= j - 1)
    BY <1>2, <1>4
  <2> QED
    BY <1>3, <2>1
<1> HIDE DEF J
<1>6. buf[j] = Flow[j] /\ j \in 1..Len(Flow) /\ buf[j].sort \in SortsOf(kind)
  BY <1>4, DataTypes
<1>7. j > 1 => Flow[j - 1].sort = "junk"
  <2> SUFFICES ASSUME j > 1 PROVE Flow[j - 1].sort = "junk"
    OBVIOUS
  <2>1. j - 1 \in 1..Len(buf)
    BY <1>2, <1>4
  <2> QED
    BY <1>5, <2>1, DataTypes
<1>8. Flow # <<>> /\ Flow[1].sort # "junk" => Flow[1].at = 1
  BY DEF AllFits, GotBefore
<1>9. Flow[j].at = 1
  BY <1>2, <1>4, <1>6, <1>7, <1>8, AfterJunk
<1>10. buf[j].sort = "json"
  BY <1>4, <1>6 DEF SortsOf
<1> QED
  BY <1>4, <1>6, <1>9, <1>10 DEF Skips, Is

\* The empty lines in data that begin with a request are one, that of its end.
LEMMA OneEmptyLine ==
  ASSUME IInv, AllFits, buf # <<>>, buf[1].sort = "request"
  PROVE  /\ \A i \in EmptyLines : i = buf[1].of
         /\ buf[1].of <= Len(buf) => buf[1].of \in EmptyLines
<1>1. 1 \in 1..Len(buf) /\ Len(buf) \in Nat /\ sent \in Seq(Messages)
      /\ DOMAIN sent = 1..Len(sent) /\ Flow \in Seq(SentBytes)
  BY FlowType
<1> DEFINE o == buf[1].of
<1>2. /\ buf[1] = Flow[1] /\ 1 \in 1..Len(Flow) /\ o \in Nat /\ o > 4
      /\ buf[1].no \in 1..Len(sent) /\ sent[buf[1].no].sort = "request" /\ buf[1].at = 1
  BY <1>1, DataTypes, FirstBegins
<1>3. No(Flow, 1) = buf[1].no /\ FlowFits(Flow)
  BY <1>2 DEF No, AllFits
<1>4. ASSUME NEW i \in EmptyLines PROVE i = o
  <2>1. i \in 1..Len(buf) /\ buf[i].sort = "request" /\ buf[i].at = buf[i].of
    BY <1>1 DEF EmptyLines, Ends
  <2>2. /\ buf[i] = Flow[i] /\ i \in 1..Len(Flow) /\ i \in Nat /\ buf[i].no \in 1..Len(sent)
        /\ sent[buf[i].no].sort = "request" /\ buf[i].of = sent[buf[i].no].size
        /\ buf[i].at \in Nat /\ 1 <= i
    BY <2>1, DataTypes
  <2>3. Placed(Flow, 1, i)
    BY <1>2, <1>3, <2>2 DEF FlowFits
  <2>4. buf[1].no <= buf[i].no
    BY <1>2, <2>2, <2>3, <1>1 DEF Placed
  <2>5. buf[i].no = buf[1].no
    BY <1>1, <1>2, <1>3, <2>2, <2>4 DEF AllFits, SortsFit
  <2>6. buf[i].at = 1 + (i - 1)
    BY <1>1, <1>2, <2>2, <2>3, <2>5 DEF Placed
  <2>7. buf[i].of = o
    BY <1>1, <2>2, <2>5, DataTypes
  <2> QED
    BY <2>1, <2>2, <2>6, <2>7
<1>5. ASSUME o <= Len(buf) PROVE o \in EmptyLines
  <2>1. o \in 1..Len(buf) /\ o \in 5..Len(buf) /\ 1 + (o - 1) = o /\ o < 1 + o
    BY <1>1, <1>2, <1>5
  <2>2. buf[o].no = buf[1].no /\ buf[o].at = 1 + (o - 1) /\ buf[o].of = o
    BY <1>1, <1>2, <2>1, MessageFollows
  <2>3. buf[o].sort = "request"
    BY <1>2, <2>1, <2>2, DataTypes
  <2> QED
    BY <2>1, <2>2, <2>3 DEF EmptyLines, Ends
<1> QED
  BY <1>4, <1>5

LEMMA SizeIsRead ==
  ASSUME IInv, AllFits, Clean, buf # <<>>, buf[1].sort = "frame"
  PROVE  PkgSize(buf[1].of - 4) + 4 = buf[1].of
<1>1. 1 \in 1..Len(buf) /\ DOMAIN sent = 1..Len(sent)
  BY FlowType
<1>2. buf[1].no \in DOMAIN sent /\ sent[buf[1].no].sort = "frame"
      /\ buf[1].of = sent[buf[1].no].size /\ buf[1].of \in Nat
  BY <1>1, DataTypes
<1>3. PkgSize(buf[1].of - 4) = buf[1].of - 4
  BY <1>2 DEF Clean
<1> QED
  BY <1>2, <1>3

\* A message lies at i whole, and only junk before it.
WholeAt(i) ==
  /\ i \in 1..Len(buf) /\ buf[i].at = 1 /\ buf[i].sort # "junk"
  /\ i + buf[i].of - 1 <= Len(buf)
  /\ \A k \in 1..(i - 1) : buf[k].sort = "junk"

LEMMA FoundIsWhole ==
  ASSUME IInv, AllFits, Clean, buf # <<>>, Found.valid
  PROVE  /\ WholeAt(Found.from)
         /\ Found.to = Found.from + buf[Found.from].of - 1
<1>1. buf \in Seq(SentBytes) /\ Len(buf) \in Nat /\ 1 \in 1..Len(buf)
  BY FlowType
<1> DEFINE o == buf[1].of
<1>2. o \in Nat /\ buf[1].sort \in SortsOf(kind) /\ 1 + o - 1 = o
      /\ (buf[1].sort # "junk" => o > 4)
  BY <1>1, DataTypes
<1>3. CASE kind = "rtsp"
  <2>1. buf[1].sort \in {"frame", "request"} /\ buf[1].at = 1 /\ o > 4
    BY <1>2, <1>3, FirstBegins DEF SortsOf
  <2>2. Found = ParseRtsp /\ ParseRtsp.valid
    BY <1>3 DEF Found
  <2>3. ParseRtsp = Message(1, o) /\ o <= Len(buf)
    <3>1. CASE buf[1].sort = "frame"
      <4>1. Is(buf[1], "frame") /\ PkgSize(o - 4) + 4 = o
        BY <2>1, <3>1, SizeIsRead DEF Is
      <4> HIDE DEF o
      <4> QED
        BY <2>2, <4>1 DEF ParseRtsp, Nothing, o
    <3>2. CASE buf[1].sort = "request"
      <4>1. ~Is(buf[1], "frame")
        BY <3>2 DEF Is
      <4>2. EmptyLines # {} /\ ParseRtsp = Message(1, Max(EmptyLines))
        BY <2>2, <4>1 DEF ParseRtsp, Nothing
      <4>3. \A i \in EmptyLines : i = o
        BY <3>2, OneEmptyLine
      <4>4. EmptyLines \in SUBSET Nat /\ \A i \in EmptyLines : i <= Len(buf)
        BY <1>1 DEF EmptyLines
      <4>5. Max(EmptyLines) \in EmptyLines
        BY <1>1, <4>2, <4>4, MaxIsGreatest
      <4> QED
        BY <4>2, <4>3, <4>4, <4>5
    <3> QED
      BY <2>1, <3>1, <3>2
  <2>4. Found.from = 1 /\ Found.to = o
    BY <2>2, <2>3 DEF Message
  <2> HIDE DEF o
  <2>5. WholeAt(1)
    BY <1>1, <1>2, <2>1, <2>3 DEF WholeAt, o
  <2> QED
    BY <1>2, <2>4, <2>5 DEF o
<1>4. CASE kind # "rtsp"
  <2>1. kind = "json" /\ Found = ParseJson /\ ParseJson.valid
    BY <1>4, TcpCacherAssumption DEF Found, IInv, TypeOK
  <2> DEFINE S == {k \in 1..(Len(buf) + 1) : ~Skips(k)}
             i == Min(S)
  <2>2. S \in SUBSET Nat /\ S # {}
    <3>1. Len(buf) + 1 \in S
      BY <1>1 DEF Skips
    <3> QED
      BY <1>1, <3>1
  <2>3. i \in S /\ \A k \in S : i <= k
    BY <2>2, MinIsLeast
  <2>4. i \in 1..(Len(buf) + 1) /\ ~Skips(i)
    BY <2>3
  <2>5. \A k \in 1..(i - 1) : Skips(k)
    <3> SUFFICES ASSUME NEW k \in 1..(i - 1), ~Skips(k) PROVE FALSE
      OBVIOUS
    <3>1. k \in 1..(Len(buf) + 1) /\ ~(i <= k)
      BY <1>1, <2>4
    <3> QED
      BY <2>3, <3>1
  <2>6. ParseJson = IF i + 4 <= Len(buf) /\ i + buf[i].of - 1 <= Len(buf)
                    THEN Message(i, i + buf[i].of - 1) ELSE Nothing(i - 1)
    BY DEF ParseJson
  <2> HIDE DEF S, i
  <2>7. /\ i + 4 <= Len(buf) /\ i + buf[i].of - 1 <= Len(buf)
        /\ ParseJson = Message(i, i + buf[i].of - 1)
    BY <2>1, <2>6 DEF Nothing
  <2>8. i \in 1..Len(buf) /\ buf[i].sort = "json" /\ buf[i].at = 1
    BY <1>1, <2>4, <2>7 DEF Skips, Is
  <2>9. \A k \in 1..(i - 1) : buf[k].sort = "junk"
    BY <2>1, <2>4, <2>5, SkipsAreJunk
  <2>10. WholeAt(i)
    BY <2>7, <2>8, <2>9 DEF WholeAt
  <2> QED
    BY <2>1, <2>7, <2>10 DEF Message
<1> QED
  BY <1>3, <1>4

\* What is dropped is junk, and what is left ends with a part of a message.
LEMMA OnlyJunkIsDropped ==
  ASSUME IInv, AllFits, Clean, buf # <<>>, ~Found.valid
  PROVE  /\ Found.junk \in 0..Len(buf)
         /\ \A k \in 1..Found.junk : buf[k].sort = "junk"
         /\ Len(buf) - Found.junk <= MaxRequest =>
              \A k \in (Found.junk + 1)..Len(buf) : buf[k].at = buf[k].of => buf[k].sort = "junk"
<1>1. buf \in Seq(SentBytes) /\ Len(buf) \in Nat /\ 1 \in 1..Len(buf) /\ MaxRequest \in Nat
  BY FlowType, TcpCacherAssumption
<1> DEFINE o == buf[1].of
<1>2. o \in Nat /\ buf[1].sort \in SortsOf(kind) /\ 1 + o - 1 = o
      /\ (buf[1].sort # "junk" => o > 4)
  BY <1>1, DataTypes
<1>3. CASE kind = "rtsp"
  <2>1. buf[1].sort \in {"frame", "request"} /\ buf[1].at = 1 /\ o > 4
    BY <1>2, <1>3, FirstBegins DEF SortsOf
  <2>2. Found = ParseRtsp /\ ~ParseRtsp.valid
    BY <1>3 DEF Found
  <2>3. ParseRtsp = Nothing(0) /\ (Len(buf) <= MaxRequest => Len(buf) < o)
    <3>1. CASE buf[1].sort = "frame"
      <4>1. Is(buf[1], "frame") /\ PkgSize(o - 4) + 4 = o
        BY <2>1, <3>1, SizeIsRead DEF Is
      <4>2. ParseRtsp = IF Len(buf) >= 4 /\ Len(buf) >= o THEN Message(1, o) ELSE Nothing(0)
        BY <4>1 DEF ParseRtsp
      <4> HIDE DEF o
      <4>3. ~(Len(buf) >= 4 /\ Len(buf) >= o) /\ ParseRtsp = Nothing(0)
        BY <2>2, <4>2 DEF Message
      <4> QED
        BY <1>1, <1>2, <2>1, <4>3
    <3>2. CASE buf[1].sort = "request"
      <4>1. ~Is(buf[1], "frame")
        BY <3>2 DEF Is
      <4>2. ParseRtsp = IF Len(buf) - 1 <= MaxRequest /\ EmptyLines # {}
                        THEN Message(1, Max(EmptyLines)) ELSE Nothing(0)
        BY <4>1 DEF ParseRtsp
      <4>3. ParseRtsp = Nothing(0) /\ ~(Len(buf) - 1 <= MaxRequest /\ EmptyLines # {})
        BY <2>2, <4>2 DEF Message
      <4>4. o <= Len(buf) => EmptyLines # {}
        BY <3>2, OneEmptyLine
      <4> HIDE DEF o
      <4> QED
        BY <1>1, <1>2, <4>3, <4>4
    <3> QED
      BY <2>1, <3>1, <3>2
  <2>4. Found.junk = 0
    BY <2>2, <2>3 DEF Nothing
  <2>5. ASSUME Len(buf) <= MaxRequest, NEW k \in 1..Len(buf)
        PROVE  buf[k].at # buf[k].of
    <3>1. Len(buf) < 1 + o - 1
      BY <1>2, <2>3, <2>5
    <3> QED
      BY <1>1, <2>1, <2>5, <3>1, NoEndInside
  <2> QED
    BY <1>1, <2>4, <2>5
<1>4. CASE kind # "rtsp"
  <2>1. kind = "json" /\ Found = ParseJson /\ ~ParseJson.valid
    BY <1>4, TcpCacherAssumption DEF Found, IInv, TypeOK
  <2> DEFINE S == {k \in 1..(Len(buf) + 1) : ~Skips(k)}
             i == Min(S)
  <2>2. S \in SUBSET Nat /\ S # {}
    <3>1. Len(buf) + 1 \in S
      BY <1>1 DEF Skips
    <3> QED
      BY <1>1, <3>1
  <2>3. i \in S /\ \A k \in S : i <= k
    BY <2>2, MinIsLeast
  <2>4. i \in 1..(Len(buf) + 1) /\ ~Skips(i)
    BY <2>3
  <2>5. \A k \in 1..(i - 1) : Skips(k)
    <3> SUFFICES ASSUME NEW k \in 1..(i - 1), ~Skips(k) PROVE FALSE
      OBVIOUS
    <3>1. k \in 1..(Len(buf) + 1) /\ ~(i <= k)
      BY <1>1, <2>4
    <3> QED
      BY <2>3, <3>1
  <2>6. ParseJson = IF i + 4 <= Len(buf) /\ i + buf[i].of - 1 <= Len(buf)
                    THEN Message(i, i + buf[i].of - 1) ELSE Nothing(i - 1)
    BY DEF ParseJson
  <2> HIDE DEF S, i
  <2>7. ~(i + 4 <= Len(buf) /\ i + buf[i].of - 1 <= Len(buf)) /\ ParseJson = Nothing(i - 1)
    BY <2>1, <2>6 DEF Message
  <2>8. Found.junk = i - 1 /\ i - 1 \in 0..Len(buf) /\ (i - 1) + 1 = i /\ i \in Nat
    BY <1>1, <2>1, <2>4, <2>7 DEF Nothing
  <2>9. \A k \in 1..(i - 1) : buf[k].sort = "junk"
    BY <2>1, <2>4, <2>5, SkipsAreJunk
  <2>10. ASSUME NEW k \in i..Len(buf), buf[k].at = buf[k].of, buf[k].sort # "junk"
         PROVE  FALSE
    <3>1. k \in 1..Len(buf) /\ i \in 1..Len(buf) /\ i <= k /\ k <= Len(buf) /\ k \in Nat
      BY <1>1, <2>8, <2>10, <2>4
    <3> DEFINE e == buf[k].at
    <3>2. e \in Nat /\ e > 4 /\ buf[k] = Flow[k] /\ k \in 1..Len(Flow)
      BY <2>10, <3>1, DataTypes
    <3>3. CASE i + 4 <= Len(buf)
      <4>1. buf[i].sort = "json" /\ buf[i].at = 1
        BY <2>4, <3>3 DEF Skips, Is
      <4>2. buf[i].of \in Nat /\ ~(i + buf[i].of - 1 <= Len(buf))
        BY <2>7, <3>1, <3>3, DataTypes
      <4>3. Len(buf) < i + buf[i].of - 1
        BY <1>1, <2>8, <4>2
      <4> QED
        BY <2>10, <3>1, <4>1, <4>3, NoEndInside
    <3>4. CASE ~(i + 4 <= Len(buf)) /\ i = 1
      <4> DEFINE a == buf[1].at
      <4>1. /\ buf[1] = Flow[1] /\ 1 \in 1..Len(Flow) /\ a \in Nat /\ o \in Nat /\ a <= o
            /\ buf[1].sort = sent[buf[1].no].sort /\ buf[k].sort = sent[buf[k].no].sort
        BY <1>1, <3>1, DataTypes
      <4>2. Placed(Flow, 1, k)
        BY <3>1, <3>2, <4>1 DEF AllFits, FlowFits
      <4>3. CASE buf[1].no = buf[k].no /\ e = a + (k - 1)
        <5>1. a = 1
          BY <2>10, <4>1, <4>3, FirstBegins
        <5> HIDE DEF a, e, o
        <5> QED
          BY <1>1, <3>1, <3>2, <3>4, <4>3, <5>1
      <4>4. CASE 1 + (o - a) + e <= k
        <5> HIDE DEF a, e, o
        <5> QED
          BY <1>1, <3>1, <3>2, <3>4, <4>1, <4>4
      <4> QED
        BY <3>2, <4>1, <4>2, <4>3, <4>4 DEF Placed
    <3>5. CASE ~(i + 4 <= Len(buf)) /\ i # 1
      <4> DEFINE q == i - 1
                 a == buf[q].at
                 p == buf[q].of
      <4>1. q \in 1..Len(buf) /\ q \in 1..(i - 1) /\ q <= k /\ q \in Nat /\ i = q + 1
        BY <1>1, <3>1, <3>5, <2>8
      <4> HIDE DEF q
      <4>2. /\ buf[q] = Flow[q] /\ q \in 1..Len(Flow) /\ a \in Nat /\ p \in Nat /\ a <= p
            /\ buf[q].sort = sent[buf[q].no].sort /\ buf[k].sort = sent[buf[k].no].sort
        BY <3>1, <4>1, DataTypes
      <4>3. Placed(Flow, q, k)
        BY <3>2, <4>1, <4>2 DEF AllFits, FlowFits
      <4>4. buf[q].no # buf[k].no
        BY <2>9, <2>10, <4>1, <4>2
      <4>5. q + (p - a) + e <= k
        BY <3>2, <4>2, <4>3, <4>4 DEF Placed
      <4> HIDE DEF a, e, p
      <4> QED
        BY <1>1, <3>1, <3>2, <3>5, <4>1, <4>2, <4>5
    <3> QED
      BY <3>3, <3>4, <3>5
  <2> QED
    BY <2>8, <2>9, <2>10
<1> QED
  BY <1>3, <1>4

-----------------------------------------------------------------------------
(* Taking and dropping.                                                    *)

LEMMA DropFlow ==
  ASSUME IInv, NEW k \in 0..Len(buf)
  PROVE  SubSeq(buf, k + 1, Len(buf)) \o wire = SubSeq(Flow, k + 1, Len(Flow))
<1> DEFINE B == SubSeq(buf, k + 1, Len(buf))
           G == SubSeq(Flow, k + 1, Len(Flow))
<1>1. /\ Flow \in Seq(SentBytes) /\ Len(Flow) = Len(buf) + Len(wire)
      /\ Len(Flow) \in Nat /\ Len(buf) \in Nat /\ Len(wire) \in Nat
      /\ buf \in Seq(SentBytes) /\ wire \in Seq(SentBytes)
      /\ (\A i \in 1..Len(buf) : Flow[i] = buf[i])
      /\ (\A i \in 1..Len(wire) : Flow[Len(buf) + i] = wire[i])
  BY FlowType
<1>2. ASSUME NEW q \in Seq(SentBytes), k \in 0..Len(q)
      PROVE  /\ SubSeq(q, k + 1, Len(q)) \in Seq(SentBytes)
             /\ Len(SubSeq(q, k + 1, Len(q))) = Len(q) - k
             /\ \A i \in 1..(Len(q) - k) : SubSeq(q, k + 1, Len(q))[i] = q[k + i]
  <2> DEFINE T == SubSeq(q, k + 1, Len(q))
  <2>1. Len(q) \in Nat /\ k \in Nat /\ k + 1 \in Nat \ {0} /\ Len(q) \in 0..Len(q) /\ k <= Len(q)
    BY <1>2
  <2>2. T \in Seq(SentBytes)
        /\ Len(T) = IF k + 1 <= Len(q) THEN Len(q) - (k + 1) + 1 ELSE 0
    BY <2>1, PartOf
  <2>3. Len(T) = Len(q) - k
    BY <2>1, <2>2
  <2>4. ASSUME NEW i \in 1..(Len(q) - k) PROVE T[i] = q[k + i]
    <3>1. (k + 1) + i - 1 = k + i
      BY <2>1
    <3> QED
      BY <2>1, <2>3, <3>1
  <2> QED
    BY <2>2, <2>3, <2>4
<1>3. /\ B \in Seq(SentBytes) /\ Len(B) = Len(buf) - k
      /\ \A i \in 1..(Len(buf) - k) : B[i] = buf[k + i]
  BY <1>1, <1>2
<1>4. /\ G \in Seq(SentBytes) /\ Len(G) = Len(Flow) - k
      /\ \A i \in 1..(Len(Flow) - k) : G[i] = Flow[k + i]
  <2>1. k \in 0..Len(Flow)
    BY <1>1
  <2> QED
    BY <1>1, <1>2, <2>1
<1> HIDE DEF B, G
<1>5. /\ B \o wire \in Seq(SentBytes) /\ Len(B \o wire) = Len(B) + Len(wire)
      /\ \A i \in 1..(Len(B) + Len(wire)) :
           (B \o wire)[i] = IF i <= Len(B) THEN B[i] ELSE wire[i - Len(B)]
  BY <1>1, <1>3, ConcatProperties
<1>6. k \in Nat /\ k <= Len(buf)
  BY <1>1
<1>7. Len(B \o wire) = Len(G)
  BY <1>1, <1>3, <1>4, <1>5, <1>6
<1>8. ASSUME NEW i \in 1..Len(G) PROVE (B \o wire)[i] = G[i]
  <2>1. i \in 1..(Len(Flow) - k) /\ i \in 1..(Len(B) + Len(wire)) /\ G[i] = Flow[k + i]
    BY <1>1, <1>3, <1>4, <1>6
  <2>2. CASE i <= Len(B)
    <3>1. k + i \in 1..Len(buf) /\ i \in 1..(Len(buf) - k)
      BY <1>1, <1>3, <1>6, <2>1, <2>2
    <3> QED
      BY <1>1, <1>3, <1>5, <2>1, <2>2, <3>1
  <2>3. CASE ~(i <= Len(B))
    <3>1. i - Len(B) \in 1..Len(wire) /\ Len(buf) + (i - Len(B)) = k + i
      BY <1>1, <1>3, <1>6, <2>1, <2>3
    <3>2. Flow[k + i] = wire[i - Len(B)]
      BY <1>1, <3>1
    <3> QED
      BY <1>5, <2>1, <2>3, <3>2
  <2> QED
    BY <2>2, <2>3
<1>9. B \o wire = G
  BY <1>4, <1>5, <1>7, <1>8, SeqEqual
<1> QED
  BY <1>9 DEF B, G

\* The flow after that.
LEMMA FlowDrops ==
  ASSUME IInv, AllFits, NEW k \in 0..Len(buf), buf' = SubSeq(buf, k + 1, Len(buf)),
         UNCHANGED <<conn, sent, wire>>
  PROVE  /\ FlowFits(Flow)'
         /\ No(Flow, 1)' = No(Flow, k + 1)
         /\ Len(Flow') = Len(Flow) - k
         /\ \A i \in 1..Len(Flow') : Flow'[i] = Flow[k + i]
<1>1. Flow' = SubSeq(Flow, k + 1, Len(Flow))
  BY DropFlow DEF Flow
<1>2. sent \in Seq(Messages) /\ Flow \in Seq(SentBytes) /\ FlowFits(Flow) /\ k \in 0..Len(Flow)
  BY FlowType DEF AllFits
<1> DEFINE T == SubSeq(Flow, k + 1, Len(Flow))
<1>3. /\ Len(T) = Len(Flow) - k
      /\ \A i \in 1..Len(T) : T[i] = Flow[k + i]
      /\ FlowFits(T)
      /\ No(T, 1) = No(Flow, k + 1)
  BY <1>2, SuffixFits
<1> HIDE DEF T
<1>4. Flow' = T
  BY <1>1 DEF T
<1>5. FlowFits(Flow)'
  BY <1>3, <1>4 DEF FlowFits, OfItsMessage, Placed, No
<1>6. No(Flow, 1)' = No(T, 1)
  BY <1>4 DEF No
<1> QED
  BY <1>3, <1>4, <1>5, <1>6

\* A part of the flow from the beginning of a message to its end is that message.
LEMMA MessageIsCut ==
  ASSUME IInv, AllFits, NEW i \in Nat, WholeAt(i)
  PROVE  SubSeq(buf, i, i + buf[i].of - 1) = Bytes(buf[i].no, sent[buf[i].no])
<1> DEFINE o == buf[i].of
           n == buf[i].no
           to == i + o - 1
           B == SubSeq(buf, i, to)
           M == Bytes(n, sent[n])
<1>1. /\ i \in 1..Len(buf) /\ buf[i].at = 1 /\ to <= Len(buf)
      /\ buf \in Seq(SentBytes) /\ Len(buf) \in Nat /\ sent \in Seq(Messages)
  BY FlowType DEF WholeAt
<1>2. /\ o \in Nat /\ 1 <= o /\ n \in 1..Len(sent) /\ o = sent[n].size /\ i \in Nat \ {0}
      /\ buf[i] = Flow[i] /\ i \in 1..Len(Flow)
  BY <1>1, DataTypes
<1>3. sent[n] \in Messages
  BY <1>1, <1>2
<1>4. Len(M) = o /\ M = [d \in 1..o |-> [conn |-> conn, no |-> n, sort |-> sent[n].sort,
                                         at |-> d, of |-> o]]
  BY <1>2, <1>3, BytesType DEF Bytes
<1>a. to = i + o - 1
  OBVIOUS
<1> HIDE DEF o, n, M, to
<1>b. o \in Nat /\ 1 <= o
  BY <1>2
<1>c. to <= Len(buf) /\ Len(buf) \in Nat
  BY <1>1
<1>5. to \in 0..Len(buf) /\ to \in Nat /\ i <= to /\ to - i + 1 = o
  <2> DEFINE L == Len(buf)
  <2>1. to <= L /\ L \in Nat
    BY <1>c
  <2> HIDE DEF L
  <2>2. to \in 0..L /\ to \in Nat /\ i <= to /\ to - i + 1 = o
    BY <1>a, <1>b, <2>1
  <2> QED
    BY <2>2 DEF L
<1>6. B \in Seq(SentBytes) /\ Len(B) = o
  <2>1. B \in Seq(SentBytes) /\ Len(B) = IF i <= to THEN to - i + 1 ELSE 0
    BY <1>1, <1>2, <1>5, PartOf
  <2> QED
    BY <1>5, <2>1
<1>7. ASSUME NEW d \in 1..o PROVE B[d] = M[d]
  <2> DEFINE j == i + d - 1
  <2>a. i \in Nat \ {0}
    BY <1>2
  <2>1. j \in i..Len(buf) /\ j \in 1..Len(buf) /\ j < i + o /\ 1 + (j - i) = d
    <3> DEFINE L == Len(buf)
    <3>1. to <= L /\ L \in Nat
      BY <1>c
    <3> HIDE DEF L
    <3>2. j \in i..L /\ j \in 1..L /\ j < i + o /\ 1 + (j - i) = d
      BY <1>a, <1>b, <2>a, <3>1
    <3> QED
      BY <3>2 DEF L
  <2>b. d \in 1..(to - i + 1)
    BY <1>5
  <2>2. B[d] = buf[j]
    BY <1>1, <2>a, <1>5, <2>b
  <2> HIDE DEF j
  <2>3. buf[j].no = n /\ buf[j].at = d /\ buf[j].of = o
    BY <1>1, <2>1, MessageFollows DEF n, o
  <2>4. buf[j].sort = sent[n].sort /\ buf[j] = Flow[j] /\ j \in 1..Len(Flow)
    BY <2>1, <2>3, DataTypes
  <2>5. buf[j].conn = conn
    BY <2>4 DEF AllFits, FlowFits, OfItsMessage
  <2>6. buf[j] \in SentBytes
    BY <1>1, <2>1
  <2>7. buf[j] = [conn |-> buf[j].conn, no |-> buf[j].no, sort |-> buf[j].sort,
                  at |-> buf[j].at, of |-> buf[j].of]
    BY <2>6 DEF SentBytes
  <2> QED
    BY <1>4, <2>2, <2>3, <2>4, <2>5, <2>7
<1>8. B = [d \in 1..o |-> B[d]]
  <2>1. B \in [1..o -> SentBytes]
    <3> HIDE DEF B
    <3> QED
      BY <1>6
  <2> HIDE DEF B
  <2> QED
    BY <2>1
<1>9. B = M
  <2> HIDE DEF B
  <2> DEFINE R(d) == [conn |-> conn, no |-> n, sort |-> sent[n].sort, at |-> d, of |-> o]
  <2>1. M = [d \in 1..o |-> R(d)]
    BY <1>4
  <2>2. \A d \in 1..o : B[d] = R(d)
    <3>1. \A d \in 1..o : M[d] = R(d)
      BY <2>1
    <3> HIDE DEF R
    <3> QED
      BY <1>7, <3>1
  <2> HIDE DEF R
  <2>3. [d \in 1..o |-> B[d]] = [d \in 1..o |-> R(d)]
    BY <2>2
  <2> QED
    BY <1>8, <2>1, <2>3, Zenon
<1> QED
  BY <1>9 DEF M, n, o, to

LEMMA TakeFits ==
  ASSUME IInv, AllFits, Clean, TakeMessage
  PROVE  AllFits'
<1>1. PICK i, to, n, o, g, cut, lb, lf, ls :
         /\ i = Found.from /\ to = Found.to /\ n = buf[i].no /\ o = buf[i].of
         /\ g = Len(got) /\ cut = SubSeq(buf, i, to)
         /\ lb = Len(buf) /\ lf = Len(Flow) /\ ls = Len(sent)
  OBVIOUS
<1>2. /\ WholeAt(i) /\ to = i + o - 1
      /\ got' = Append(got, cut) /\ buf' = SubSeq(buf, to + 1, Len(buf))
      /\ UNCHANGED <<kind, conn, sent, wire>> /\ phase' = "scan"
  BY <1>1, FoundIsWhole DEF TakeMessage, peer
<1>3. /\ sent \in Seq(Messages) /\ Flow \in Seq(SentBytes) /\ buf \in Seq(SentBytes)
      /\ FlowFits(Flow) /\ got \in Seq(Seq(SentBytes) \ {<<>>}) /\ DOMAIN sent = 1..ls
  BY <1>1, FlowType DEF AllFits
<1>4. /\ lb \in Nat /\ lf \in Nat /\ ls \in Nat /\ g \in Nat /\ lb <= lf
      /\ DOMAIN got = 1..g
  <2>1. lb \in Nat /\ lf \in Nat /\ ls \in Nat /\ lf = lb + Len(wire) /\ Len(wire) \in Nat
    BY <1>1, FlowType
  <2>2. g \in Nat /\ DOMAIN got = 1..g
    BY <1>1, <1>3
  <2> QED
    BY <2>1, <2>2
<1>5. /\ i \in 1..lb /\ buf[i].at = 1 /\ sent[n].sort # "junk"
      /\ i \in Nat /\ 1 <= i /\ i <= lb /\ i \in 1..lf
      /\ \A k \in 1..(i - 1) : buf[k].sort = "junk"
      /\ o \in Nat /\ 1 <= o /\ n \in 1..ls /\ o = sent[n].size /\ buf[i] = Flow[i]
  <2>1. i \in 1..lb /\ buf[i].at = 1 /\ buf[i].sort # "junk"
        /\ \A k \in 1..(i - 1) : buf[k].sort = "junk"
    BY <1>1, <1>2 DEF WholeAt
  <2> QED
    BY SMTT(30), <1>1, <1>4, <2>1, DataTypes
<1>6. /\ n \in Nat /\ 1 <= n /\ n <= ls /\ i + o - 1 <= lb
  <2>1. i + buf[i].of - 1 <= Len(buf)
    BY <1>2 DEF WholeAt
  <2>2. i + o - 1 <= lb
    BY <1>1, <2>1
  <2>3. n \in 1..ls /\ ls \in Nat
    BY <1>4, <1>5
  <2> QED
    BY <2>2, <2>3
<1>7. /\ to \in 1..lb /\ to \in 0..lb /\ to \in Nat /\ i <= to /\ to < i + o
      /\ 1 + (to - i) = o /\ to \in 1..lf /\ to \in i..lb
  <2>1. to = i + o - 1 /\ i + o - 1 <= lb /\ i \in Nat /\ 1 <= i /\ o \in Nat /\ 1 <= o
    BY <1>2, <1>5, <1>6
  <2>2. lb \in Nat /\ lf \in Nat /\ lb <= lf
    BY <1>4
  <2> QED
    BY <2>1, <2>2
<1>8. cut = Bytes(n, sent[n])
  <2>1. to = i + buf[i].of - 1
    BY <1>1, <1>2
  <2>2. SubSeq(buf, i, i + buf[i].of - 1) = Bytes(buf[i].no, sent[buf[i].no])
    BY <1>2, <1>5, MessageIsCut
  <2> QED
    BY <1>1, <2>1, <2>2
<1>9. cut \in Seq(SentBytes) \ {<<>>} /\ cut[1].no = n
  <2>1. cut \in Seq(SentBytes)
    BY SMTT(30), <1>1, <1>3, <1>5, <1>7, PartOf
  <2>2. sent[n] \in Messages
    BY <1>1, <1>3, <1>5
  <2>3. Len(cut) = o /\ cut[1].no = n
    BY <1>5, <1>8, <2>2, BytesType
  <2> QED
    BY <1>5, <2>1, <2>3
<1>10. /\ FlowFits(Flow)' /\ No(Flow, 1)' = No(Flow, to + 1)
       /\ Len(Flow') = lf - to
       /\ \A k \in 1..Len(Flow') : Flow'[k] = Flow[to + k]
  <2>1. to \in 0..Len(buf) /\ UNCHANGED <<conn, sent, wire>>
    BY <1>1, <1>2, <1>7
  <2> QED
    BY <1>1, <1>2, <2>1, FlowDrops
<1>11. Flow[to].no = n /\ Flow[to].at = o /\ Flow[to].of = o
  <2>1. buf[to].no = n /\ buf[to].at = o /\ buf[to].of = o
    BY <1>1, <1>5, <1>7, MessageFollows
  <2> QED
    BY <1>1, <1>7, <2>1, DataTypes
<1>12. No(Flow, to + 1) = n + 1 /\ (to < lf => Flow[to + 1].at = 1)
  <2>1. CASE to < lf
    <3>1. Flow[to + 1].at = 1 /\ Flow[to + 1].no = n + 1
      BY <1>1, <1>3, <1>7, <1>11, <2>1, NextBegins
    <3>2. to + 1 \in 1..lf
      BY <1>4, <1>7, <2>1
    <3> QED
      BY <1>1, <3>1, <3>2 DEF No
  <2>2. CASE ~(to < lf)
    <3>1. ~(to + 1 \in 1..lf)
      BY <1>4, <1>7, <2>2
    <3>2. No(Flow, to + 1) = ls + 1
      BY <1>1, <3>1 DEF No
    <3>3. No(Flow, to + 1) <= n + 1
      BY <1>1, <1>3, <1>7, <1>11 DEF FlowFits
    <3>4. n = ls
      BY <1>4, <1>6, <3>2, <3>3
    <3> QED
      BY <2>2, <3>2, <3>4
  <2> QED
    BY <2>1, <2>2
<1>13. No(Flow, i) = n /\ No(Flow, 1) <= n /\ No(Flow, 1) \in Nat \ {0}
  <2>1. No(Flow, i) = n
    BY <1>1, <1>5 DEF No
  <2>2. 1 \in 1..(lf + 1) /\ i \in 1..(lf + 1) /\ 1 <= i
    BY <1>4, <1>5
  <2> QED
    BY <1>1, <1>3, <2>1, <2>2, NumbersRise
<1>14. \A m \in No(Flow, 1)..(n - 1) : sent[m].sort = "junk"
  <2>1. \A k \in 1..(i - 1) : Flow[k].sort = "junk"
    <3> SUFFICES ASSUME NEW k \in 1..(i - 1) PROVE Flow[k].sort = "junk"
      OBVIOUS
    <3>1. k \in 1..lb
      BY <1>4, <1>5
    <3> QED
      BY <1>1, <1>5, <3>1, DataTypes
  <2>2. i \in 1..(lf + 1)
    BY <1>4, <1>5
  <2> QED
    BY <1>1, <1>3, <1>13, <2>1, <2>2, SkippedAreJunk
<1>15. /\ got' \in Seq(Seq(SentBytes) \ {<<>>}) /\ Len(got') = g + 1
       /\ DOMAIN got' = 1..(g + 1)
       /\ \A k \in 1..g : got'[k] = got[k]
       /\ got'[g + 1] = cut
  <2> DEFINE S == Seq(SentBytes) \ {<<>>}
  <2>1. got \in Seq(S) /\ cut \in S /\ g = Len(got) /\ got' = Append(got, cut) /\ g \in Nat
    BY <1>1, <1>2, <1>3, <1>4, <1>9
  <2> HIDE DEF S
  <2>2. /\ got' \in Seq(S) /\ Len(got') = g + 1 /\ got'[g + 1] = cut
        /\ \A k \in 1..g : got'[k] = got[k]
    BY <2>1, AppendProperties
  <2> QED
    BY <2>2 DEF S
<1>16. (\A k \in 0..g : Number(k)' = Number(k)) /\ Number(g + 1)' = n
  <2>1. \A k \in 0..g : Number(k)' = Number(k)
    BY <1>4, <1>15 DEF Number
  <2>2. g + 1 # 0
    BY <1>4
  <2> QED
    BY <1>9, <1>15, <2>1, <2>2 DEF Number
<1>17. Number(g) \in Nat /\ Number(g) < No(Flow, 1)
       /\ \A k \in 1..g : Number(k) \in Nat /\ Number(k) < No(Flow, 1)
  <2>1. \A k \in 0..g : Number(k) \in Nat
    BY <1>1, <1>3, NumberType
  <2>2. \A k \in 1..g : Number(k) < No(Flow, 1)
    BY <1>4 DEF AllFits, GotBefore
  <2>3. g = 0 => Number(g) = 0
    BY DEF Number
  <2> QED
    BY <1>4, <1>13, <2>1, <2>2, <2>3
<1>18. ASSUME NEW m \in (Number(g) + 1)..(n - 1) PROVE sent[m].sort = "junk"
  <2>1. CASE m < No(Flow, 1)
    <3>1. m \in (Number(g) + 1)..(No(Flow, 1) - 1)
      BY <1>6, <1>13, <1>17, <2>1
    <3> QED
      BY <1>1, <3>1 DEF AllFits, GotBefore
  <2>2. CASE ~(m < No(Flow, 1))
    <3>1. m \in No(Flow, 1)..(n - 1)
      BY <1>6, <1>13, <1>17, <2>2
    <3> QED
      BY <1>14, <3>1
  <2> QED
    BY <2>1, <2>2
<1>19. GotWhole'
  <2>1. ASSUME NEW k, NEW m PROVE Bytes(k, m)' = Bytes(k, m)
    BY <1>2 DEF Bytes
  <2> SUFFICES ASSUME NEW k \in 1..(g + 1)
               PROVE  /\ Number(k)' \in (Number(k - 1)' + 1)..ls
                      /\ sent[Number(k)'].sort # "junk"
                      /\ got'[k] = Bytes(Number(k)', sent[Number(k)'])
                      /\ \A m \in (Number(k - 1)' + 1)..(Number(k)' - 1) : sent[m].sort = "junk"
    BY <1>1, <1>2, <1>15, <2>1 DEF GotWhole
  <2>2. CASE k \in 1..g
    <3>1. k \in 0..g /\ k - 1 \in 0..g
      BY <1>4, <2>2
    <3>2. Number(k)' = Number(k) /\ Number(k - 1)' = Number(k - 1) /\ got'[k] = got[k]
      BY <1>15, <1>16, <2>2, <3>1
    <3> QED
      BY <1>1, <1>4, <2>2, <3>2 DEF AllFits, GotWhole
  <2>3. CASE k = g + 1
    <3>1. k - 1 = g /\ g \in 0..g
      BY <1>4, <2>3
    <3>2. Number(k)' = n /\ Number(k - 1)' = Number(g)
      BY <1>16, <2>3, <3>1
    <3>3. n \in (Number(g) + 1)..ls
      BY <1>4, <1>6, <1>13, <1>17
    <3> QED
      BY <1>5, <1>8, <1>15, <1>18, <2>3, <3>2, <3>3
  <2> QED
    BY <1>4, <2>2, <2>3
<1>20. GotBefore(Flow)'
  <2>1. No(Flow, 1)' = n + 1
    BY <1>10, <1>12
  <2>2. ASSUME NEW k \in 1..(g + 1) PROVE Number(k)' < n + 1
    <3>1. CASE k = g + 1
      <4>1. Number(k)' = n
        BY <1>16, <3>1
      <4> QED
        BY <1>6, <4>1
    <3>2. CASE k # g + 1
      <4>1. k \in 1..g /\ k \in 0..g
        BY <1>4, <3>2
      <4>2. Number(k)' = Number(k) /\ Number(k) \in Nat /\ Number(k) < No(Flow, 1)
        BY <1>16, <1>17, <4>1
      <4> QED
        BY <1>6, <1>13, <4>2
    <3> QED
      BY <3>1, <3>2
  <2>3. Number(Len(got))' = n
    <3>1. Number(Len(got))' = Number(g + 1)'
      BY <1>15 DEF Number
    <3> QED
      BY <1>16, <3>1
  <2>4. ~(\E m : m \in (n + 1)..((n + 1) - 1))
    BY <1>6
  <2>5. Flow' # <<>> => Flow'[1].at = 1
    <3> SUFFICES ASSUME Flow' # <<>> PROVE Flow'[1].at = 1
      OBVIOUS
    <3>1. Len(Flow') # 0 /\ Len(Flow') \in Nat
      <4>1. Flow' = SubSeq(Flow, to + 1, lf)
        <5>1. Flow' = SubSeq(buf, to + 1, Len(buf)) \o wire
          BY <1>2 DEF Flow
        <5>2. to \in 0..Len(buf)
          BY <1>1, <1>7
        <5> QED
          BY <1>1, <5>1, <5>2, DropFlow
      <4>2. to + 1 \in Nat \ {0} /\ lf \in 0..lf
        BY <1>4, <1>7
      <4>3. Flow' \in Seq(SentBytes)
        BY <1>1, <1>3, <4>1, <4>2, PartOf
      <4> QED
        BY <4>3
    <3>2. 1 \in 1..Len(Flow') /\ to < lf
      BY <1>4, <1>7, <1>10, <3>1
    <3> QED
      BY <1>10, <1>12, <3>2
  <2> QED
    BY <1>2, <1>15, <2>1, <2>2, <2>3, <2>4, <2>5 DEF GotBefore
<1>21. SortsFit(Flow)'
  <2>1. No(Flow, 1)' = n + 1
    BY <1>10, <1>12
  <2>2. \A m \in DOMAIN sent : m >= n + 1 => m >= No(Flow, 1)
    BY <1>3, <1>4, <1>6, <1>13
  <2> QED
    BY <1>2, <2>1, <2>2 DEF AllFits, SortsFit, SortsOf
<1>22. NoEnd' /\ got' \in (Seq(Seq(SentBytes) \ {<<>>}))'
  BY <1>2, <1>15 DEF NoEnd, SentBytes
<1> QED
  BY <1>10, <1>19, <1>20, <1>21, <1>22 DEF AllFits

LEMMA EndScanFits ==
  ASSUME IInv, AllFits, Clean, EndScan
  PROVE  AllFits'
<1>1. PICK k, lb, lf, ls, g :
         /\ k = IF buf = <<>> THEN 0 ELSE Found.junk
         /\ lb = Len(buf) /\ lf = Len(Flow) /\ ls = Len(sent) /\ g = Len(got)
  OBVIOUS
<1>2. /\ buf # <<>> => ~Found.valid
      /\ buf' = SubSeq(buf, k + 1, Len(buf))
      /\ UNCHANGED <<kind, conn, sent, wire, got>> /\ phase' = "handle"
  BY <1>1 DEF EndScan, peer, Clean, InMiddle
<1>3. /\ sent \in Seq(Messages) /\ Flow \in Seq(SentBytes) /\ buf \in Seq(SentBytes)
      /\ FlowFits(Flow) /\ got \in Seq(Seq(SentBytes) \ {<<>>}) /\ DOMAIN sent = 1..ls
      /\ DOMAIN got = 1..g /\ g \in Nat
  BY <1>1, FlowType DEF AllFits
<1>4. lb \in Nat /\ lf \in Nat /\ ls \in Nat /\ lb <= lf
  <2>1. lb \in Nat /\ lf \in Nat /\ ls \in Nat /\ lf = lb + Len(wire) /\ Len(wire) \in Nat
    BY <1>1, FlowType
  <2> QED
    BY <2>1
<1>5. /\ k \in 0..lb /\ (\A j \in 1..k : buf[j].sort = "junk")
      /\ lb - k <= MaxRequest =>
           \A j \in (k + 1)..lb : buf[j].at = buf[j].of => buf[j].sort = "junk"
  <2>1. CASE buf = <<>>
    BY <1>1, <1>4, <2>1
  <2>2. CASE buf # <<>>
    BY <1>1, <1>2, <2>2, OnlyJunkIsDropped
  <2> QED
    BY <2>1, <2>2
<1>6. k \in Nat /\ k <= lb /\ k + 1 \in 1..(lf + 1) /\ 1 \in 1..(lf + 1)
  BY <1>4, <1>5
<1>7. /\ FlowFits(Flow)' /\ No(Flow, 1)' = No(Flow, k + 1)
      /\ Len(Flow') = lf - k
      /\ \A j \in 1..Len(Flow') : Flow'[j] = Flow[k + j]
  <2>1. k \in 0..Len(buf) /\ UNCHANGED <<conn, sent, wire>>
    BY <1>1, <1>2, <1>5
  <2> QED
    BY <1>1, <1>2, <2>1, FlowDrops
<1>8. /\ No(Flow, 1) <= No(Flow, k + 1) /\ No(Flow, 1) \in Nat \ {0}
      /\ No(Flow, k + 1) \in Nat \ {0}
  <2>1. 1 <= k + 1
    BY <1>6
  <2> QED
    BY <1>1, <1>3, <1>6, <2>1, NumbersRise
<1>9. \A j \in 1..k : Flow[j].sort = "junk" /\ j \in 1..lf
  <2> SUFFICES ASSUME NEW j \in 1..k PROVE Flow[j].sort = "junk" /\ j \in 1..lf
    OBVIOUS
  <2>1. j \in 1..lb
    BY <1>4, <1>6
  <2> QED
    BY <1>1, <1>5, <2>1, DataTypes
<1>10. \A m \in No(Flow, 1)..(No(Flow, k + 1) - 1) : sent[m].sort = "junk"
  <2>1. \A p \in 1..((k + 1) - 1) : Flow[p].sort = "junk"
    BY <1>6, <1>9
  <2> QED
    BY <1>1, <1>3, <1>6, <2>1, SkippedAreJunk
<1>11. \A i \in 0..g : Number(i)' = Number(i) /\ Number(i) \in Nat
  <2>1. \A i \in 0..g : Number(i) \in Nat
    BY <1>1, <1>3, NumberType
  <2>2. \A i \in 0..g : Number(i)' = Number(i)
    BY <1>2 DEF Number
  <2> QED
    BY <2>1, <2>2
<1>12. GotWhole'
  <2>1. ASSUME NEW i PROVE Number(i)' = Number(i)
    BY <1>2 DEF Number
  <2>2. ASSUME NEW n, NEW m PROVE Bytes(n, m)' = Bytes(n, m)
    BY <1>2 DEF Bytes
  <2> QED
    BY <1>2, <2>1, <2>2 DEF AllFits, GotWhole
<1>13. GotBefore(Flow)'
  <2>1. No(Flow, 1)' = No(Flow, k + 1)
    BY <1>7
  <2>2. ASSUME NEW i \in 1..g PROVE Number(i)' < No(Flow, k + 1)
    <3>1. i \in 0..g
      BY <1>3
    <3>2. Number(i)' = Number(i) /\ Number(i) \in Nat /\ Number(i) < No(Flow, 1)
      BY <1>3, <1>11, <3>1 DEF AllFits, GotBefore
    <3> QED
      BY <1>8, <3>2
  <2>3. Number(Len(got))' = Number(g)
    BY <1>1, <1>2 DEF Number
  <2>4. ASSUME NEW m \in (Number(g) + 1)..(No(Flow, k + 1) - 1) PROVE sent[m].sort = "junk"
    <3>1. Number(g) \in Nat
      BY <1>3, <1>11
    <3>2. CASE m < No(Flow, 1)
      <4>1. m \in (Number(g) + 1)..(No(Flow, 1) - 1)
        BY <1>8, <3>1, <3>2
      <4> QED
        BY <1>1, <4>1 DEF AllFits, GotBefore
    <3>3. CASE ~(m < No(Flow, 1))
      <4>1. m \in No(Flow, 1)..(No(Flow, k + 1) - 1)
        BY <1>8, <3>1, <3>3
      <4> QED
        BY <1>10, <4>1
    <3> QED
      BY <3>2, <3>3
  <2>5. ASSUME Flow' # <<>>, Flow'[1].sort # "junk" PROVE Flow'[1].at = 1
    <3>1. Len(Flow') # 0 /\ Len(Flow') \in Nat
      <4>1. Flow' = SubSeq(Flow, k + 1, lf)
        <5>1. Flow' = SubSeq(buf, k + 1, Len(buf)) \o wire
          BY <1>2 DEF Flow
        <5>2. k \in 0..Len(buf)
          BY <1>1, <1>5
        <5> QED
          BY <1>1, <5>1, <5>2, DropFlow
      <4>2. k + 1 \in Nat \ {0} /\ lf \in 0..lf
        BY <1>4, <1>6
      <4>3. Flow' \in Seq(SentBytes)
        BY <1>1, <1>3, <4>1, <4>2, PartOf
      <4> QED
        BY <2>5, <4>3
    <3>2. 1 \in 1..Len(Flow') /\ k + 1 \in 1..lf
      BY <1>4, <1>6, <1>7, <3>1
    <3>3. Flow'[1] = Flow[k + 1]
      BY <1>7, <3>2
    <3>4. k + 1 > 1 => Flow[(k + 1) - 1].sort = "junk"
      <4> SUFFICES ASSUME k + 1 > 1 PROVE Flow[(k + 1) - 1].sort = "junk"
        OBVIOUS
      <4>1. (k + 1) - 1 = k /\ k \in 1..k
        BY <1>6
      <4> QED
        BY <1>9, <4>1
    <3>5. Flow # <<>> /\ Flow[1].sort # "junk" => Flow[1].at = 1
      BY DEF AllFits, GotBefore
    <3>6. Flow[k + 1].at = 1
      BY <1>1, <1>3, <2>5, <3>2, <3>3, <3>4, <3>5, AfterJunk
    <3> QED
      BY <3>3, <3>6
  <2> QED
    BY <1>2, <1>3, <2>1, <2>2, <2>3, <2>4, <2>5 DEF GotBefore
<1>14. SortsFit(Flow)'
  <2>1. \A m \in DOMAIN sent : m >= No(Flow, k + 1) => m >= No(Flow, 1)
    BY <1>3, <1>4, <1>8
  <2> QED
    BY <1>2, <1>7, <2>1 DEF AllFits, SortsFit, SortsOf
<1>15. NoEnd'
  <2>1. k + 1 \in Nat \ {0} /\ lb \in 0..lb
    BY <1>4, <1>6
  <2>2. buf' \in Seq(SentBytes) /\ Len(buf') = IF k + 1 <= lb THEN lb - (k + 1) + 1 ELSE 0
    BY <1>1, <1>2, <1>3, <2>1, PartOf
  <2>3. Len(buf') = lb - k
    BY <1>4, <1>6, <2>2
  <2> SUFFICES ASSUME lb - k <= MaxRequest, NEW i \in 1..(lb - k), buf'[i].at = buf'[i].of
               PROVE  buf'[i].sort = "junk"
    BY <2>2, <2>3 DEF NoEnd
  <2>4. (k + 1) + i - 1 = k + i /\ k + i \in (k + 1)..lb /\ i \in 1..(lb - (k + 1) + 1)
    BY <1>4, <1>6
  <2>5. \A j \in (k + 1)..lb : buf[j] \in SentBytes
    <3>1. \A j \in (k + 1)..lb : j \in 1..lb
      BY <1>4, <1>6
    <3> QED
      BY <1>1, <1>3, <3>1
  <2>6. SubSeq(buf, k + 1, lb)[i] = buf[(k + 1) + i - 1]
    <3>1. k + 1 \in Int /\ lb \in Int
      BY <1>4, <1>6
    <3> QED
      BY <2>4, <2>5, <3>1, SubSeqProperties
  <2>7. buf'[i] = buf[k + i]
    BY <1>1, <1>2, <2>4, <2>6
  <2> QED
    BY <1>5, <2>4, <2>7
<1>16. got' \in (Seq(Seq(SentBytes) \ {<<>>}))'
  BY <1>2, <1>3 DEF SentBytes
<1> QED
  BY <1>7, <1>12, <1>13, <1>14, <1>15, <1>16 DEF AllFits

-----------------------------------------------------------------------------
(* As long as nothing was dropped or misread, the bytes fit.               *)

StreamInv == Clean => AllFits

\* No step but the closing of the socket mends what a dropped part broke.
LEMMA CleanBefore ==
  ASSUME IInv, [Next]_vars, Clean', ~Close
  PROVE  Clean
<1>1. CASE UNCHANGED <<sent, fault>>
  BY <1>1 DEF Clean
<1>2. ASSUME NEW m \in Messages, Say(m) PROVE Clean
  <2>1. SaysTo(m)
    BY <1>2 DEF Say, SaysTo, cacher, callback
  <2>2. /\ sent \in Seq(Messages) /\ Len(sent') = Len(sent) + 1 /\ sent' \in Seq(Messages)
        /\ \A n \in 1..Len(sent) : sent'[n] = sent[n]
    BY <2>1, FlowType, SayFlow
  <2>3. \A n \in DOMAIN sent : n \in DOMAIN sent' /\ sent'[n] = sent[n]
    BY <2>2
  <2>4. fault = "no"
    BY <2>1 DEF SaysTo, Clean
  <2> QED
    BY <2>3, <2>4 DEF Clean
<1>3. ASSUME NEW n \in 1..Len(wire), Segment(n) PROVE Clean
  <2>1. fault' = "no" /\ sent' = sent
    BY <1>3 DEF Clean, Segment
  <2>2. fault' = fault
    BY <1>3, <2>1 DEF Segment, AppendBuffer
  <2> QED
    BY <1>1, <2>1, <2>2
<1>4. CASE Overread
  BY <1>4 DEF Overread, Clean
<1>5. CASE TakeMessage \/ TakeAsMessage \/ EndScan \/ HandleRtsp \/ HandleJson \/ Return
  <2>1. UNCHANGED <<sent, fault>>
    BY <1>5 DEF TakeMessage, TakeAsMessage, EndScan, HandleRtsp, HandleJson, Return, peer
  <2> QED
    BY <1>1, <2>1
<1>6. CASE UNCHANGED vars
  BY <1>1, <1>6 DEF vars, peer
<1>7. CASE TimeOut
  BY <1>7 DEF TimeOut, peer, Clean
<1> QED
  BY <1>2, <1>3, <1>4, <1>5, <1>6, <1>7 DEF Next

LEMMA StreamNext == IInv /\ StreamInv /\ [Next]_vars => StreamInv'
<1> SUFFICES ASSUME IInv, StreamInv, [Next]_vars, Clean' PROVE AllFits'
  BY DEF StreamInv
<1>1. CASE Close
  BY <1>1, CloseFits
<1>2. CASE ~Close
  <2>1. Clean /\ AllFits
    BY <1>2, CleanBefore DEF StreamInv
  <2>2. ASSUME NEW m \in Messages, Say(m) PROVE AllFits'
    BY <2>1, <2>2, SayFits
  <2>3. ASSUME NEW n \in 1..Len(wire), Segment(n) PROVE AllFits'
    BY <2>1, <2>3, SegmentFits DEF Clean
  <2>4. CASE TakeMessage
    BY <2>1, <2>4, TakeFits
  <2>5. CASE EndScan
    BY <2>1, <2>5, EndScanFits
  <2>6. CASE Overread
    BY <2>6 DEF Overread, Clean
  <2>7. CASE HandleRtsp \/ HandleJson \/ Return
    BY <2>1, <2>7, HandleFits
  <2>8. CASE UNCHANGED vars
    <3>1. UNCHANGED <<kind, conn, sent, got>> /\ Flow' = Flow /\ NoEnd'
      BY <2>1, <2>8 DEF vars, peer, cacher, callback, Flow, NoEnd, AllFits
    <3> QED
      BY <2>1, <3>1, SameFlowFits
  <2>9. CASE TakeAsMessage
    BY <2>1, <2>9 DEF TakeAsMessage, InMiddle, Clean
  <2>10. CASE TimeOut
    BY <2>1, <2>10, TimeOutFits DEF Clean
  <2> QED
    BY <1>2, <2>2, <2>3, <2>4, <2>5, <2>6, <2>7, <2>8, <2>9, <2>10 DEF Next
<1> QED
  BY <1>1, <1>2

LEMMA StreamHolds == Spec => []StreamInv
<1>1. Init => StreamInv
  BY FitsInit DEF StreamInv
<1> QED
  BY <1>1, InvHolds, StreamNext, PTL DEF Spec

\* For every size of the buffers, every sequence of messages, every cut of them into
\* segments and time-outs of a silent connection that goes on: as long as no segment was
\* refused and no time-out dropped a part of a message, what parseRtpRtcpRtspData and
\* parseTaskJsonData take out of the cacher are the messages of this connection, each
\* whole and by itself, in their order and with nothing but junk between them.
THEOREM MessagesAreWhole == Spec => []Whole
<1>1. StreamInv => Whole
  BY DEF StreamInv, Whole, AllFits, GotWhole
<1> QED
  BY <1>1, StreamHolds, PTL

\* And, on the same connections, no message that was received to its end is left in the
\* cacher when the callback returns: nothing waits for a segment that may never come.
THEOREM NothingIsKept == Spec => []NothingWaits
<1>1. StreamInv => NothingWaits
  <2> SUFFICES ASSUME StreamInv, phase = "idle", Clean, Len(buf) <= MaxRequest
               PROVE  \A i \in DOMAIN buf : buf[i].at = buf[i].of => buf[i].sort = "junk"
    BY DEF NothingWaits
  <2> QED
    BY DEF StreamInv, AllFits, NoEnd
<1> QED
  BY <1>1, StreamHolds, PTL
=============================================================================
