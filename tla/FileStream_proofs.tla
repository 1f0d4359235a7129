--------------------------- MODULE FileStream_proofs ---------------------------
(***************************************************************************)
(* Proofs about the streams that are read from files, for files, caches,   *)
(* packets, ranges and bounds of any size: what the fragments of a unit    *)
(* are; that the stream of an H.264 file sends its units once and in       *)
(* order; that the stream of a recording, while it is still written, sends *)
(* every picture from its first on, begins with a key picture, and finds   *)
(* the parameter sets it needs in the file, if they are there.             *)
(***************************************************************************)
EXTENDS FileStream, SequenceTheorems, WellFoundedInduction, TLAPS

-----------------------------------------------------------------------------
(* What the fragments of a NAL unit are, for units and packets of any      *)
(* size.                                                                   *)

LEMMA Division ==
  ASSUME NEW a \in Nat, NEW b \in Nat \ {0}
  PROVE  /\ a \div b \in Nat
         /\ a % b \in 0..(b - 1)
         /\ a = (a \div b) * b + (a % b)
  OBVIOUS

LEMMA Remainder ==
  ASSUME NEW b \in Nat \ {0}, NEW q \in Nat, NEW r \in 0..(b - 1)
  PROVE  (q * b + r) % b = r
  OBVIOUS

\* One frame less would not hold the unit, as many hold it.
LEMMA Frames ==
  ASSUME NEW payload \in Nat \ {0}, NEW size \in Nat, size > payload + 1
  PROVE  /\ NumFrames(size, payload) \in Nat \ {0, 1}
         /\ (NumFrames(size, payload) - 1) * payload < size
         /\ size <= NumFrames(size, payload) * payload
<1> DEFINE q == size \div payload
           r == size % payload
           n == NumFrames(size, payload)
<1>1. q \in Nat /\ r \in 0..(payload - 1) /\ size = q * payload + r
  BY Division
<1>2. q # 0
  BY <1>1
<1>3. CASE r = 0
  <2>1. q * payload = size
    BY <1>1, <1>3
  <2>2. n = q
    BY <2>1, <1>1 DEF NumFrames
  <2>3. q # 1
    BY <2>1
  <2>4. (q - 1) * payload = q * payload - payload
    BY <1>1
  <2> QED
    BY <1>1, <1>2, <2>1, <2>2, <2>3, <2>4
<1>4. CASE r # 0
  <2>1. q * payload < size
    BY <1>1, <1>4
  <2>2. n = q + 1
    BY <2>1, <1>1 DEF NumFrames
  <2>3. (q + 1) * payload = q * payload + payload
    BY <1>1
  <2>4. size <= (q + 1) * payload
    BY <1>1, <2>3
  <2> QED
    BY <1>1, <1>2, <2>1, <2>2, <2>4
<1> QED
  BY <1>3, <1>4

-----------------------------------------------------------------------------

\* The fragments by their number: those before the last frame are full, and there is
\* one more if something is left.
LEMMA Shape ==
  ASSUME NEW payload \in Nat \ {0}, NEW size \in Nat, size > payload + 1
  PROVE  LET f == Fragments(size, payload)
             n == NumFrames(size, payload)
             left == size > 1 + (n - 1) * payload
         IN /\ Len(f) = IF left THEN n ELSE n - 1
            /\ \A i \in 1..(n - 1) :
                 f[i] = Fragment(1 + (i - 1) * payload, 1 + i * payload, i = 1, FALSE)
            /\ left => f[n] = Fragment(1 + (n - 1) * payload, size, FALSE, TRUE)
<1> DEFINE n == NumFrames(size, payload)
           cur == 1 + (n - 1) * payload
           Full(i) == Fragment(1 + (i - 1) * payload, 1 + i * payload, i = 1, FALSE)
           full == [i \in 1..(n - 1) |-> Full(i)]
           last == Fragment(cur, size, FALSE, TRUE)
<1>1. n \in Nat \ {0, 1}
  BY Frames
<1>2. Fragments(size, payload) = IF size > cur THEN Append(full, last) ELSE full
  BY DEF Fragments
<1> HIDE DEF n, cur, Full, last
<1>3. full \in Seq({Full(i) : i \in 1..(n - 1)}) /\ Len(full) = n - 1
  BY <1>1
<1>4. \A i \in 1..(n - 1) : full[i] = Full(i)
  OBVIOUS
<1> HIDE DEF full
<1>5. /\ Len(Append(full, last)) = n
      /\ Append(full, last)[n] = last
      /\ \A i \in 1..(n - 1) : Append(full, last)[i] = Full(i)
  BY <1>1, <1>3, <1>4
<1> QED
  BY <1>1, <1>2, <1>3, <1>4, <1>5 DEF n, cur, Full, last

\* The fragments are a sequence.
LEMMA Sequence ==
  ASSUME NEW payload \in Nat \ {0}, NEW size \in Nat, size > payload + 1
  PROVE  LET f == Fragments(size, payload) IN DOMAIN f = 1..Len(f)
<1> DEFINE n == NumFrames(size, payload)
           cur == 1 + (n - 1) * payload
           full == [i \in 1..(n - 1) |->
                      Fragment(1 + (i - 1) * payload, 1 + i * payload, i = 1, FALSE)]
           last == Fragment(cur, size, FALSE, TRUE)
<1>1. n \in Nat \ {0, 1}
  BY Frames
<1>2. Fragments(size, payload) = IF size > cur THEN Append(full, last) ELSE full
  BY DEF Fragments
<1> HIDE DEF n, cur, last
<1> DEFINE S == {full[i] : i \in 1..(n - 1)} \cup {last}
<1>3. full \in Seq(S)
  <2>1. full \in [1..(n - 1) -> S]
    OBVIOUS
  <2> HIDE DEF full, S
  <2> QED
    BY <1>1, <2>1
<1>4. Append(full, last) \in Seq(S)
  <2>1. last \in S
    OBVIOUS
  <2> HIDE DEF full, S
  <2> QED
    BY <1>3, <2>1
<1> HIDE DEF full, S
<1> QED
  BY <1>2, <1>3, <1>4

LEMMA Marks ==
  ASSUME NEW a, NEW b, NEW s \in BOOLEAN, NEW e \in BOOLEAN
  PROVE  /\ Fragment(a, b, s, e).start <=> s
         /\ Fragment(a, b, s, e).end <=> e
  BY DEF Fragment

\* The bytes that the fragments of a unit hold follow each other from the second to the
\* last, without gaps and without a byte that is not in the unit, and as many as fit;
\* the first fragment only is marked as that, and no fragment but the last as the last
\* (the copies of generate_sendable_frame).
THEOREM FragmentsTile ==
  ASSUME NEW payload \in Nat \ {0}, NEW size \in Nat, size > payload + 1
  PROVE  LET f == Fragments(size, payload)
         IN /\ Len(f) \in Nat \ {0}
            /\ f[1].from = 1
            /\ f[Len(f)].upto = size
            /\ \A i \in 1..(Len(f) - 1) : f[i + 1].from = f[i].upto /\ ~f[i].end
            /\ \A i \in 1..Len(f) : /\ f[i].upto - f[i].from \in 1..payload
                                    /\ f[i].start <=> i = 1
<1> DEFINE n == NumFrames(size, payload)
           f == Fragments(size, payload)
           At(i) == i * payload
           m == At(n - 1)
           left == size > 1 + m
<1>1. /\ n \in Nat \ {0, 1}
      /\ m < size /\ size <= At(n)
  BY Frames
<1>2. /\ Len(f) = IF left THEN n ELSE n - 1
      /\ \A i \in 1..(n - 1) :
           f[i] = Fragment(1 + At(i - 1), 1 + At(i), i = 1, FALSE)
      /\ left => f[n] = Fragment(1 + m, size, FALSE, TRUE)
  BY Shape
<1> HIDE DEF n, f
<1>3. /\ At(0) = 0
      /\ \A i \in 1..n : At(i - 1) \in Nat /\ At(i) = At(i - 1) + payload
  <2>1. At(0) = 0
    OBVIOUS
  <2>2. ASSUME NEW i \in 1..n
        PROVE  At(i - 1) \in Nat /\ At(i) = At(i - 1) + payload
    BY <1>1
  <2> QED
    BY <2>1, <2>2
<1> HIDE DEF At
<1>4. ASSUME NEW i \in 1..(n - 1)
      PROVE  /\ f[i].from = 1 + At(i - 1)
             /\ f[i].upto = 1 + At(i)
             /\ f[i].start <=> i = 1
             /\ ~f[i].end
  <2> DEFINE isFirst == i = 1
  <2>1. isFirst \in BOOLEAN
    OBVIOUS
  <2>2. f[i] = Fragment(1 + At(i - 1), 1 + At(i), isFirst, FALSE)
    BY <1>2
  <2>3. f[i].from = 1 + At(i - 1) /\ f[i].upto = 1 + At(i)
    BY <2>2 DEF Fragment
  <2> HIDE DEF isFirst
  <2>4. (f[i].start <=> isFirst) /\ ~f[i].end
    BY <2>1, <2>2, Marks
  <2> QED
    BY <2>3, <2>4 DEF isFirst
<1>5. left => /\ f[n].from = 1 + m /\ f[n].upto = size
              /\ ~f[n].start /\ f[n].end
  BY <1>2 DEF Fragment
<1>6. f[1].from = 1
  <2>1. 1 \in 1..(n - 1) /\ 1 - 1 = 0
    BY <1>1
  <2>2. f[1].from = 1 + At(1 - 1)
    BY <1>4, <2>1
  <2> QED
    BY <1>3, <2>1, <2>2
<1>7. f[n - 1].upto = 1 + m
  <2>1. n - 1 \in 1..(n - 1)
    BY <1>1
  <2> QED
    BY <1>4, <2>1
<1>8. ASSUME NEW i \in 1..(n - 2)
      PROVE  f[i + 1].from = f[i].upto /\ ~f[i].end
  <2>1. i \in 1..(n - 1) /\ i + 1 \in 1..(n - 1) /\ (i + 1) - 1 = i
    BY <1>1
  <2>2. f[i + 1].from = 1 + At((i + 1) - 1)
    BY <1>4, <2>1
  <2> QED
    BY <1>4, <2>1, <2>2
<1>9. ASSUME NEW i \in 1..(n - 1)
      PROVE  f[i].upto - f[i].from \in 1..payload /\ (f[i].start <=> i = 1)
  <2>1. At(i - 1) \in Nat /\ At(i) = At(i - 1) + payload
    BY <1>1, <1>3
  <2> QED
    BY <1>4, <2>1
<1>10. CASE left
  <2>1. Len(f) = n
    BY <1>2, <1>10
  <2>2. f[n].upto - f[n].from \in 1..payload
    BY <1>1, <1>3, <1>5, <1>10
  <2>3. \A i \in 1..(n - 1) : f[i + 1].from = f[i].upto /\ ~f[i].end
    <3>1. n - 1 \in 1..(n - 1) /\ (n - 1) + 1 = n
      BY <1>1
    <3>2. f[(n - 1) + 1].from = f[n - 1].upto /\ ~f[n - 1].end
      BY <1>4, <1>5, <1>7, <1>10, <3>1
    <3> QED
      BY <1>1, <1>8, <3>2
  <2>4. \A i \in 1..n : f[i].upto - f[i].from \in 1..payload /\ (f[i].start <=> i = 1)
    BY <1>1, <1>5, <1>9, <1>10, <2>2
  <2> QED
    BY <1>1, <1>5, <1>6, <1>10, <2>1, <2>3, <2>4 DEF f
<1>11. CASE ~left
  <2>1. Len(f) = n - 1
    BY <1>2, <1>11
  <2>2. size = 1 + m
    BY <1>1, <1>3, <1>11
  <2> QED
    BY <1>1, <1>6, <1>7, <1>8, <1>9, <2>1, <2>2 DEF f
<1> QED
  BY <1>10, <1>11

\* The last fragment is marked as that unless the bytes after the first fill all
\* fragments: then none is (line 663 of H264VideoFileStreamSource.cpp), and the client
\* cannot put the unit together.
THEOREM EndIsSent ==
  ASSUME NEW payload \in Nat \ {0}, NEW size \in Nat, size > payload + 1
  PROVE  LET f == Fragments(size, payload)
         IN f[Len(f)].end <=> (size - 1) % payload # 0
<1> DEFINE n == NumFrames(size, payload)
           f == Fragments(size, payload)
           m == (n - 1) * payload
           r == size - 1 - m
<1>1. /\ n \in Nat \ {0, 1}
      /\ m < size /\ size <= n * payload
  BY Frames
<1>2. /\ Len(f) = IF size > 1 + m THEN n ELSE n - 1
      /\ \A i \in 1..(n - 1) :
           f[i] = Fragment(1 + (i - 1) * payload, 1 + i * payload, i = 1, FALSE)
      /\ size > 1 + m => f[n] = Fragment(1 + m, size, FALSE, TRUE)
  BY Shape
<1> HIDE DEF n, f
<1>3. m \in Nat /\ n * payload = m + payload
  BY <1>1
<1>4. r \in 0..(payload - 1)
  BY <1>1, <1>3
<1>5. (size - 1) % payload = r
  <2>1. ((n - 1) * payload + r) % payload = r
    <3> HIDE DEF r
    <3> QED
      BY <1>1, <1>4, Remainder
  <2>2. size - 1 = m + r
    BY <1>3
  <2> QED
    BY <2>1, <2>2
<1>6. CASE size > 1 + m
  BY <1>2, <1>3, <1>5, <1>6 DEF Fragment, f
<1>7. CASE ~(size > 1 + m)
  <2>1. Len(f) \in 1..(n - 1) /\ r = 0
    BY <1>1, <1>2, <1>3, <1>4, <1>7
  <2> DEFINE k == Len(f)
  <2>2. f[k] = Fragment(1 + (k - 1) * payload, 1 + k * payload, k = 1, FALSE)
    BY <1>2, <2>1
  <2>3. ~f[k].end
    BY <2>2 DEF Fragment
  <2> QED
    BY <1>5, <2>1, <2>3 DEF f
<1> QED
  BY <1>6, <1>7

\* A client can put a unit together if it is one packet, or if its fragments are not all
\* full; packets of 1456 bytes, those over UDP, do not carry a unit of 1 + k * 1442 bytes, k > 1.
THEOREM WhatClientsGet ==
  ASSUME NEW packet \in Nat, packet > 14, NEW size \in Nat \ {0}
  PROVE  ClientGets(size, packet) <=>
           IsWhole(size, packet) \/ (size - 1) % FragmentSize(packet) # 0
<1> DEFINE payload == FragmentSize(packet)
           f == Fragments(size, payload)
<1>1. CASE IsWhole(size, packet)
  BY <1>1 DEF ClientGets
<1>2. CASE ~IsWhole(size, packet)
  <2>1. payload \in Nat \ {0} /\ size > payload + 1
    BY <1>2 DEF IsWhole, FragmentSize, PayloadSize
  <2>2. /\ Len(f) \in Nat \ {0}
        /\ \A i \in 1..(Len(f) - 1) : ~f[i].end
    BY <2>1, FragmentsTile
  <2>3. f[Len(f)].end <=> (size - 1) % payload # 0
    BY <2>1, EndIsSent
  <2>4. DOMAIN f = 1..Len(f)
    BY <2>1, Sequence
  <2>5. ClientGets(size, packet) <=> \E i \in 1..Len(f) : f[i].end
    BY <1>2, <2>4 DEF ClientGets
  <2> HIDE DEF f
  <2>6. (\E i \in 1..Len(f) : f[i].end) <=> f[Len(f)].end
    BY <2>2
  <2> QED
    BY <1>2, <2>3, <2>5, <2>6
<1> QED
  BY <1>1, <1>2

-----------------------------------------------------------------------------
(* Numbers.                                                                *)

LEMMA LeastExists ==
  ASSUME NEW S, S \subseteq Nat, S # {}
  PROVE  \E x \in S : \A y \in S : x <= y
<1> DEFINE R == {p \in Nat \X Nat : p[1] < p[2]}
<1>1. OpToRel(<, Nat) = R
  BY DEF OpToRel
<1>2. IsWellFoundedOn(R, Nat)
  BY <1>1, NatLessThanWellFounded
<1> HIDE DEF R
<1>3. PICK x \in S : \A y \in S : ~(<<y, x>> \in R)
  BY <1>2, WFMin
<1>4. ASSUME NEW y \in S PROVE x <= y
  <2>1. <<y, x>> \notin R
    BY <1>3
  <2> QED
    BY <2>1 DEF R
<1> QED
  BY <1>4

\* The least element is what CHOOSE gives.
LEMMA LeastIsChosen ==
  ASSUME NEW S, S \subseteq Nat, S # {}
  PROVE  LET x == CHOOSE i \in S : \A j \in S : i <= j
         IN x \in S /\ \A j \in S : x <= j
BY LeastExists

LEMMA NaturalsByStep ==
  ASSUME NEW T, 0 \in T, \A n \in Nat : n \in T => n + 1 \in T
  PROVE  \A n \in Nat : n \in T
<1> DEFINE S == Nat \ T
<1> SUFFICES ASSUME S # {} PROVE FALSE
  OBVIOUS
<1>1. PICK x \in S : \A y \in S : x <= y
  BY LeastExists
<1>2. x # 0 /\ x - 1 \in Nat /\ x - 1 < x /\ (x - 1) + 1 = x
  OBVIOUS
<1> QED
  BY <1>1, <1>2

-----------------------------------------------------------------------------
(* The units of an H.264 file.                                             *)

LEMMA FilesAre ==
  ASSUME NEW f \in Files
  PROVE  /\ Len(f) \in Nat /\ DOMAIN f = 1..Len(f)
         /\ \A i \in 1..Len(f) :
              /\ f[i].at \in Nat
              /\ f[i].code \in Nat /\ f[i].code \in {3, 4}
              /\ f[i].size \in Nat /\ f[i].size # 0
         /\ \A i \in 1..Len(f) :
              f[i].at = IF i = 1 THEN 0 ELSE f[i - 1].at + f[i - 1].code + f[i - 1].size
<1> DEFINE Unit == [at : Nat, code : {3, 4}, size : Nat \ {0}, type : STRING]
<1>1. f \in Seq(Unit)
  BY ONLY H264PlayerAssumption, f \in Files, Zenon DEF Unit
<1>2. \A i \in DOMAIN f :
        f[i].at = IF i = 1 THEN 0 ELSE f[i - 1].at + f[i - 1].code + f[i - 1].size
  BY ONLY H264PlayerAssumption, f \in Files, Zenon DEF Unit
<1> HIDE DEF Unit
<1>3. Len(f) \in Nat /\ DOMAIN f = 1..Len(f) /\ \A i \in 1..Len(f) : f[i] \in Unit
  BY <1>1, LenProperties, ElementOfSeq
<1>4. ASSUME NEW u \in Unit PROVE /\ u.at \in Nat /\ u.code \in Nat /\ u.code \in {3, 4}
                                     /\ u.size \in Nat /\ u.size # 0
  BY DEF Unit
<1> QED
  BY <1>2, <1>3, <1>4

LEMMA FurtherBehind ==
  ASSUME NEW u, u.at \in Nat, u.code \in Nat, u.size \in Nat, NEW m \in Nat, m <= u.at
  PROVE  m <= u.at + u.code + u.size
  OBVIOUS

\* A unit begins behind all of those before it.
LEMMA Behind ==
  ASSUME NEW f \in Files, NEW i \in 1..Len(f), NEW j \in 1..Len(f), i < j
  PROVE  f[i].at + f[i].code + f[i].size <= f[j].at
<1> DEFINE End(m) == f[m].at + f[m].code + f[m].size
           T == {n \in Nat : i + 1 + n \in 1..Len(f) => End(i) <= f[i + 1 + n].at}
<1>1. Len(f) \in Nat
  BY FilesAre
<1>2. 0 \in T
  <2> SUFFICES ASSUME i + 1 \in 1..Len(f) PROVE End(i) <= f[i + 1].at
    BY <1>1
  <2>1. f[i + 1].at = f[(i + 1) - 1].at + f[(i + 1) - 1].code + f[(i + 1) - 1].size
    BY FilesAre, <1>1
  <2>2. (i + 1) - 1 = i /\ f[i + 1].at \in Nat
    BY FilesAre
  <2> QED
    BY <2>1, <2>2
<1>3. ASSUME NEW n \in Nat, n \in T PROVE n + 1 \in T
  <2> DEFINE k == i + 1 + n
  <2> SUFFICES ASSUME k + 1 \in 1..Len(f) PROVE End(i) <= f[k + 1].at
    BY <1>1
  <2>1. k \in 1..Len(f) /\ (k + 1) - 1 = k /\ k + 1 # 1
    BY <1>1
  <2>2. f[k + 1].at = End(k)
    BY FilesAre, <2>1
  <2>3. End(i) <= f[k].at
    BY <1>3, <2>1
  <2>4. /\ f[i].at \in Nat /\ f[i].code \in Nat /\ f[i].size \in Nat
        /\ f[k].at \in Nat /\ f[k].code \in Nat /\ f[k].size \in Nat
    BY FilesAre, <2>1
  <2>5. End(i) <= End(k)
    <3> DEFINE u == f[i]
               v == f[k]
    <3>1. /\ u.at \in Nat /\ u.code \in Nat /\ u.size \in Nat
          /\ v.at \in Nat /\ v.code \in Nat /\ v.size \in Nat
          /\ u.at + u.code + u.size <= v.at
      BY <2>3, <2>4, Zenon
    <3> HIDE DEF u, v
    <3>2. u.at + u.code + u.size <= v.at + v.code + v.size
      BY ONLY <3>1
    <3> QED
      BY <3>2, Zenon DEF u, v
  <2> QED
    BY <2>2, <2>5, Zenon
<1> HIDE DEF T
<1>4. \A n \in Nat : n \in T
  BY <1>2, <1>3, NaturalsByStep
<1>5. j - i - 1 \in T /\ i + 1 + (j - i - 1) = j
  BY <1>1, <1>4
<1> QED
  BY <1>5, <1>1 DEF T

LEMMA SizeIs ==
  ASSUME file \in Files
  PROVE  /\ Size \in Nat
         /\ \A i \in 1..Len(file) : file[i].at + file[i].code + file[i].size <= Size
<1>1. Len(file) \in Nat
  BY FilesAre
<1>2. CASE file = <<>>
  BY <1>2 DEF Size
<1>3. CASE file # <<>>
  <2>1. Len(file) \in 1..Len(file)
    <3> DEFINE Unit == [at : Nat, code : {3, 4}, size : Nat \ {0}, type : STRING]
    <3>1. file \in Seq(Unit)
      BY ONLY H264PlayerAssumption, file \in Files, Zenon DEF Unit
    <3> HIDE DEF Unit
    <3>2. Len(file) # 0
      BY <3>1, <1>3, EmptySeq
    <3> QED
      BY <1>1, <3>2
  <2>2. Size = file[Len(file)].at + file[Len(file)].code + file[Len(file)].size
    BY <1>3 DEF Size
  <2>3. ASSUME NEW i \in 1..Len(file)
        PROVE  file[i].at + file[i].code + file[i].size <= Size
    <3>1. /\ file[i].at \in Nat /\ file[i].code \in Nat /\ file[i].size \in Nat
          /\ file[Len(file)].at \in Nat /\ file[Len(file)].code \in Nat
          /\ file[Len(file)].size \in Nat
      BY FilesAre, <2>1
    <3>2. CASE i = Len(file)
      BY <3>1, <3>2, <2>2
    <3>3. CASE i # Len(file)
      <4>1. i < Len(file)
        BY <1>1, <3>3
      <4>2. file[i].at + file[i].code + file[i].size <= file[Len(file)].at
        BY <4>1, <2>1, Behind
      <4> QED
        BY <4>2, <2>2, <3>1, FurtherBehind
    <3> QED
      BY <3>2, <3>3
  <2>4. Size \in Nat
    BY <2>1, <2>2, FilesAre
  <2> QED
    BY <2>3, <2>4
<1> QED
  BY <1>2, <1>3

-----------------------------------------------------------------------------
(* Reading an H.264 file.                                                  *)

\* Behind the start code of a unit that begins at a the reader goes back to it, or to
\* right before it, unless the edge of a cache is in the way.
LEMMA BackwordIs ==
  ASSUME NEW a \in Nat, a >= 4, NEW c \in {3, 4}
  PROVE  LET b == Backword(a + 4, IF c = 3 THEN 4 ELSE 5)
         IN \/ b \in Nat /\ b <= a /\ b + 1 >= a
            \/ b = a + 4 /\ \E k \in 1..(a + 3) : k * Cache \in (a - (c - 3))..(a + 3)
<1> DEFINE bytes == IF c = 3 THEN 4 ELSE 5
           k == (a + 3) \div Cache
           r == (a + 3) % Cache
           e == k * Cache
<1>1. Cache \in Nat \ {0}
  BY H264PlayerAssumption
<1>2. k \in Nat /\ r \in 0..(Cache - 1) /\ a + 3 = e + r
  <2>1. a + 3 \in Nat
    OBVIOUS
  <2> QED
    BY ONLY <2>1, <1>1, Division, Zenon DEF k, r, e
<1>3. e \in Nat /\ e >= k
  <2>1. \A m \in Nat : m * Cache \in Nat /\ m * Cache >= m
    BY <1>1
  <2> QED
    BY <2>1, <1>2
<1>4. Cache * (((a + 4) - 1) \div Cache) = e
  <2>1. (a + 4) - 1 = a + 3
    OBVIOUS
  <2> QED
    BY <1>1, <1>2, <2>1
<1>5. Backword(a + 4, bytes) = IF bytes < (a + 4) - e THEN (a + 4) - bytes ELSE a + 4
  <2>1. Backword(a + 4, bytes) =
          IF bytes < (a + 4) - Cache * (((a + 4) - 1) \div Cache)
          THEN (a + 4) - bytes ELSE a + 4
    BY DEF Backword
  <2> QED
    BY <2>1, <1>4, Zenon
<1>6. bytes \in Nat /\ bytes = 1 + c
  OBVIOUS
<1>7. k = 0 => e = 0
  BY <1>1
<1> HIDE DEF k, e, r, bytes
<1>8. CASE bytes < (a + 4) - e
  <2>1. /\ (a + 4) - bytes \in Nat /\ (a + 4) - bytes <= a
        /\ (a + 4) - bytes + 1 >= a
    BY <1>6
  <2> QED
    BY <2>1, <1>5, <1>8 DEF bytes
<1>9. CASE ~(bytes < (a + 4) - e)
  <2>1. Backword(a + 4, bytes) = a + 4
    BY <1>5, <1>9
  <2>2. e <= a + 3 /\ e >= a - (c - 3)
    BY <1>1, <1>2, <1>3, <1>6, <1>9
  <2>3. k \in 1..(a + 3)
    BY <1>2, <1>3, <1>7, <2>2
  <2>4. k * Cache \in (a - (c - 3))..(a + 3)
    BY <2>2, <1>3, <1>6 DEF e
  <2> QED
    BY <2>1, <2>3, <2>4 DEF bytes
<1> QED
  BY <1>8, <1>9

\* The next unit, the units that are passed over, and where the reader is then.
LEMMA GetFrameIs ==
  ASSUME file \in Files, NEW p \in Nat
  PROVE  LET frame == GetFrame(p)
         IN \/ /\ frame.unit = 0 /\ frame.place = Size
               /\ \A u \in 1..(Len(file) - 1) : file[u].at < p
            \/ /\ frame.unit \in 1..(Len(file) - 1)
               /\ frame.place \in Nat
               /\ \A u \in 1..(frame.unit - 1) : file[u].at < p
               /\ file[frame.unit].at >= p
               /\ \A u \in 1..frame.unit : file[u].at < frame.place
               /\ \A u \in (frame.unit + 1)..Len(file) :
                    file[u].at < frame.place => AtCacheEdge(u)
               /\ frame.unit + 1 < Len(file) => frame.place < Size
<1> DEFINE N == Len(file)
           next == {i \in 1..(N - 1) : file[i].at >= p}
           i == CHOOSE j \in next : \A k \in next : j <= k
           frame == GetFrame(p)
<1>1. N \in Nat /\ \A u \in 1..N : file[u].at \in Nat
  BY FilesAre
<1>2. CASE next = {}
  <2>1. frame = [unit |-> 0, place |-> Size]
    BY <1>2 DEF GetFrame
  <2>2. ASSUME NEW u \in 1..(N - 1) PROVE file[u].at < p
    <3>1. u \in 1..N /\ u \notin next
      BY <1>1, <1>2
    <3> QED
      BY <3>1, <1>1
  <2> QED
    BY <2>1, <2>2
<1>3. CASE next # {}
  <2> DEFINE a == file[i + 1].at
             c == file[i + 1].code
             b == Backword(a + 4, IF c = 3 THEN 4 ELSE 5)
  <2>1. frame = [unit |-> i, place |-> b]
    BY <1>3 DEF GetFrame
  <2>2. i \in next /\ \A k \in next : i <= k
    <3>1. next \subseteq Nat
      BY <1>1
    <3> HIDE DEF next
    <3> QED
      BY <3>1, <1>3, LeastIsChosen
  <2> HIDE DEF i
  <2>3. i \in 1..(N - 1) /\ i \in 1..N /\ i + 1 \in 1..N /\ file[i].at >= p
    BY <1>1, <2>2
  <2>4. ASSUME NEW u \in 1..(i - 1) PROVE file[u].at < p
    <3>1. u \in 1..N /\ u \in 1..(N - 1) /\ u < i
      BY <1>1, <2>3
    <3>2. u \notin next
      BY <2>2, <2>3, <3>1
    <3> QED
      BY <3>1, <3>2, <1>1
  <2>5. /\ a \in Nat /\ c \in {3, 4}
        /\ \A u \in 1..i : file[u].at + 4 <= a
    <3>1. ASSUME NEW u \in 1..i PROVE file[u].at + 4 <= a
      <4>1. u \in 1..N /\ u < i + 1
        BY <1>1, <2>3
      <4> DEFINE x == file[u].at
                 y == file[u].code
                 z == file[u].size
      <4>2. x + y + z <= a
        BY <4>1, <2>3, Behind
      <4>3. x \in Nat /\ y \in Nat /\ y \in {3, 4} /\ z \in Nat /\ z # 0 /\ a \in Nat
        BY <4>1, <2>3, FilesAre
      <4> HIDE DEF x, y, z, a
      <4>4. x + 4 <= a
        BY ONLY <4>2, <4>3
      <4> QED
        BY <4>4 DEF x
    <3> QED
      BY <3>1, <2>3, FilesAre
  <2>6. a >= 4
    <3>1. file[1].at \in Nat /\ file[1].at + 4 <= a
      BY <2>3, <2>5, <1>1
    <3> HIDE DEF a
    <3> QED
      BY <3>1, <2>5
  <2>7. \/ b \in Nat /\ b <= a /\ b + 1 >= a
        \/ b = a + 4 /\ \E k \in 1..(a + 3) : k * Cache \in (a - (c - 3))..(a + 3)
    <3> HIDE DEF a, c
    <3> QED
      BY <2>5, <2>6, BackwordIs
  <2>8. \A u \in 1..i : file[u].at < b
    <3> HIDE DEF a, b, c
    <3>1. b \in Nat /\ b + 1 >= a
      BY <2>5, <2>7
    <3>2. \A x, y, z \in Nat : x + 4 <= y /\ z + 1 >= y => x < z
      OBVIOUS
    <3>3. \A u \in 1..i : file[u].at \in Nat
      BY <1>1, <2>3
    <3> QED
      BY <2>5, <3>1, <3>2, <3>3
  <2>9. /\ a + 3 <= Size /\ Size \in Nat
        /\ \A u \in (i + 2)..N : a + 4 <= file[u].at /\ file[u].at + 3 <= Size
    <3>1. ASSUME NEW u \in 1..N PROVE file[u].at + 3 <= Size /\ Size \in Nat
      <4> DEFINE x == file[u].at
                 y == file[u].code
                 z == file[u].size
      <4>1. x + y + z <= Size /\ Size \in Nat
        BY SizeIs
      <4>2. x \in Nat /\ y \in Nat /\ y \in {3, 4} /\ z \in Nat
        BY FilesAre
      <4> HIDE DEF x, y, z
      <4>3. x + 3 <= Size
        BY ONLY <4>1, <4>2
      <4> QED
        BY <4>1, <4>3 DEF x
    <3>2. ASSUME NEW u \in (i + 2)..N PROVE a + 4 <= file[u].at
      <4>1. u \in 1..N /\ i + 1 < u
        BY <1>1, <2>3
      <4> DEFINE y == c
                 z == file[i + 1].size
                 x == file[u].at
      <4>2. a + y + z <= x
        BY <4>1, <2>3, Behind
      <4>3. a \in Nat /\ y \in Nat /\ y \in {3, 4} /\ z \in Nat /\ z # 0 /\ x \in Nat
        BY <4>1, <2>3, FilesAre
      <4> HIDE DEF x, y, z, a
      <4>4. a + 4 <= x
        BY ONLY <4>2, <4>3
      <4> QED
        BY <4>4 DEF x
    <3>3. (i + 2)..N \subseteq 1..N
      BY <1>1, <2>3
    <3> QED
      BY <3>1, <3>2, <3>3, <2>3
  <2>10. ASSUME NEW u \in (i + 1)..N, file[u].at < b PROVE AtCacheEdge(u)
    <3>1. u = i + 1 \/ u \in (i + 2)..N
      BY <1>1, <2>3
    <3>2. u = i + 1
      <4> SUFFICES ASSUME u \in (i + 2)..N PROVE FALSE
        BY <3>1
      <4>1. a + 4 <= file[u].at /\ file[u].at \in Nat
        BY <2>9, <1>1, <2>3
      <4> HIDE DEF a, b, c
      <4>2. b \in Nat /\ b <= a + 4
        BY <2>5, <2>7
      <4>3. \A x, y, z \in Nat : ~(x + 4 <= y /\ y < z /\ z <= x + 4)
        OBVIOUS
      <4> QED
        BY <4>1, <4>2, <4>3, <2>5, <2>10
    <3>3. ~(b \in Nat /\ b <= a)
      <4>1. a < b
        BY <3>2, <2>10
      <4> HIDE DEF a, b
      <4> QED
        BY <4>1, <2>5
    <3>4. PICK k \in 1..(a + 3) : k * Cache \in (a - (c - 3))..(a + 3)
      <4> HIDE DEF a, b, c
      <4> QED
        BY <3>3, <2>7
    <3>5. k \in 1..Size
      <4> HIDE DEF a
      <4> QED
        BY <2>5, <2>9
    <3> QED
      BY <3>2, <3>4, <3>5 DEF AtCacheEdge
  <2>11. ASSUME i + 1 < N PROVE b < Size
    <3>1. N \in (i + 2)..N
      BY <1>1, <2>3, <2>11
    <3>2. a + 4 <= file[N].at /\ file[N].at + 3 <= Size /\ file[N].at \in Nat
      BY <3>1, <2>9, <2>3, <1>1
    <3> HIDE DEF a, b, c
    <3>3. b \in Nat /\ b <= a + 4
      BY <2>5, <2>7
    <3>4. \A x, y, z, w \in Nat : x + 4 <= y /\ y + 3 <= w /\ z <= x + 4 => z < w
      OBVIOUS
    <3> QED
      BY <3>2, <3>3, <3>4, <2>5, <2>9
  <2>12. b \in Nat
    <3> HIDE DEF a, b, c
    <3> QED
      BY <2>5, <2>7
  <2> HIDE DEF frame, b
  <2>13. frame.unit = i /\ frame.place = b
    BY <2>1
  <2> QED
    BY <2>3, <2>4, <2>8, <2>10, <2>11, <2>12, <2>13 DEF frame
<1> QED
  BY <1>2, <1>3

-----------------------------------------------------------------------------
(* Playing an H.264 file.                                                  *)

\* What was sent lies before the place of the reader, and what lies before it and was
\* not sent begins at the edge of a cache.
PlaceFits ==
  /\ place \in Nat /\ sent \in 0..Len(file)
  /\ \A u \in 1..Len(file) : u <= sent => file[u].at < place
  /\ \A u \in 1..Len(file) : u > sent /\ file[u].at < place => AtCacheEdge(u)

H264Inv ==
  /\ file \in Files
  /\ sendEnd \in BOOLEAN
  /\ sender = "run" /\ ~sendEnd /\ ~aborted => PlaceFits

\* What H264PlaysInOrder says of a step.
SendsNext ==
  /\ sent' \notin {0, sent} =>
       /\ sent' > sent
       /\ \A u \in (sent + 1)..(sent' - 1) : AtCacheEdge(u)
       /\ carrier = "tcp" /\ ~broken' =>
            shown' = sent' \/ (file[sent'].size - 1) % FragmentSize(Packet) = 0
  /\ shown' \notin {0, shown} => shown' = sent' /\ carrier = "tcp" /\ ~broken

EndsComplete ==
  ~sendEnd /\ sendEnd' /\ order' = order /\ place' = Size =>
    \A u \in (sent' + 1)..(Len(file) - 1) :
      AtCacheEdge(u) \/ \E v \in 1..u : file[v].type = "other"

\* A step of the send thread: it sends the next unit but those at an edge.
LEMMA SendFramesFits ==
  ASSUME H264Inv, SendFrames
  PROVE  H264Inv' /\ SendsNext /\ EndsComplete
<1> DEFINE frame == GetFrame(place)
           N == Len(file)
<1>1. file' = file /\ order' = order /\ aborted' = aborted /\ ~aborted /\ sender = "run"
  BY DEF SendFrames
<1>2. \A u : AtCacheEdge(u)' <=> AtCacheEdge(u)
  BY <1>1 DEF AtCacheEdge, Size
<1>3. N \in Nat /\ \A u \in 1..N : file[u].at \in Nat
  BY FilesAre DEF H264Inv
<1>4. CASE sendEnd
  <2>1. sender' = "done" /\ UNCHANGED <<sent, shown, place, sendEnd>>
    BY <1>4 DEF SendFrames, Ends
  <2> QED
    BY <1>1, <1>4, <2>1 DEF H264Inv, SendsNext, EndsComplete
<1>5. CASE ~sendEnd
  <2>1. PlaceFits /\ file \in Files
    BY <1>1, <1>5 DEF H264Inv
  <2>2. /\ place' = frame.place
        /\ IF frame.unit = 0 \/ file[frame.unit].type = "other"
           THEN Ends /\ sendEnd' = TRUE
           ELSE SendUnit(frame.unit)
    BY <1>5, Zenon DEF SendFrames
  <2>3. \/ /\ frame.unit = 0 /\ frame.place = Size
           /\ \A u \in 1..(N - 1) : file[u].at < place
        \/ /\ frame.unit \in 1..(N - 1)
           /\ frame.place \in Nat
           /\ \A u \in 1..(frame.unit - 1) : file[u].at < place
           /\ file[frame.unit].at >= place
           /\ \A u \in 1..frame.unit : file[u].at < frame.place
           /\ \A u \in (frame.unit + 1)..N :
                file[u].at < frame.place => AtCacheEdge(u)
           /\ frame.unit + 1 < N => frame.place < Size
    BY <2>1, GetFrameIs DEF PlaceFits
  <2> HIDE DEF frame
  <2>4. /\ sent \in 0..N /\ place \in Nat
        /\ \A u \in 1..N : u > sent /\ file[u].at < place => AtCacheEdge(u)
        /\ \A u \in 1..N : u <= sent => file[u].at < place
    BY <2>1 DEF PlaceFits
  <2>5. CASE frame.unit = 0
    <3>1. sender' = "done" /\ sent' = sent /\ sendEnd' = TRUE /\ shown' = shown
      BY <2>2, <2>5 DEF Ends
    <3>2. ASSUME NEW u \in (sent' + 1)..(N - 1) PROVE AtCacheEdge(u)
      <4>1. u \in 1..N /\ u \in 1..(N - 1) /\ u > sent
        BY <1>3, <2>4, <3>1
      <4>2. file[u].at < place
        BY <4>1, <2>3, <2>5
      <4> QED
        BY <4>1, <4>2, <2>4
    <3>3. H264Inv'
      BY <1>1, <2>1, <3>1 DEF H264Inv
    <3> QED
      BY <3>1, <3>2, <3>3 DEF SendsNext, EndsComplete
  <2>6. CASE frame.unit # 0
    <3> DEFINE i == frame.unit
    <3>1. /\ i \in 1..(N - 1) /\ i \in 1..N
          /\ frame.place \in Nat
          /\ \A u \in 1..(i - 1) : file[u].at < place
          /\ file[i].at >= place
          /\ \A u \in 1..i : file[u].at < frame.place
          /\ \A u \in (i + 1)..N : file[u].at < frame.place => AtCacheEdge(u)
          /\ i + 1 < N => frame.place < Size
      BY <2>3, <2>6, <1>3
    <3> HIDE DEF i
    <3>2. i > sent
      <4> SUFFICES ASSUME i <= sent PROVE FALSE
        BY <3>1, <2>4
      <4>1. i \in 1..N
        BY <3>1
      <4>2. file[i].at < place
        BY <4>1, <2>4
      <4>3. file[i].at \in Nat /\ place \in Nat /\ file[i].at >= place
        BY <4>1, <3>1, <2>4, <1>3
      <4> QED
        BY ONLY <4>2, <4>3
    <3>3. ASSUME NEW u \in (sent + 1)..(i - 1) PROVE AtCacheEdge(u)
      <4>1. u \in 1..N /\ u \in 1..(i - 1) /\ u > sent
        BY <1>3, <2>4, <3>1
      <4> QED
        BY <4>1, <3>1, <2>4
    <3>4. CASE file[i].type = "other"
      <4>1. sender' = "done" /\ sent' = sent /\ sendEnd' = TRUE /\ shown' = shown
        BY <2>2, <3>4 DEF Ends, i
      <4>2. H264Inv'
        BY <1>1, <2>1, <4>1 DEF H264Inv
      <4>3. ASSUME NEW u \in (sent' + 1)..(N - 1)
            PROVE  AtCacheEdge(u) \/ \E v \in 1..u : file[v].type = "other"
        <5>1. CASE u < i
          <6>1. u \in (sent + 1)..(i - 1)
            BY <5>1, <4>1, <2>4, <3>1
          <6> QED
            BY <6>1, <3>3
        <5>2. CASE u >= i
          <6>1. i \in 1..u
            BY <5>2, <3>1, <2>4, <4>1
          <6> QED
            BY <6>1, <3>4
        <5> QED
          BY <5>1, <5>2, <4>1, <2>4, <3>1
      <4> QED
        BY <4>1, <4>2, <4>3 DEF SendsNext, EndsComplete
    <3>5. CASE file[i].type # "other"
      <4>1. /\ sent' = i
            /\ SendTcp(i) \/ SendFails \/ SendUdp
            /\ sender' \in {"run", "done"}
            /\ sendEnd' = (sendEnd \/ sender' = "done")
            /\ place' = frame.place
        <5>1. place' = frame.place /\ SendUnit(i)
          BY <2>2, <2>6, <3>5 DEF i
        <5> QED
          BY <5>1, Zenon DEF SendUnit
      <4>2. PlaceFits'
        <5>1. place' \in Nat /\ sent' \in 0..N
          BY <4>1, <3>1
        <5>2. ASSUME NEW u \in 1..N, u <= sent' PROVE file[u].at < place'
          <6>1. u \in 1..i
            BY <5>2, <4>1, <3>1
          <6> QED
            BY <6>1, <3>1, <4>1
        <5>3. ASSUME NEW u \in 1..N, u > sent', file[u].at < place' PROVE AtCacheEdge(u)
          <6>1. u \in (i + 1)..N
            BY <5>3, <4>1, <3>1, <1>3
          <6> QED
            BY <6>1, <5>3, <3>1, <4>1
        <5> QED
          BY <5>1, <5>2, <5>3, <1>1, <1>2 DEF PlaceFits
      <4>3. H264Inv'
        BY <1>1, <2>1, <4>1, <4>2 DEF H264Inv
      <4>4. SendsNext
        <5>1. carrier = "tcp" /\ ~broken' =>
                shown' = sent' \/ (file[i].size - 1) % FragmentSize(Packet) = 0
          <6> SUFFICES ASSUME carrier = "tcp", ~broken'
                       PROVE  shown' = sent' \/ (file[i].size - 1) % FragmentSize(Packet) = 0
            OBVIOUS
          <6>0. shown' = IF ClientGets(file[i].size, Packet) THEN i ELSE shown
            BY <4>1 DEF SendTcp, SendFails, SendUdp
          <6>1. CASE ClientGets(file[i].size, Packet)
            BY <6>0, <6>1, <4>1
          <6>2. CASE ~ClientGets(file[i].size, Packet)
            <7>1. file[i].size \in Nat \ {0} /\ Packet \in Nat /\ Packet > 14
              BY <2>1, <3>1, FilesAre, H264PlayerAssumption
            <7> QED
              BY ONLY <7>1, <6>2, WhatClientsGet
          <6> QED
            BY <6>1, <6>2
        <5>2. shown' \notin {0, shown} => shown' = sent' /\ carrier = "tcp" /\ ~broken
          BY <4>1 DEF SendTcp, SendFails, SendUdp
        <5> QED
          BY <5>1, <5>2, <4>1, <3>2, <3>3 DEF SendsNext
      <4>5. EndsComplete
        <5> SUFFICES ASSUME place' = Size,
                            NEW u \in (sent' + 1)..(N - 1)
                     PROVE  FALSE
          BY DEF EndsComplete
        <5>1. i + 1 < N
          BY <4>1, <3>1, <1>3
        <5>2. frame.place < Size /\ frame.place = Size
          BY <5>1, <3>1, <4>1
        <5> QED
          BY <5>2, <3>1
      <4> QED
        BY <4>3, <4>4, <4>5
    <3> QED
      BY <3>4, <3>5
  <2> QED
    BY <2>5, <2>6
<1> QED
  BY <1>4, <1>5

LEMMA H264Steps ==
  ASSUME H264Inv, [Next]_vars
  PROVE  H264Inv' /\ [SendsNext /\ EndsComplete]_h264
<1>1. CASE UNCHANGED h264
  BY <1>1 DEF h264, H264Inv, PlaceFits, AtCacheEdge, Size
<1>2. CASE SendFrames
  BY <1>2, SendFramesFits
<1>3. CASE PlayFile
  <2>1. /\ file' = file /\ sendEnd' = sendEnd /\ order' = order /\ sent' \in {0, sent}
        /\ shown' \in {0, shown}
    BY <1>3 DEF PlayFile
  <2>2. aborted' \/ (place' = 0 /\ sent' = 0)
    BY <1>3 DEF PlayFile
  <2>3. ASSUME place' = 0, sent' = 0 PROVE PlaceFits'
    <3>1. /\ Len(file) \in Nat
          /\ \A u \in 1..Len(file) : ~(file[u].at < 0) /\ ~(u <= 0)
      BY FilesAre DEF H264Inv
    <3> QED
      BY <3>1, <2>1, <2>3 DEF PlaceFits
  <2> QED
    BY <2>1, <2>2, <2>3 DEF H264Inv, SendsNext, EndsComplete
<1>4. ASSUME NEW what \in {"pause", "stop"}, EndSending(what)
      PROVE H264Inv' /\ SendsNext /\ EndsComplete
  <2>1. /\ file' = file /\ sendEnd' = TRUE /\ order' = what /\ sent' = sent
        /\ shown' = shown
        /\ order = "none"
    BY <1>4 DEF EndSending, Ready
  <2> QED
    BY <2>1 DEF H264Inv, SendsNext, EndsComplete
<1>5. CASE SenderJoined
  <2>1. /\ file' = file /\ sendEnd' \in BOOLEAN /\ sent' = sent /\ shown' = shown
        /\ sender' # "run" /\ order # "none" /\ order' = "none"
    BY <1>5 DEF SenderJoined
  <2> QED
    BY <2>1 DEF H264Inv, SendsNext, EndsComplete
<1> QED
  BY <1>1, <1>2, <1>3, <1>4, <1>5 DEF Next, vars, OfFlv, OfH264

\* What was sent of an H.264 file lies before the reader's place, and what lies before
\* that and was not sent begins at the edge of a cache (get_frame, get_a_frame).
THEOREM H264InvHolds == Spec => []H264Inv
<1>1. Init => H264Inv
  BY DEF Init, H264Init, H264Inv
<1>2. H264Inv /\ [Next]_vars => H264Inv'
  BY H264Steps
<1> QED
  BY <1>1, <1>2, PTL DEF Spec

\* A stream of an H.264 file takes each unit once and in order, and leaves out none but
\* those whose start code lies at the edge of a cache (get_frame, backword).  Over TCP, as
\* long as no send failed, the client gets each but those of which all fragments are
\* full; over UDP it gets none (send_frame).
THEOREM H264KeepsOrder == Spec => H264PlaysInOrder
<1>1. H264Inv /\ [Next]_vars => [SendsNext /\ EndsComplete]_h264
  BY H264Steps
<1>2. [SendsNext /\ EndsComplete]_h264 =>
        [/\ sent' \notin {0, sent} =>
              /\ sent' > sent
              /\ \A u \in (sent + 1)..(sent' - 1) : AtCacheEdge(u)
              /\ carrier = "tcp" /\ ~broken' =>
                   shown' = sent' \/ (file[sent'].size - 1) % FragmentSize(Packet) = 0
         /\ shown' \notin {0, shown} => shown' = sent' /\ carrier = "tcp" /\ ~broken
         /\ ~sendEnd /\ sendEnd' /\ order' = order /\ place' = Size =>
              \A u \in (sent' + 1)..(Len(file) - 1) :
                AtCacheEdge(u) \/ \E v \in 1..u : file[v].type = "other"]_h264
  BY DEF SendsNext, EndsComplete
<1> QED
  BY <1>1, <1>2, H264InvHolds, PTL DEF Spec, H264PlaysInOrder

-----------------------------------------------------------------------------
(* The recording that is played: an invariant of the recorder.             *)

Names == {"flv", "duration", "size", "back", "time", "offset", "config", "idr", "slice"}
TheCells == [is : Names, unit : Int, time : Int]
TheFiles == [data : Seq(TheCells), pos : Int, opens : BOOLEAN]
Recordings ==
  [saving : BOOLEAN, file : TheFiles, idx : TheFiles, sps : Nat, pps : Nat,
   good : BOOLEAN, first : Int, duration : Int, meta : BOOLEAN, keyed : BOOLEAN,
   headed : BOOLEAN, torn : BOOLEAN, tail : Nat]

WriterTypes ==
  /\ rec \in Recordings /\ rec.file.opens /\ rec.idx.opens
  /\ camera \in [type : {"sps", "pps", "idr", "slice"}, count : Nat, now : Nat]
  /\ half \in BOOLEAN

\* How far the recording is, by the units that the camera has sent.
Phases ==
  /\ rec.sps = 0 <=> camera.count = 0
  /\ camera.count = 0 => camera.type = "slice"
  /\ rec.sps = 0 => rec.pps = 0
  /\ rec.sps # 0 => rec.good
  /\ rec.sps # 0 /\ rec.pps = 0 => camera.type = "sps"
  /\ rec.meta <=> rec.pps # 0
  /\ rec.keyed => rec.meta
  /\ rec.meta /\ ~rec.keyed => camera.type = "pps"

\* What the files hold by then.  The destructor does not go back.
Lengths ==
  /\ ~rec.meta => Len(rec.file.data) <= 1
  /\ ~rec.meta /\ rec.saving => Len(rec.file.data) = 0 /\ rec.file.pos = 0
  /\ rec.meta => Len(rec.file.data) >= 4
  /\ rec.meta /\ ~rec.keyed => Len(rec.file.data) = 4
  /\ rec.meta /\ rec.saving => rec.file.pos = Len(rec.file.data)
  /\ ~rec.keyed => rec.tail = 0 /\ Len(rec.idx.data) = 0 /\ ~half
  /\ rec.keyed => /\ rec.tail = Len(rec.file.data) /\ rec.tail % 2 = 0
                  /\ rec.tail >= 6 /\ Len(rec.idx.data) > 0
  /\ rec.idx.pos = Len(rec.idx.data) /\ rec.idx.pos % 2 = 0
  /\ half => rec.saving

\* The places of tags, what is at a place, and the entries of the index.
Tags == {i \in 5..rec.tail : i % 2 = 1}
CellAt(i) == rec.file.data[i]
Kinds == {"config", "idr", "slice"}

NumEntries == Len(rec.idx.data) \div 2
TimeOf(k)  == rec.idx.data[2 * k - 1].time
LeadsTo(k)  == rec.idx.data[2 * k].unit + 2
Now        == camera.now - rec.first

\* Tags are at odd places and in the order of their units, nothing else looks like one.
TagsFit ==
  /\ \A i \in 1..Len(rec.file.data) : i < 5 => CellAt(i).is \notin Kinds
  /\ \A i \in Tags : /\ CellAt(i).is \in Kinds /\ CellAt(i).unit \in 1..camera.count
                     /\ CellAt(i + 1).is = "back"
  /\ \A i, j \in Tags : i < j => CellAt(i).unit < CellAt(j).unit

\* An entry leads to an IDR, or to the configuration record before one, whose time it
\* has; that may not be written yet.
EntryFits(k) ==
  /\ LeadsTo(k) \in 5..(rec.tail + 1) /\ LeadsTo(k) % 2 = 1
  /\ half => LeadsTo(k) < rec.tail
  /\ TimeOf(k) <= Now
  /\ LeadsTo(k) > rec.tail => k = NumEntries /\ camera.type = "sps"
  /\ LeadsTo(k) <= rec.tail => /\ CellAt(LeadsTo(k)).is \in {"idr", "config"}
                              /\ CellAt(LeadsTo(k)).time = TimeOf(k)
  /\ LeadsTo(k) <= rec.tail /\ CellAt(LeadsTo(k)).is = "config" =>
       \/ k = NumEntries /\ camera.type = "pps"
       \/ k < NumEntries /\ TimeOf(k + 1) = TimeOf(k)

IndexFits ==
  /\ \A k \in 1..NumEntries : EntryFits(k)
  /\ \A j, k \in 1..NumEntries :
       j < k => LeadsTo(j) < LeadsTo(k) /\ TimeOf(j) <= TimeOf(k)
  /\ rec.keyed => LeadsTo(1) = 5 /\ CellAt(5).is = "idr"
  /\ rec.keyed /\ camera.type \in {"sps", "pps"} => TimeOf(NumEntries) = Now
  /\ rec.keyed /\ camera.type = "sps" => LeadsTo(NumEntries) = rec.tail + 1
  /\ \A i \in Tags : CellAt(i).is = "idr" => \E k \in 1..NumEntries : LeadsTo(k) = i

WriterInv == WriterTypes /\ Phases /\ Lengths /\ TagsFit /\ IndexFits

-----------------------------------------------------------------------------
(* An invariant of the player.                                             *)

PlayerTypes ==
  /\ todo \in {"none", "play", "sets", "seek", "scan", "pause", "stop"}
  /\ thread \in {"none", "run", "done", "gone"}
  /\ indexed \in BOOLEAN /\ ended \in BOOLEAN /\ sets \in BOOLEAN /\ sps \in BOOLEAN
  /\ lost \in {"no", "rewound", "stale"}
  /\ grew \in BOOLEAN /\ died \in BOOLEAN
  /\ range \in Nat \X Nat
  /\ pos \in Nat /\ cached \in Nat /\ requests \in Nat
  /\ first \in Nat /\ latest \in Nat

\* An executor seeks when no thread sends; the place is a tag's or before the first.
PlayerFits ==
  /\ todo \in {"sets", "seek", "scan"} => thread = "none" /\ first = 0
  /\ todo # "none" => requests > 0
  /\ todo = "scan" => ~indexed
  /\ died => ~sets /\ thread = "run"
  /\ first = 0 <=> latest = 0
  /\ cached <= Seen
  /\ pos # 0 => pos % 2 = 1 /\ pos >= 3 /\ pos <= rec.tail

\* All pictures up to the place were sent, and none behind it.
SentFits ==
  thread = "run" /\ latest # 0 /\ ~died /\ lost = "no" =>
    /\ pos \in Tags /\ latest <= CellAt(pos).unit
    /\ \A i \in Tags : i <= pos /\ CellAt(i).is # "config" => CellAt(i).unit <= latest

\* An IDR is the one to begin with.
IsKey(i) == CellAt(i).is = "idr"
KeyAt(o) ==
  /\ o \in Tags /\ IsKey(o)
  /\ CellAt(o).time < range[1] \/ \A i \in Tags : IsKey(i) => i >= o
  /\ \A i \in Tags : IsKey(i) /\ i > o => CellAt(i).time >= range[1]
  /\ Now >= range[1]

KeyFits ==
  indexed =>
    /\ thread = "run" /\ first = 0 /\ ~ended /\ ~died /\ lost # "stale" =>
         pos >= 3 /\ pos + 2 <= Seen /\ KeyAt(pos + 2)
    /\ first # 0 /\ todo # "play" => \E o \in Tags : CellAt(o).unit = first /\ KeyAt(o)

\* Without parameter sets the file has none, or none up to the place if no thread has
\* begun to send.
NoneUpTo(n) == \A i \in Tags : i <= n => CellAt(i).is # "config"
SetsFit ==
  ~sets /\ ~grew =>
    \/ requests > 0 /\ NoneUpTo(Seen)
    \/ /\ NoneUpTo(pos) /\ thread \in {"none", "gone"} /\ todo \notin {"seek", "scan"}
       /\ lost # "stale"

ReaderInv == PlayerTypes /\ PlayerFits /\ SentFits /\ KeyFits /\ SetsFit

FlvInv == WriterInv /\ ReaderInv

-----------------------------------------------------------------------------
(* Writing.                                                                *)

\* What a write that gets out leaves in the file.
Written(f, cells, g) ==
  LET end == f.pos + Len(cells)
  IN /\ g \in TheFiles /\ g.opens /\ g.pos = end
     /\ Len(g.data) = (IF Len(f.data) > end THEN Len(f.data) ELSE end)
     /\ \A i \in 1..Len(g.data) :
          g.data[i] = IF i \in (f.pos + 1)..end THEN cells[i - f.pos] ELSE f.data[i]

LEMMA WriteIs ==
  ASSUME NEW f \in TheFiles, f.opens, f.pos \in Nat, f.pos <= Len(f.data),
         NEW cells \in Seq(TheCells), Len(cells) > 0, NEW n \in Nat, n >= Len(cells)
  PROVE  Written(f, cells, WriteFile(f, cells, n))
<1> DEFINE g == WriteFile(f, cells, n)
           out == Len(cells)
           end == f.pos + out
           E(i) == IF i \in (f.pos + 1)..end THEN cells[i - f.pos]
                   ELSE IF i <= Len(f.data) THEN f.data[i] ELSE Hole
           N == Larger(Len(f.data), end)
           d == [i \in 1..N |-> E(i)]
<1>1. /\ f.data \in Seq(TheCells) /\ Len(f.data) \in Nat /\ out \in Nat
      /\ \A i \in 1..Len(f.data) : f.data[i] \in TheCells
      /\ \A i \in 1..out : cells[i] \in TheCells
  BY LenProperties, ElementOfSeq DEF TheFiles
<1>2. /\ N \in Nat /\ N = (IF Len(f.data) > end THEN Len(f.data) ELSE end)
      /\ end \in Nat
  BY <1>1 DEF Larger
<1>3. (IF f.opens THEN Smaller(n, Len(cells)) ELSE 0) = out
  BY <1>1 DEF Smaller
<1>4. g = [f EXCEPT !.data = d, !.pos = end]
  <2>1. out # 0
    BY <1>1
  <2> QED
    BY <1>3, <2>1, Zenon DEF WriteFile
<1>5. ASSUME NEW i \in 1..N
      PROVE  /\ E(i) = IF i \in (f.pos + 1)..end THEN cells[i - f.pos] ELSE f.data[i]
             /\ E(i) \in TheCells
  <2>1. CASE i \in (f.pos + 1)..end
    <3>1. i - f.pos \in 1..out
      BY <2>1, <1>1
    <3> QED
      BY <2>1, <3>1, <1>1
  <2>2. CASE i \notin (f.pos + 1)..end
    <3>1. i \in 1..Len(f.data) /\ i <= Len(f.data)
      BY <2>2, <1>1, <1>2
    <3> QED
      BY <2>2, <3>1, <1>1
  <2> QED
    BY <2>1, <2>2
<1> HIDE DEF E
<1>6. d \in Seq(TheCells) /\ Len(d) = N /\ \A i \in 1..N : d[i] = E(i)
  <2>1. d \in [1..N -> TheCells]
    BY <1>5
  <2> QED
    BY <2>1, <1>2, IsASeq
<1>7. end \in Int /\ d \in Seq(TheCells) /\ f \in [data : Seq(TheCells), pos : Int, opens : BOOLEAN]
  BY <1>2, <1>6 DEF TheFiles
<1> HIDE DEF d, g, N, end
<1>8. /\ g.data = d /\ g.pos = end /\ g.opens = f.opens
      /\ g \in TheFiles
  BY <1>4, <1>7 DEF TheFiles
<1> USE DEF end
<1> QED
  BY <1>2, <1>5, <1>6, <1>8 DEF g, Written

LEMMA OneCell ==
  ASSUME NEW c \in TheCells
  PROVE  <<c>> \in Seq(TheCells) /\ Len(<<c>>) = 1 /\ <<c>>[1] = c
  OBVIOUS

LEMMA TwoCells ==
  ASSUME NEW c \in TheCells, NEW d \in TheCells
  PROVE  /\ <<c, d>> \in Seq(TheCells) /\ Len(<<c, d>>) = 2
         /\ <<c, d>>[1] = c /\ <<c, d>>[2] = d
  OBVIOUS

LEMMA OutIs ==
  /\ Out.header = 4 /\ Out.tag = 2 /\ Out.time = 1 /\ Out.offset = 1
  /\ Out.duration = 1 /\ Out.size = 1
  BY DEF Out

\* One cell.
OneWritten(f, c, g) ==
  /\ g \in TheFiles /\ g.opens /\ g.pos = f.pos + 1
  /\ Len(g.data) = (IF Len(f.data) > f.pos THEN Len(f.data) ELSE f.pos + 1)
  /\ g.data[f.pos + 1] = c
  /\ \A i \in 1..Len(f.data) : i # f.pos + 1 => g.data[i] = f.data[i]

LEMMA WriteOne ==
  ASSUME NEW f \in TheFiles, f.opens, f.pos \in Nat, f.pos <= Len(f.data),
         NEW c \in TheCells
  PROVE  OneWritten(f, c, WriteFile(f, <<c>>, 1))
<1> DEFINE g == WriteFile(f, <<c>>, 1)
           s == <<c>>
<1>1. s \in Seq(TheCells) /\ Len(s) = 1 /\ s[1] = c
  BY OneCell
<1> HIDE DEF s
<1>2. /\ g \in TheFiles /\ g.opens /\ g.pos = f.pos + 1
      /\ Len(g.data) = (IF Len(f.data) > f.pos + 1 THEN Len(f.data) ELSE f.pos + 1)
      /\ \A i \in 1..Len(g.data) :
           g.data[i] = IF i \in (f.pos + 1)..(f.pos + 1) THEN s[i - f.pos] ELSE f.data[i]
  <2> DEFINE h == WriteFile(f, s, 1)
  <2>1. h = g
    BY DEF s
  <2>2. 1 \in Nat /\ 1 >= Len(s) /\ Len(s) > 0
    BY <1>1
  <2> DEFINE end == f.pos + Len(s)
  <2>3. Written(f, s, h)
    BY <1>1, <2>2, WriteIs
  <2>4. /\ h \in TheFiles /\ h.opens /\ h.pos = end
        /\ Len(h.data) = (IF Len(f.data) > end THEN Len(f.data) ELSE end)
        /\ \A i \in 1..Len(h.data) :
             h.data[i] = IF i \in (f.pos + 1)..end THEN s[i - f.pos] ELSE f.data[i]
    BY <2>3 DEF Written
  <2>5. end = f.pos + 1
    BY <1>1
  <2> HIDE DEF h, end
  <2> QED
    BY <2>1, <2>4, <2>5
<1> HIDE DEF g
<1>3. Len(f.data) \in Nat
  BY LenProperties DEF TheFiles
<1>4. f.pos + 1 \in 1..Len(g.data) /\ f.pos + 1 \in (f.pos + 1)..(f.pos + 1)
      /\ (f.pos + 1) - f.pos = 1
  BY <1>2, <1>3
<1>5. g.data[f.pos + 1] = c
  BY <1>1, <1>2, <1>4
<1>6. ASSUME NEW i \in 1..Len(f.data), i # f.pos + 1 PROVE g.data[i] = f.data[i]
  <2>1. i \in 1..Len(g.data) /\ i \notin (f.pos + 1)..(f.pos + 1)
    BY <1>2, <1>3, <1>6
  <2> QED
    BY <2>1, <1>2
<1> HIDE DEF g
<1>7. OneWritten(f, c, g)
  BY <1>2, <1>3, <1>5, <1>6 DEF OneWritten
<1> QED
  BY <1>7 DEF g

\* Two cells at the end.
TwoWritten(f, c, d, g) ==
  /\ g \in TheFiles /\ g.opens /\ g.pos = f.pos + 2
  /\ Len(g.data) = Len(f.data) + 2
  /\ g.data[Len(f.data) + 1] = c /\ g.data[Len(f.data) + 2] = d
  /\ \A i \in 1..Len(f.data) : g.data[i] = f.data[i]

LEMMA WriteTwo ==
  ASSUME NEW f \in TheFiles, f.opens, f.pos = Len(f.data),
         NEW c \in TheCells, NEW d \in TheCells
  PROVE  TwoWritten(f, c, d, WriteFile(f, <<c, d>>, 2))
<1> DEFINE g == WriteFile(f, <<c, d>>, 2)
           s == <<c, d>>
           p == Len(f.data)
<1>1. s \in Seq(TheCells) /\ Len(s) = 2 /\ s[1] = c /\ s[2] = d
  BY TwoCells
<1>2. p \in Nat /\ f.pos \in Nat
  BY LenProperties DEF TheFiles
<1> HIDE DEF s
<1>3. /\ g \in TheFiles /\ g.opens /\ g.pos = p + 2
      /\ Len(g.data) = (IF p > p + 2 THEN p ELSE p + 2)
      /\ \A i \in 1..Len(g.data) :
           g.data[i] = IF i \in (p + 1)..(p + 2) THEN s[i - p] ELSE f.data[i]
  <2> DEFINE h == WriteFile(f, s, 2)
  <2>1. h = g
    BY DEF s
  <2>2. 2 \in Nat /\ 2 >= Len(s) /\ Len(s) > 0 /\ f.pos <= Len(f.data)
    BY <1>1, <1>2
  <2> DEFINE end == f.pos + Len(s)
  <2>3. Written(f, s, h)
    BY <1>1, <1>2, <2>2, WriteIs
  <2>4. /\ h \in TheFiles /\ h.opens /\ h.pos = end
        /\ Len(h.data) = (IF Len(f.data) > end THEN Len(f.data) ELSE end)
        /\ \A i \in 1..Len(h.data) :
             h.data[i] = IF i \in (f.pos + 1)..end THEN s[i - f.pos] ELSE f.data[i]
    BY <2>3 DEF Written
  <2>5. end = p + 2 /\ f.pos = p
    BY <1>1
  <2> HIDE DEF h, end, p
  <2> QED
    BY <2>1, <2>4, <2>5
<1> HIDE DEF g
<1>4. f.pos = p
  OBVIOUS
<1> HIDE DEF p
<1>5. /\ Len(g.data) = p + 2 /\ p + 1 \in 1..Len(g.data) /\ p + 2 \in 1..Len(g.data)
      /\ p + 1 \in (p + 1)..(p + 2) /\ p + 2 \in (p + 1)..(p + 2)
      /\ (p + 1) - p = 1 /\ (p + 2) - p = 2
  BY <1>2, <1>3
<1>6. g.data[p + 1] = c /\ g.data[p + 2] = d
  BY <1>1, <1>3, <1>5
<1>7. ASSUME NEW i \in 1..p PROVE g.data[i] = f.data[i]
  <2>1. i \in 1..Len(g.data) /\ i \notin (p + 1)..(p + 2)
    BY <1>2, <1>5
  <2> QED
    BY <2>1, <1>3
<1>8. TwoWritten(f, c, d, g)
  BY <1>3, <1>4, <1>5, <1>6, <1>7 DEF TwoWritten, p
<1> QED
  BY <1>8 DEF g

\* Records of the recorder, but for what a write changes.
LEMMA RecordingIs ==
  ASSUME NEW w \in Recordings
  PROVE  /\ w.saving \in BOOLEAN /\ w.file \in TheFiles /\ w.idx \in TheFiles
         /\ w.sps \in Nat /\ w.pps \in Nat /\ w.good \in BOOLEAN /\ w.first \in Int
         /\ w.meta \in BOOLEAN /\ w.keyed \in BOOLEAN /\ w.tail \in Nat
         /\ w.torn \in BOOLEAN /\ w.duration \in Int
  BY DEF Recordings

LEMMA FileIs ==
  ASSUME NEW f \in TheFiles
  PROVE  /\ f.data \in Seq(TheCells) /\ Len(f.data) \in Nat /\ f.pos \in Int
         /\ f.opens \in BOOLEAN /\ DOMAIN f.data = 1..Len(f.data)
         /\ \A i \in 1..Len(f.data) : /\ f.data[i] \in TheCells
                                      /\ f.data[i].unit \in Int
                                      /\ f.data[i].time \in Int
<1>1. f.data \in Seq(TheCells) /\ f.pos \in Int /\ f.opens \in BOOLEAN
  BY DEF TheFiles
<1>2. Len(f.data) \in Nat /\ DOMAIN f.data = 1..Len(f.data)
  BY <1>1, LenProperties
<1>3. ASSUME NEW i \in 1..Len(f.data) PROVE f.data[i] \in TheCells
  BY <1>1, ElementOfSeq
<1>4. \A c \in TheCells : c.unit \in Int /\ c.time \in Int
  BY DEF TheCells
<1> QED
  BY <1>1, <1>2, <1>3, <1>4

LEMMA SeekIs ==
  ASSUME NEW f \in TheFiles, NEW p \in Int
  PROVE  /\ Seek(f, p) \in TheFiles /\ Seek(f, p).pos = p
         /\ Seek(f, p).data = f.data /\ Seek(f, p).opens = f.opens
<1>1. f \in [data : Seq(TheCells), pos : Int, opens : BOOLEAN]
  BY DEF TheFiles
<1> QED
  BY <1>1 DEF Seek, TheFiles

\* An entry is appended to the index.
Entered(w, t, x) ==
  LET n == Len(w.idx.data)
  IN /\ x \in TheFiles /\ x.opens /\ x.pos = n + 2 /\ Len(x.data) = n + 2
     /\ \A i \in 1..n : x.data[i] = w.idx.data[i]
     /\ x.data[n + 1].time = t /\ x.data[n + 2].unit = w.file.pos - 1

LEMMA AppendIdxIs ==
  ASSUME NEW w \in Recordings, w.idx.opens, w.idx.pos = Len(w.idx.data), NEW t \in Int
  PROVE  /\ AppendIdx(w, t, Out) = [w EXCEPT !.idx = AppendIdx(w, t, Out).idx]
         /\ Entered(w, t, AppendIdx(w, t, Out).idx)
<1> DEFINE n == Len(w.idx.data)
           c == Cell("time", 0, t)
           d == Cell("offset", w.file.pos - 1, t)
           f == WriteFile(w.idx, <<c>>, 1)
           g == WriteFile(f, <<d>>, 1)
           v == AppendIdx(w, t, Out)
<1>1. /\ w.idx \in TheFiles /\ w.file \in TheFiles /\ w.file.pos \in Int /\ n \in Nat
      /\ w.torn \in BOOLEAN
  BY RecordingIs, FileIs
<1>2. /\ c \in TheCells /\ c.time = t
      /\ d \in TheCells /\ d.unit = w.file.pos - 1
  <2>1. w.file.pos - 1 \in Int
    BY <1>1
  <2> QED
    BY <2>1 DEF Cell, TheCells, Names
<1>3. v = [w EXCEPT !.idx = g, !.torn = w.torn \/ (1 # 1)]
  BY OutIs, Zenon DEF AppendIdx
<1> HIDE DEF c, d, v
<1>4. /\ f \in TheFiles /\ f.opens /\ f.pos = n + 1 /\ Len(f.data) = n + 1
      /\ f.data[n + 1] = c
      /\ \A i \in 1..n : f.data[i] = w.idx.data[i]
  <2>1. w.idx.pos \in Nat /\ w.idx.pos <= Len(w.idx.data) /\ w.idx.pos = n
    BY <1>1
  <2>2. /\ f \in TheFiles /\ f.opens /\ f.pos = w.idx.pos + 1
        /\ Len(f.data) = (IF n > w.idx.pos THEN n ELSE w.idx.pos + 1)
        /\ f.data[w.idx.pos + 1] = c
        /\ \A i \in 1..n : i # w.idx.pos + 1 => f.data[i] = w.idx.data[i]
    <3>1. OneWritten(w.idx, c, f)
      BY <1>1, <1>2, <2>1, WriteOne
    <3> HIDE DEF f
    <3> QED
      BY <3>1 DEF OneWritten
  <2> HIDE DEF f
  <2> QED
    BY <1>1, <2>1, <2>2
<1> HIDE DEF f
<1>5. /\ g \in TheFiles /\ g.opens /\ g.pos = n + 2 /\ Len(g.data) = n + 2
      /\ g.data[n + 2] = d
      /\ \A i \in 1..(n + 1) : g.data[i] = f.data[i]
  <2>1. f.pos \in Nat /\ f.pos <= Len(f.data)
    BY <1>1, <1>4
  <2>2. /\ g \in TheFiles /\ g.opens /\ g.pos = f.pos + 1
        /\ Len(g.data) = (IF Len(f.data) > f.pos THEN Len(f.data) ELSE f.pos + 1)
        /\ g.data[f.pos + 1] = d
        /\ \A i \in 1..Len(f.data) : i # f.pos + 1 => g.data[i] = f.data[i]
    <3>1. OneWritten(f, d, g)
      BY <1>2, <1>4, <2>1, WriteOne
    <3> HIDE DEF g
    <3> QED
      BY <3>1 DEF OneWritten
  <2> HIDE DEF g
  <2> QED
    BY <1>1, <1>4, <2>2
<1> HIDE DEF g
<1>6. v.idx = g /\ v = [w EXCEPT !.idx = v.idx]
  <2>1. (w.torn \/ (1 # 1)) = w.torn
    BY <1>1
  <2>2. v = [w EXCEPT !.idx = g, !.torn = w.torn]
    BY <1>3, <2>1
  <2> QED
    BY <2>2 DEF Recordings
<1>7. Entered(w, t, g)
  <2>1. /\ n + 1 \in 1..(n + 1) /\ \A i \in 1..n : i \in 1..(n + 1)
        /\ Len(w.idx.data) = n
    BY <1>1
  <2> HIDE DEF n
  <2> QED
    BY <1>1, <1>2, <1>4, <1>5, <2>1 DEF Entered
<1> QED
  BY <1>6, <1>7 DEF v

\* The duration in a header is overwritten, and the writer goes back.
Timed(f, g) ==
  /\ g \in TheFiles /\ g.opens /\ g.pos = f.pos /\ Len(g.data) = Len(f.data)
  /\ g.data[2].is = "duration"
  /\ \A i \in 1..Len(f.data) : i # 2 => g.data[i] = f.data[i]

LEMMA UpdateDurationIs ==
  ASSUME NEW w \in Recordings, w.file.opens, w.meta, Len(w.file.data) >= 4
  PROVE  /\ UpdateDuration(w, Out) = [w EXCEPT !.file = UpdateDuration(w, Out).file]
         /\ Timed(w.file, UpdateDuration(w, Out).file)
<1> DEFINE c == Cell("duration", 0, w.duration)
           f == Seek(w.file, 1)
           g == WriteFile(f, <<c>>, 1)
           h == Seek(g, w.file.pos)
           v == UpdateDuration(w, Out)
<1>1. /\ w.file \in TheFiles /\ w.file.pos \in Int /\ Len(w.file.data) \in Nat
      /\ w.duration \in Int
  BY RecordingIs, FileIs
<1>2. v = [w EXCEPT !.file = h]
  <2>1. (IF w.meta THEN DurationPos ELSE 0) = 1
    BY DEF DurationPos
  <2> QED
    BY OutIs, <2>1, Zenon DEF UpdateDuration
<1>3. c \in TheCells /\ c.is = "duration"
  BY <1>1 DEF Cell, TheCells, Names
<1> HIDE DEF c, v
<1>4. f \in TheFiles /\ f.pos = 1 /\ f.data = w.file.data /\ f.opens = w.file.opens
  <2>1. 1 \in Int
    OBVIOUS
  <2> QED
    BY ONLY <1>1, <2>1, SeekIs, Zenon
<1> HIDE DEF f
<1>5. /\ g \in TheFiles /\ g.opens
      /\ Len(g.data) = (IF Len(f.data) > 1 THEN Len(f.data) ELSE 1 + 1)
      /\ g.data[1 + 1] = c
      /\ \A i \in 1..Len(f.data) : i # 1 + 1 => g.data[i] = f.data[i]
  <2>1. f.pos \in Nat /\ f.pos <= Len(f.data) /\ f.opens
    BY <1>1, <1>4
  <2>2. /\ g \in TheFiles /\ g.opens /\ g.pos = f.pos + 1
        /\ Len(g.data) = (IF Len(f.data) > f.pos THEN Len(f.data) ELSE f.pos + 1)
        /\ g.data[f.pos + 1] = c
        /\ \A i \in 1..Len(f.data) : i # f.pos + 1 => g.data[i] = f.data[i]
    <3>1. OneWritten(f, c, g)
      BY <1>3, <1>4, <2>1, WriteOne
    <3> HIDE DEF g
    <3> QED
      BY <3>1 DEF OneWritten
  <2> HIDE DEF g
  <2> QED
    BY <1>4, <2>2
<1> HIDE DEF g
<1>6. /\ h \in TheFiles /\ h.pos = w.file.pos /\ h.data = g.data /\ h.opens = g.opens
  BY <1>1, <1>5, SeekIs
<1> HIDE DEF h
<1>7. v.file = h /\ v = [w EXCEPT !.file = v.file]
  BY <1>2 DEF Recordings
<1>8. Timed(w.file, h)
  <2>1. Len(g.data) = Len(f.data) /\ 1 + 1 = 2
    BY <1>1, <1>4, <1>5
  <2> QED
    BY <1>3, <1>4, <1>5, <1>6, <2>1 DEF Timed
<1> QED
  BY <1>7, <1>8 DEF v

CameraTypes == {"sps", "pps", "idr", "slice"}
CameraUnits == [n : Nat, type : CameraTypes, good : BOOLEAN, ts : Nat]

\* What recording a unit does once there is metadata and an IDR.
Records(w, u, x) ==
  LET N == Len(w.file.data)
      t == u.ts - w.first
  IN /\ x \in Recordings /\ x.file.opens /\ x.idx.opens
     /\ x.saving = w.saving /\ x.sps = w.sps /\ x.pps = w.pps /\ x.good = w.good
     /\ x.first = w.first /\ x.meta = w.meta /\ x.keyed
     /\ x.tail = Len(x.file.data) /\ x.file.pos = Len(x.file.data)
     /\ x.file.data[2].is = "duration"
     /\ \A i \in 1..N : i # 2 => x.file.data[i] = w.file.data[i]
     /\ IF u.type = "sps" THEN Len(x.file.data) = N
        ELSE /\ Len(x.file.data) = N + 2
             /\ x.file.data[N + 1].is = (IF u.type = "pps" THEN "config" ELSE u.type)
             /\ x.file.data[N + 1].unit = u.n /\ x.file.data[N + 1].time = t
             /\ x.file.data[N + 2].is = "back"
     /\ IF u.type \in {"sps", "idr"} THEN Entered(w, t, x.idx) ELSE x.idx = w.idx

LEMMA RecordsUnit ==
  ASSUME NEW w \in Recordings, w.file.opens, w.idx.opens, w.meta, Get(w),
         Len(w.file.data) >= 4, w.file.pos = Len(w.file.data),
         w.idx.pos = Len(w.idx.data),
         NEW u \in CameraUnits, w.keyed \/ u.type = "idr"
  PROVE  Records(w, u, AddTimedPacket(w, u, Out))
<1> DEFINE N == Len(w.file.data)
           t == u.ts - w.first
           v == [w EXCEPT !.duration = t]
           k == [v EXCEPT !.keyed = TRUE]
           a == IF u.type \in {"sps", "idr"} THEN AppendIdx(k, t, Out) ELSE k
           c == Cell(IF u.type = "pps" THEN "config" ELSE u.type, u.n, t)
           d == Cell("back", u.n, t)
           g == WriteFile(a.file, <<c, d>>, 2)
           p == IF u.type = "sps" THEN a ELSE [a EXCEPT !.file = g]
           q == UpdateDuration(p, Out)
           x == [q EXCEPT !.tail = q.file.pos]
<1>1. /\ u.n \in Nat /\ u.type \in CameraTypes /\ u.ts \in Nat /\ w.first \in Int
      /\ t \in Int
  BY RecordingIs DEF CameraUnits
<1>2. /\ v \in Recordings /\ v.file = w.file /\ v.idx = w.idx /\ v.sps = w.sps
      /\ v.pps = w.pps /\ v.first = w.first /\ v.meta = w.meta /\ v.good = w.good
      /\ v.keyed = w.keyed /\ v.saving = w.saving
  <2> HIDE DEF t
  <2> QED
    BY <1>1 DEF Recordings
<1>3. /\ k \in Recordings /\ k.file = w.file /\ k.idx = w.idx /\ k.sps = w.sps
      /\ k.pps = w.pps /\ k.first = w.first /\ k.meta = w.meta /\ k.good = w.good
      /\ k.keyed = TRUE /\ k.saving = w.saving
  <2> HIDE DEF v
  <2> QED
    BY <1>2 DEF Recordings
<1>4. AddTimedPacket(w, u, Out) = x
  <2>1. AddTimedPacket(w, u, Out) = ProcessPacket(v, u, Out)
    <3>1. Get(v)
      BY <1>2 DEF Get
    <3> QED
      BY <3>1, Zenon DEF AddTimedPacket
  <2>2. u.ts - v.first = t
    BY <1>2
  <2>3. ~(~v.meta \/ ~(v.keyed \/ u.type = "idr"))
    BY <1>2
  <2> DEFINE y == UpdateDuration(WritePacket(k, u, u.ts - v.first, Out), Out)
  <2>4. ProcessPacket(v, u, Out) = [y EXCEPT !.tail = y.file.pos]
    <3> HIDE DEF v
    <3> QED
      BY <2>3, Zenon DEF ProcessPacket
  <2>5. WritePacket(k, u, t, Out) = p
    <3> HIDE DEF k, t
    <3> QED
      BY OutIs, Zenon DEF WritePacket, Tag
  <2> HIDE DEF p, k, v, t
  <2> QED
    BY <2>1, <2>2, <2>4, <2>5
<1> HIDE DEF t, v, k
<1>5. /\ a \in Recordings /\ a.file = w.file /\ a.sps = w.sps
      /\ a.pps = w.pps /\ a.first = w.first /\ a.meta = w.meta /\ a.good = w.good
      /\ a.keyed = TRUE /\ a.saving = w.saving /\ a.idx.opens
      /\ IF u.type \in {"sps", "idr"} THEN Entered(w, t, a.idx) ELSE a.idx = w.idx
  <2>1. CASE u.type \in {"sps", "idr"}
    <3> DEFINE b == AppendIdx(k, t, Out)
               I == b.idx
    <3>1. b = [k EXCEPT !.idx = I] /\ Entered(k, t, I)
      BY <1>1, <1>3, AppendIdxIs
    <3> HIDE DEF b, I
    <3>2. I \in TheFiles /\ I.opens
      BY <3>1 DEF Entered
    <3>3. Entered(w, t, I)
      BY <3>1, <1>3 DEF Entered
    <3>4. /\ b \in Recordings /\ b.file = w.file /\ b.sps = w.sps
          /\ b.pps = w.pps /\ b.first = w.first /\ b.meta = w.meta /\ b.good = w.good
          /\ b.keyed = TRUE /\ b.saving = w.saving /\ b.idx = I
      BY <3>1, <3>2, <1>3 DEF Recordings
    <3>5. a = b
      BY <2>1 DEF b
    <3> HIDE DEF a
    <3> QED
      BY <2>1, <3>2, <3>3, <3>4, <3>5
  <2>2. CASE u.type \notin {"sps", "idr"}
    BY <1>3, <2>2
  <2> QED
    BY <2>1, <2>2
<1> HIDE DEF a
<1>6. /\ c \in TheCells /\ c.is = (IF u.type = "pps" THEN "config" ELSE u.type)
                           /\ c.unit = u.n /\ c.time = t
      /\ d \in TheCells /\ d.is = "back"
      \/ u.type = "sps"
  BY <1>1 DEF Cell, TheCells, Names, CameraTypes
<1> HIDE DEF c, d
<1>7. /\ p \in Recordings /\ p.sps = w.sps
      /\ p.pps = w.pps /\ p.first = w.first /\ p.meta = w.meta /\ p.good = w.good
      /\ p.keyed = TRUE /\ p.saving = w.saving /\ p.idx = a.idx
      /\ p.file \in TheFiles /\ p.file.opens /\ p.file.pos = Len(p.file.data)
      /\ Len(p.file.data) = (IF u.type = "sps" THEN N ELSE N + 2)
      /\ \A i \in 1..N : p.file.data[i] = w.file.data[i]
      /\ u.type # "sps" => p.file.data[N + 1] = c /\ p.file.data[N + 2] = d
  <2>1. w.file \in TheFiles /\ N \in Nat
    BY RecordingIs, FileIs
  <2>2. CASE u.type = "sps"
    <3>1. p = a
      BY <2>2
    <3> HIDE DEF p
    <3> QED
      BY <1>5, <2>1, <2>2, <3>1
  <2>3. CASE u.type # "sps"
    <3>1. c \in TheCells /\ d \in TheCells
      BY <1>6, <2>3
    <3>2. /\ g \in TheFiles /\ g.opens /\ g.pos = N + 2
          /\ Len(g.data) = N + 2
          /\ g.data[N + 1] = c /\ g.data[N + 2] = d
          /\ \A i \in 1..N : g.data[i] = w.file.data[i]
      <4>1. a.file \in TheFiles /\ a.file = w.file
        BY <1>5, <2>1
      <4>2. a.file.opens /\ a.file.pos = Len(a.file.data) /\ Len(a.file.data) = N
            /\ a.file.pos = N
        BY <4>1
      <4>3. /\ g \in TheFiles /\ g.opens /\ g.pos = a.file.pos + 2
            /\ Len(g.data) = Len(a.file.data) + 2
            /\ g.data[Len(a.file.data) + 1] = c /\ g.data[Len(a.file.data) + 2] = d
            /\ \A i \in 1..Len(a.file.data) : g.data[i] = a.file.data[i]
        <5>1. TwoWritten(a.file, c, d, g)
          BY <3>1, <4>1, <4>2, WriteTwo
        <5> HIDE DEF N, g
        <5> QED
          BY ONLY <5>1 DEF TwoWritten
      <4> HIDE DEF g, N
      <4> QED
        BY <4>1, <4>2, <4>3
    <3> HIDE DEF g
    <3>3. /\ p \in Recordings /\ p.file = g /\ p.sps = w.sps
          /\ p.pps = w.pps /\ p.first = w.first /\ p.meta = w.meta /\ p.good = w.good
          /\ p.keyed = TRUE /\ p.saving = w.saving /\ p.idx = a.idx
      BY <1>5, <2>3, <3>2 DEF Recordings
    <3> HIDE DEF p
    <3> QED
      BY <2>3, <3>2, <3>3
  <2> QED
    BY <2>2, <2>3
<1> HIDE DEF p
<1>8. q = [p EXCEPT !.file = q.file] /\ Timed(p.file, q.file)
  <2>1. N \in Nat
    BY RecordingIs, FileIs
  <2>2. Len(p.file.data) >= 4
    <3>1. N >= 4 /\ Len(p.file.data) \in {N, N + 2}
      BY <1>7
    <3> HIDE DEF N
    <3> QED
      BY ONLY <2>1, <3>1
  <2> QED
    BY <1>7, <2>2, UpdateDurationIs
<1> DEFINE F == q.file
<1>9. /\ F \in TheFiles /\ F.opens /\ F.pos = p.file.pos /\ Len(F.data) = Len(p.file.data)
      /\ F.data[2].is = "duration"
      /\ \A i \in 1..Len(p.file.data) : i # 2 => F.data[i] = p.file.data[i]
  BY <1>8 DEF Timed
<1>10. q = [p EXCEPT !.file = F]
  BY <1>8
<1> HIDE DEF q, F
<1>11. N \in Nat /\ N >= 4 /\ F.pos \in Nat
  BY RecordingIs, FileIs, <1>7, <1>9
<1>12. q \in Recordings /\ q.file = F /\ q.sps = w.sps
       /\ q.pps = w.pps /\ q.first = w.first /\ q.meta = w.meta /\ q.good = w.good
       /\ q.keyed = TRUE /\ q.saving = w.saving /\ q.idx = a.idx
  BY <1>7, <1>9, <1>10 DEF Recordings
<1>13. x \in Recordings /\ x.file = F /\ x.sps = w.sps
       /\ x.pps = w.pps /\ x.first = w.first /\ x.meta = w.meta /\ x.good = w.good
       /\ x.keyed = TRUE /\ x.saving = w.saving /\ x.idx = a.idx /\ x.tail = F.pos
  BY <1>11, <1>12 DEF Recordings
<1> HIDE DEF x
<1>14. Records(w, u, x)
  <2>1. /\ \A i \in 1..N : i # 2 => F.data[i] = w.file.data[i]
        /\ u.type # "sps" => F.data[N + 1] = c /\ F.data[N + 2] = d
    <3> DEFINE M == Len(p.file.data)
    <3>1. M = (IF u.type = "sps" THEN N ELSE N + 2)
      BY <1>7
    <3>2. /\ N \in Nat /\ N >= 4
          /\ \A i \in 1..M : i # 2 => F.data[i] = p.file.data[i]
          /\ \A i \in 1..N : p.file.data[i] = w.file.data[i]
          /\ u.type # "sps" => p.file.data[N + 1] = c /\ p.file.data[N + 2] = d
      BY <1>7, <1>9, <1>11
    <3> HIDE DEF N, M
    <3>3. \A i \in 1..N : i \in 1..M
      BY <3>1, <3>2
    <3>4. u.type # "sps" => /\ N + 1 \in 1..M /\ N + 2 \in 1..M
                            /\ N + 1 # 2 /\ N + 2 # 2
      BY <3>1, <3>2
    <3> QED
      BY <3>2, <3>3, <3>4
  <2>2. /\ F.pos = Len(F.data)
        /\ Len(F.data) = (IF u.type = "sps" THEN N ELSE N + 2)
    BY <1>7, <1>9
  <2>4. t = u.ts - w.first
    BY DEF t
  <2> HIDE DEF N
  <2>5. N = Len(w.file.data)
    BY DEF N
  <2> QED
    BY <1>5, <1>6, <1>9, <1>13, <2>1, <2>2, <2>4, <2>5 DEF Records
<1> QED
  BY <1>4, <1>14

-----------------------------------------------------------------------------
(* A unit that the recorder records.                                       *)

LEMMA Halves ==
  ASSUME NEW n \in Nat, n % 2 = 0
  PROVE  /\ n \div 2 \in Nat /\ n = 2 * (n \div 2)
         /\ (n + 2) \div 2 = (n \div 2) + 1 /\ (n + 2) % 2 = 0
         /\ (n + 1) % 2 = 1
         /\ \A k \in 1..(n \div 2) : 2 * k - 1 \in 1..n /\ 2 * k \in 1..n
  OBVIOUS

\* The recording has N cells and m entries; a unit of type t follows.
Grown(t, N, m) ==
  /\ N \in Nat /\ N >= 4 /\ N % 2 = 0 /\ m \in Nat
  /\ rec.tail = N \/ (rec.tail = 0 /\ N = 4 /\ m = 0)
  /\ rec.keyed => rec.tail = N /\ m > 0
  /\ rec'.tail = (IF t = "sps" THEN N ELSE N + 2) /\ Len(rec'.file.data) = rec'.tail
  /\ \A i \in 1..N : i # 2 => CellAt(i)' = CellAt(i)
  /\ CellAt(2)'.is = "duration"
  /\ t # "sps" => /\ CellAt(N + 1)'.is = (IF t = "pps" THEN "config" ELSE t)
                  /\ CellAt(N + 1)'.unit = camera.count + 1
                  /\ CellAt(N + 1)'.time = Now'
                  /\ CellAt(N + 2)'.is = "back"
  /\ NumEntries' = (IF t \in {"sps", "idr"} THEN m + 1 ELSE m)
  /\ \A k \in 1..m : LeadsTo(k)' = LeadsTo(k) /\ TimeOf(k)' = TimeOf(k)
  /\ t \in {"sps", "idr"} => LeadsTo(m + 1)' = N + 1 /\ TimeOf(m + 1)' = Now'
  /\ camera'.type = t /\ camera.count \in Nat /\ camera'.count = camera.count + 1
  /\ Now \in Int /\ Now' = (IF t \in {"sps", "slice"} THEN Now + 1 ELSE Now)
  /\ rec'.keyed /\ half \in BOOLEAN /\ half' \in BOOLEAN

LEMMA RecordsGrow ==
  ASSUME WriterTypes, Lengths, rec.meta, rec.saving, half' \in BOOLEAN,
         NEW u \in CameraUnits, Records(rec, u, rec'),
         u.n = camera.count + 1,
         u.ts = (IF u.type \in {"sps", "slice"} THEN camera.now + 1 ELSE camera.now),
         camera' = [type |-> u.type, count |-> camera.count + 1, now |-> u.ts],
         NEW N, N = Len(rec.file.data), NEW m, m = NumEntries
  PROVE  Grown(u.type, N, m)
<1> DEFINE n == Len(rec.idx.data)
           I == rec'.idx
<1>1. /\ rec.file \in TheFiles /\ rec.idx \in TheFiles /\ rec.first \in Int
      /\ rec.keyed \in BOOLEAN /\ rec.file.pos \in Int
      /\ N \in Nat /\ n \in Nat /\ half \in BOOLEAN
      /\ camera.now \in Nat /\ camera.count \in Nat
  BY RecordingIs, FileIs DEF WriterTypes
<1>2. N >= 4 /\ n % 2 = 0 /\ m = n \div 2
  BY DEF Lengths, NumEntries
<1>3. /\ m \in Nat /\ n = 2 * m
      /\ (n + 2) \div 2 = m + 1
      /\ \A k \in 1..m : 2 * k - 1 \in 1..n /\ 2 * k \in 1..n
  BY <1>1, <1>2, Halves
<1>4. /\ N % 2 = 0
      /\ rec.tail = N \/ (rec.tail = 0 /\ N = 4 /\ m = 0)
      /\ rec.keyed => rec.tail = N /\ m > 0
  <2>1. CASE rec.keyed
    <3>1. rec.tail = N /\ N % 2 = 0 /\ n > 0
      BY <2>1 DEF Lengths
    <3>2. m > 0
      BY <3>1, <1>3
    <3> QED
      BY <3>1, <3>2
  <2>2. CASE ~rec.keyed
    <3>1. rec.tail = 0 /\ N = 4 /\ n = 0
      BY <2>2 DEF Lengths
    <3>2. m = 0 /\ N % 2 = 0
      BY <3>1, <1>3
    <3> QED
      BY <2>2, <3>1, <3>2
  <2> QED
    BY <2>1, <2>2
<1>5. /\ camera'.type = u.type /\ camera'.count = camera.count + 1 /\ camera'.now = u.ts
      /\ rec'.first = rec.first
  BY DEF Records
<1>6. /\ Now = camera.now - rec.first /\ Now \in Int /\ Now' = u.ts - rec.first
      /\ Now' = (IF u.type \in {"sps", "slice"} THEN Now + 1 ELSE Now)
  BY <1>1, <1>5 DEF Now
<1>7. /\ rec'.tail = (IF u.type = "sps" THEN N ELSE N + 2)
      /\ Len(rec'.file.data) = rec'.tail /\ rec'.keyed
      /\ CellAt(2)'.is = "duration"
      /\ \A i \in 1..N : i # 2 => CellAt(i)' = CellAt(i)
      /\ u.type # "sps" =>
           /\ CellAt(N + 1)'.is = (IF u.type = "pps" THEN "config" ELSE u.type)
           /\ CellAt(N + 1)'.unit = camera.count + 1
           /\ CellAt(N + 1)'.time = Now'
           /\ CellAt(N + 2)'.is = "back"
  BY <1>6 DEF Records, CellAt
<1>8. CASE u.type \in {"sps", "idr"}
  <2>1. /\ I \in TheFiles /\ Len(I.data) = n + 2
        /\ \A i \in 1..n : I.data[i] = rec.idx.data[i]
        /\ I.data[n + 1].time = u.ts - rec.first
        /\ I.data[n + 2].unit = rec.file.pos - 1
    BY <1>8 DEF Records, Entered
  <2>2. rec.file.pos = N
    BY DEF Lengths
  <2>3. NumEntries' = m + 1
    BY <1>3, <2>1 DEF NumEntries
  <2>4. LeadsTo(m + 1)' = N + 1 /\ TimeOf(m + 1)' = Now'
    <3>1. 2 * (m + 1) = n + 2 /\ 2 * (m + 1) - 1 = n + 1 /\ (N - 1) + 2 = N + 1
      BY <1>1, <1>3
    <3> HIDE DEF I, n
    <3>2. LeadsTo(m + 1)' = I.data[2 * (m + 1)].unit + 2
          /\ TimeOf(m + 1)' = I.data[2 * (m + 1) - 1].time
      BY DEF LeadsTo, TimeOf, I
    <3> QED
      BY <2>1, <2>2, <3>1, <3>2, <1>6
  <2>5. ASSUME NEW k \in 1..m
        PROVE  LeadsTo(k)' = LeadsTo(k) /\ TimeOf(k)' = TimeOf(k)
    <3>1. I.data[2 * k] = rec.idx.data[2 * k] /\ I.data[2 * k - 1] = rec.idx.data[2 * k - 1]
      BY <1>3, <2>1
    <3> QED
      BY <3>1 DEF LeadsTo, TimeOf
  <2> QED
    BY <1>1, <1>2, <1>3, <1>4, <1>5, <1>6, <1>7, <1>8, <2>3, <2>4, <2>5 DEF Grown
<1>9. CASE u.type \notin {"sps", "idr"}
  <2>1. rec'.idx = rec.idx
    BY <1>9 DEF Records
  <2>2. NumEntries' = m /\ \A k : LeadsTo(k)' = LeadsTo(k) /\ TimeOf(k)' = TimeOf(k)
    BY <2>1 DEF NumEntries, LeadsTo, TimeOf
  <2> QED
    BY <1>1, <1>2, <1>3, <1>4, <1>5, <1>6, <1>7, <1>9, <2>2 DEF Grown
<1> QED
  BY <1>8, <1>9

LEMMA Parities ==
  ASSUME NEW i \in Int, NEW j \in Int, i % 2 = 1, j % 2 = 0
  PROVE  /\ i # j /\ (i <= j => i + 1 <= j) /\ (j <= i => j + 1 <= i)
         /\ (i <= j + 2 => i <= j + 1) /\ (j <= i + 1 => j <= i + 1)
         /\ (i + 2) % 2 = 1 /\ (i + 1) % 2 = 0 /\ (j + 1) % 2 = 1 /\ (j + 2) % 2 = 0
  OBVIOUS

\* The tags stay, and there is one more unless the unit is an SPS.
LEMMA GrownTags ==
  ASSUME NEW t \in CameraTypes, NEW N, NEW m, Grown(t, N, m)
  PROVE  /\ \A i \in Tags : /\ i \in Tags' /\ i + 1 \in 1..N
                            /\ CellAt(i)' = CellAt(i) /\ CellAt(i + 1)' = CellAt(i + 1)
         /\ \A i \in Tags' : i \in Tags \/ (i = N + 1 /\ t # "sps")
         /\ t # "sps" => N + 1 \in Tags'
         /\ \A i \in Tags : i < N + 1
         /\ rec.tail <= rec'.tail /\ rec.tail \in Nat /\ rec'.tail \in Nat
<1>1. /\ N \in Nat /\ N >= 4 /\ N % 2 = 0
      /\ rec.tail = N \/ (rec.tail = 0 /\ N = 4 /\ m = 0)
      /\ rec'.tail = (IF t = "sps" THEN N ELSE N + 2)
      /\ \A i \in 1..N : i # 2 => CellAt(i)' = CellAt(i)
  BY DEF Grown
<1>2. rec.tail <= rec'.tail /\ rec.tail \in Nat /\ rec'.tail \in Nat
  BY <1>1
<1>3. \A i : i \in Tags' <=> i \in 5..rec'.tail /\ i % 2 = 1
  BY DEF Tags
<1>4. \A i : i \in Tags <=> i \in 5..rec.tail /\ i % 2 = 1
  BY DEF Tags
<1>5. ASSUME NEW i \in Tags
      PROVE  /\ i \in Tags' /\ i + 1 \in 1..N /\ i < N + 1
             /\ CellAt(i)' = CellAt(i) /\ CellAt(i + 1)' = CellAt(i + 1)
  <2>1. i \in 5..rec.tail /\ i % 2 = 1 /\ i \in Int
    BY <1>4
  <2>2. i \in 1..N /\ i # 2
    BY <1>1, <1>2, <2>1
  <2>3. i + 1 <= N
    BY <1>1, <2>1, <2>2, Parities
  <2>4. i + 1 \in 1..N /\ i + 1 # 2 /\ i < N + 1
    BY <1>1, <2>1, <2>3
  <2>5. i \in Tags'
    <3>1. i \in 5..rec'.tail
      BY <1>2, <2>1
    <3> QED
      BY <3>1, <2>1, <1>3
  <2> QED
    BY <1>1, <2>2, <2>4, <2>5
<1>6. ASSUME NEW i \in Tags' PROVE i \in Tags \/ (i = N + 1 /\ t # "sps")
  <2>1. i \in 5..rec'.tail /\ i % 2 = 1 /\ i \in Int
    BY <1>3
  <2>2. CASE i <= N
    <3>1. rec.tail = N
      BY <1>1, <2>1, <2>2
    <3> QED
      BY <3>1, <2>1, <2>2, <1>4
  <2>3. CASE i > N
    <3>1. t # "sps" /\ i <= N + 2
      BY <1>1, <2>1, <2>3
    <3>2. i <= N + 1
      BY <1>1, <2>1, <3>1, Parities
    <3> QED
      BY <1>1, <2>1, <2>3, <3>1, <3>2
  <2> QED
    BY <1>1, <2>1, <2>2, <2>3
<1>7. ASSUME t # "sps" PROVE N + 1 \in Tags'
  <2>1. (N + 1) % 2 = 1 /\ N + 1 \in 5..(N + 2)
    BY <1>1
  <2> QED
    BY <1>1, <1>3, <1>7, <2>1
<1> QED
  BY <1>2, <1>5, <1>6, <1>7

LEMMA TagsStayFit ==
  ASSUME NEW t \in CameraTypes, NEW N, NEW m, Grown(t, N, m), TagsFit,
         N = Len(rec.file.data)
  PROVE  TagsFit'
<1>1. /\ \A i \in Tags : /\ i \in Tags' /\ i + 1 \in 1..N
                         /\ CellAt(i)' = CellAt(i) /\ CellAt(i + 1)' = CellAt(i + 1)
      /\ \A i \in Tags' : i \in Tags \/ (i = N + 1 /\ t # "sps")
      /\ t # "sps" => N + 1 \in Tags'
      /\ \A i \in Tags : i < N + 1
  BY GrownTags
<1>2. /\ N \in Nat /\ N >= 4
      /\ \A i \in 1..N : i # 2 => CellAt(i)' = CellAt(i)
      /\ CellAt(2)'.is = "duration"
      /\ t # "sps" => /\ CellAt(N + 1)'.is = (IF t = "pps" THEN "config" ELSE t)
                      /\ CellAt(N + 1)'.unit = camera.count + 1
                      /\ CellAt(N + 2)'.is = "back"
      /\ camera.count \in Nat /\ camera'.count = camera.count + 1
  BY DEF Grown
<1>3. ASSUME NEW i \in 1..Len(rec'.file.data), i < 5 PROVE CellAt(i)'.is \notin Kinds
  <2>1. i \in 1..N
    BY <1>2, <1>3
  <2>2. CASE i = 2
    BY <1>2, <2>2 DEF Kinds
  <2>3. CASE i # 2
    BY <1>2, <1>3, <2>1, <2>3 DEF TagsFit
  <2> QED
    BY <2>2, <2>3
<1>4. ASSUME NEW i \in Tags
      PROVE  CellAt(i).is \in Kinds /\ CellAt(i).unit \in 1..camera.count
             /\ CellAt(i + 1).is = "back"
  BY DEF TagsFit
<1>5. ASSUME NEW i \in Tags'
      PROVE  /\ CellAt(i)'.is \in Kinds /\ CellAt(i)'.unit \in 1..camera'.count
             /\ CellAt(i + 1)'.is = "back"
  <2>1. CASE i \in Tags
    <3>1. CellAt(i)'.is \in Kinds /\ CellAt(i + 1)'.is = "back"
      BY <1>1, <1>4, <2>1
    <3>2. CellAt(i)'.unit \in 1..camera.count
      BY <1>1, <1>4, <2>1
    <3> QED
      BY <1>2, <3>1, <3>2
  <2>2. CASE i = N + 1 /\ t # "sps"
    <3>1. CellAt(N + 1)'.is \in Kinds
      BY <1>2, <2>2 DEF Kinds, CameraTypes
    <3>2. (N + 1) + 1 = N + 2 /\ camera.count + 1 \in 1..camera'.count
      BY <1>2
    <3> QED
      BY <1>2, <2>2, <3>1, <3>2
  <2> QED
    BY <1>1, <2>1, <2>2
<1>6. ASSUME NEW i \in Tags', NEW j \in Tags', i < j
      PROVE  CellAt(i)'.unit < CellAt(j)'.unit
  <2>1. i \in Tags
    <3>1. j < N + 1 \/ j = N + 1
      BY <1>1
    <3>2. i # N + 1
      <4>1. i \in Int /\ j \in Int
        BY DEF Tags
      <4> QED
        BY <3>1, <4>1, <1>2, <1>6
    <3> QED
      BY <1>1, <3>2
  <2>2. CellAt(i)'.unit = CellAt(i).unit /\ CellAt(i).unit \in 1..camera.count
    BY <1>1, <1>4, <2>1
  <2>3. CASE j \in Tags
    <3>1. CellAt(j)'.unit = CellAt(j).unit
      BY <1>1, <2>3
    <3>2. CellAt(i).unit < CellAt(j).unit
      BY <1>6, <2>1, <2>3 DEF TagsFit
    <3> QED
      BY <2>2, <3>1, <3>2
  <2>4. CASE j = N + 1 /\ t # "sps"
    BY <1>2, <2>2, <2>4
  <2> QED
    BY <1>1, <2>3, <2>4
<1> QED
  BY <1>3, <1>5, <1>6 DEF TagsFit

\* What precedes a unit that is recorded.
Protocol(t) ==
  /\ t \in {"sps", "slice"} => camera.type \notin {"sps", "pps"}
  /\ t = "pps" => camera.type = "sps"
  /\ t = "idr" => camera.type = "pps"
  /\ t # "idr" => rec.keyed
  /\ half' => t # "sps"

LEMMA EntryTypes ==
  ASSUME WriterTypes, Lengths
  PROVE  /\ NumEntries \in Nat
         /\ \A k \in 1..NumEntries : TimeOf(k) \in Int /\ LeadsTo(k) \in Int
<1> DEFINE n == Len(rec.idx.data)
<1>1. /\ n \in Nat /\ n % 2 = 0
      /\ \A i \in 1..n : rec.idx.data[i].unit \in Int /\ rec.idx.data[i].time \in Int
  BY RecordingIs, FileIs DEF WriterTypes, Lengths
<1>2. /\ NumEntries \in Nat
      /\ \A k \in 1..NumEntries : 2 * k - 1 \in 1..n /\ 2 * k \in 1..n
  BY <1>1, Halves DEF NumEntries
<1> QED
  BY <1>1, <1>2 DEF TimeOf, LeadsTo

\* An entry that was there stays fit.
LEMMA EntryStaysFit ==
  ASSUME WriterTypes, Lengths, IndexFits,
         NEW t \in CameraTypes, NEW N, NEW m, Grown(t, N, m), Protocol(t),
         m = NumEntries, NEW k \in 1..m, NEW o, o = LeadsTo(k)
  PROVE  EntryFits(k)'
<1>1. /\ \A i \in Tags : i \in Tags' /\ CellAt(i)' = CellAt(i)
      /\ t # "sps" => N + 1 \in Tags'
  BY GrownTags
<1>2. /\ N \in Nat /\ m \in Nat
      /\ rec.tail = N
      /\ rec'.tail = (IF t = "sps" THEN N ELSE N + 2)
      /\ NumEntries' = (IF t \in {"sps", "idr"} THEN m + 1 ELSE m)
      /\ LeadsTo(k)' = o /\ TimeOf(k)' = TimeOf(k)
      /\ \A j \in 1..m : TimeOf(j)' = TimeOf(j)
      /\ camera'.type = t
      /\ Now \in Int /\ Now' = (IF t \in {"sps", "slice"} THEN Now + 1 ELSE Now)
  BY DEF Grown
<1>3. EntryFits(k) /\ TimeOf(k) \in Int /\ o \in Int /\ k \in Nat
  BY <1>2, EntryTypes DEF IndexFits
<1>4. /\ o \in 5..(N + 1) /\ o % 2 = 1 /\ TimeOf(k) <= Now
      /\ o > N => k = m /\ camera.type = "sps"
      /\ o <= N => CellAt(o).is \in {"idr", "config"} /\ CellAt(o).time = TimeOf(k)
      /\ o <= N /\ CellAt(o).is = "config" =>
           (k = m /\ camera.type = "pps") \/ (k < m /\ TimeOf(k + 1) = TimeOf(k))
  BY <1>2, <1>3 DEF EntryFits
<1>5. TimeOf(k) <= Now'
  BY <1>2, <1>3, <1>4
<1>6. /\ o \in 5..(rec'.tail + 1)
      /\ half' => o < rec'.tail
  <2>1. half' => rec'.tail = N + 2
    BY <1>2 DEF Protocol
  <2> QED
    BY <1>2, <1>4, <2>1
<1>7. CASE o > N
  <2>1. k = m /\ camera.type = "sps" /\ o = N + 1
    BY <1>2, <1>3, <1>4, <1>7
  <2>2. t = "pps" /\ rec.keyed
    BY <2>1 DEF Protocol, CameraTypes
  <2>3. rec'.tail = N + 2 /\ NumEntries' = m
    BY <1>2, <2>2
  <2>4. CellAt(o)'.is = "config" /\ CellAt(o)'.time = TimeOf(k)
    <3>1. CellAt(N + 1)'.is = "config" /\ CellAt(N + 1)'.time = Now' /\ Now' = Now
      BY <2>2 DEF Grown
    <3>2. TimeOf(NumEntries) = Now
      BY <2>1, <2>2 DEF IndexFits
    <3> QED
      BY <2>1, <3>1, <3>2
  <2> QED
    BY <1>2, <1>4, <1>5, <1>6, <2>1, <2>2, <2>3, <2>4 DEF EntryFits, CellAt
<1>8. CASE o <= N
  <2>1. o \in Tags
    BY <1>2, <1>4, <1>8 DEF Tags
  <2>2. CellAt(o)' = CellAt(o)
    BY <1>1, <2>1
  <2>3. o <= rec'.tail /\ ~(o > rec'.tail)
    BY <1>2, <1>3, <1>8
  <2>4. ASSUME CellAt(o).is = "config"
        PROVE  (k < NumEntries' /\ TimeOf(k + 1)' = TimeOf(k))
               \/ (k = NumEntries' /\ t = "pps")
    <3>1. CASE k < m /\ TimeOf(k + 1) = TimeOf(k)
      <4>1. k + 1 \in 1..m /\ k < NumEntries'
        BY <1>2, <1>3, <3>1
      <4> QED
        BY <1>2, <3>1, <4>1
    <3>2. CASE k = m /\ camera.type = "pps"
      <4>1. t = "idr" /\ rec.keyed
        <5>1. t = "idr"
          BY <3>2 DEF Protocol, CameraTypes
        <5>2. rec.keyed
          <6>1. rec.keyed \/ ~rec.keyed
            OBVIOUS
          <6>2. ~rec.keyed => Len(rec.idx.data) = 0
            BY DEF Lengths
          <6>3. Len(rec.idx.data) = 0 => NumEntries = 0
            BY DEF NumEntries
          <6> QED
            BY <1>2, <6>2, <6>3
        <5> QED
          BY <5>1, <5>2
      <4>2. TimeOf(m + 1)' = Now' /\ Now' = Now /\ NumEntries' = m + 1
        BY <4>1 DEF Grown
      <4>3. TimeOf(m) = Now
        BY <3>2, <4>1 DEF IndexFits
      <4> QED
        BY <1>2, <3>2, <4>2, <4>3
    <3> QED
      BY <1>4, <1>8, <2>4, <3>1, <3>2
  <2> QED
    BY <1>2, <1>4, <1>5, <1>6, <1>8, <2>2, <2>3, <2>4 DEF EntryFits, CellAt
<1> QED
  BY <1>2, <1>3, <1>7, <1>8

LEMMA IndexStaysFit ==
  ASSUME WriterTypes, Lengths, IndexFits,
         NEW t \in CameraTypes, NEW N, NEW m, Grown(t, N, m), Protocol(t),
         m = NumEntries
  PROVE  IndexFits'
<1>1. /\ N \in Nat /\ m \in Nat /\ N >= 4 /\ N % 2 = 0
      /\ rec.tail = N \/ (rec.tail = 0 /\ N = 4 /\ m = 0)
      /\ rec.keyed => rec.tail = N /\ m > 0
      /\ rec'.tail = (IF t = "sps" THEN N ELSE N + 2)
      /\ NumEntries' = (IF t \in {"sps", "idr"} THEN m + 1 ELSE m)
      /\ \A k \in 1..m : LeadsTo(k)' = LeadsTo(k) /\ TimeOf(k)' = TimeOf(k)
      /\ t \in {"sps", "idr"} => LeadsTo(m + 1)' = N + 1 /\ TimeOf(m + 1)' = Now'
      /\ t # "sps" => /\ CellAt(N + 1)'.is = (IF t = "pps" THEN "config" ELSE t)
                      /\ CellAt(N + 1)'.time = Now'
      /\ camera'.type = t /\ rec'.keyed
      /\ Now \in Int /\ Now' = (IF t \in {"sps", "slice"} THEN Now + 1 ELSE Now)
  BY DEF Grown
<1>2. /\ \A i \in Tags : i \in Tags' /\ CellAt(i)' = CellAt(i)
      /\ \A i \in Tags' : i \in Tags \/ (i = N + 1 /\ t # "sps")
      /\ rec.tail \in Nat /\ rec'.tail \in Nat
  BY GrownTags
<1>3. ASSUME NEW k \in 1..m PROVE TimeOf(k) \in Int /\ LeadsTo(k) \in Int
  BY <1>1, EntryTypes
<1>4. ASSUME NEW k \in 1..m PROVE TimeOf(k) <= Now /\ LeadsTo(k) \in 5..(rec.tail + 1)
  BY <1>1 DEF IndexFits, EntryFits
<1>5. ASSUME t \in {"sps", "idr"} PROVE EntryFits(m + 1)'
  <2>1. NumEntries' = m + 1 /\ LeadsTo(m + 1)' = N + 1 /\ TimeOf(m + 1)' = Now'
    BY <1>1, <1>5
  <2>2. /\ N + 1 \in 5..(rec'.tail + 1) /\ (N + 1) % 2 = 1
        /\ Now' <= Now'
    BY <1>1
  <2>3. half' => N + 1 < rec'.tail
    BY <1>1 DEF Protocol
  <2>4. N + 1 > rec'.tail => t = "sps"
    BY <1>1
  <2>5. N + 1 <= rec'.tail => t = "idr"
    BY <1>1, <1>5
  <2>6. t = "idr" => CellAt(N + 1)'.is = "idr" /\ CellAt(N + 1)'.time = Now'
    BY <1>1
  <2> QED
    BY <1>1, <2>1, <2>2, <2>3, <2>4, <2>5, <2>6 DEF EntryFits, CellAt
<1>6. ASSUME NEW k \in 1..NumEntries' PROVE EntryFits(k)'
  <2>1. CASE k \in 1..m
    BY <2>1, EntryStaysFit
  <2>2. CASE k = m + 1 /\ t \in {"sps", "idr"}
    BY <1>5, <2>2
  <2> QED
    BY <1>1, <2>1, <2>2
<1>7. ASSUME t \in {"sps", "idr"}, NEW j \in 1..m PROVE LeadsTo(j) < N + 1
  <2>1. rec.tail = N
    BY <1>1
  <2>2. t # "sps" \/ camera.type # "sps"
    BY DEF Protocol
  <2>3. camera.type # "sps"
    BY <1>7 DEF Protocol
  <2>4. ~(LeadsTo(j) > rec.tail)
    BY <1>1, <2>3 DEF IndexFits, EntryFits
  <2> QED
    BY <1>1, <1>3, <2>1, <2>4
<1>8. ASSUME NEW j \in 1..NumEntries', NEW k \in 1..NumEntries', j < k
      PROVE  LeadsTo(j)' < LeadsTo(k)' /\ TimeOf(j)' <= TimeOf(k)'
  <2>1. j \in 1..m
    BY <1>1, <1>8
  <2>2. CASE k \in 1..m
    BY <1>1, <1>8, <2>1, <2>2 DEF IndexFits
  <2>3. CASE k = m + 1 /\ t \in {"sps", "idr"}
    <3>1. TimeOf(j) <= Now'
      BY <1>1, <1>3, <1>4, <2>1
    <3> QED
      BY <1>1, <1>7, <2>1, <2>3, <3>1
  <2> QED
    BY <1>1, <2>2, <2>3
<1>9. LeadsTo(1)' = 5 /\ CellAt(5)'.is = "idr"
  <2>1. CASE rec.keyed
    <3>1. LeadsTo(1) = 5 /\ CellAt(5).is = "idr" /\ 1 \in 1..m /\ rec.tail = N
      BY <1>1, <2>1 DEF IndexFits
    <3>2. 5 \in Tags
      BY <1>1, <2>1 DEF Tags, Lengths
    <3> QED
      BY <1>1, <1>2, <3>1, <3>2
  <2>2. CASE ~rec.keyed
    <3>1. t = "idr" /\ N = 4 /\ m = 0
      <4>1. t = "idr"
        BY <2>2 DEF Protocol
      <4>2. rec.tail = 0
        BY <2>2 DEF Lengths
      <4> QED
        BY <1>1, <4>1, <4>2
    <3>2. N + 1 = 5 /\ m + 1 = 1
      BY <3>1
    <3> QED
      BY <1>1, <3>1, <3>2
  <2> QED
    BY <2>1, <2>2
<1>10. ASSUME t \in {"sps", "pps"} PROVE TimeOf(NumEntries)' = Now'
  <2>1. CASE t = "sps"
    <3>1. NumEntries' = m + 1 /\ TimeOf(m + 1)' = Now'
      BY <1>1, <2>1
    <3> QED
      BY <3>1 DEF TimeOf
  <2>2. CASE t = "pps"
    <3>1. rec.keyed /\ camera.type = "sps" /\ m \in 1..m
      BY <1>1, <2>2 DEF Protocol
    <3>2. TimeOf(m) = Now /\ TimeOf(m)' = TimeOf(m) /\ NumEntries' = m /\ Now' = Now
      BY <1>1, <2>2, <3>1 DEF IndexFits
    <3> QED
      BY <3>2 DEF TimeOf
  <2> QED
    BY <1>10, <2>1, <2>2
<1>11. ASSUME t = "sps" PROVE LeadsTo(NumEntries)' = rec'.tail + 1
  <2>1. NumEntries' = m + 1 /\ LeadsTo(m + 1)' = N + 1 /\ rec'.tail = N
    BY <1>1, <1>11
  <2> QED
    BY <2>1 DEF LeadsTo
<1>12. ASSUME NEW i \in Tags', CellAt(i)'.is = "idr"
       PROVE  \E k \in 1..NumEntries' : LeadsTo(k)' = i
  <2>1. CASE i \in Tags
    <3>1. CellAt(i).is = "idr"
      BY <1>2, <1>12, <2>1
    <3>2. PICK k \in 1..m : LeadsTo(k) = i
      BY <2>1, <3>1 DEF IndexFits
    <3>3. k \in 1..NumEntries' /\ LeadsTo(k)' = i
      BY <1>1, <3>2
    <3> QED
      BY <3>3
  <2>2. CASE i = N + 1 /\ t # "sps"
    <3>1. t = "idr"
      BY <1>1, <1>12, <2>2
    <3>2. m + 1 \in 1..NumEntries' /\ LeadsTo(m + 1)' = i
      BY <1>1, <2>2, <3>1
    <3> QED
      BY <3>2
  <2> QED
    BY <1>2, <2>1, <2>2
<1> QED
  BY <1>1, <1>6, <1>8, <1>9, <1>10, <1>11, <1>12 DEF IndexFits

-----------------------------------------------------------------------------
(* Before there is metadata.                                               *)

LEMMA HeaderIs ==
  /\ Header \in Seq(TheCells) /\ Len(Header) = 4
  /\ \A i \in 1..4 : Header[i].is \notin Kinds
<1> DEFINE a == Cell("flv", 0, 0)
           b == Cell("duration", 0, 0)
           c == Cell("size", 0, 0)
           d == Cell("back", 0, 0)
<1>1. /\ a \in TheCells /\ b \in TheCells /\ c \in TheCells /\ d \in TheCells
      /\ a.is \notin Kinds /\ b.is \notin Kinds /\ c.is \notin Kinds /\ d.is \notin Kinds
  BY DEF Cell, TheCells, Names, Kinds
<1>2. Header = <<a, b, c, d>>
  BY DEF Header
<1> HIDE DEF a, b, c, d
<1>3. /\ <<a, b, c, d>> \in Seq(TheCells) /\ Len(<<a, b, c, d>>) = 4
      /\ <<a, b, c, d>>[1] = a /\ <<a, b, c, d>>[2] = b
      /\ <<a, b, c, d>>[3] = c /\ <<a, b, c, d>>[4] = d
  BY <1>1
<1>4. \A i \in 1..4 : i = 1 \/ i = 2 \/ i = 3 \/ i = 4
  OBVIOUS
<1> QED
  BY <1>1, <1>2, <1>3, <1>4

\* The header is written to an empty file.
LEMMA WriteHeader ==
  ASSUME NEW f \in TheFiles, f.opens, f.pos = 0, Len(f.data) = 0
  PROVE  LET g == WriteFile(f, Header, 4)
         IN /\ g \in TheFiles /\ g.opens /\ g.pos = 4 /\ Len(g.data) = 4
            /\ \A i \in 1..4 : g.data[i].is \notin Kinds
<1> DEFINE g == WriteFile(f, Header, 4)
<1>1. Written(f, Header, g)
  <2>1. /\ f.pos \in Nat /\ f.pos <= Len(f.data) /\ Len(Header) > 0
        /\ 4 \in Nat /\ 4 >= Len(Header)
    BY HeaderIs
  <2> QED
    BY ONLY <2>1, HeaderIs, WriteIs, f \in TheFiles, f.opens
<1> HIDE DEF g
<1>2. /\ g \in TheFiles /\ g.opens /\ g.pos = 0 + 4
      /\ Len(g.data) = (IF 0 > 0 + 4 THEN 0 ELSE 0 + 4)
      /\ \A i \in 1..Len(g.data) :
           g.data[i] = IF i \in (0 + 1)..(0 + 4) THEN Header[i - 0] ELSE f.data[i]
  <2> DEFINE end == f.pos + Len(Header)
  <2>1. /\ g \in TheFiles /\ g.opens /\ g.pos = end
        /\ Len(g.data) = (IF Len(f.data) > end THEN Len(f.data) ELSE end)
        /\ \A i \in 1..Len(g.data) :
             g.data[i] = IF i \in (f.pos + 1)..end THEN Header[i - f.pos] ELSE f.data[i]
    BY <1>1 DEF Written
  <2>2. end = 0 + 4
    BY HeaderIs
  <2> HIDE DEF end
  <2> QED
    BY <2>1, <2>2
<1>3. Len(g.data) = 4 /\ g.pos = 4
  BY <1>2
<1>4. ASSUME NEW i \in 1..4 PROVE g.data[i].is \notin Kinds
  <2>1. i - 0 = i /\ i \in (0 + 1)..(0 + 4) /\ i \in 1..Len(g.data)
    BY <1>3
  <2> QED
    BY <1>2, <2>1, HeaderIs
<1> QED
  BY <1>2, <1>3, <1>4 DEF g

\* What a reader learns of a step of the recorder that does not flush.
Extends ==
  /\ Seen \in Nat /\ Seen' \in Nat /\ Seen <= Seen'
  /\ rec.tail \in Nat /\ rec'.tail \in Nat /\ rec.tail <= rec'.tail
  /\ \A i \in Tags : i \in Tags' /\ CellAt(i)' = CellAt(i)
  /\ \A i \in Tags' : \/ i \in Tags
                      \/ i > rec.tail /\ CellAt(i)'.time >= Now
  /\ \A i \in Tags' : i <= Seen' => i \in Tags /\ i <= Seen
  /\ rec.keyed => Now <= Now'

\* Nothing is a tag before there is one.
LEMMA NoTags ==
  ASSUME WriterTypes, Lengths, ~rec.keyed
  PROVE  rec.tail = 0 /\ Tags = {} /\ NumEntries = 0
<1>1. rec.tail = 0 /\ Len(rec.idx.data) = 0
  BY DEF Lengths
<1>2. \A i \in Int : ~(i \in 5..0)
  OBVIOUS
<1> QED
  BY <1>1, <1>2 DEF Tags, NumEntries

LEMMA TwoLess ==
  ASSUME NEW n \in Nat, n >= 6, n % 2 = 0
  PROVE  n - 2 \in Nat /\ (n - 2) % 2 = 0 /\ n # 0 /\ n - 2 <= n
  OBVIOUS

LEMMA SeenIs ==
  ASSUME WriterTypes, Lengths
  PROVE  /\ Seen \in Nat /\ rec.tail \in Nat /\ Seen <= Len(rec.file.data)
         /\ Len(rec.file.data) \in Nat
         /\ rec.tail # 0 => Seen <= rec.tail /\ Seen % 2 = 0
         /\ rec.tail # 0 <=> rec.keyed
         /\ rec.keyed => rec.tail >= 6 /\ rec.tail % 2 = 0 /\ rec.tail = Len(rec.file.data)
<1>1. rec.tail \in Nat /\ Len(rec.file.data) \in Nat /\ rec.keyed \in BOOLEAN
  BY RecordingIs, FileIs DEF WriterTypes
<1>2. CASE rec.keyed
  <2>1. rec.tail >= 6 /\ rec.tail % 2 = 0 /\ rec.tail = Len(rec.file.data)
    BY <1>2 DEF Lengths
  <2>2. rec.tail - 2 \in Nat /\ (rec.tail - 2) % 2 = 0 /\ rec.tail # 0
        /\ rec.tail - 2 <= rec.tail
    BY <1>1, <2>1, TwoLess
  <2>3. Seen = (IF half THEN rec.tail - 2 ELSE rec.tail)
    BY <2>2 DEF Seen
  <2>4. Seen \in Nat /\ Seen <= rec.tail /\ Seen % 2 = 0
    <3> HIDE DEF Seen
    <3>1. rec.tail <= rec.tail
      BY <1>1
    <3> QED
      BY ONLY <1>1, <2>1, <2>2, <2>3, <3>1
  <2> HIDE DEF Seen
  <2> QED
    BY ONLY <1>1, <1>2, <2>1, <2>2, <2>4
<1>3. CASE ~rec.keyed
  <2>1. rec.tail = 0
    BY <1>3 DEF Lengths
  <2> QED
    BY <1>1, <1>3, <2>1 DEF Seen
<1> QED
  BY <1>1, <1>2, <1>3

\* The first parameter sets.
Taken(w, u, x) ==
  /\ x \in Recordings /\ x.file.opens /\ x.idx = w.idx /\ x.saving = w.saving
  /\ x.tail = w.tail /\ ~x.keyed /\ x.good
  /\ IF u.type = "sps"
     THEN x.file = w.file /\ ~x.meta /\ x.sps = u.n /\ x.pps = w.pps
     ELSE /\ x.meta /\ x.sps = w.sps /\ x.pps = u.n
          /\ x.file.pos = 4 /\ Len(x.file.data) = 4
          /\ \A i \in 1..4 : x.file.data[i].is \notin Kinds

LEMMA TakesSet ==
  ASSUME NEW w \in Recordings, w.file.opens, w.file.pos = 0, Len(w.file.data) = 0,
         w.pps = 0, ~w.meta, ~w.keyed,
         NEW u \in CameraUnits, u.good, u.type \in {"sps", "pps"},
         u.type = "pps" => w.sps # 0 /\ w.good
  PROVE  Taken(w, u, AddTimedPacket(w, u, Out))
<1> DEFINE v == [w EXCEPT !.duration = u.ts - w.first]
           a == [v EXCEPT !.sps = u.n, !.good = u.good, !.first = u.ts]
           b == [v EXCEPT !.pps = u.n, !.first = u.ts]
           f == WriteFile(b.file, Header, 4)
           c == [b EXCEPT !.file = f, !.meta = TRUE, !.headed = f.pos = Len(Header)]
           x == AddTimedPacket(w, u, Out)
<1>1. /\ u.n \in Nat /\ u.ts \in Nat /\ u.ts \in Int /\ w.first \in Int
      /\ u.ts - w.first \in Int /\ u.good \in BOOLEAN /\ w.sps \in Nat
      /\ w.file \in TheFiles
  BY RecordingIs DEF CameraUnits
<1>2. /\ v \in Recordings /\ v.file = w.file /\ v.idx = w.idx /\ v.sps = w.sps
      /\ v.pps = w.pps /\ v.meta = w.meta /\ v.good = w.good
      /\ v.keyed = w.keyed /\ v.saving = w.saving /\ v.tail = w.tail
  BY <1>1 DEF Recordings
<1>3. ~Get(w)
  BY DEF Get
<1>4. x = (IF Get(TakeSet(v, u, Out)) THEN ProcessPacket(TakeSet(v, u, Out), u, Out)
           ELSE TakeSet(v, u, Out))
  BY <1>3, Zenon DEF AddTimedPacket
<1> HIDE DEF x, v
<1>5. CASE u.type = "sps"
  <2>1. TakeSet(v, u, Out) = a
    BY <1>5, Zenon DEF TakeSet
  <2>2. /\ a \in Recordings /\ a.file = w.file /\ a.idx = w.idx /\ a.sps = u.n
        /\ a.pps = w.pps /\ a.meta = w.meta /\ a.good = u.good
        /\ a.keyed = w.keyed /\ a.saving = w.saving /\ a.tail = w.tail
    BY <1>1, <1>2 DEF Recordings
  <2> HIDE DEF a
  <2>3. ~Get(a)
    BY <2>2 DEF Get
  <2>4. x = a
    BY <1>4, <2>1, <2>3
  <2> QED
    BY <1>5, <2>2, <2>4 DEF Taken, x
<1>6. CASE u.type = "pps"
  <2>1. /\ b \in Recordings /\ b.file = w.file /\ b.idx = w.idx /\ b.sps = w.sps
        /\ b.pps = u.n /\ b.meta = w.meta /\ b.good = w.good
        /\ b.keyed = w.keyed /\ b.saving = w.saving /\ b.tail = w.tail
    BY <1>1, <1>2 DEF Recordings
  <2>2. TakeSet(v, u, Out) = GenerateMetaData(b, Out)
    <3>1. v.sps # 0 /\ u.type # "sps"
      BY <1>2, <1>6
    <3> QED
      BY <1>6, <3>1, Zenon DEF TakeSet
  <2> HIDE DEF b
  <2>3. GenerateMetaData(b, Out) = c
    <3>1. b.good
      BY <1>6, <2>1
    <3> QED
      BY <3>1, OutIs, Zenon DEF GenerateMetaData
  <2>4. /\ f \in TheFiles /\ f.opens /\ f.pos = 4 /\ Len(f.data) = 4
        /\ \A i \in 1..4 : f.data[i].is \notin Kinds
    BY <1>1, <2>1, WriteHeader
  <2> HIDE DEF f
  <2>5. /\ c \in Recordings /\ c.file = f /\ c.idx = w.idx /\ c.sps = w.sps
        /\ c.pps = u.n /\ c.meta = TRUE /\ c.good = w.good
        /\ c.keyed = w.keyed /\ c.saving = w.saving /\ c.tail = w.tail
    BY <2>1, <2>4 DEF Recordings
  <2> HIDE DEF c
  <2>6. ProcessPacket(c, u, Out) = c
    BY <1>6, <2>5 DEF ProcessPacket
  <2>7. x = c
    BY <1>4, <2>2, <2>3, <2>6
  <2> QED
    BY <1>6, <2>4, <2>5, <2>7 DEF Taken, x
<1> QED
  BY <1>5, <1>6

\* What WriteUnit gives the recorder.
WrittenUnit(t, u) ==
  /\ t \in CameraTypes /\ Follows(t) /\ rec.saving /\ ~half
  /\ u \in CameraUnits /\ u.n = camera.count + 1 /\ u.type = t /\ u.good
  /\ u.ts = (IF t \in {"sps", "slice"} THEN camera.now + 1 ELSE camera.now)
  /\ camera' = [type |-> t, count |-> camera.count + 1, now |-> u.ts]
  /\ rec' = AddTimedPacket(rec, u, Out)
  /\ half' = (rec'.tail # rec.tail)

LEMMA UnitIs ==
  ASSUME WriterTypes, WriteUnit
  PROVE  \E t, u : WrittenUnit(t, u)
<1>1. camera.count \in Nat /\ camera.now \in Nat
  BY DEF WriterTypes
<1>2. /\ rec.saving /\ ~half
      /\ half' = (rec'.tail # rec.tail)
  BY DEF WriteUnit
<1>3. PICK t \in CameraTypes :
        LET now == camera.now + (IF t \in {"sps", "slice"} THEN 1 ELSE 0)
        IN /\ Follows(t)
           /\ camera' = [type |-> t, count |-> camera.count + 1, now |-> now]
           /\ rec' = AddTimedPacket(rec, [n |-> camera.count + 1, type |-> t,
                                          good |-> TRUE, ts |-> now], Out)
  BY DEF WriteUnit, CameraTypes
<1> DEFINE now == camera.now + (IF t \in {"sps", "slice"} THEN 1 ELSE 0)
           u == [n |-> camera.count + 1, type |-> t, good |-> TRUE, ts |-> now]
<1>4. /\ now \in Nat
      /\ now = (IF t \in {"sps", "slice"} THEN camera.now + 1 ELSE camera.now)
  BY <1>1
<1>5. Follows(t) /\ rec' = AddTimedPacket(rec, u, Out)
      /\ camera' = [type |-> t, count |-> camera.count + 1, now |-> now]
  BY <1>3
<1> HIDE DEF now
<1>6. /\ u \in CameraUnits /\ u.n = camera.count + 1 /\ u.type = t /\ u.good /\ u.ts = now
  BY <1>1, <1>4 DEF CameraUnits
<1> HIDE DEF u
<1>7. WrittenUnit(t, u)
  BY <1>2, <1>4, <1>5, <1>6 DEF WrittenUnit
<1> QED
  BY <1>7

\* A parameter set that begins the recording.
LEMMA FirstSets ==
  ASSUME WriterInv, NEW t, NEW u, WrittenUnit(t, u), rec.pps = 0
  PROVE  WriterInv' /\ Extends
<1>1. /\ rec \in Recordings /\ rec.file.opens /\ rec.idx.opens
      /\ camera.type \in {"sps", "pps", "idr", "slice"}
      /\ camera.count \in Nat /\ camera.now \in Nat
      /\ rec.sps \in Nat /\ rec.pps \in Nat /\ rec.saving \in BOOLEAN
      /\ rec.tail \in Nat /\ rec.file \in TheFiles /\ rec.idx \in TheFiles
  BY RecordingIs DEF WriterInv, WriterTypes
<1>2. /\ ~rec.meta /\ ~rec.keyed
      /\ rec.file.pos = 0 /\ Len(rec.file.data) = 0 /\ rec.tail = 0
      /\ rec.idx.pos = 0 /\ Len(rec.idx.data) = 0
  BY DEF WriterInv, Phases, Lengths, WrittenUnit
<1>3. /\ t \in CameraTypes /\ Follows(t) /\ u \in CameraUnits /\ u.n = camera.count + 1
      /\ u.type = t /\ u.good /\ rec' = AddTimedPacket(rec, u, Out)
      /\ camera' = [type |-> t, count |-> camera.count + 1, now |-> u.ts]
      /\ half' = (rec'.tail # rec.tail) /\ rec.saving /\ ~half
  BY DEF WrittenUnit
<1>4. /\ t \in {"sps", "pps"}
      /\ t = "sps" => rec.sps = 0
      /\ t = "pps" => rec.sps # 0 /\ rec.good
  <2>1. CASE rec.sps = 0
    <3>1. camera.count = 0 /\ camera.type = "slice"
      BY <2>1 DEF WriterInv, Phases
    <3>2. t = "sps"
      BY <1>3, <3>1 DEF Follows
    <3> QED
      BY <2>1, <3>2
  <2>2. CASE rec.sps # 0
    <3>1. camera.type = "sps" /\ rec.good
      BY <1>2, <2>2 DEF WriterInv, Phases
    <3>2. t = "pps"
      BY <1>3, <3>1 DEF Follows
    <3> QED
      BY <2>2, <3>1, <3>2
  <2> QED
    BY <2>1, <2>2
<1>5. Taken(rec, u, rec')
  <2>1. Taken(rec, u, AddTimedPacket(rec, u, Out))
    BY <1>1, <1>2, <1>3, <1>4, TakesSet
  <2> QED
    BY <1>3, <2>1
<1>6. /\ rec' \in Recordings /\ rec'.file.opens /\ rec'.idx = rec.idx /\ rec'.saving
      /\ rec'.tail = 0 /\ ~rec'.keyed /\ rec'.good
      /\ IF t = "sps"
         THEN rec'.file = rec.file /\ ~rec'.meta /\ rec'.sps = u.n /\ rec'.pps = 0
         ELSE /\ rec'.meta /\ rec'.sps = rec.sps /\ rec'.pps = u.n
              /\ rec'.file.pos = 4 /\ Len(rec'.file.data) = 4
              /\ \A i \in 1..4 : rec'.file.data[i].is \notin Kinds
  BY <1>2, <1>3, <1>5 DEF Taken
<1>7. /\ camera'.type = t /\ camera'.count = camera.count + 1 /\ camera'.count # 0
      /\ u.n # 0 /\ u.n \in Nat /\ half' = FALSE
  <2>1. camera.count + 1 # 0 /\ camera.count + 1 \in Nat
    BY <1>1
  <2>2. half' = (0 # 0)
    BY <1>2, <1>3, <1>6
  <2> QED
    BY <1>3, <2>1, <2>2
<1>8. WriterTypes'
  BY <1>1, <1>3, <1>6, <1>7 DEF WriterTypes, CameraUnits, CameraTypes
<1>9. Phases'
  BY <1>1, <1>2, <1>4, <1>6, <1>7 DEF Phases
<1>10. Lengths'
  <2>1. 0 % 2 = 0 /\ 4 >= 4 /\ 0 <= 1
    OBVIOUS
  <2> QED
    BY <1>1, <1>2, <1>4, <1>6, <1>7, <2>1 DEF Lengths
<1>11. Tags = {} /\ NumEntries = 0
  BY <1>2, NoTags DEF WriterInv
<1>12. Tags' = {} /\ NumEntries' = 0
  <2>1. \A i \in Int : ~(i \in 5..0)
    OBVIOUS
  <2>2. Len(rec'.idx.data) = 0 /\ 0 \div 2 = 0
    BY <1>2, <1>6
  <2> QED
    BY <1>6, <2>1, <2>2 DEF Tags, NumEntries
<1>13. TagsFit'
  <2>1. ASSUME NEW i \in 1..Len(rec'.file.data) PROVE CellAt(i)'.is \notin Kinds
    <3>1. CASE t = "sps"
      <4>1. i \in 1..0
        BY <1>2, <1>6, <2>1, <3>1
      <4> QED
        BY <4>1
    <3>2. CASE t # "sps"
      BY <1>6, <2>1, <3>2 DEF CellAt
    <3> QED
      BY <3>1, <3>2
  <2> QED
    BY <1>12, <2>1 DEF TagsFit
<1>14. IndexFits'
  <2>1. ~(\E k : k \in 1..0)
    OBVIOUS
  <2> QED
    BY <1>6, <1>12, <2>1 DEF IndexFits
<1>15. Extends
  <2>1. Seen = 0 /\ Seen' = 0
    BY <1>2, <1>3, <1>6, <1>7 DEF Seen
  <2>2. 0 \in Nat /\ 0 <= 0
    OBVIOUS
  <2> QED
    BY <1>2, <1>6, <1>11, <1>12, <2>1, <2>2 DEF Extends
<1> QED
  BY <1>8, <1>9, <1>10, <1>13, <1>14, <1>15 DEF WriterInv

\* A unit behind them.
LEMMA LaterUnits ==
  ASSUME WriterInv, NEW t, NEW u, WrittenUnit(t, u), rec.pps # 0
  PROVE  WriterInv' /\ Extends
<1> PICK N : N = Len(rec.file.data)
  OBVIOUS
<1> PICK m : m = NumEntries
  OBVIOUS
<1> PICK n : n = Len(rec.idx.data)
  OBVIOUS
<1>1. /\ rec \in Recordings /\ rec.file.opens /\ rec.idx.opens
      /\ camera.type \in {"sps", "pps", "idr", "slice"}
      /\ camera.count \in Nat /\ camera.now \in Nat
      /\ rec.sps \in Nat /\ rec.pps \in Nat /\ rec.saving \in BOOLEAN
      /\ rec.keyed \in BOOLEAN /\ N \in Nat /\ n \in Nat
      /\ rec.tail \in Nat /\ rec.file \in TheFiles /\ rec.idx \in TheFiles
  BY RecordingIs, FileIs DEF WriterInv, WriterTypes
<1>2. /\ WriterTypes /\ Phases /\ Lengths /\ TagsFit /\ IndexFits
  BY DEF WriterInv
<1>3. /\ t \in CameraTypes /\ Follows(t) /\ u \in CameraUnits /\ u.n = camera.count + 1
      /\ u.type = t /\ u.good /\ rec' = AddTimedPacket(rec, u, Out)
      /\ u.ts = (IF t \in {"sps", "slice"} THEN camera.now + 1 ELSE camera.now)
      /\ camera' = [type |-> t, count |-> camera.count + 1, now |-> u.ts]
      /\ half' = (rec'.tail # rec.tail) /\ rec.saving /\ ~half
  BY DEF WrittenUnit
<1>4. /\ rec.meta /\ rec.sps # 0 /\ Get(rec) /\ N >= 4
      /\ rec.file.pos = N /\ rec.idx.pos = n /\ n % 2 = 0
      /\ ~rec.keyed => camera.type = "pps"
  BY <1>2, <1>3 DEF Phases, Lengths, Get
<1>5. /\ t \in {"sps", "slice"} => camera.type \notin {"sps", "pps"}
      /\ t = "pps" => camera.type = "sps"
      /\ t = "idr" => camera.type = "pps"
      /\ camera.type = "pps" => t = "idr"
  <2>1. CASE camera.type = "sps"
    BY <1>3, <2>1 DEF Follows
  <2>2. CASE camera.type = "pps"
    BY <1>3, <2>2 DEF Follows
  <2>3. CASE camera.type \notin {"sps", "pps"}
    BY <1>3, <2>3 DEF Follows
  <2> QED
    BY <2>1, <2>2, <2>3
<1>6. rec.keyed \/ t = "idr"
  BY <1>4, <1>5
<1>7. Records(rec, u, rec')
  <2>1. Records(rec, u, AddTimedPacket(rec, u, Out))
    BY <1>1, <1>3, <1>4, <1>6, RecordsUnit
  <2> QED
    BY <1>3, <2>1
<1>8. half' \in BOOLEAN
  BY <1>3
<1>9. Grown(t, N, m)
  <2>1. Grown(u.type, N, m)
    BY <1>2, <1>3, <1>4, <1>7, <1>8, RecordsGrow
  <2> QED
    BY <1>3, <2>1
<1>10. /\ rec'.tail = (IF t = "sps" THEN N ELSE N + 2)
       /\ N % 2 = 0 /\ rec'.tail = Len(rec'.file.data) /\ rec'.keyed
       /\ rec.keyed => rec.tail = N
       /\ rec.tail = N \/ (rec.tail = 0 /\ N = 4)
       /\ Now \in Int /\ Now' = (IF t \in {"sps", "slice"} THEN Now + 1 ELSE Now)
       /\ t # "sps" => CellAt(N + 1)'.time = Now'
  BY <1>9 DEF Grown
<1>11. Protocol(t)
  <2>1. t = "sps" => ~half'
    BY <1>3, <1>6, <1>10
  <2> QED
    BY <1>5, <1>6, <2>1 DEF Protocol
<1>12. TagsFit' /\ IndexFits'
  BY <1>2, <1>3, <1>9, <1>11, TagsStayFit, IndexStaysFit
<1>13. /\ rec' \in Recordings /\ rec'.file.opens /\ rec'.idx.opens
       /\ rec'.saving = rec.saving /\ rec'.sps = rec.sps /\ rec'.pps = rec.pps
       /\ rec'.good = rec.good /\ rec'.meta = rec.meta
       /\ rec'.file.pos = Len(rec'.file.data)
       /\ IF t \in {"sps", "idr"} THEN Entered(rec, u.ts - rec.first, rec'.idx)
          ELSE rec'.idx = rec.idx
  BY <1>3, <1>7 DEF Records
<1>14. /\ camera'.type = t /\ camera'.count = camera.count + 1 /\ camera'.count # 0
       /\ camera'.count \in Nat /\ u.ts \in Nat
  <2>1. camera.count + 1 # 0 /\ camera.count + 1 \in Nat
    BY <1>1
  <2> QED
    BY <1>3, <2>1 DEF CameraUnits
<1>15. WriterTypes'
  BY <1>3, <1>8, <1>13, <1>14 DEF WriterTypes, CameraTypes
<1>16. Phases'
  <2>1. rec.good /\ camera.count # 0
    BY <1>2, <1>4 DEF Phases
  <2> QED
    BY <1>4, <1>10, <1>13, <1>14, <2>1 DEF Phases
<1>17. /\ rec'.tail \in Nat /\ rec'.tail >= 6 /\ rec'.tail % 2 = 0 /\ rec.tail <= rec'.tail
       /\ rec'.tail # 0
  <2>1. CASE t = "sps"
    <3>1. rec.keyed /\ rec.tail >= 6
      BY <1>2, <1>6, <2>1 DEF Lengths
    <3>2. rec'.tail = rec.tail /\ rec.tail % 2 = 0
      BY <1>10, <2>1, <3>1
    <3>3. rec.tail # 0 /\ rec.tail <= rec.tail
      BY ONLY <1>1, <3>1
    <3> QED
      BY <1>1, <3>1, <3>2, <3>3
  <2>2. CASE t # "sps"
    <3>1. (N + 2) % 2 = 0
      BY <1>1, <1>10, Halves
    <3>2. rec'.tail = N + 2 /\ rec.tail <= N
      BY <1>1, <1>4, <1>10, <2>2
    <3>3. N + 2 \in Nat /\ N + 2 >= 6 /\ N + 2 # 0 /\ rec.tail <= N + 2
      BY ONLY <1>1, <1>4, <3>2
    <3> QED
      BY <3>1, <3>2, <3>3
  <2> QED
    BY <2>1, <2>2
<1>18. /\ rec'.idx.pos = Len(rec'.idx.data) /\ rec'.idx.pos % 2 = 0
       /\ Len(rec'.idx.data) > 0
  <2>1. CASE t \in {"sps", "idr"}
    <3>1. rec'.idx.pos = n + 2 /\ Len(rec'.idx.data) = n + 2
      BY <1>13, <2>1 DEF Entered
    <3>2. (n + 2) % 2 = 0
      BY <1>1, <1>4, Halves
    <3>3. n + 2 > 0
      BY <1>1
    <3> QED
      BY <3>1, <3>2, <3>3
  <2>2. CASE t \notin {"sps", "idr"}
    <3>1. rec.keyed /\ n > 0
      BY <1>2, <1>6, <2>2 DEF Lengths
    <3> QED
      BY <1>4, <1>13, <2>2, <3>1
  <2> QED
    BY <2>1, <2>2
<1>19. Lengths'
  <2>1. Len(rec'.file.data) >= 4
    <3>1. \A a \in Nat : a >= 6 => a >= 4
      OBVIOUS
    <3> QED
      BY <1>10, <1>17, <3>1
  <2> QED
    BY <1>3, <1>4, <1>10, <1>13, <1>17, <1>18, <2>1 DEF Lengths
<1>20. Extends
  <2>1. /\ \A i \in Tags : i \in Tags' /\ CellAt(i)' = CellAt(i)
        /\ \A i \in Tags' : i \in Tags \/ (i = N + 1 /\ t # "sps")
        /\ \A i \in Tags : i < N + 1 /\ i + 1 \in 1..N
    BY <1>3, <1>9, GrownTags
  <2>2. Now <= Now'
    BY <1>10
  <2>3. \A i \in Tags' : \/ i \in Tags
                         \/ i > rec.tail /\ CellAt(i)'.time >= Now
    <3>1. t # "sps" => CellAt(N + 1)'.time >= Now
      BY <1>10, <2>2
    <3>2. N + 1 > rec.tail
      BY <1>1, <1>10
    <3>3. ASSUME NEW i \in Tags', i \notin Tags
          PROVE  i > rec.tail /\ CellAt(i)'.time >= Now
      <4>1. i = N + 1 /\ t # "sps"
        BY <2>1, <3>3
      <4> QED
        BY <3>1, <3>2, <4>1
    <3> QED
      BY <3>3
  <2>4. Seen \in Nat /\ Seen' \in Nat /\ Seen <= Seen' /\ Seen' = N
        /\ (Seen = N \/ rec.tail = 0)
    <3>1. CASE half'
      <4>1. rec'.tail # rec.tail /\ rec'.tail # 0
        BY <1>3, <1>17, <3>1
      <4>2. t # "sps" /\ rec'.tail = N + 2
        BY <1>10, <1>11, <3>1 DEF Protocol
      <4>3. Seen' = N
        <5>1. Seen' = rec'.tail - 2
          BY <3>1, <4>1 DEF Seen
        <5> QED
          BY <1>1, <4>2, <5>1
      <4>4. Seen = (IF rec.tail = 0 THEN 0 ELSE rec.tail)
        BY <1>3 DEF Seen
      <4> QED
        BY <1>1, <1>10, <4>3, <4>4
    <3>2. CASE ~half'
      <4>1. rec'.tail = rec.tail /\ rec'.tail # 0
        BY <1>3, <1>17, <3>2
      <4>2. Seen' = rec.tail /\ Seen = rec.tail
        BY <1>3, <3>2, <4>1 DEF Seen
      <4>3. rec.tail = N
        BY <1>10, <4>1
      <4> QED
        BY <1>1, <4>2, <4>3
    <3> QED
      BY <3>1, <3>2
  <2>5. ASSUME NEW i \in Tags', i <= Seen' PROVE i \in Tags /\ i <= Seen
    <3>1. i # N + 1 /\ i <= N
      BY <1>1, <2>4, <2>5
    <3>2. i \in Tags
      BY <2>1, <3>1
    <3>3. rec.tail # 0
      <4>1. i \in 5..rec.tail
        BY <3>2 DEF Tags
      <4> QED
        BY <1>1, <4>1
    <3> QED
      BY <2>4, <3>1, <3>2, <3>3
  <2> QED
    BY <1>1, <1>17, <2>1, <2>2, <2>3, <2>4, <2>5 DEF Extends
<1> QED
  BY <1>12, <1>15, <1>16, <1>19, <1>20 DEF WriterInv

LEMMA WriteUnitFits ==
  ASSUME WriterInv, WriteUnit
  PROVE  WriterInv' /\ Extends
<1>1. \E t, u : WrittenUnit(t, u)
  BY UnitIs DEF WriterInv
<1>2. PICK t, u : WrittenUnit(t, u)
  BY <1>1
<1> QED
  BY <1>2, FirstSets, LaterUnits

-----------------------------------------------------------------------------
(* The end of the recording, and what is flushed.                          *)

Closed(w, x) ==
  /\ x \in Recordings /\ x.file.opens /\ x.idx = w.idx /\ ~x.saving
  /\ x.sps = w.sps /\ x.pps = w.pps /\ x.good = w.good /\ x.first = w.first
  /\ x.meta = w.meta /\ x.keyed = w.keyed /\ x.tail = w.tail
  /\ IF w.meta
     THEN /\ Len(x.file.data) = Len(w.file.data)
          /\ x.file.data[2].is \notin Kinds /\ x.file.data[3].is \notin Kinds
          /\ \A i \in 1..Len(w.file.data) :
               i \notin {2, 3} => x.file.data[i] = w.file.data[i]
     ELSE Len(x.file.data) = 1 /\ x.file.data[1].is \notin Kinds

LEMMA CloseIs ==
  ASSUME NEW w \in Recordings, w.file.opens,
         w.meta => Len(w.file.data) >= 4,
         ~w.meta => w.file.pos = 0 /\ Len(w.file.data) = 0
  PROVE  Closed(w, CloseFlv(w, Out, -1))
<1> DEFINE s == Cell("size", 0, 0)
           d == Cell("duration", 0, w.duration)
           x == CloseFlv(w, Out, -1)
<1>1. /\ w.file \in TheFiles /\ w.file.pos \in Int /\ Len(w.file.data) \in Nat
      /\ w.duration \in Int
  BY RecordingIs, FileIs
<1>2. s \in TheCells /\ s.is \notin Kinds /\ d \in TheCells /\ d.is \notin Kinds
  BY <1>1 DEF Cell, TheCells, Names, Kinds
<1>3. CASE w.meta
  <2> DEFINE f == Seek(w.file, 2)
             g == WriteFile(f, <<s>>, 1)
             v == [w EXCEPT !.file = g]
             q == UpdateDuration(v, Out)
  <2>1. /\ f \in TheFiles /\ f.pos = 2 /\ f.data = w.file.data /\ f.opens
    <3>1. 2 \in Int /\ w.file.opens
      OBVIOUS
    <3> QED
      BY ONLY <1>1, <3>1, SeekIs, Zenon
  <2>2. x = [q EXCEPT !.saving = FALSE]
    <3>1. (IF w.meta THEN SizePos ELSE -1) = 2
      BY <1>3 DEF SizePos
    <3>2. ~(f.pos < 0)
      BY <2>1
    <3> HIDE DEF s
    <3> QED
      BY OutIs, <3>1, <3>2, Zenon DEF CloseFlv, s
  <2> HIDE DEF f, x, s
  <2>3. /\ g \in TheFiles /\ g.opens /\ g.pos = 3
        /\ Len(g.data) = Len(w.file.data)
        /\ g.data[3] = s
        /\ \A i \in 1..Len(w.file.data) : i # 3 => g.data[i] = w.file.data[i]
    <3>1. f.pos \in Nat /\ f.pos <= Len(f.data) /\ 2 + 1 = 3
      BY <1>1, <1>3, <2>1
    <3>2. /\ g \in TheFiles /\ g.opens /\ g.pos = f.pos + 1
          /\ Len(g.data) = (IF Len(f.data) > f.pos THEN Len(f.data) ELSE f.pos + 1)
          /\ g.data[f.pos + 1] = s
          /\ \A i \in 1..Len(f.data) : i # f.pos + 1 => g.data[i] = f.data[i]
      <4>1. OneWritten(f, s, g)
        BY <1>2, <2>1, <3>1, WriteOne
      <4> HIDE DEF g
      <4> QED
        BY <4>1 DEF OneWritten
    <3> HIDE DEF g
    <3>3. Len(f.data) > f.pos
      BY <1>1, <1>3, <2>1
    <3> QED
      BY <2>1, <3>1, <3>2, <3>3
  <2> HIDE DEF g
  <2>4. /\ v \in Recordings /\ v.file = g /\ v.idx = w.idx /\ v.sps = w.sps
        /\ v.pps = w.pps /\ v.good = w.good /\ v.first = w.first /\ v.meta = w.meta
        /\ v.keyed = w.keyed /\ v.tail = w.tail
    BY <2>3 DEF Recordings
  <2> HIDE DEF v
  <2>5. q = [v EXCEPT !.file = q.file] /\ Timed(g, q.file)
    BY <1>3, <2>3, <2>4, UpdateDurationIs
  <2> DEFINE h == q.file
  <2>6. /\ h \in TheFiles /\ h.opens /\ Len(h.data) = Len(g.data)
        /\ h.data[2].is = "duration"
        /\ \A i \in 1..Len(g.data) : i # 2 => h.data[i] = g.data[i]
    BY <2>5 DEF Timed
  <2>7. q = [v EXCEPT !.file = h]
    BY <2>5
  <2> HIDE DEF q, h
  <2>8. /\ x \in Recordings /\ x.file = h /\ x.idx = w.idx /\ x.sps = w.sps
        /\ x.pps = w.pps /\ x.good = w.good /\ x.first = w.first /\ x.meta = w.meta
        /\ x.keyed = w.keyed /\ x.tail = w.tail /\ x.saving = FALSE
    BY <2>2, <2>4, <2>6, <2>7 DEF Recordings
  <2>9. 3 \in 1..Len(w.file.data) /\ Len(h.data) = Len(w.file.data)
    BY <1>1, <1>3, <2>3, <2>6
  <2>10. h.data[3] = s /\ h.data[2].is \notin Kinds
    BY <2>3, <2>6, <2>9 DEF Kinds
  <2>11. ASSUME NEW i \in 1..Len(w.file.data), i \notin {2, 3}
         PROVE  h.data[i] = w.file.data[i]
    BY <2>3, <2>6, <2>9, <2>11
  <2> QED
    BY <1>2, <1>3, <2>6, <2>8, <2>9, <2>10, <2>11 DEF Closed, x
<1>4. CASE ~w.meta
  <2> DEFINE f == Seek(w.file, 0)
             g == WriteFile(f, <<d>>, 1)
             h == Seek(g, w.file.pos)
             q == [w EXCEPT !.file = h]
  <2>1. /\ f \in TheFiles /\ f.pos = 0 /\ f.data = w.file.data /\ f.opens
    <3>1. 0 \in Int /\ w.file.opens
      OBVIOUS
    <3> QED
      BY ONLY <1>1, <3>1, SeekIs, Zenon
  <2>2. x = [q EXCEPT !.saving = FALSE]
    <3>1. Seek(w.file, -1).pos < 0
      <4>1. -1 \in Int /\ -1 < 0
        OBVIOUS
      <4> QED
        BY <1>1, <4>1, SeekIs
    <3>2. x = [UpdateDuration(w, Out) EXCEPT !.saving = FALSE]
      BY <1>4, <3>1 DEF CloseFlv
    <3>3. UpdateDuration(w, Out) = q
      BY <1>4, OutIs, Zenon DEF UpdateDuration
    <3> HIDE DEF x, q
    <3> QED
      BY <3>2, <3>3
  <2> HIDE DEF f, x, d
  <2>3. g \in TheFiles /\ g.opens /\ Len(g.data) = 1 /\ g.data[1] = d
    <3>1. f.pos \in Nat /\ f.pos <= Len(f.data) /\ 0 + 1 = 1
      BY <1>4, <2>1
    <3>2. /\ g \in TheFiles /\ g.opens /\ g.pos = f.pos + 1
          /\ Len(g.data) = (IF Len(f.data) > f.pos THEN Len(f.data) ELSE f.pos + 1)
          /\ g.data[f.pos + 1] = d
      <4>1. OneWritten(f, d, g)
        BY <1>2, <2>1, <3>1, WriteOne
      <4> HIDE DEF g
      <4> QED
        BY <4>1 DEF OneWritten
    <3> HIDE DEF g
    <3>3. ~(Len(f.data) > f.pos)
      BY <1>4, <2>1
    <3> QED
      BY <2>1, <3>1, <3>2, <3>3
  <2> HIDE DEF g
  <2>4. h \in TheFiles /\ h.data = g.data /\ h.opens
    BY <1>1, <2>3, SeekIs
  <2> HIDE DEF h
  <2>5. /\ x \in Recordings /\ x.file = h /\ x.idx = w.idx /\ x.sps = w.sps
        /\ x.pps = w.pps /\ x.good = w.good /\ x.first = w.first /\ x.meta = w.meta
        /\ x.keyed = w.keyed /\ x.tail = w.tail /\ x.saving = FALSE
    BY <2>2, <2>4 DEF Recordings
  <2> QED
    BY <1>2, <1>4, <2>3, <2>4, <2>5 DEF Closed, x
<1> QED
  BY <1>3, <1>4 DEF x

\* A step that leaves the tags, the index and the camera alone.
LEMMA TagsStay ==
  ASSUME WriterInv, WriterTypes', Lengths',
         rec'.idx = rec.idx, rec'.first = rec.first, rec'.keyed = rec.keyed,
         rec'.tail = rec.tail, camera' = camera, half' => half,
         \A i \in 1..Len(rec'.file.data) : i < 5 => CellAt(i)'.is \notin Kinds,
         rec.keyed => \A i \in 5..rec.tail : CellAt(i)' = CellAt(i)
  PROVE  TagsFit' /\ IndexFits' /\ Tags' = Tags /\ Now' = Now
<1>1. /\ Tags' = Tags /\ NumEntries' = NumEntries /\ Now' = Now
      /\ \A k : LeadsTo(k)' = LeadsTo(k) /\ TimeOf(k)' = TimeOf(k)
  BY DEF Tags, NumEntries, Now, LeadsTo, TimeOf
<1>2. /\ rec.tail \in Nat /\ rec.keyed \in BOOLEAN
      /\ rec.keyed => rec.tail >= 6 /\ rec.tail % 2 = 0
  BY SeenIs, RecordingIs DEF WriterInv, WriterTypes
<1>3. ~rec.keyed => Tags = {} /\ NumEntries = 0
  BY NoTags DEF WriterInv
<1>4. ASSUME NEW i \in Tags
      PROVE  CellAt(i)' = CellAt(i) /\ CellAt(i + 1)' = CellAt(i + 1)
  <2>1. rec.keyed
    BY <1>2, <1>3
  <2>2. i \in 5..rec.tail /\ i % 2 = 1 /\ i \in Int
    BY DEF Tags
  <2>3. i + 1 \in 5..rec.tail
    <3>1. i + 1 <= rec.tail
      BY <1>2, <2>1, <2>2, Parities
    <3> QED
      BY <1>2, <2>2, <3>1
  <2> QED
    BY <2>1, <2>2, <2>3
<1>5. TagsFit'
  <2>1. ASSUME NEW i \in Tags'
        PROVE  /\ CellAt(i)'.is \in Kinds /\ CellAt(i)'.unit \in 1..camera'.count
               /\ CellAt(i + 1)'.is = "back"
    BY <1>1, <1>4, <2>1 DEF WriterInv, TagsFit
  <2>2. ASSUME NEW i \in Tags', NEW j \in Tags', i < j
        PROVE  CellAt(i)'.unit < CellAt(j)'.unit
    BY <1>1, <1>4, <2>2 DEF WriterInv, TagsFit
  <2> QED
    BY <2>1, <2>2 DEF TagsFit
<1>6. ASSUME NEW k \in 1..NumEntries', NEW o, o = LeadsTo(k) PROVE EntryFits(k)'
  <2>1. k \in 1..NumEntries /\ rec.keyed
    <3>1. NumEntries # 0
      BY <1>1, <1>6
    <3> QED
      BY <1>1, <1>2, <1>3, <3>1
  <2>2. EntryFits(k)
    BY <2>1 DEF WriterInv, IndexFits
  <2>3. TimeOf(k + 1)' = TimeOf(k + 1) /\ LeadsTo(k)' = o /\ TimeOf(k)' = TimeOf(k)
    BY <1>1, <1>6
  <2>4. o \in 5..(rec.tail + 1)
    BY <1>6, <2>2 DEF EntryFits
  <2>5. o <= rec.tail => CellAt(o)' = CellAt(o)
    BY <1>2, <2>1, <2>4
  <2> QED
    BY <1>1, <1>6, <2>2, <2>3, <2>5 DEF EntryFits, CellAt
<1>7. IndexFits'
  <2>1. \A k \in 1..NumEntries' : EntryFits(k)'
    BY <1>1, <1>6
  <2>2. \A j, k \in 1..NumEntries' :
          j < k => LeadsTo(j)' < LeadsTo(k)' /\ TimeOf(j)' <= TimeOf(k)'
    BY <1>1 DEF WriterInv, IndexFits
  <2>3. rec'.keyed => LeadsTo(1)' = 5 /\ CellAt(5)'.is = "idr"
    <3>1. rec.keyed => 5 \in 5..rec.tail
      BY <1>2
    <3> QED
      BY <1>1, <3>1 DEF WriterInv, IndexFits
  <2>4. rec'.keyed /\ camera'.type \in {"sps", "pps"} => TimeOf(NumEntries)' = Now'
    <3>1. TimeOf(NumEntries)' = TimeOf(NumEntries)
      BY <1>1 DEF TimeOf
    <3> QED
      BY <1>1, <3>1 DEF WriterInv, IndexFits
  <2>5. rec'.keyed /\ camera'.type = "sps" => LeadsTo(NumEntries)' = rec'.tail + 1
    <3>1. LeadsTo(NumEntries)' = LeadsTo(NumEntries)
      BY <1>1 DEF LeadsTo
    <3> QED
      BY <3>1 DEF WriterInv, IndexFits
  <2>6. \A i \in Tags' : CellAt(i)'.is = "idr" => \E k \in 1..NumEntries' : LeadsTo(k)' = i
    BY <1>1, <1>4 DEF WriterInv, IndexFits
  <2> QED
    BY <2>1, <2>2, <2>3, <2>4, <2>5, <2>6 DEF IndexFits
<1> QED
  BY <1>1, <1>5, <1>7

LEMMA EndRecordingFits ==
  ASSUME WriterInv, EndRecording
  PROVE  WriterInv' /\ Extends
<1> PICK N : N = Len(rec.file.data)
  OBVIOUS
<1>1. /\ rec \in Recordings /\ rec.file.opens /\ rec.idx.opens
      /\ camera \in [type : {"sps", "pps", "idr", "slice"}, count : Nat, now : Nat]
      /\ rec.keyed \in BOOLEAN /\ rec.meta \in BOOLEAN /\ N \in Nat /\ rec.tail \in Nat
      /\ rec.first \in Int /\ half \in BOOLEAN
  BY RecordingIs, FileIs DEF WriterInv, WriterTypes
<1>2. rec.saving /\ ~half /\ half' = half /\ camera' = camera
      /\ rec' = CloseFlv(rec, Out, -1)
  BY DEF EndRecording
<1>3. /\ rec.meta => N >= 4
      /\ ~rec.meta => rec.file.pos = 0 /\ N = 0
      /\ rec.keyed => rec.meta
      /\ rec.meta /\ ~rec.keyed => N = 4
  BY <1>2 DEF WriterInv, Lengths, Phases
<1>4. Closed(rec, rec')
  <2>1. Closed(rec, CloseFlv(rec, Out, -1))
    BY <1>1, <1>3, CloseIs
  <2> QED
    BY <1>2, <2>1
<1>5. /\ rec' \in Recordings /\ rec'.file.opens /\ rec'.idx = rec.idx /\ ~rec'.saving
      /\ rec'.sps = rec.sps /\ rec'.pps = rec.pps /\ rec'.good = rec.good
      /\ rec'.first = rec.first /\ rec'.meta = rec.meta /\ rec'.keyed = rec.keyed
      /\ rec'.tail = rec.tail
      /\ IF rec.meta
         THEN /\ Len(rec'.file.data) = N
              /\ CellAt(2)'.is \notin Kinds /\ CellAt(3)'.is \notin Kinds
              /\ \A i \in 1..N : i \notin {2, 3} => CellAt(i)' = CellAt(i)
         ELSE Len(rec'.file.data) = 1 /\ CellAt(1)'.is \notin Kinds
  BY <1>4 DEF Closed, CellAt
<1>6. WriterTypes'
  BY <1>1, <1>2, <1>5 DEF WriterTypes
<1>7. Phases'
  BY <1>2, <1>5 DEF Phases, WriterInv
<1>8. Lengths'
  <2>1. 1 <= 1
    OBVIOUS
  <2> QED
    BY <1>1, <1>2, <1>3, <1>5, <2>1 DEF Lengths, WriterInv
<1>9. ASSUME NEW i \in 1..Len(rec'.file.data), i < 5 PROVE CellAt(i)'.is \notin Kinds
  <2>1. CASE rec.meta
    <3>1. i \in 1..N
      BY <1>5, <2>1
    <3>2. CellAt(i).is \notin Kinds
      BY <1>9, <3>1 DEF WriterInv, TagsFit
    <3> QED
      BY <1>5, <2>1, <3>1, <3>2
  <2>2. CASE ~rec.meta
    <3>1. i \in 1..1
      BY <1>5, <2>2
    <3>2. i = 1
      BY <3>1
    <3> QED
      BY <1>5, <2>2, <3>2
  <2> QED
    BY <1>1, <2>1, <2>2
<1>10. rec.keyed => \A i \in 5..rec.tail : CellAt(i)' = CellAt(i)
  <2>1. rec.keyed => rec.tail = N
    BY SeenIs DEF WriterInv
  <2> QED
    BY <1>1, <1>3, <1>5, <2>1
<1>11. TagsFit' /\ IndexFits' /\ Tags' = Tags /\ Now' = Now
  BY <1>2, <1>5, <1>6, <1>8, <1>9, <1>10, TagsStay
<1>12. /\ \A i \in Tags : rec.keyed /\ CellAt(i)' = CellAt(i) /\ i <= rec.tail
       /\ ~rec.keyed => Tags = {}
  <2>1. ~rec.keyed => Tags = {}
    BY NoTags DEF WriterInv
  <2> QED
    BY <1>1, <1>10, <2>1 DEF Tags
<1>13. /\ Seen \in Nat /\ Seen' \in Nat
       /\ rec.keyed => Seen' = Seen
       /\ ~rec.keyed => Seen = 0
  <2>1. Seen \in Nat /\ (rec.tail # 0 <=> rec.keyed)
    BY SeenIs DEF WriterInv
  <2>2. Seen' \in Nat
    <3>1. Len(rec'.file.data) \in Nat
      BY <1>5, RecordingIs, FileIs
    <3> QED
      BY <1>1, <1>2, <1>5, <3>1 DEF Seen
  <2> QED
    BY <1>1, <1>2, <1>5, <2>1, <2>2 DEF Seen
<1>14. Now \in Int
  BY <1>1 DEF Now
<1>15. Extends
  <2>1. Seen <= Seen' /\ Now <= Now' /\ rec.tail <= rec'.tail
    BY <1>1, <1>5, <1>11, <1>13, <1>14
  <2> QED
    BY <1>1, <1>5, <1>11, <1>12, <1>13, <2>1 DEF Extends
<1> QED
  BY <1>6, <1>7, <1>8, <1>11, <1>15 DEF WriterInv

\* What a reader learns when the rest of a tag is flushed.
LEMMA FlushedFits ==
  ASSUME WriterInv, Flushed
  PROVE  /\ WriterInv' /\ Tags' = Tags /\ Now' = Now /\ UNCHANGED rec
         /\ Seen' = rec.tail /\ Seen <= Seen' /\ Seen' \in Nat /\ rec.keyed
<1>1. half /\ ~half' /\ half' \in BOOLEAN /\ UNCHANGED <<rec, camera>>
  BY DEF Flushed
<1>2. WriterTypes' /\ Phases'
  BY <1>1 DEF WriterInv, WriterTypes, Phases
<1>3. Lengths'
  BY <1>1 DEF WriterInv, Lengths
<1>4. rec.keyed
  BY <1>1, RecordingIs DEF WriterInv, WriterTypes, Lengths
<1>5. TagsFit' /\ IndexFits' /\ Tags' = Tags /\ Now' = Now
  <2>1. \A i : CellAt(i)' = CellAt(i)
    BY <1>1 DEF CellAt
  <2>2. \A i \in 1..Len(rec'.file.data) : i < 5 => CellAt(i)'.is \notin Kinds
    BY <1>1, <2>1 DEF WriterInv, TagsFit
  <2> QED
    BY <1>1, <1>2, <1>3, <2>1, <2>2, TagsStay
<1>6. /\ Seen \in Nat /\ rec.tail \in Nat /\ rec.tail # 0 /\ Seen <= rec.tail
  BY <1>4, SeenIs DEF WriterInv
<1>7. Seen' = rec.tail
  BY <1>1, <1>6 DEF Seen
<1> QED
  BY <1>1, <1>2, <1>3, <1>4, <1>5, <1>6, <1>7 DEF WriterInv

-----------------------------------------------------------------------------
(* What the reader makes of a step of the recorder.                        *)

LEMMA TagIs ==
  ASSUME WriterInv, NEW i \in Tags
  PROVE  /\ rec.keyed /\ i \in Int /\ i % 2 = 1 /\ i >= 5 /\ i <= rec.tail
         /\ i \in 1..Len(rec.file.data) /\ rec.tail = Len(rec.file.data)
         /\ CellAt(i) \in TheCells
         /\ CellAt(i).is \in Kinds /\ CellAt(i).unit \in Nat /\ CellAt(i).unit # 0
         /\ CellAt(i).time \in Int
<1>1. rec.keyed
  <2>1. ~rec.keyed => Tags = {}
    BY NoTags DEF WriterInv
  <2>2. rec.keyed \in BOOLEAN
    BY RecordingIs DEF WriterInv, WriterTypes
  <2> QED
    BY <2>1, <2>2
<1>2. i \in 5..rec.tail /\ i % 2 = 1 /\ rec.tail \in Nat
  BY SeenIs DEF Tags, WriterInv
<1>3. rec.tail = Len(rec.file.data)
  BY <1>1, SeenIs DEF WriterInv
<1>4. i \in 1..Len(rec.file.data) /\ i \in Int /\ i >= 5 /\ i <= rec.tail
  BY <1>2, <1>3
<1>5. CellAt(i) \in TheCells /\ CellAt(i).time \in Int
  BY <1>4, RecordingIs, FileIs DEF CellAt, WriterInv, WriterTypes
<1>6. CellAt(i).is \in Kinds /\ CellAt(i).unit \in 1..camera.count /\ camera.count \in Nat
  BY DEF WriterInv, TagsFit, WriterTypes
<1> QED
  BY <1>1, <1>2, <1>3, <1>4, <1>5, <1>6

ReaderStays ==
  UNCHANGED <<indexed, thread, todo, requests, range, ended, reader, output, died>>

\* The key to begin with stays one: a new IDR is not earlier than now.
LEMMA KeyStays ==
  ASSUME WriterInv, PlayerTypes, NEW o, KeyAt(o), range' = range,
         WriterInv', Now <= Now', rec.tail <= rec'.tail,
         \A i \in Tags : i \in Tags' /\ CellAt(i)' = CellAt(i),
         \A i \in Tags' : i \in Tags \/ (i > rec.tail /\ CellAt(i)'.time >= Now)
  PROVE  KeyAt(o)' /\ CellAt(o)' = CellAt(o)
<1>1. /\ o \in Tags /\ IsKey(o) /\ Now >= range[1]
      /\ CellAt(o).time < range[1] \/ \A i \in Tags : IsKey(i) => i >= o
      /\ \A i \in Tags : IsKey(i) /\ i > o => CellAt(i).time >= range[1]
  BY DEF KeyAt
<1>2. range[1] \in Int /\ Now \in Int /\ Now' \in Int
  <2>1. Now \in Int
    BY RecordingIs DEF Now, WriterInv, WriterTypes
  <2>2. Now' \in Int
    <3>1. rec' \in Recordings /\ camera'.now \in Nat
      BY DEF WriterInv, WriterTypes
    <3>2. rec'.first \in Int
      BY <3>1, RecordingIs
    <3> QED
      BY <3>1, <3>2 DEF Now
  <2> QED
    BY <2>1, <2>2 DEF PlayerTypes
<1>3. o \in Int /\ o <= rec.tail /\ rec.tail \in Nat
  BY <1>1, TagIs, SeenIs DEF WriterInv
<1>4. o \in Tags' /\ CellAt(o)' = CellAt(o) /\ IsKey(o)'
  BY <1>1 DEF IsKey
<1>5. Now' >= range[1]
  BY <1>1, <1>2
<1>6. ASSUME NEW i \in Tags', i \notin Tags
      PROVE  i > o /\ CellAt(i)'.time >= range[1]
  <2>1. i > rec.tail /\ CellAt(i)'.time >= Now
    BY <1>6
  <2>2. i \in Int
    BY DEF Tags
  <2>3. CellAt(i)'.time \in Int
    <3>1. i \in 5..rec'.tail
      BY DEF Tags
    <3>2. WriterTypes' /\ Lengths'
      BY DEF WriterInv
    <3>3. rec'.keyed /\ rec' \in Recordings
      <4>1. rec' \in Recordings /\ rec'.keyed \in BOOLEAN
        BY <3>2, RecordingIs DEF WriterTypes
      <4>2. ~rec'.keyed => rec'.tail = 0
        BY <3>2 DEF Lengths
      <4> QED
        BY <3>1, <4>1, <4>2
    <3>4. rec'.tail = Len(rec'.file.data)
      BY <3>2, <3>3 DEF Lengths
    <3>5. rec'.file \in TheFiles
      BY <3>3, RecordingIs
    <3>6. i \in 1..Len(rec'.file.data)
      BY <3>1, <3>4, <3>5, FileIs
    <3> QED
      BY <3>5, <3>6, FileIs DEF CellAt
  <2> QED
    BY <1>1, <1>2, <1>3, <2>1, <2>2, <2>3
<1>7. CellAt(o)'.time < range'[1] \/ \A i \in Tags' : IsKey(i)' => i >= o
  <2>1. CASE CellAt(o).time < range[1]
    BY <1>4, <2>1
  <2>2. CASE \A i \in Tags : IsKey(i) => i >= o
    <3>1. ASSUME NEW i \in Tags', IsKey(i)' PROVE i >= o
      <4>1. CASE i \in Tags
        <5>1. IsKey(i)
          BY <3>1, <4>1 DEF IsKey
        <5> QED
          BY <2>2, <4>1, <5>1
      <4>2. CASE i \notin Tags
        <5>1. i > o /\ i \in Int
          BY <1>6, <4>2 DEF Tags
        <5> QED
          BY <1>3, <5>1
      <4> QED
        BY <4>1, <4>2
    <3> QED
      BY <3>1
  <2> QED
    BY <1>1, <2>1, <2>2
<1>8. ASSUME NEW i \in Tags', IsKey(i)', i > o PROVE CellAt(i)'.time >= range'[1]
  <2>1. CASE i \in Tags
    <3>1. IsKey(i) /\ CellAt(i)' = CellAt(i)
      BY <1>8, <2>1 DEF IsKey
    <3> QED
      BY <1>1, <1>8, <2>1, <3>1
  <2>2. CASE i \notin Tags
    BY <1>6, <2>2
  <2> QED
    BY <2>1, <2>2
<1> QED
  BY <1>4, <1>5, <1>7, <1>8 DEF KeyAt

LEMMA ReaderFollows ==
  ASSUME WriterInv, ReaderInv, WriterInv', ReaderStays, grew' \in BOOLEAN, SetsFit',
         Seen <= Seen', Seen' \in Nat, rec.tail <= rec'.tail, rec.keyed => Now <= Now',
         \A i \in Tags : i \in Tags' /\ CellAt(i)' = CellAt(i),
         \A i \in Tags' : i \in Tags \/ (i > rec.tail /\ CellAt(i)'.time >= Now)
  PROVE  ReaderInv'
<1>1. UNCHANGED <<indexed, thread, todo, requests, range, ended, pos, cached, sets,
                  sps, lost, first, latest, died>>
  BY DEF ReaderStays, reader, output
<1>2. /\ Seen \in Nat /\ rec.tail \in Nat /\ rec'.tail \in Nat
  <2>1. rec' \in Recordings
    BY DEF WriterInv, WriterTypes
  <2> QED
    BY <2>1, RecordingIs, SeenIs DEF WriterInv
<1>3. PlayerTypes'
  BY <1>1 DEF ReaderInv, PlayerTypes
<1>4. PlayerFits'
  <2>1. cached \in Nat /\ pos \in Nat /\ cached <= Seen /\ (pos # 0 => pos <= rec.tail)
    BY DEF ReaderInv, PlayerTypes, PlayerFits
  <2>2. cached <= Seen' /\ (pos # 0 => pos <= rec'.tail)
    BY <1>2, <2>1
  <2> QED
    BY <1>1, <2>2 DEF ReaderInv, PlayerFits
<1>5. SentFits'
  <2> PICK p : p = pos
    OBVIOUS
  <2> PICK l : l = latest
    OBVIOUS
  <2> SUFFICES ASSUME thread = "run", latest # 0, ~died, lost = "no"
               PROVE  /\ p \in Tags' /\ l <= CellAt(p)'.unit
                      /\ \A i \in Tags' : i <= p /\ CellAt(i)'.is # "config" =>
                                            CellAt(i)'.unit <= l
    <3>1. pos' = p /\ latest' = l
      BY <1>1
    <3> QED
      BY <1>1, <3>1 DEF SentFits, CellAt
  <2>1. /\ p \in Tags /\ l <= CellAt(p).unit
        /\ \A i \in Tags : i <= p /\ CellAt(i).is # "config" => CellAt(i).unit <= l
    BY DEF ReaderInv, SentFits, CellAt
  <2>2. p \in Int /\ p <= rec.tail
    BY <2>1, TagIs
  <2>3. ASSUME NEW i \in Tags', i <= p PROVE i \in Tags
    <3>1. i \in Int
      BY DEF Tags
    <3> QED
      BY <1>2, <2>2, <2>3, <3>1
  <2> QED
    BY <2>1, <2>3
<1>6. KeyFits'
  <2> SUFFICES ASSUME indexed PROVE KeyFits'
    BY <1>1 DEF KeyFits
  <2> PICK p : p = pos + 2
    OBVIOUS
  <2> PICK f : f = first
    OBVIOUS
  <2>1. /\ thread = "run" /\ first = 0 /\ ~ended /\ ~died /\ lost # "stale" =>
             pos >= 3 /\ p <= Seen /\ KeyAt(p)
        /\ first # 0 /\ todo # "play" => \E o \in Tags : CellAt(o).unit = f /\ KeyAt(o)
    BY DEF ReaderInv, KeyFits, KeyAt, IsKey, CellAt
  <2>2. ASSUME NEW o, KeyAt(o) PROVE KeyAt(o)' /\ CellAt(o)' = CellAt(o) /\ o \in Tags'
    <3>1. o \in Tags /\ rec.keyed
      BY <2>2, TagIs DEF KeyAt
    <3> QED
      BY <1>1, <2>2, <3>1, KeyStays DEF ReaderInv
  <2>3. ASSUME thread' = "run", first' = 0, ~ended', ~died', lost' # "stale"
        PROVE  pos' >= 3 /\ p <= Seen' /\ KeyAt(p)'
    <3>1. pos >= 3 /\ p <= Seen /\ KeyAt(p)
      BY <1>1, <2>1, <2>3
    <3>2. p \in Int
      BY <3>1, TagIs DEF KeyAt
    <3> QED
      BY <1>1, <1>2, <2>2, <3>1, <3>2
  <2>4. ASSUME first' # 0, todo' # "play"
        PROVE  \E o \in Tags' : CellAt(o)'.unit = f /\ KeyAt(o)'
    <3>1. PICK o \in Tags : CellAt(o).unit = f /\ KeyAt(o)
      BY <1>1, <2>1, <2>4
    <3> QED
      BY <2>2, <3>1
  <2>5. p = pos' + 2 /\ f = first'
    BY <1>1
  <2> QED
    BY <2>3, <2>4, <2>5 DEF KeyFits, KeyAt, IsKey, CellAt
<1> QED
  BY <1>3, <1>4, <1>5, <1>6 DEF ReaderInv

LEMMA ReaderExtends ==
  ASSUME WriterInv, ReaderInv, WriterInv', ReaderStays, UNCHANGED grew, Extends
  PROVE  ReaderInv'
<1>1. /\ Seen <= Seen' /\ Seen' \in Nat /\ rec.tail <= rec'.tail
      /\ rec.keyed => Now <= Now'
      /\ \A i \in Tags : i \in Tags' /\ CellAt(i)' = CellAt(i)
      /\ \A i \in Tags' : i \in Tags \/ (i > rec.tail /\ CellAt(i)'.time >= Now)
      /\ \A i \in Tags' : i <= Seen' => i \in Tags /\ i <= Seen
  BY DEF Extends
<1>2. UNCHANGED <<thread, todo, requests, pos, sets, lost>>
  BY DEF ReaderStays, reader
<1>3. SetsFit'
  <2> PICK p : p = pos
    OBVIOUS
  <2>1. p = pos' /\ p \in Nat /\ rec.tail \in Nat /\ (p # 0 => p <= rec.tail)
    BY <1>2, SeenIs DEF ReaderInv, PlayerTypes, PlayerFits, WriterInv
  <2>2. NoneUpTo(Seen) => \A i \in Tags' : i <= Seen' => CellAt(i)'.is # "config"
    BY <1>1 DEF NoneUpTo
  <2>3. ASSUME NoneUpTo(pos), NEW i \in Tags', i <= p PROVE CellAt(i)'.is # "config"
    <3>1. i \in Int /\ i >= 5
      BY <2>3 DEF Tags
    <3>2. i \in Tags
      BY <1>1, <2>1, <2>3, <3>1
    <3> QED
      BY <1>1, <2>3, <3>2 DEF NoneUpTo
  <2> QED
    BY <1>2, <2>1, <2>2, <2>3 DEF ReaderInv, SetsFit, NoneUpTo, CellAt
<1>4. grew' \in BOOLEAN
  BY DEF ReaderInv, PlayerTypes
<1> QED
  BY <1>1, <1>3, <1>4, ReaderFollows

LEMMA ReaderFlushed ==
  ASSUME WriterInv, ReaderInv, Flushed
  PROVE  WriterInv' /\ ReaderInv'
<1>1. /\ WriterInv' /\ Tags' = Tags /\ Now' = Now /\ UNCHANGED rec
      /\ Seen <= Seen' /\ Seen' \in Nat
  BY FlushedFits
<1>2. ReaderStays /\ grew' = (grew \/ requests > 0)
  BY DEF Flushed, ReaderStays
<1>3. \A i : CellAt(i)' = CellAt(i)
  BY <1>1 DEF CellAt
<1>4. SetsFit'
  <2>1. UNCHANGED <<thread, todo, requests, pos, sets, lost>>
    BY <1>2 DEF ReaderStays, reader
  <2>2. NoneUpTo(pos) => \A i \in Tags' : i <= pos => CellAt(i)'.is # "config"
    BY <1>1, <1>3 DEF NoneUpTo
  <2> QED
    BY <1>1, <1>2, <2>1, <2>2 DEF ReaderInv, SetsFit, NoneUpTo, CellAt
<1>5. rec.tail <= rec'.tail /\ Now <= Now'
  <2>1. rec.tail \in Nat /\ Now \in Int
    BY SeenIs, RecordingIs DEF WriterInv, WriterTypes, Now
  <2> QED
    BY <1>1, <2>1
<1>6. grew' \in BOOLEAN
  BY <1>2 DEF ReaderInv, PlayerTypes
<1> QED
  BY <1>1, <1>2, <1>3, <1>4, <1>5, <1>6, ReaderFollows

-----------------------------------------------------------------------------
(* What a reader reads.                                                    *)

\* There is none that is seen, or the frame is the next one, or the first parameter set
\* of a torn one.
ReadsNext(g) ==
  /\ g.cached \in Nat /\ g.cached <= Seen
  /\ \/ /\ g.frame = None /\ g.pos = 0 /\ g.lost \in {"no", "stale"}
        /\ lost = "stale" \/ \A i \in Tags : i <= Seen => i <= pos
     \/ /\ g.frame # None /\ g.pos \in Tags /\ g.frame = CellAt(g.pos)
        /\ g.lost = lost /\ lost # "stale"
        /\ g.pos = (IF pos = 0 THEN 5 ELSE pos + 2)
        /\ \A i \in Tags : i <= g.pos => i <= pos \/ i = g.pos
        /\ \A i \in Tags : i > pos => i >= g.pos
     \/ /\ g.frame # None /\ g.frame.is = "sps" /\ g.pos = 0
        /\ g.lost \in {"rewound", "stale"} /\ lost # "stale"
        /\ \A i \in Tags : i <= Seen => i <= pos
        /\ ~(pos >= 3 /\ pos + 2 <= Seen)

LEMMA NextPlace ==
  ASSUME NEW q \in Nat, q # 0 => q % 2 = 1 /\ q >= 3,
         NEW p, p = (IF q = 0 THEN 5 ELSE q + 2)
  PROVE  /\ p \in Nat /\ p % 2 = 1 /\ p >= 5 /\ p > q
         /\ \A i \in Int : i % 2 = 1 /\ i >= 5 /\ i < p => i <= q
         /\ \A i \in Int : i % 2 = 1 /\ i >= 5 /\ i > q => i >= p
<1>1. CASE q = 0
  BY <1>1
<1>2. CASE q # 0
  <2>1. q % 2 = 1 /\ q >= 3 /\ p = q + 2
    BY <1>2
  <2>2. (q + 2) % 2 = 1
    BY <2>1
  <2>3. ASSUME NEW i \in Int, i % 2 = 1 PROVE i # q + 1
    <3>1. (q + 1) % 2 = 0
      BY <2>1
    <3> QED
      BY <2>3, <3>1
  <2>4. \A i \in Int : i % 2 = 1 /\ i < p => i <= q
    BY <2>1, <2>3
  <2>5. \A i \in Int : i % 2 = 1 /\ i > q => i >= p
    BY <2>1, <2>3
  <2> QED
    BY <2>1, <2>2, <2>4, <2>5
<1> QED
  BY <1>1, <1>2

LEMMA NothingIs ==
  ASSUME WriterInv, NEW l \in {"no", "stale"},
         lost = "stale" \/ \A i \in Tags : i <= Seen => i <= pos
  PROVE  ReadsNext(Nothing(l))
<1> DEFINE g == Nothing(l)
<1>1. g.frame = None /\ g.pos = 0 /\ g.cached = 0 /\ g.lost = l
  BY Zenon DEF Nothing, Read
<1>2. 0 \in Nat /\ Seen \in Nat /\ 0 <= Seen
  BY SeenIs DEF WriterInv
<1> HIDE DEF g
<1> QED
  BY <1>1, <1>2 DEF ReadsNext, g

LEMMA NextIs ==
  ASSUME WriterInv, ReaderInv, NEW g \in GetNextFrame
  PROVE  ReadsNext(g)
<1>1. PICK p : p = NextTag
  OBVIOUS
<1>2. p = (IF pos = 0 THEN 5 ELSE pos + 2)
  <2>1. Start = 4 /\ (4 - 1) + 2 = 5
    BY HeaderIs DEF Start
  <2> QED
    BY <1>1, <2>1 DEF NextTag
<1>3. /\ pos \in Nat /\ cached \in Nat /\ cached <= Seen
      /\ pos # 0 => pos % 2 = 1 /\ pos >= 3
      /\ half \in BOOLEAN /\ lost \in {"no", "rewound", "stale"}
  BY DEF ReaderInv, PlayerTypes, PlayerFits, WriterInv, WriterTypes
<1>4. /\ p \in Nat /\ p % 2 = 1 /\ p >= 5 /\ p > pos
      /\ \A i \in Int : i % 2 = 1 /\ i >= 5 /\ i < p => i <= pos
      /\ \A i \in Int : i % 2 = 1 /\ i >= 5 /\ i > pos => i >= p
  BY <1>2, <1>3, NextPlace
<1>5. /\ Seen \in Nat /\ rec.tail \in Nat /\ Seen <= Len(rec.file.data)
      /\ Len(rec.file.data) \in Nat
      /\ rec.tail # 0 => Seen <= rec.tail
      /\ rec.tail # 0 <=> rec.keyed
      /\ rec.keyed => rec.tail >= 6 /\ rec.tail % 2 = 0 /\ rec.tail = Len(rec.file.data)
  BY SeenIs DEF WriterInv
<1>6. ~rec.keyed => Len(rec.file.data) <= 4
  <2>1. \/ ~rec.meta /\ Len(rec.file.data) <= 1
        \/ rec.meta /\ ~rec.keyed /\ Len(rec.file.data) = 4
        \/ rec.keyed
    BY RecordingIs DEF WriterInv, WriterTypes, Lengths
  <2>2. \A n \in Nat : n <= 1 \/ n = 4 => n <= 4
    OBVIOUS
  <2> QED
    BY <1>5, <2>1, <2>2
<1> PICK holds : holds = IF p <= cached THEN cached ELSE Seen
  OBVIOUS
<1> PICK torn \in BOOLEAN : torn <=> half /\ p = Seen + 1 /\ p <= Len(rec.file.data)
  OBVIOUS
<1>7. holds \in Nat /\ holds <= Seen
  BY <1>3, <1>5
<1>8. g \in (IF lost = "stale" THEN {Nothing("stale"), Nothing("no")}
             ELSE IF p <= holds THEN {Read(rec.file.data[p], p, holds, lost)}
             ELSE IF torn THEN TornTag
             ELSE {Nothing(l) : l \in IF pos > Seen THEN {"no", "stale"} ELSE {"no"}})
  BY <1>1, Zenon DEF GetNextFrame
<1>9. ASSUME NEW i \in Tags PROVE i \in Int /\ i % 2 = 1 /\ i >= 5
  BY TagIs
<1>10. CASE lost = "stale"
  BY <1>8, <1>10, NothingIs
<1>11. ASSUME lost # "stale", NEW e \in Nat, e <= Seen, p <= Len(rec.file.data),
              g = Read(rec.file.data[p], p, e, lost)
       PROVE  ReadsNext(g)
  <2>1. rec.tail = Len(rec.file.data)
    BY <1>4, <1>5, <1>6, <1>11, RecordingIs DEF WriterInv, WriterTypes
  <2>2. p \in Tags
    BY <1>4, <1>5, <1>11, <2>1 DEF Tags
  <2>3. g.frame = CellAt(p) /\ g.pos = p /\ g.cached = e /\ g.lost = lost
    BY <1>11, Zenon DEF CellAt, Read
  <2>4. g.frame # None
    <3>1. CellAt(p).is \in Kinds
      BY <2>2, TagIs
    <3>2. None.is \notin Kinds
      BY DEF None, Cell, Kinds
    <3> QED
      BY <2>3, <3>1, <3>2
  <2>5. ASSUME NEW i \in Tags
        PROVE  (i <= p => i <= pos \/ i = p) /\ (i > pos => i >= p)
    <3>1. i < p \/ i = p \/ i > p
      BY <1>4, <1>9
    <3> QED
      BY <1>4, <1>9, <3>1
  <2> QED
    BY <1>2, <1>11, <2>2, <2>3, <2>4, <2>5 DEF ReadsNext
<1>12. ASSUME p > Seen PROVE \A i \in Tags : i <= Seen => i <= pos
  <2> SUFFICES ASSUME NEW i \in Tags, i <= Seen PROVE i <= pos
    OBVIOUS
  <2>1. i < p
    BY <1>4, <1>5, <1>9, <1>12
  <2> QED
    BY <1>4, <1>9, <2>1
<1>13. CASE lost # "stale" /\ p <= holds
  <2>1. p <= Len(rec.file.data)
    BY <1>4, <1>5, <1>7, <1>13
  <2> QED
    BY <1>7, <1>8, <1>11, <1>13, <2>1
<1>14. CASE lost # "stale" /\ ~(p <= holds) /\ torn
  <2>1. p = Seen + 1 /\ p > Seen /\ p <= Len(rec.file.data) /\ Seen <= Seen
    BY <1>4, <1>5, <1>14
  <2>2. g \in TornTag
    BY <1>8, <1>14
  <2> DEFINE tag == rec.file.data[p]
             set == Cell("sps", tag.unit, tag.time)
  <2>3. \/ g = Read(tag, p, Seen, lost) \/ g = Nothing("no") \/ g = Nothing("stale")
        \/ \E l \in {"rewound", "stale"} : g = Read(set, 0, 0, l)
    BY <1>1, <2>2, Zenon DEF TornTag
  <2>4. CASE g = Read(tag, p, Seen, lost)
    BY <1>5, <1>11, <1>14, <2>1, <2>4
  <2>5. CASE g = Nothing("no") \/ g = Nothing("stale")
    BY <1>12, <2>1, <2>5, NothingIs
  <2>6. ASSUME NEW l \in {"rewound", "stale"}, g = Read(set, 0, 0, l) PROVE ReadsNext(g)
    <3>1. g.frame = set /\ g.pos = 0 /\ g.cached = 0 /\ g.lost = l
      BY <2>6, Zenon DEF Read
    <3>2. set.is = "sps" /\ None.is = "none"
      BY DEF Cell, None
    <3> HIDE DEF set
    <3>3. g.frame # None /\ g.frame.is = "sps"
      BY <3>1, <3>2
    <3>4. ~(pos >= 3 /\ pos + 2 <= Seen)
      BY <1>2, <1>3, <1>5, <2>1
    <3>5. 0 \in Nat /\ 0 <= Seen
      BY <1>5
    <3> QED
      BY <1>12, <1>14, <2>1, <2>6, <3>1, <3>3, <3>4, <3>5 DEF ReadsNext
  <2> QED
    BY <2>3, <2>4, <2>5, <2>6
<1>15. CASE lost # "stale" /\ ~(p <= holds) /\ ~torn
  <2>1. p > Seen
    BY <1>3, <1>4, <1>5, <1>15
  <2>2. PICK l \in {"no", "stale"} : g = Nothing(l)
    BY <1>8, <1>15, Zenon
  <2> QED
    BY <1>12, <2>1, <2>2, NothingIs
<1> QED
  BY <1>10, <1>13, <1>14, <1>15

-----------------------------------------------------------------------------
(* The steps of the player.                                                *)

LEMMA WriterSame ==
  ASSUME WriterInv, UNCHANGED writer
  PROVE  /\ WriterInv' /\ Tags' = Tags /\ Seen' = Seen /\ Now' = Now /\ rec' = rec
         /\ \A i : CellAt(i)' = CellAt(i) /\ IsKey(i)' = IsKey(i)
         /\ \A n : NoneUpTo(n)' = NoneUpTo(n)
         /\ range' = range => \A o : KeyAt(o)' = KeyAt(o)
<1>1. rec' = rec /\ camera' = camera /\ half' = half
  BY DEF writer
<1>2. Tags' = Tags /\ Seen' = Seen /\ Now' = Now
  BY <1>1 DEF Tags, Seen, Now
<1>3. \A i : CellAt(i)' = CellAt(i) /\ IsKey(i)' = IsKey(i)
  BY <1>1 DEF CellAt, IsKey
<1>4. \A n : NoneUpTo(n)' = NoneUpTo(n)
  BY <1>1 DEF NoneUpTo, Tags, CellAt
<1>5. range' = range => \A o : KeyAt(o)' = KeyAt(o)
  BY <1>1 DEF KeyAt, Tags, CellAt, IsKey, Now
<1>6. WriterTypes' /\ Phases'
  BY <1>1 DEF WriterInv, WriterTypes, Phases
<1>7. Lengths'
  BY <1>1 DEF WriterInv, Lengths
<1>8. TagsFit' /\ IndexFits'
  <2>1. \A i \in 1..Len(rec'.file.data) : i < 5 => CellAt(i)'.is \notin Kinds
    BY <1>1, <1>3 DEF WriterInv, TagsFit
  <2> QED
    BY <1>1, <1>3, <1>6, <1>7, <2>1, TagsStay
<1> QED
  BY <1>1, <1>2, <1>3, <1>4, <1>5, <1>6, <1>7, <1>8 DEF WriterInv

LEMMA PlayFits ==
  ASSUME WriterInv, ReaderInv, Play
  PROVE  WriterInv' /\ ReaderInv'
<1>1. /\ ~died /\ todo = "none" /\ thread # "gone"
      /\ range' \in Ranges /\ ended' = (ended \/ thread # "none")
      /\ todo' = "play" /\ requests' = requests + 1
      /\ UNCHANGED <<indexed, thread, pos, cached, sets, sps, lost, first, latest, grew, died>>
  BY DEF Play, Idle, reader, output
<1>2. /\ WriterInv' /\ Tags' = Tags /\ Seen' = Seen /\ rec' = rec
      /\ \A n : NoneUpTo(n)' = NoneUpTo(n)
  BY WriterSame DEF Play
<1>3. PlayerTypes'
  <2>1. requests' \in Nat /\ ended' \in BOOLEAN
    BY <1>1 DEF ReaderInv, PlayerTypes
  <2>2. range' \in Nat \X Nat
    BY <1>1, FlvPlayerAssumption
  <2> QED
    BY <1>1, <2>1, <2>2 DEF ReaderInv, PlayerTypes
<1>4. requests' > 0
  BY <1>1 DEF ReaderInv, PlayerTypes
<1>5. PlayerFits'
  BY <1>1, <1>2, <1>4 DEF ReaderInv, PlayerFits
<1>6. SentFits'
  BY <1>1, <1>2 DEF ReaderInv, SentFits, CellAt
<1>7. KeyFits'
  <2>1. ~(thread' = "run" /\ ~ended')
    BY <1>1
  <2> QED
    BY <1>1, <2>1 DEF KeyFits
<1>8. SetsFit'
  BY <1>1, <1>2, <1>4 DEF ReaderInv, SetsFit, NoneUpTo, CellAt
<1> QED
  BY <1>2, <1>3, <1>5, <1>6, <1>7, <1>8 DEF ReaderInv

LEMMA JoinedFits ==
  ASSUME WriterInv, ReaderInv, Joined
  PROVE  WriterInv' /\ ReaderInv'
<1>1. /\ ~died /\ todo = "play" /\ thread # "run"
      /\ ended' = (ended /\ thread = "none") /\ thread' = "none"
      /\ first' = 0 /\ latest' = 0 /\ todo' = "sets"
      /\ UNCHANGED <<indexed, requests, range, pos, cached, sets, sps, lost, grew, died>>
  BY DEF Joined, reader
<1>2. /\ WriterInv' /\ Tags' = Tags /\ Seen' = Seen /\ rec' = rec
      /\ \A n : NoneUpTo(n)' = NoneUpTo(n)
  BY WriterSame DEF Joined
<1>3. PlayerTypes'
  BY <1>1 DEF ReaderInv, PlayerTypes
<1>4. PlayerFits'
  BY <1>1, <1>2 DEF ReaderInv, PlayerFits
<1>5. SentFits' /\ KeyFits'
  BY <1>1 DEF SentFits, KeyFits
<1>6. SetsFit'
  BY <1>1, <1>2 DEF ReaderInv, SetsFit, NoneUpTo, CellAt
<1> QED
  BY <1>2, <1>3, <1>4, <1>5, <1>6 DEF ReaderInv

LEMMA PauseFits ==
  ASSUME WriterInv, ReaderInv, NEW what \in {"pause", "stop"}, Pause(what)
  PROVE  WriterInv' /\ ReaderInv'
<1>1. /\ ~died /\ todo = "none" /\ ended' = TRUE /\ todo' = what
      /\ requests' = requests + 1
      /\ UNCHANGED <<indexed, thread, range, pos, cached, sets, sps, lost, first, latest,
                      grew, died>>
  BY DEF Pause, Idle, reader, output
<1>2. /\ WriterInv' /\ Tags' = Tags /\ Seen' = Seen /\ rec' = rec
      /\ \A i : CellAt(i)' = CellAt(i) /\ \A n : NoneUpTo(n)' = NoneUpTo(n)
      /\ range' = range => \A o : KeyAt(o)' = KeyAt(o)
  BY WriterSame DEF Pause
<1>3. PlayerTypes'
  <2>1. requests' \in Nat
    BY <1>1 DEF ReaderInv, PlayerTypes
  <2> QED
    BY <1>1, <2>1 DEF ReaderInv, PlayerTypes
<1>4. requests' > 0
  BY <1>1 DEF ReaderInv, PlayerTypes
<1>5. PlayerFits'
  BY <1>1, <1>2, <1>4 DEF ReaderInv, PlayerFits
<1>6. SentFits'
  BY <1>1, <1>2 DEF ReaderInv, SentFits, CellAt
<1>7. KeyFits'
  <2>1. ASSUME indexed, first' # 0, todo' # "play"
        PROVE  \E o \in Tags' : CellAt(o)'.unit = first' /\ KeyAt(o)'
    BY <1>1, <1>2, <2>1 DEF ReaderInv, KeyFits
  <2> QED
    BY <1>1, <2>1 DEF KeyFits
<1>8. SetsFit'
  BY <1>1, <1>2, <1>4 DEF ReaderInv, SetsFit, NoneUpTo, CellAt
<1> QED
  BY <1>2, <1>3, <1>5, <1>6, <1>7, <1>8 DEF ReaderInv

LEMMA PauseJoinsFits ==
  ASSUME WriterInv, ReaderInv, PauseJoins
  PROVE  WriterInv' /\ ReaderInv'
<1>1. /\ ~died /\ todo \in {"pause", "stop"} /\ thread # "run"
      /\ thread' \in {"none", "gone"} /\ ended' \in BOOLEAN /\ todo' = "none"
      /\ UNCHANGED <<indexed, requests, range, pos, cached, sets, sps, lost, first, latest,
                      grew, died>>
  BY DEF PauseJoins, reader, output
<1>2. /\ WriterInv' /\ Tags' = Tags /\ Seen' = Seen /\ rec' = rec
      /\ \A i : CellAt(i)' = CellAt(i) /\ \A n : NoneUpTo(n)' = NoneUpTo(n)
      /\ range' = range => \A o : KeyAt(o)' = KeyAt(o)
  BY WriterSame DEF PauseJoins
<1>3. PlayerTypes'
  BY <1>1 DEF ReaderInv, PlayerTypes
<1>4. PlayerFits'
  BY <1>1, <1>2 DEF ReaderInv, PlayerFits
<1>5. SentFits'
  BY <1>1 DEF SentFits
<1>6. KeyFits'
  <2>1. ASSUME indexed, first' # 0
        PROVE  \E o \in Tags' : CellAt(o)'.unit = first' /\ KeyAt(o)'
    BY <1>1, <1>2, <2>1 DEF ReaderInv, KeyFits
  <2> QED
    BY <1>1, <2>1 DEF KeyFits
<1>7. SetsFit'
  BY <1>1, <1>2 DEF ReaderInv, SetsFit, NoneUpTo, CellAt
<1> QED
  BY <1>2, <1>3, <1>4, <1>5, <1>6, <1>7 DEF ReaderInv

\* Where it is once it has read.
LEMMA ReadsTo ==
  ASSUME WriterInv, ReaderInv, NEW g \in GetNextFrame, Reads(g), NEW f, f = g.frame
  PROVE  /\ cached' \in Nat /\ cached' <= Seen /\ lost' \in {"no", "rewound", "stale"}
         /\ pos' \in Nat /\ (pos' # 0 => pos' % 2 = 1 /\ pos' >= 3 /\ pos' <= rec.tail)
         /\ \/ f = None /\ pos' = 0
               /\ (lost = "stale" \/ \A i \in Tags : i <= Seen => i <= pos)
            \/ /\ f # None /\ lost' = lost /\ lost # "stale"
               /\ pos' \in Tags /\ \E p \in Tags : p = pos' /\ f = CellAt(p)
               /\ pos' = (IF pos = 0 THEN 5 ELSE pos + 2)
               /\ \A i \in Tags : i <= pos' => i <= pos \/ i = pos'
               /\ \A i \in Tags : i > pos => i >= pos'
            \/ /\ f # None /\ f.is = "sps" /\ pos' = 0 /\ lost' # "no" /\ lost # "stale"
               /\ \A i \in Tags : i <= Seen => i <= pos
               /\ ~(pos >= 3 /\ pos + 2 <= Seen)
<1>1. ReadsNext(g)
  BY NextIs
<1>2. pos' = g.pos /\ cached' = g.cached /\ lost' = g.lost /\ f = g.frame
  BY DEF Reads
<1>3. cached' \in Nat /\ cached' <= Seen
  BY <1>1, <1>2 DEF ReadsNext
<1>4. lost \in {"no", "rewound", "stale"}
  BY DEF ReaderInv, PlayerTypes
<1>5. CASE g.frame = None /\ g.pos = 0 /\ g.lost \in {"no", "stale"}
  <2>1. lost = "stale" \/ \A i \in Tags : i <= Seen => i <= pos
    BY <1>1, <1>5 DEF ReadsNext
  <2> QED
    BY <1>2, <1>3, <1>5, <2>1
<1>6. CASE g.frame # None /\ g.pos \in Tags
  <2> PICK p : p = g.pos
    OBVIOUS
  <2>1. /\ p \in Tags /\ p = pos' /\ p \in Int /\ p % 2 = 1 /\ p >= 5 /\ p <= rec.tail
    BY <1>2, <1>6, TagIs
  <2>2. /\ f = CellAt(p) /\ lost' = lost /\ lost # "stale"
        /\ p = (IF pos = 0 THEN 5 ELSE pos + 2)
        /\ \A i \in Tags : i <= p => i <= pos \/ i = p
        /\ \A i \in Tags : i > pos => i >= p
    BY <1>1, <1>2, <1>6, <2>1 DEF ReadsNext, CellAt
  <2>3. p \in Nat /\ p >= 3
    BY <2>1
  <2> QED
    BY <1>2, <1>3, <1>4, <1>6, <2>1, <2>2, <2>3
<1>7. CASE g.frame # None /\ g.pos = 0
  <2>1. 0 \notin Tags
    <3> SUFFICES ASSUME 0 \in Tags PROVE FALSE
      OBVIOUS
    <3>1. 0 >= 5
      BY TagIs
    <3> QED
      BY <3>1
  <2>2. /\ f.is = "sps" /\ lost' \in {"rewound", "stale"} /\ lost # "stale"
        /\ \A i \in Tags : i <= Seen => i <= pos
        /\ ~(pos >= 3 /\ pos + 2 <= Seen)
    BY <1>1, <1>2, <1>7, <2>1 DEF ReadsNext
  <2> QED
    BY <1>2, <1>3, <1>7, <2>2
<1> QED
  BY <1>1, <1>5, <1>6, <1>7 DEF ReadsNext

LEMMA ReadSetsFits ==
  ASSUME WriterInv, ReaderInv, ReadSets
  PROVE  WriterInv' /\ ReaderInv'
<1>1. /\ ~died /\ todo = "sets"
      /\ UNCHANGED <<indexed, thread, requests, range, ended, first, latest, grew, died>>
  BY DEF ReadSets, output
<1>2. /\ WriterInv' /\ Tags' = Tags /\ Seen' = Seen /\ rec' = rec
      /\ \A n : NoneUpTo(n)' = NoneUpTo(n)
  BY WriterSame DEF ReadSets
<1>3. thread = "none" /\ first = 0 /\ requests > 0 /\ latest = 0
  BY <1>1 DEF ReaderInv, PlayerFits
<1>4. SentFits' /\ KeyFits'
  BY <1>1, <1>3 DEF SentFits, KeyFits
<1>5. CASE sets
  <2>1. todo' = "seek" /\ UNCHANGED <<pos, cached, sets, sps, lost>>
    BY <1>5 DEF ReadSets, reader
  <2>2. PlayerTypes' /\ PlayerFits'
    BY <1>1, <1>2, <1>3, <2>1 DEF ReaderInv, PlayerTypes, PlayerFits
  <2>3. SetsFit'
    BY <1>5, <2>1 DEF SetsFit
  <2> QED
    BY <1>2, <1>4, <2>2, <2>3 DEF ReaderInv
<1>6. CASE ~sets
  <2> PICK g \in GetNextFrame :
        /\ Reads(g) /\ TakeSets(g.frame)
        /\ todo' = IF g.frame = None THEN "seek" ELSE "sets"
    BY <1>6, Zenon DEF ReadSets
  <2> PICK f : f = g.frame
    OBVIOUS
  <2>1. /\ Reads(g) /\ sets' = (f.is = "config") /\ sps' \in BOOLEAN
        /\ todo' = IF f = None THEN "seek" ELSE "sets"
    BY <1>6 DEF TakeSets
  <2>2. /\ cached' \in Nat /\ cached' <= Seen /\ lost' \in {"no", "rewound", "stale"}
        /\ pos' \in Nat /\ (pos' # 0 => pos' % 2 = 1 /\ pos' >= 3 /\ pos' <= rec.tail)
    BY <2>1, ReadsTo
  <2>3. PlayerTypes'
    BY <1>1, <2>1, <2>2 DEF ReaderInv, PlayerTypes
  <2>4. PlayerFits'
    BY <1>1, <1>2, <1>3, <2>1, <2>2 DEF ReaderInv, PlayerFits
  <2>5. SetsFit'
    <3> SUFFICES ASSUME ~sets', ~grew PROVE SetsFit'
      BY <1>1 DEF SetsFit
    <3>2. CASE NoneUpTo(Seen)
      <4> PICK n : n = Seen
        OBVIOUS
      <4>1. NoneUpTo(n)' /\ n = Seen'
        BY <1>2, <3>2 DEF NoneUpTo
      <4> QED
        BY <1>1, <1>3, <4>1 DEF SetsFit, NoneUpTo, CellAt
    <3>3. CASE NoneUpTo(pos) /\ \A i \in Tags : i <= Seen => i <= pos
      <4> PICK n : n = Seen
        OBVIOUS
      <4>1. \A i \in Tags : i <= n => i <= pos
        BY <3>3
      <4>2. NoneUpTo(n)
        BY <3>3, <4>1 DEF NoneUpTo
      <4>3. NoneUpTo(n)' /\ n = Seen'
        BY <1>2, <4>2
      <4> QED
        BY <1>1, <1>3, <4>3 DEF SetsFit, NoneUpTo, CellAt
    <3>4. CASE /\ NoneUpTo(pos) /\ f # None /\ lost' # "stale"
               /\ \E p \in Tags : /\ p = pos' /\ f = CellAt(p)
                                 /\ \A i \in Tags : i <= p => i <= pos \/ i = p
      <4>1. PICK p \in Tags : /\ p = pos' /\ f = CellAt(p)
                              /\ \A i \in Tags : i <= p => i <= pos \/ i = p
        BY <3>4
      <4>2. NoneUpTo(p)
        BY <2>1, <3>4, <4>1 DEF NoneUpTo
      <4>3. NoneUpTo(p)' /\ p = pos'
        BY <1>2, <4>1, <4>2
      <4>4. thread' = "none" /\ todo' = "sets"
        BY <1>1, <1>3, <2>1, <3>4
      <4> QED
        BY <3>4, <4>3, <4>4 DEF SetsFit, NoneUpTo, CellAt
    <3>5. ~NoneUpTo(Seen) => NoneUpTo(pos) /\ lost # "stale"
      BY <1>6 DEF ReaderInv, SetsFit
    <3>6. lost # "stale" =>
            \/ \A i \in Tags : i <= Seen => i <= pos
            \/ /\ f # None /\ lost' # "stale"
               /\ \E p \in Tags : /\ p = pos' /\ f = CellAt(p)
                                 /\ \A i \in Tags : i <= p => i <= pos \/ i = p
      BY <2>1, ReadsTo
    <3> QED
      BY <3>2, <3>3, <3>4, <3>5, <3>6
  <2> QED
    BY <1>2, <1>4, <2>3, <2>4, <2>5 DEF ReaderInv
<1> QED
  BY <1>5, <1>6 DEF ReaderInv, PlayerTypes

LEMMA ScanFits ==
  ASSUME WriterInv, ReaderInv, Scan
  PROVE  WriterInv' /\ ReaderInv'
<1>1. /\ ~died /\ todo = "scan" /\ \E g \in GetNextFrame : Reads(g)
      /\ \/ thread' = "run" /\ todo' = "none"
         \/ UNCHANGED <<thread, todo>>
      /\ UNCHANGED <<indexed, requests, range, ended, sets, sps, first, latest, grew, died>>
  BY DEF Scan, Begin, output
<1>2. /\ WriterInv' /\ Tags' = Tags /\ Seen' = Seen /\ rec' = rec
      /\ \A n : NoneUpTo(n)' = NoneUpTo(n)
  BY WriterSame DEF Scan
<1>3. thread = "none" /\ first = 0 /\ requests > 0 /\ latest = 0 /\ ~indexed
  BY <1>1 DEF ReaderInv, PlayerFits
<1>4. SentFits' /\ KeyFits'
  BY <1>1, <1>3 DEF SentFits, KeyFits
<1>5. /\ cached' \in Nat /\ cached' <= Seen /\ lost' \in {"no", "rewound", "stale"}
      /\ pos' \in Nat /\ (pos' # 0 => pos' % 2 = 1 /\ pos' >= 3 /\ pos' <= rec.tail)
  <2> PICK g \in GetNextFrame : Reads(g)
    BY <1>1
  <2> PICK f : f = g.frame
    OBVIOUS
  <2> QED
    BY <1>1, ReadsTo
<1>6. PlayerTypes'
  BY <1>1, <1>5 DEF ReaderInv, PlayerTypes
<1>7. PlayerFits'
  BY <1>1, <1>2, <1>3, <1>5 DEF ReaderInv, PlayerFits
<1>8. SetsFit'
  <2> PICK n : n = Seen
    OBVIOUS
  <2> SUFFICES ASSUME ~sets', ~grew' PROVE SetsFit'
    BY DEF SetsFit
  <2>1. NoneUpTo(Seen)
    BY <1>1 DEF ReaderInv, SetsFit
  <2>2. NoneUpTo(n)' /\ n = Seen'
    BY <1>2, <2>1 DEF NoneUpTo
  <2> QED
    BY <1>1, <1>3, <2>2 DEF SetsFit, NoneUpTo, CellAt
<1> QED
  BY <1>2, <1>4, <1>6, <1>7, <1>8 DEF ReaderInv

\* What is sent is the next picture, a later one than the latest.
NextSent(f) ==
  /\ latest' = f.unit /\ first' = (IF first = 0 THEN f.unit ELSE first)
  /\ lost # "stale"
  /\ \E p \in Tags : /\ f = CellAt(p) /\ f.is # "config"
                     /\ latest # 0 /\ lost = "no" => latest < f.unit /\ pos \in Tags
                     /\ \A i \in Tags : i <= p => i <= pos \/ i = p

LEMMA SendThreadFits ==
  ASSUME WriterInv, ReaderInv, SendThread
  PROVE  /\ WriterInv' /\ ReaderInv' /\ rec' = rec
         /\ \/ UNCHANGED <<first, latest>>
            \/ \E f : NextSent(f)
<1>1. /\ ~died /\ thread = "run"
      /\ UNCHANGED <<indexed, todo, requests, range, grew>>
  BY DEF SendThread
<1>2. /\ WriterInv' /\ Tags' = Tags /\ Seen' = Seen /\ rec' = rec
      /\ \A i : CellAt(i)' = CellAt(i) /\ \A n : NoneUpTo(n)' = NoneUpTo(n)
      /\ range' = range => \A o : KeyAt(o)' = KeyAt(o)
  BY WriterSame DEF SendThread
<1>3. ~sets /\ ~grew => requests > 0 /\ NoneUpTo(Seen)
  BY <1>1 DEF ReaderInv, SetsFit
<1>4. todo \notin {"sets", "seek", "scan"}
  BY <1>1 DEF ReaderInv, PlayerFits
<1>5. ASSUME sets => sets' PROVE SetsFit'
  <2> PICK n : n = Seen
    OBVIOUS
  <2> SUFFICES ASSUME ~sets', ~grew' PROVE SetsFit'
    BY DEF SetsFit
  <2>1. NoneUpTo(n)' /\ n = Seen'
    BY <1>1, <1>2, <1>3, <1>5 DEF NoneUpTo
  <2> QED
    BY <1>1, <1>3, <1>5, <2>1 DEF SetsFit, NoneUpTo, CellAt
<1>6. indexed /\ first # 0 /\ todo # "play" =>
        \E o \in Tags : CellAt(o).unit = first /\ KeyAt(o)
  BY DEF ReaderInv, KeyFits
<1>7. ASSUME UNCHANGED <<first, latest>>,
             thread' = "run" => ended' \/ died' \/ first # 0 \/ ~indexed
      PROVE  KeyFits'
  <2>1. ASSUME indexed, first # 0, todo # "play"
        PROVE  \E o \in Tags' : CellAt(o)'.unit = first' /\ KeyAt(o)'
    BY <1>1, <1>2, <1>6, <1>7, <2>1
  <2> QED
    BY <1>1, <1>7, <2>1 DEF KeyFits
<1>8. CASE ended /\ ThreadEnds /\ UNCHANGED ended
  <2>1. /\ thread' = "done"
        /\ UNCHANGED <<pos, cached, sets, sps, lost, first, latest, died, ended>>
    BY <1>8 DEF ThreadEnds, reader, output
  <2>2. PlayerTypes'
    BY <1>1, <2>1 DEF ReaderInv, PlayerTypes
  <2>3. PlayerFits'
    BY <1>1, <1>2, <1>4, <2>1 DEF ReaderInv, PlayerFits
  <2>4. SentFits'
    BY <2>1 DEF SentFits
  <2>5. KeyFits' /\ SetsFit'
    BY <1>5, <1>7, <2>1
  <2> QED
    BY <1>2, <2>1, <2>2, <2>3, <2>4, <2>5 DEF ReaderInv
<1>9. ASSUME NEW g \in GetNextFrame, NEW f, f = g.frame, ~ended, Reads(g),
             IF f = None \/ OutOfRange(f)
             THEN /\ thread' = "done" /\ ended' = (f = None)
                  /\ UNCHANGED <<sets, sps, output, died>>
             ELSE /\ TakeSets(f)
                  /\ IF f.is \in {"config", "sps"} THEN UNCHANGED <<output, ended, died>>
                     ELSE SendFrame(f)
                  /\ UNCHANGED thread
      PROVE  /\ WriterInv' /\ ReaderInv' /\ rec' = rec
             /\ \/ UNCHANGED <<first, latest>>
                \/ \E h : NextSent(h)
  <2>1. /\ cached' \in Nat /\ cached' <= Seen /\ lost' \in {"no", "rewound", "stale"}
        /\ pos' \in Nat /\ (pos' # 0 => pos' % 2 = 1 /\ pos' >= 3 /\ pos' <= rec.tail)
    BY <1>9, ReadsTo
  <2>2. CASE /\ thread' = "done" /\ ended' \in BOOLEAN
             /\ UNCHANGED <<sets, sps, first, latest, died>>
    <3>1. PlayerTypes'
      BY <1>1, <2>1, <2>2 DEF ReaderInv, PlayerTypes
    <3>2. PlayerFits'
      BY <1>1, <1>2, <1>4, <2>1, <2>2 DEF ReaderInv, PlayerFits
    <3>3. SentFits'
      BY <2>2 DEF SentFits
    <3>4. KeyFits' /\ SetsFit'
      BY <1>5, <1>7, <2>2
    <3> QED
      BY <1>2, <2>2, <3>1, <3>2, <3>3, <3>4 DEF ReaderInv
  <2>3. CASE /\ f # None /\ thread' = thread /\ f.is # "sps"
             /\ sets' = (sets \/ f.is = "config") /\ sps' \in BOOLEAN
             /\ IF f.is = "config" THEN UNCHANGED <<output, ended, died>>
                ELSE SendFrame(f)
    <3>1. /\ lost' = lost /\ lost # "stale"
          /\ \E p \in Tags : /\ p = pos' /\ f = CellAt(p)
                            /\ p = (IF pos = 0 THEN 5 ELSE pos + 2)
                            /\ \A i \in Tags : i <= p => i <= pos \/ i = p
      BY <1>9, <2>3, ReadsTo
    <3> PICK p \in Tags : /\ p = pos' /\ f = CellAt(p)
                          /\ p = (IF pos = 0 THEN 5 ELSE pos + 2)
                          /\ \A i \in Tags : i <= p => i <= pos \/ i = p
      BY <3>1
    <3>2. /\ p \in Int /\ p >= 5 /\ f.is \in Kinds /\ f.unit \in Nat /\ f.unit # 0
      BY <3>1, TagIs
    <3>3. PICK q : q = pos
      OBVIOUS
    <3>4. /\ q \in Nat /\ first \in Nat /\ latest \in Nat /\ sets \in BOOLEAN
          /\ ended \in BOOLEAN
      BY <3>3 DEF ReaderInv, PlayerTypes
    <3>5. latest # 0 /\ lost = "no" =>
            /\ q \in Tags /\ latest <= CellAt(q).unit
            /\ \A i \in Tags : i <= q /\ CellAt(i).is # "config" => CellAt(i).unit <= latest
      BY <1>1, <3>3 DEF ReaderInv, SentFits, CellAt
    <3>6. q \in Tags => CellAt(q).unit < f.unit
      <4>1. ASSUME q \in Tags PROVE q < p
        <5>1. q \in Int /\ q >= 5
          BY <4>1, TagIs
        <5> QED
          BY <3>1, <3>3, <5>1
      <4> QED
        BY <3>1, <4>1 DEF WriterInv, TagsFit
    <3>7. latest # 0 /\ lost = "no" => latest < f.unit
      <4>1. ASSUME q \in Tags PROVE CellAt(q).unit \in Nat
        BY <4>1, TagIs
      <4> QED
        BY <3>2, <3>4, <3>5, <3>6, <4>1
    <3>8. indexed /\ first = 0 => p <= Seen /\ KeyAt(p) /\ f.is = "idr"
      <4>1. ASSUME indexed, first = 0
            PROVE  pos >= 3 /\ pos + 2 <= Seen /\ KeyAt(pos + 2)
        BY <1>1, <1>9, <2>3, <3>1, <4>1 DEF ReaderInv, KeyFits
      <4>2. ASSUME indexed, first = 0 PROVE p = pos + 2
        BY <3>1, <3>3, <3>4, <4>1, <4>2
      <4>3. ASSUME indexed, first = 0 PROVE p <= Seen /\ KeyAt(p)
        BY <4>1, <4>2, <4>3 DEF KeyAt, IsKey, CellAt
      <4>4. KeyAt(p) => f.is = "idr"
        BY <3>1 DEF KeyAt, IsKey
      <4> QED
        BY <4>3, <4>4
    <3>9. SetsFit'
      BY <1>5, <2>3
    <3>10. CASE f.is = "config"
      <4>1. UNCHANGED <<first, latest, ended, died>>
        BY <2>3, <3>10 DEF output
      <4>2. PlayerTypes'
        BY <1>1, <2>1, <2>3, <3>4, <4>1 DEF ReaderInv, PlayerTypes
      <4>3. PlayerFits'
        BY <1>1, <1>2, <1>4, <2>1, <2>3, <4>1 DEF ReaderInv, PlayerFits
      <4>4. KeyFits'
        <5>1. indexed => first # 0
          BY <3>8, <3>10
        <5>2. indexed \/ KeyFits'
          BY <1>1 DEF KeyFits, PlayerTypes, ReaderInv
        <5> QED
          BY <1>7, <4>1, <5>1, <5>2
      <4>5. SentFits'
        <5> SUFFICES ASSUME latest # 0, lost = "no"
                     PROVE  /\ p \in Tags /\ latest <= CellAt(p).unit
                            /\ \A i \in Tags : i <= p /\ CellAt(i).is # "config" =>
                                                 CellAt(i).unit <= latest
          BY <1>2, <3>1, <4>1 DEF SentFits, CellAt
        <5>1. latest <= CellAt(p).unit
          BY <3>1, <3>2, <3>4, <3>7
        <5>2. ASSUME NEW i \in Tags, i <= p, CellAt(i).is # "config"
              PROVE  CellAt(i).unit <= latest
          <6>1. i <= q
            BY <3>1, <3>3, <3>10, <5>2
          <6> QED
            BY <3>5, <5>2, <6>1
        <5> QED
          BY <5>1, <5>2
      <4> QED
        BY <1>2, <3>9, <4>1, <4>2, <4>3, <4>4, <4>5 DEF ReaderInv
    <3>11. CASE f.is = "idr" /\ ~sets /\ ~sps
      <4>1. died' = TRUE /\ UNCHANGED <<first, latest, ended>> /\ ~sets'
        BY <2>3, <3>11 DEF SendFrame, output
      <4>2. PlayerTypes'
        BY <1>1, <2>1, <2>3, <3>4, <4>1 DEF ReaderInv, PlayerTypes
      <4>3. PlayerFits'
        BY <1>1, <1>2, <1>4, <2>1, <2>3, <4>1 DEF ReaderInv, PlayerFits
      <4>4. KeyFits' /\ SentFits'
        BY <1>7, <4>1 DEF SentFits
      <4> QED
        BY <1>2, <3>9, <4>1, <4>2, <4>3, <4>4 DEF ReaderInv
    <3>12. CASE f.is # "config" /\ ~(f.is = "idr" /\ ~sets /\ ~sps)
      <4>1. /\ latest' = f.unit /\ first' = (IF first = 0 THEN f.unit ELSE first)
            /\ ended' \in {ended, TRUE} /\ died' = died
        BY <2>3, <3>12 DEF SendFrame
      <4>2. first' \in Nat /\ first' # 0 /\ latest' \in Nat /\ latest' # 0
        BY <3>2, <3>4, <4>1
      <4>3. PlayerTypes'
        BY <1>1, <2>1, <2>3, <3>4, <4>1, <4>2 DEF ReaderInv, PlayerTypes
      <4>4. PlayerFits'
        BY <1>1, <1>2, <1>4, <2>1, <2>3, <4>1, <4>2 DEF ReaderInv, PlayerFits
      <4>5. KeyFits'
        <5>1. ASSUME indexed, todo # "play"
              PROVE  \E o \in Tags : CellAt(o).unit = first' /\ KeyAt(o)
          <6>1. CASE first = 0
            <7>1. KeyAt(p) /\ CellAt(p).unit = first'
              BY <3>1, <3>8, <4>1, <5>1, <6>1
            <7> QED
              BY <3>1, <7>1
          <6>2. CASE first # 0
            BY <1>6, <4>1, <5>1, <6>2
          <6> QED
            BY <6>1, <6>2
        <5>2. ASSUME indexed, todo # "play"
              PROVE  \E o \in Tags' : CellAt(o)'.unit = first' /\ KeyAt(o)'
          BY <1>1, <1>2, <5>1, <5>2
        <5> QED
          BY <1>1, <4>2, <5>2 DEF KeyFits
      <4>6. SentFits'
        <5> SUFFICES ASSUME TRUE
                     PROVE  /\ p \in Tags /\ f.unit <= CellAt(p).unit
                            /\ \A i \in Tags : i <= p /\ CellAt(i).is # "config" =>
                                                 CellAt(i).unit <= f.unit
          BY <1>2, <3>1, <4>1 DEF SentFits, CellAt
        <5>1. ASSUME NEW i \in Tags, i <= p PROVE CellAt(i).unit <= f.unit
          <6>1. CellAt(i).unit \in Nat /\ i \in Int
            BY TagIs
          <6>2. i = p \/ i < p
            BY <3>2, <5>1, <6>1
          <6>3. i < p => CellAt(i).unit < CellAt(p).unit
            BY DEF WriterInv, TagsFit
          <6> QED
            BY <3>1, <3>2, <6>1, <6>2, <6>3
        <5>2. f.unit <= CellAt(p).unit
          BY <3>1, <3>2
        <5> QED
          BY <5>1, <5>2
      <4>7. NextSent(f)
        BY <3>1, <3>3, <3>5, <3>7, <3>12, <4>1 DEF NextSent, CellAt
      <4> QED
        BY <1>2, <3>9, <4>3, <4>4, <4>5, <4>6, <4>7 DEF ReaderInv
    <3> QED
      BY <3>10, <3>11, <3>12
  <2>4. CASE /\ f # None /\ f.is = "sps" /\ thread' = thread
             /\ UNCHANGED <<sets, first, latest, ended, died>> /\ sps' \in BOOLEAN
    <3>1. pos' = 0 /\ lost' # "no" /\ lost # "stale" /\ ~(pos >= 3 /\ pos + 2 <= Seen)
      <4>1. ASSUME NEW p \in Tags, f = CellAt(p) PROVE FALSE
        <5>1. f.is \in Kinds
          BY <4>1, TagIs
        <5> QED
          BY <2>4, <5>1 DEF Kinds
      <4> QED
        BY <1>9, <2>4, <4>1, ReadsTo
    <3>2. PlayerTypes'
      BY <1>1, <2>1, <2>4 DEF ReaderInv, PlayerTypes
    <3>3. PlayerFits'
      BY <1>1, <1>2, <1>4, <2>1, <2>4 DEF ReaderInv, PlayerFits
    <3>4. SentFits'
      BY <3>1 DEF SentFits
    <3>5. SetsFit'
      BY <1>5, <2>4
    <3>6. indexed => first # 0
      BY <1>1, <1>9, <3>1 DEF ReaderInv, KeyFits
    <3>7. KeyFits'
      BY <1>7, <2>4, <3>6
    <3> QED
      BY <1>2, <2>4, <3>2, <3>3, <3>4, <3>5, <3>7 DEF ReaderInv
  <2>5. \/ /\ thread' = "done" /\ ended' \in BOOLEAN
           /\ UNCHANGED <<sets, sps, first, latest, died>>
        \/ /\ f # None /\ thread' = thread /\ f.is # "sps"
           /\ sets' = (sets \/ f.is = "config") /\ sps' \in BOOLEAN
           /\ IF f.is = "config" THEN UNCHANGED <<output, ended, died>>
              ELSE SendFrame(f)
        \/ /\ f # None /\ f.is = "sps" /\ thread' = thread
           /\ UNCHANGED <<sets, first, latest, ended, died>> /\ sps' \in BOOLEAN
    <3>1. sets \in BOOLEAN /\ sps \in BOOLEAN
      BY DEF ReaderInv, PlayerTypes
    <3>2. "sps" # "config"
      OBVIOUS
    <3> QED
      BY <1>9, <3>1, <3>2, Zenon DEF TakeSets, output
  <2> QED
    BY <2>2, <2>3, <2>4, <2>5
<1>10. \/ ended /\ ThreadEnds /\ UNCHANGED ended
       \/ \E g \in GetNextFrame : \E f :
            /\ f = g.frame /\ ~ended /\ Reads(g)
            /\ IF f = None \/ OutOfRange(f)
               THEN /\ thread' = "done" /\ ended' = (f = None)
                    /\ UNCHANGED <<sets, sps, output, died>>
               ELSE /\ TakeSets(f)
                    /\ IF f.is \in {"config", "sps"} THEN UNCHANGED <<output, ended, died>>
                       ELSE SendFrame(f)
                    /\ UNCHANGED thread
  BY Zenon DEF SendThread
<1> QED
  BY <1>8, <1>9, <1>10

-----------------------------------------------------------------------------
(* The entry that is found leads to the IDR to begin with.                 *)

\* An entry that is seen.
LEMMA EntryIs ==
  ASSUME WriterInv, NEW k \in 1..NumEntries
  PROVE  /\ LeadsTo(k) \in Int /\ LeadsTo(k) % 2 = 1 /\ LeadsTo(k) >= 5
         /\ LeadsTo(k) <= rec.tail + 1
         /\ TimeOf(k) \in Int /\ TimeOf(k) <= Now /\ Now \in Int
         /\ half => LeadsTo(k) < rec.tail
         /\ rec.keyed /\ NumEntries \in Nat
<1>1. NumEntries \in Nat /\ LeadsTo(k) \in Int /\ TimeOf(k) \in Int
  BY EntryTypes DEF WriterInv
<1>2. EntryFits(k)
  BY DEF WriterInv, IndexFits
<1>3. rec.tail \in Nat
  BY SeenIs DEF WriterInv
<1>4. /\ LeadsTo(k) \in 5..(rec.tail + 1) /\ LeadsTo(k) % 2 = 1
      /\ half => LeadsTo(k) < rec.tail
      /\ TimeOf(k) <= Now
  BY <1>2 DEF EntryFits
<1>5. rec.keyed
  <2>1. ~rec.keyed => NumEntries = 0
    BY NoTags DEF WriterInv
  <2> QED
    BY <2>1, RecordingIs DEF WriterInv, WriterTypes
<1>6. Now \in Int
  BY RecordingIs DEF Now, WriterInv, WriterTypes
<1> QED
  BY <1>1, <1>3, <1>4, <1>5, <1>6

LEMMA BetweenPlaces ==
  ASSUME NEW a \in Int, NEW b \in Int, a % 2 = 1, b % 2 = 1, a < b
  PROVE  a + 2 <= b
<1>1. a + 1 # b
  <2>1. (a + 1) % 2 = 0
    OBVIOUS
  <2> QED
    BY <2>1
<1> QED
  BY <1>1

\* An entry before another, and the first, lead to a place that is seen.
LEMMA EntrySeen ==
  ASSUME WriterInv, NEW e \in 1..NumEntries, NEW k \in 1..NumEntries,
         rec.saving => k < NumEntries,
         e < k \/ (e = 1 /\ k = 1)
  PROVE  LeadsTo(e) <= Seen /\ LeadsTo(e) <= rec.tail - 1 /\ LeadsTo(e) \in Tags
<1> PICK a : a = LeadsTo(e)
  OBVIOUS
<1> PICK N : N = rec.tail
  OBVIOUS
<1>1. /\ a \in Int /\ a % 2 = 1 /\ a >= 5 /\ a <= N + 1 /\ rec.keyed /\ NumEntries \in Nat
      /\ half => a < N
  BY EntryIs
<1>2. N \in Nat /\ N >= 6 /\ N % 2 = 0 /\ N # 0 /\ half \in BOOLEAN
  BY <1>1, SeenIs, TwoLess DEF WriterInv, WriterTypes
<1>3. \A i, j \in 1..NumEntries : i < j => LeadsTo(i) < LeadsTo(j)
  BY DEF WriterInv, IndexFits
<1>4. Seen = (IF half THEN N - 2 ELSE N)
  BY <1>2 DEF Seen
<1>5. half => rec.saving
  BY DEF WriterInv, Lengths
<1>6. a <= N - 1
  <2>1. CASE e < k
    <3>1. /\ LeadsTo(k) \in Int /\ LeadsTo(k) <= N + 1 /\ LeadsTo(k) % 2 = 1
          /\ a < LeadsTo(k)
      BY <1>3, <2>1, EntryIs
    <3>2. a + 2 <= LeadsTo(k)
      BY <1>1, <3>1, BetweenPlaces
    <3> QED
      BY <1>1, <1>2, <3>1, <3>2
  <2>2. CASE e = 1
    <3>1. a = 5
      BY <1>1, <2>2 DEF WriterInv, IndexFits
    <3> QED
      BY <1>2, <3>1
  <2> QED
    BY <2>1, <2>2
<1>7. half => a <= N - 3
  <2> SUFFICES ASSUME half PROVE a <= N - 3
    OBVIOUS
  <2> PICK j : j = NumEntries
    OBVIOUS
  <2>1. k < j /\ j \in 1..NumEntries /\ e < j
    BY <1>1, <1>5
  <2>2. /\ LeadsTo(j) \in Int /\ LeadsTo(j) % 2 = 1 /\ LeadsTo(j) < N
        /\ a < LeadsTo(j)
    BY <1>3, <2>1, EntryIs
  <2>3. a + 2 <= LeadsTo(j)
    BY <1>1, <2>2, BetweenPlaces
  <2> QED
    BY <1>1, <1>2, <2>2, <2>3
<1>8. a \in Tags
  BY <1>1, <1>2, <1>6 DEF Tags
<1>9. a <= Seen
  BY <1>1, <1>2, <1>4, <1>6, <1>7
<1> QED
  BY <1>6, <1>8, <1>9

\* The entry before the first that is not earlier leads to the key.
LEMMA EntryIsKey ==
  ASSUME WriterInv, PlayerTypes, NEW e \in 1..NumEntries, NEW k \in 1..NumEntries,
         rec.saving => k < NumEntries,
         e + 1 = k \/ (e = 1 /\ k = 1),
         TimeOf(k) >= range[1],
         \A j \in 1..NumEntries : j < k => TimeOf(j) < range[1],
         NEW o, o = LeadsTo(e)
  PROVE  KeyAt(o)
<1>1. o \in Tags /\ o <= rec.tail - 1 /\ o \in Int /\ rec.tail \in Nat
      /\ NumEntries \in Nat /\ rec.keyed
  <2>1. e < k \/ (e = 1 /\ k = 1)
    BY EntryIs
  <2> QED
    BY <2>1, EntrySeen, EntryIs, SeenIs DEF WriterInv
<1>2. o <= rec.tail /\ range[1] \in Int /\ Now \in Int
  <2>1. range[1] \in Int
    BY DEF PlayerTypes
  <2> QED
    BY <1>1, <2>1, EntryIs
<1>3. /\ CellAt(o).is \in {"idr", "config"} /\ CellAt(o).time = TimeOf(e)
      /\ CellAt(o).is = "config" =>
           (e = NumEntries /\ camera.type = "pps")
           \/ (e < NumEntries /\ TimeOf(e + 1) = TimeOf(e))
  <2>1. EntryFits(e)
    BY DEF WriterInv, IndexFits
  <2> QED
    BY <1>1, <1>2, <2>1 DEF EntryFits, CellAt
<1>4. TimeOf(e) \in Int /\ TimeOf(k) \in Int /\ TimeOf(k) <= Now
  BY EntryIs
<1>5. e + 1 = k => TimeOf(e) < range[1]
  <2>1. e < e + 1
    OBVIOUS
  <2> QED
    BY <2>1
<1>6. IsKey(o)
  <2>1. CASE e + 1 = k
    <3>1. e # NumEntries
      BY <1>1, <2>1
    <3>2. TimeOf(e + 1) # TimeOf(e)
      BY <1>2, <1>4, <1>5, <2>1
    <3> QED
      BY <1>3, <3>1, <3>2 DEF IsKey
  <2>2. CASE e = 1 /\ k = 1
    <3>1. LeadsTo(1) = 5 /\ CellAt(5).is = "idr"
      BY <1>1 DEF WriterInv, IndexFits
    <3> QED
      BY <2>2, <3>1 DEF IsKey
  <2> QED
    BY <2>1, <2>2
<1>7. CellAt(o).time < range[1] \/ \A i \in Tags : IsKey(i) => i >= o
  <2>1. CASE e + 1 = k
    BY <1>3, <1>5, <2>1
  <2>2. CASE e = 1
    <3>1. o = 5
      BY <1>1, <2>2 DEF WriterInv, IndexFits
    <3> QED
      BY <3>1, TagIs
  <2> QED
    BY <2>1, <2>2
<1>8. ASSUME NEW i \in Tags, IsKey(i), i > o PROVE CellAt(i).time >= range[1]
  <2>1. PICK j \in 1..NumEntries : LeadsTo(j) = i
    BY <1>8 DEF IsKey, WriterInv, IndexFits
  <2>2. CellAt(i).time = TimeOf(j)
    <3>1. EntryFits(j) /\ i <= rec.tail
      BY TagIs DEF WriterInv, IndexFits
    <3> QED
      BY <2>1, <3>1 DEF EntryFits, CellAt
  <2>3. /\ j \in Int /\ e \in Int /\ k \in Int /\ i \in Int
        /\ TimeOf(j) \in Int
    BY <1>1, <2>1, EntryIs, TagIs
  <2>4. ~(j < e) /\ j # e
    <3>1. j < e => i < o
      BY <2>1 DEF WriterInv, IndexFits
    <3> QED
      BY <1>1, <1>8, <2>1, <2>3, <3>1
  <2>5. j = k \/ k < j
    BY <2>3, <2>4
  <2>6. TimeOf(k) <= TimeOf(j)
    BY <1>4, <2>5 DEF WriterInv, IndexFits
  <2> QED
    BY <1>2, <1>4, <2>2, <2>3, <2>6
<1>9. Now >= range[1]
  BY <1>2, <1>4
<1> QED
  BY <1>1, <1>6, <1>7, <1>8, <1>9 DEF KeyAt

\* What getNearestIdx finds.
Found(offset) ==
  \E e, k \in 1..NumEntries :
    /\ rec.saving => k < NumEntries
    /\ e + 1 = k \/ (e = 1 /\ k = 1)
    /\ TimeOf(k) >= range[1]
    /\ \A j \in 1..NumEntries : j < k => TimeOf(j) < range[1]
    /\ offset = LeadsTo(e) - 2

LEMMA NearestIs ==
  ASSUME WriterInv, PlayerTypes, NearestIdx(range[1]) # -1
  PROVE  Found(NearestIdx(range[1]))
<1> PICK t : t = range[1]
  OBVIOUS
<1> PICK m : m = NumEntries
  OBVIOUS
<1>1. m \in Nat /\ rec.saving \in BOOLEAN /\ t \in Int
  BY EntryTypes, RecordingIs DEF WriterInv, WriterTypes, PlayerTypes
<1>2. \A k \in 1..m : TimeOf(k) \in Int /\ LeadsTo(k) \in Int
  BY EntryTypes DEF WriterInv
<1> PICK n : n = Larger(m - (IF rec.saving THEN 1 ELSE 0), 0)
  OBVIOUS
<1>3. n \in Nat /\ n <= m /\ (rec.saving => n < m \/ n = 0)
  BY <1>1 DEF Larger
<1>4. Entries = [k \in 1..n |-> [time |-> rec.idx.data[2 * k - 1].time,
                                offset |-> rec.idx.data[2 * k].unit]]
  BY DEF Entries, NumEntries
<1>5. /\ DOMAIN Entries = 1..n
      /\ \A k \in 1..n : /\ Entries[k].time = TimeOf(k)
                         /\ Entries[k].offset = rec.idx.data[2 * k].unit
  BY <1>4 DEF TimeOf
<1> DEFINE behind == {k \in DOMAIN Entries : Entries[k].time >= t}
           first1 == CHOOSE i \in behind : \A j \in behind : i <= j
<1>6. NearestIdx(t) = (IF behind = {} THEN -1 ELSE Entries[Larger(first1 - 1, 1)].offset)
  BY DEF NearestIdx
<1>7. behind # {}
  BY <1>6
<1>8. behind \subseteq Nat
  BY <1>3, <1>5
<1> PICK k : k = first1
  OBVIOUS
<1>9. k \in behind /\ \A j \in behind : k <= j
  <2> HIDE DEF behind
  <2> QED
    BY <1>7, <1>8, LeastIsChosen
<1>10. k \in 1..n /\ TimeOf(k) >= t
  <2>1. k \in DOMAIN Entries /\ Entries[k].time >= t
    BY <1>9, Zenon
  <2> HIDE DEF behind, first1
  <2> QED
    BY <1>5, <2>1
<1>11. ASSUME NEW j \in 1..m, j < k PROVE TimeOf(j) < t
  <2>1. j \in 1..n
    BY <1>3, <1>10, <1>11
  <2>2. ~(TimeOf(j) >= t)
    <3> SUFFICES ASSUME TimeOf(j) >= t PROVE FALSE
      OBVIOUS
    <3>1. j \in behind
      BY <1>5, <2>1
    <3> QED
      BY <1>3, <1>9, <1>10, <1>11, <2>1, <3>1
  <2> QED
    BY <1>1, <1>2, <2>2
<1> PICK e : e = Larger(k - 1, 1)
  OBVIOUS
<1>12. /\ e \in 1..n /\ e \in 1..m /\ k \in 1..m
       /\ e + 1 = k \/ (e = 1 /\ k = 1)
  <2>1. e = (IF k - 1 > 1 THEN k - 1 ELSE 1)
    BY DEF Larger
  <2> HIDE DEF behind, first1
  <2>2. k \in Nat /\ 1 <= k /\ k <= n /\ n <= m /\ m \in Nat /\ n \in Nat
    BY <1>1, <1>3, <1>10
  <2> QED
    BY ONLY <2>1, <2>2
<1>13. rec.saving => k < m
  BY <1>1, <1>3, <1>10
<1>14. NearestIdx(t) = rec.idx.data[2 * e].unit
  <2>1. NearestIdx(t) = Entries[Larger(first1 - 1, 1)].offset
    BY <1>6, <1>7, Zenon
  <2>2. Larger(first1 - 1, 1) = e
    OBVIOUS
  <2> HIDE DEF behind, first1
  <2> QED
    BY <1>5, <1>12, <2>1, <2>2
<1>15. NearestIdx(t) = LeadsTo(e) - 2
  <2>1. rec.idx.data[2 * e].unit \in Int
    <3> PICK l : l = Len(rec.idx.data)
      OBVIOUS
    <3>1. /\ l \in Nat /\ l % 2 = 0
          /\ \A i \in 1..l : rec.idx.data[i].unit \in Int
      BY RecordingIs, FileIs DEF WriterInv, WriterTypes, Lengths
    <3>2. 2 * e \in 1..l
      BY <1>12, <3>1, Halves DEF NumEntries
    <3> QED
      BY <3>1, <3>2
  <2> HIDE DEF behind, first1
  <2> DEFINE v == rec.idx.data[2 * e].unit
  <2>2. NearestIdx(t) = v /\ LeadsTo(e) = v + 2 /\ v \in Int
    BY <1>14, <2>1, Zenon DEF LeadsTo
  <2> HIDE DEF v
  <2> QED
    BY ONLY <2>2
<1> QED
  BY <1>10, <1>11, <1>12, <1>13, <1>15 DEF Found

LEMMA SeekToTimeFits ==
  ASSUME WriterInv, ReaderInv, SeekToTime
  PROVE  WriterInv' /\ ReaderInv'
<1>1. /\ ~died /\ todo = "seek"
      /\ UNCHANGED <<indexed, requests, range, sets, sps, first, latest, grew, died>>
  BY DEF SeekToTime, output
<1>2. /\ WriterInv' /\ Tags' = Tags /\ Seen' = Seen /\ rec' = rec
      /\ \A i : CellAt(i)' = CellAt(i) /\ \A n : NoneUpTo(n)' = NoneUpTo(n)
      /\ range' = range => \A o : KeyAt(o)' = KeyAt(o)
  BY WriterSame DEF SeekToTime
<1>3. /\ thread = "none" /\ first = 0 /\ requests > 0 /\ latest = 0
      /\ cached \in Nat /\ cached <= Seen /\ Seen \in Nat
      /\ pos # 0 => pos % 2 = 1 /\ pos >= 3 /\ pos <= rec.tail
      /\ pos \in Nat /\ lost \in {"no", "rewound", "stale"}
  BY <1>1, SeenIs DEF ReaderInv, PlayerFits, PlayerTypes, WriterInv
<1>4. SentFits'
  BY <1>1, <1>3 DEF SentFits
<1>5. SetsFit'
  <2> PICK n : n = Seen
    OBVIOUS
  <2> SUFFICES ASSUME ~sets', ~grew' PROVE SetsFit'
    BY DEF SetsFit
  <2>1. NoneUpTo(Seen)
    BY <1>1 DEF ReaderInv, SetsFit
  <2>2. NoneUpTo(n)' /\ n = Seen'
    BY <1>2, <2>1 DEF NoneUpTo
  <2> QED
    BY <1>1, <1>3, <2>2 DEF SetsFit, NoneUpTo, CellAt
<1>6. ASSUME /\ thread' \in {"none", "run"}
             /\ todo' \in {"none", "scan"}
             /\ todo' = "scan" => thread' = "none" /\ ~indexed
             /\ ended' \in BOOLEAN
             /\ cached' \in Nat /\ cached' <= Seen /\ lost' \in {"no", "rewound", "stale"}
             /\ pos' \in Nat
             /\ pos' # 0 => pos' % 2 = 1 /\ pos' >= 3 /\ pos' <= rec.tail
      PROVE  PlayerTypes' /\ PlayerFits'
  <2>1. PlayerTypes'
    BY <1>1, <1>6 DEF ReaderInv, PlayerTypes
  <2>2. PlayerFits'
    BY <1>1, <1>2, <1>3, <1>6 DEF ReaderInv, PlayerFits
  <2> QED
    BY <2>1, <2>2
<1>7. CASE ~indexed
  <2>1. /\ todo' = "scan" /\ UNCHANGED <<thread, ended>>
        /\ SeekToPos(0)
    BY <1>7 DEF SeekToTime
  <2>2. /\ pos' \in {pos, 0} /\ cached' \in Nat /\ cached' <= Seen
        /\ lost' \in {"no", "rewound", "stale"}
    BY <1>3, <2>1 DEF SeekToPos
  <2>3. PlayerTypes' /\ PlayerFits'
    <3>1. ended \in BOOLEAN
      BY DEF ReaderInv, PlayerTypes
    <3>2. pos' \in Nat /\ (pos' # 0 => pos' % 2 = 1 /\ pos' >= 3 /\ pos' <= rec.tail)
      <4>1. CASE pos' = pos
        BY <1>3, <4>1
      <4>2. CASE pos' = 0
        BY <4>2
      <4> QED
        BY <2>2, <4>1, <4>2
    <3> QED
      BY <1>3, <1>6, <1>7, <2>1, <2>2, <3>1, <3>2
  <2>4. KeyFits'
    BY <1>1, <1>7 DEF KeyFits
  <2> QED
    BY <1>2, <1>4, <1>5, <2>3, <2>4 DEF ReaderInv
<1>8. CASE indexed
  <2> PICK f : f = NearestIdx(range[1])
    OBVIOUS
  <2>1. /\ thread' = "run" /\ todo' = "none"
        /\ IF f = -1 THEN ended' = TRUE /\ UNCHANGED <<pos, cached, lost>>
           ELSE SeekToPos(f) /\ UNCHANGED ended
    BY <1>8 DEF SeekToTime, Begin
  <2>2. CASE f = -1
    <3>1. PlayerTypes' /\ PlayerFits'
      BY <1>3, <1>6, <2>1, <2>2
    <3>2. KeyFits'
      BY <1>1, <1>3, <2>1, <2>2 DEF KeyFits
    <3> QED
      BY <1>2, <1>4, <1>5, <3>1, <3>2 DEF ReaderInv
  <2>3. CASE f # -1
    <3>1. PICK e \in 1..NumEntries, k \in 1..NumEntries :
            /\ rec.saving => k < NumEntries
            /\ e + 1 = k \/ (e = 1 /\ k = 1)
            /\ TimeOf(k) >= range[1]
            /\ \A j \in 1..NumEntries : j < k => TimeOf(j) < range[1]
            /\ f = LeadsTo(e) - 2
      BY <2>3, NearestIs DEF Found, ReaderInv, LeadsTo, TimeOf
    <3> PICK o : o = LeadsTo(e)
      OBVIOUS
    <3>2. KeyAt(o)
      BY <3>1, EntryIsKey DEF ReaderInv
    <3>3. e < k \/ (e = 1 /\ k = 1)
      BY <3>1, EntryIs
    <3>4. o <= Seen /\ o \in Int /\ o % 2 = 1 /\ o >= 5 /\ o <= rec.tail /\ rec.tail \in Nat
      BY <3>1, <3>3, EntrySeen, TagIs, SeenIs DEF WriterInv
    <3>5. f \in Nat /\ f % 2 = 1 /\ f >= 3 /\ f + 2 = o /\ f < Seen /\ f <= rec.tail
      <4>1. f = o - 2
        BY <3>1
      <4>2. \A i \in Int : i % 2 = 1 => (i - 2) % 2 = 1
        OBVIOUS
      <4> QED
        BY <1>3, <3>4, <4>1, <4>2
    <3>6. /\ (lost' = "stale" /\ pos' = pos) \/ (lost' = "no" /\ pos' = f)
          /\ cached' \in Nat /\ cached' <= Seen /\ ended' = ended
      BY <1>3, <2>1, <2>3, <3>5 DEF SeekToPos
    <3>7. PlayerTypes' /\ PlayerFits'
      <4>1. ended \in BOOLEAN
        BY DEF ReaderInv, PlayerTypes
      <4>2. f # 0
        BY <3>5
      <4> QED
        BY <1>3, <1>6, <2>1, <3>5, <3>6, <4>1
    <3>8. KeyFits'
      <4> SUFFICES ASSUME lost' # "stale" PROVE KeyFits'
        BY <1>1, <1>3 DEF KeyFits
      <4>1. KeyAt(o)' /\ o = pos' + 2 /\ pos' = f
        BY <1>1, <1>2, <3>2, <3>5, <3>6
      <4> QED
        BY <1>1, <1>2, <1>3, <3>4, <3>5, <3>6, <4>1 DEF KeyFits, KeyAt, IsKey, CellAt
    <3> QED
      BY <1>2, <1>4, <1>5, <3>7, <3>8 DEF ReaderInv
  <2> QED
    BY <2>2, <2>3
<1> QED
  BY <1>7, <1>8 DEF ReaderInv, PlayerTypes

-----------------------------------------------------------------------------
(* The theorems of recordings.                                             *)

LEMMA FlvBegins ==
  ASSUME FlvInit
  PROVE  FlvInv
<1> DEFINE f == Create(TRUE)
<1>1. /\ f \in TheFiles /\ f.opens /\ f.pos = 0 /\ Len(f.data) = 0
  <2>1. f = [data |-> <<>>, pos |-> 0, opens |-> TRUE]
    BY DEF Create
  <2>2. <<>> \in Seq(TheCells) /\ Len(<<>>) = 0
    OBVIOUS
  <2> HIDE DEF f
  <2> QED
    BY <2>1, <2>2 DEF TheFiles
<1>2. rec = [saving |-> TRUE, file |-> f, idx |-> f,
             sps |-> 0, pps |-> 0, good |-> FALSE, first |-> 0, duration |-> 0,
             meta |-> FALSE, keyed |-> FALSE, headed |-> FALSE, torn |-> FALSE,
             tail |-> 0]
  BY Zenon DEF FlvInit, NewFlv
<1> HIDE DEF f
<1>3. /\ rec \in Recordings /\ rec.saving /\ rec.file = f /\ rec.idx = f
      /\ rec.sps = 0 /\ rec.pps = 0 /\ ~rec.meta /\ ~rec.keyed /\ rec.tail = 0
  BY <1>1, <1>2 DEF Recordings
<1>4. /\ camera = [type |-> "slice", count |-> 0, now |-> 0] /\ half = FALSE
      /\ indexed \in BOOLEAN /\ thread = "none" /\ todo = "none" /\ requests = 0
      /\ range = <<0, 0>> /\ ended = FALSE /\ pos = 0 /\ cached = 0 /\ sets = FALSE
      /\ sps = FALSE /\ lost = "no"
      /\ first = 0 /\ latest = 0 /\ grew = FALSE /\ died = FALSE
  BY DEF FlvInit
<1>5. WriterTypes
  BY <1>1, <1>3, <1>4 DEF WriterTypes
<1>6. Phases
  BY <1>3, <1>4 DEF Phases
<1>7. Lengths
  <2>1. 0 % 2 = 0 /\ 0 <= 1
    OBVIOUS
  <2> QED
    BY <1>1, <1>3, <1>4, <2>1 DEF Lengths
<1>8. Tags = {} /\ NumEntries = 0
  BY <1>3, <1>5, <1>7, NoTags
<1>9. TagsFit
  <2>1. \A i \in Int : ~(i \in 1..0)
    OBVIOUS
  <2> QED
    BY <1>1, <1>3, <1>8, <2>1 DEF TagsFit
<1>10. IndexFits
  <2>1. \A i \in Int : ~(i \in 1..0)
    OBVIOUS
  <2> QED
    BY <1>3, <1>8, <2>1 DEF IndexFits
<1>11. Seen = 0
  BY <1>3 DEF Seen
<1>12. PlayerTypes
  BY <1>4 DEF PlayerTypes
<1>13. PlayerFits
  BY <1>4, <1>11 DEF PlayerFits
<1>14. SentFits /\ KeyFits
  BY <1>4 DEF SentFits, KeyFits
<1>15. SetsFit
  BY <1>4, <1>8 DEF SetsFit, NoneUpTo
<1> QED
  BY <1>5, <1>6, <1>7, <1>9, <1>10, <1>12, <1>13, <1>14, <1>15
  DEF FlvInv, WriterInv, ReaderInv

\* What looks like a tag is one.
LEMMA TagAt ==
  ASSUME WriterInv, NEW N, N = Len(rec.file.data), NEW i \in 1..N, CellAt(i).is \in Kinds
  PROVE  i \in Tags
<1>1. N \in Nat
  BY RecordingIs, FileIs DEF WriterInv, WriterTypes
<1>2. i >= 5
  BY <1>1 DEF WriterInv, TagsFit
<1>3. rec.keyed
  <2>1. \/ ~rec.meta /\ N <= 1
        \/ rec.meta /\ ~rec.keyed /\ N = 4
        \/ rec.keyed
    BY RecordingIs DEF WriterInv, WriterTypes, Lengths
  <2>2. N \in Nat /\ N >= 5
    BY <1>1, <1>2
  <2> QED
    BY ONLY <2>1, <2>2
<1>4. rec.tail = N
  BY <1>3, SeenIs DEF WriterInv
<1>5. i % 2 = 1
  <2> SUFFICES ASSUME i % 2 # 1 PROVE FALSE
    OBVIOUS
  <2>1. i - 1 \in 5..N /\ (i - 1) % 2 = 1 /\ (i - 1) + 1 = i
    BY <1>1, <1>2
  <2>2. i - 1 \in Tags
    BY <1>4, <2>1 DEF Tags
  <2>3. CellAt((i - 1) + 1).is = "back"
    BY <2>2 DEF WriterInv, TagsFit
  <2> QED
    BY <2>1, <2>3 DEF Kinds
<1> QED
  BY <1>1, <1>2, <1>4, <1>5 DEF Tags

LEMMA PictureAt ==
  ASSUME WriterInv, NEW c \in ToSet(rec.file.data), c.is \in Kinds
  PROVE  \E i \in Tags : c = CellAt(i)
<1> PICK N : N = Len(rec.file.data)
  OBVIOUS
<1>1. N \in Nat /\ DOMAIN rec.file.data = 1..N
  BY RecordingIs, FileIs DEF WriterInv, WriterTypes
<1>2. PICK i \in 1..N : c = CellAt(i)
  BY <1>1 DEF ToSet, CellAt
<1>3. i \in Tags
  BY <1>2, TagAt
<1> QED
  BY <1>2, <1>3

\* What is sent next: later than the latest, with no picture in between.
LEMMA NextIsInOrder ==
  ASSUME WriterInv, ReaderInv, thread = "run", ~died, latest # 0, rec' = rec,
         lost # "rewound", NEW f, NextSent(f)
  PROVE  /\ latest' > latest
         /\ ~\E c \in Pictures : latest < c.unit /\ c.unit < latest'
<1> lost = "no"
  BY DEF NextSent, ReaderInv, PlayerTypes
<1>1. PICK p \in Tags : /\ f = CellAt(p) /\ latest < f.unit /\ pos \in Tags
                        /\ \A i \in Tags : i <= p => i <= pos \/ i = p
  BY DEF NextSent
<1>2. latest' = f.unit /\ latest \in Nat /\ f.unit \in Nat
  BY <1>1, TagIs DEF NextSent, ReaderInv, PlayerTypes
<1>3. \A i \in Tags : i <= pos /\ CellAt(i).is # "config" => CellAt(i).unit <= latest
  BY DEF ReaderInv, SentFits
<1>4. ASSUME NEW c \in Pictures, latest < c.unit, c.unit < f.unit PROVE FALSE
  <2>1. c \in ToSet(rec.file.data) /\ c.is \in Kinds /\ c.is # "config"
    BY DEF Pictures, Kinds
  <2>2. PICK i \in Tags : c = CellAt(i)
    BY <2>1, PictureAt
  <2>3. i \in Int /\ p \in Int /\ c.unit \in Nat
    BY <1>1, <2>2, TagIs
  <2>4. CASE i <= p
    <3>1. i <= pos
      BY <1>1, <1>2, <1>4, <2>2, <2>3, <2>4
    <3> QED
      BY <1>2, <1>3, <1>4, <2>1, <2>2, <2>3, <3>1
  <2>5. CASE p < i
    <3>1. f.unit < c.unit
      BY <1>1, <2>2, <2>5 DEF WriterInv, TagsFit
    <3> QED
      BY <1>2, <1>4, <2>3, <3>1
  <2> QED
    BY <2>3, <2>4, <2>5
<1> QED
  BY <1>1, <1>2, <1>4

\* What a step of the player does to what was sent.
SendsInOrder ==
  latest # 0 /\ latest' \notin {0, latest} /\ lost # "rewound" =>
    /\ latest' > latest
    /\ ~\E c \in Pictures : latest < c.unit /\ c.unit < latest'

LEMMA FlvSteps ==
  ASSUME FlvInv, [Next]_vars
  PROVE  FlvInv' /\ [SendsInOrder]_flv
<1>1. WriterInv /\ ReaderInv
  BY DEF FlvInv
<1>2. CASE UNCHANGED flv
  <2>1. UNCHANGED <<indexed, thread, todo, requests, range, ended, pos, cached, sets,
                    sps, lost, first, latest, grew, died>>
        /\ UNCHANGED writer
    BY <1>2 DEF flv, reader, output
  <2>2. /\ WriterInv' /\ Tags' = Tags /\ Seen' = Seen /\ rec' = rec
        /\ \A o : KeyAt(o)' = KeyAt(o)
    BY <1>1, <2>1, WriterSame
  <2>3. PlayerTypes' /\ PlayerFits'
    BY <1>1, <2>1, <2>2 DEF ReaderInv, PlayerTypes, PlayerFits
  <2>4. SentFits'
    BY <1>1, <2>1, <2>2 DEF ReaderInv, SentFits, CellAt
  <2>5. SetsFit'
    BY <1>1, <2>1, <2>2 DEF ReaderInv, SetsFit, NoneUpTo, CellAt
  <2>6. KeyFits'
    <3>1. Now' = Now
      BY <1>1, <2>1, WriterSame
    <3> QED
      BY <1>1, <2>1, <2>2, <3>1 DEF ReaderInv, KeyFits, KeyAt, IsKey, CellAt
  <2> QED
    BY <1>2, <2>2, <2>3, <2>4, <2>5, <2>6 DEF FlvInv, ReaderInv
<1>3. ASSUME WriterInv', ReaderInv', UNCHANGED latest PROVE FlvInv' /\ SendsInOrder
  BY <1>3 DEF FlvInv, SendsInOrder
<1>4. CASE WriteUnit
  <2>1. WriterInv' /\ Extends
    BY <1>1, <1>4, WriteUnitFits
  <2>2. ReaderStays /\ UNCHANGED grew /\ UNCHANGED latest
    BY <1>4 DEF WriteUnit, ReaderStays, output
  <2> QED
    BY <1>1, <1>3, <2>1, <2>2, ReaderExtends
<1>5. CASE Flushed
  <2>1. UNCHANGED latest
    BY <1>5 DEF Flushed, output
  <2> QED
    BY <1>1, <1>3, <1>5, <2>1, ReaderFlushed
<1>6. CASE EndRecording
  <2>1. WriterInv' /\ Extends
    BY <1>1, <1>6, EndRecordingFits
  <2>2. ReaderStays /\ UNCHANGED grew /\ UNCHANGED latest
    BY <1>6 DEF EndRecording, ReaderStays, output
  <2> QED
    BY <1>1, <1>3, <2>1, <2>2, ReaderExtends
<1>7. CASE Play
  <2>1. UNCHANGED latest
    BY <1>7 DEF Play, output
  <2> QED
    BY <1>1, <1>3, <1>7, <2>1, PlayFits
<1>8. CASE \E what \in {"pause", "stop"} : Pause(what)
  <2>1. UNCHANGED latest
    BY <1>8 DEF Pause, output
  <2> QED
    BY <1>1, <1>3, <1>8, <2>1, PauseFits
<1>9. CASE Executor
  <2>1. CASE Joined
    <3>1. latest' = 0
      BY <2>1 DEF Joined
    <3> QED
      BY <1>1, <2>1, <3>1, JoinedFits DEF FlvInv, SendsInOrder
  <2>2. CASE ReadSets
    <3>1. UNCHANGED latest
      BY <2>2 DEF ReadSets, output
    <3> QED
      BY <1>1, <1>3, <2>2, <3>1, ReadSetsFits
  <2>3. CASE SeekToTime
    <3>1. UNCHANGED latest
      BY <2>3 DEF SeekToTime, output
    <3> QED
      BY <1>1, <1>3, <2>3, <3>1, SeekToTimeFits
  <2>4. CASE Scan
    <3>1. UNCHANGED latest
      BY <2>4 DEF Scan, output
    <3> QED
      BY <1>1, <1>3, <2>4, <3>1, ScanFits
  <2>5. CASE PauseJoins
    <3>1. UNCHANGED latest
      BY <2>5 DEF PauseJoins, output
    <3> QED
      BY <1>1, <1>3, <2>5, <3>1, PauseJoinsFits
  <2> QED
    BY <1>9, <2>1, <2>2, <2>3, <2>4, <2>5 DEF Executor
<1>10. CASE SendThread
  <2>1. /\ WriterInv' /\ ReaderInv' /\ rec' = rec
        /\ UNCHANGED <<first, latest>> \/ \E f : NextSent(f)
    BY <1>1, <1>10, SendThreadFits
  <2>2. thread = "run" /\ ~died
    BY <1>10 DEF SendThread
  <2>3. CASE \E f : NextSent(f)
    <3>1. SendsInOrder
      BY <1>1, <2>1, <2>2, <2>3, NextIsInOrder DEF SendsInOrder
    <3> QED
      BY <2>1, <3>1 DEF FlvInv
  <2> QED
    BY <1>3, <2>1, <2>3
<1>11. \/ UNCHANGED flv \/ WriteUnit \/ Flushed \/ EndRecording \/ Play
       \/ Pause("pause") \/ Pause("stop") \/ SendThread \/ Executor
  BY DEF Next, vars, OfFlv, OfH264
<1> QED
  BY <1>2, <1>4, <1>5, <1>6, <1>7, <1>8, <1>9, <1>10, <1>11

\* What the recorder leaves in its files and what a stream that reads them relies on
\* (flvWriter, flvIdxWriter, flvParser, FlvVideoFileStreamSource).
THEOREM FlvInvHolds == Spec => []FlvInv
<1>1. Init => FlvInv
  BY FlvBegins DEF Init
<1>2. FlvInv /\ [Next]_vars => FlvInv'
  BY FlvSteps
<1> QED
  BY <1>1, <1>2, PTL DEF Spec

\* From its first picture on a stream of a recording sends what is in the file, in
\* order and nothing left out, also while the file grows and tags are torn, until a torn
\* configuration record throws it back to the beginning (getNextFrame, sendFrame).
THEOREM RecordingKeepsOrder == Spec => FlvPlaysInOrder
<1>1. FlvInv /\ [Next]_vars => [SendsInOrder]_flv
  BY FlvSteps
<1>2. [SendsInOrder]_flv =>
        [latest # 0 /\ latest' \notin {0, latest} /\ lost # "rewound" =>
           /\ latest' > latest
           /\ ~\E c \in Pictures : latest < c.unit /\ c.unit < latest']_flv
  BY DEF SendsInOrder
<1> QED
  BY <1>1, <1>2, FlvInvHolds, PTL DEF Spec, FlvPlaysInOrder

\* With an index a stream begins with the last IDR before the time that PLAY asked for,
\* or with the first there is (getNearestIdx, seekToTime).
THEOREM BeginsWithKey == Spec => []StartsAtKey
<1>1. FlvInv => StartsAtKey
  <2> SUFFICES ASSUME FlvInv, indexed, first # 0, todo # "play"
               PROVE  \E c \in Pictures :
                 /\ c.unit = first /\ c.is = "idr"
                 /\ c.time < range[1] \/ ~\E d \in Pictures : d.is = "idr" /\ d.unit < first
                 /\ ~\E d \in Pictures : d.is = "idr" /\ d.unit > first /\ d.time < range[1]
    BY DEF StartsAtKey
  <2>1. WriterInv /\ ReaderInv
    BY DEF FlvInv
  <2>2. PICK o \in Tags : CellAt(o).unit = first /\ KeyAt(o)
    BY <2>1 DEF ReaderInv, KeyFits
  <2> PICK c : c = CellAt(o)
    OBVIOUS
  <2>3. /\ c.is = "idr" /\ c.unit = first
        /\ c.time < range[1] \/ \A i \in Tags : CellAt(i).is = "idr" => i >= o
        /\ \A i \in Tags : CellAt(i).is = "idr" /\ i > o => CellAt(i).time >= range[1]
    BY <2>2 DEF KeyAt, IsKey
  <2>4. c \in Pictures
    <3>1. o \in DOMAIN rec.file.data
      <4>1. o \in 1..Len(rec.file.data)
        BY <2>1, <2>2, TagIs
      <4> QED
        BY <2>1, <4>1, RecordingIs, FileIs DEF WriterInv, WriterTypes
    <3>2. c \in ToSet(rec.file.data)
      BY <3>1 DEF ToSet, CellAt
    <3> QED
      BY <2>3, <3>2 DEF Pictures
  <2>5. ASSUME NEW d \in Pictures, d.is = "idr"
        PROVE  \E i \in Tags : d = CellAt(i) /\ i \in Int /\ d.time \in Int /\ d.unit \in Nat
    <3>1. d \in ToSet(rec.file.data) /\ d.is \in Kinds
      BY <2>5 DEF Pictures, Kinds
    <3>2. PICK i \in Tags : d = CellAt(i)
      BY <2>1, <3>1, PictureAt
    <3> QED
      BY <2>1, <3>2, TagIs
  <2>6. o \in Int /\ first \in Nat /\ range[1] \in Int
    BY <2>1, <2>2, TagIs DEF ReaderInv, PlayerTypes
  <2>7. \A i, j \in Tags : i < j => CellAt(i).unit < CellAt(j).unit
    BY <2>1 DEF WriterInv, TagsFit
  <2>8. c.time < range[1] \/ ~\E d \in Pictures : d.is = "idr" /\ d.unit < first
    <3> SUFFICES ASSUME \A i \in Tags : CellAt(i).is = "idr" => i >= o,
                        NEW d \in Pictures, d.is = "idr", d.unit < first
                 PROVE  FALSE
      BY <2>3
    <3>1. PICK i \in Tags : d = CellAt(i) /\ i \in Int /\ d.unit \in Nat
      BY <2>5
    <3>2. i > o \/ i = o
      BY <2>6, <3>1
    <3> QED
      BY <2>2, <2>6, <2>7, <3>1, <3>2
  <2>9. ASSUME NEW d \in Pictures, d.is = "idr", d.unit > first, d.time < range[1]
        PROVE  FALSE
    <3>1. PICK i \in Tags : d = CellAt(i) /\ i \in Int /\ d.unit \in Nat /\ d.time \in Int
      BY <2>5, <2>9
    <3>2. i > o
      <4>1. i < o \/ i = o \/ i > o
        BY <2>6, <3>1
      <4>2. ~(i < o) /\ i # o
        BY <2>2, <2>6, <2>7, <2>9, <3>1
      <4> QED
        BY <4>1, <4>2
    <3> QED
      BY <2>3, <2>6, <2>9, <3>1, <3>2
  <2> QED
    BY <2>3, <2>4, <2>8, <2>9
<1> QED
  BY <1>1, FlvInvHolds, PTL

\* An IDR kills the process for want of parameter sets only if the file that is seen
\* has none, or grew since a stream of it was first played (sendFrame).
THEOREM DiesForWantOfSets == Spec => []DiesOnlyBare
<1>1. FlvInv => DiesOnlyBare
  <2> SUFFICES ASSUME FlvInv, died, ~grew,
                      NEW c \in ToSet(SubSeq(rec.file.data, 1, Seen)), c.is = "config"
               PROVE  FALSE
    BY DEF DiesOnlyBare
  <2>1. WriterInv /\ ReaderInv
    BY DEF FlvInv
  <2>2. ~sets /\ thread = "run"
    BY <2>1 DEF ReaderInv, PlayerFits
  <2>3. NoneUpTo(Seen)
    BY <2>1, <2>2 DEF ReaderInv, SetsFit
  <2> PICK N : N = Len(rec.file.data)
    OBVIOUS
  <2> PICK n : n = Seen
    OBVIOUS
  <2>4. /\ rec.file.data \in Seq(TheCells) /\ N \in Nat /\ n \in Nat /\ n <= N
        /\ DOMAIN rec.file.data = 1..N
    BY <2>1, SeenIs, RecordingIs, FileIs DEF WriterInv, WriterTypes
  <2>5. PICK i \in 1..n : c = rec.file.data[i]
    BY <2>4 DEF ToSet
  <2>6. i \in 1..N /\ c = CellAt(i) /\ i <= n
    BY <2>4, <2>5 DEF CellAt
  <2>7. i \in Tags
    BY <2>1, <2>6, TagAt DEF Kinds
  <2> QED
    BY <2>3, <2>6, <2>7 DEF NoneUpTo
<1> QED
  BY <1>1, FlvInvHolds, PTL
=============================================================================
