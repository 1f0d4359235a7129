--------------------------- MODULE LiveSinker_proofs ---------------------------
(***************************************************************************)
(* Proofs about the media path from the camera's packets to the clients of *)
(* the live sinkers: for any number of sinkers, units and fragments and    *)
(* any limit of the queues, a client sees the units in the camera's order, *)
(* and what is queued for it is put together as PiecesFit says.            *)
(***************************************************************************)
EXTENDS LiveSinker, SequenceTheorems, WellFoundedInduction, TLAPS

-----------------------------------------------------------------------------
(* Induction over a set of naturals, and the recursion of OfTypes.           *)

\* A set with 0 in it that has the successor of each of its numbers has all.
LEMMA NaturalsByStep ==
  ASSUME NEW T, 0 \in T, \A n \in Nat : n \in T => n + 1 \in T
  PROVE  \A n \in Nat : n \in T
<1> DEFINE R == {p \in Nat \X Nat : p[1] < p[2]}
           S == Nat \ T
<1>1. OpToRel(<, Nat) = R
  BY DEF OpToRel
<1>2. IsWellFoundedOn(R, Nat)
  BY <1>1, NatLessThanWellFounded
<1> HIDE DEF R
<1> SUFFICES ASSUME S # {} PROVE FALSE
  OBVIOUS
<1>3. PICK x \in S : \A y \in S : ~(<<y, x>> \in R)
  BY <1>2, WFMin
<1>4. x # 0 /\ x - 1 \in Nat /\ x - 1 < x /\ (x - 1) + 1 = x
  OBVIOUS
<1>5. x - 1 \in S
  BY <1>4
<1>6. <<x - 1, x>> \in R
  BY <1>4 DEF R
<1> QED
  BY <1>3, <1>5, <1>6

\* The sequence that OfTypes has built after each of the elements.
LEMMA OfTypesBySteps ==
  ASSUME NEW E, NEW data \in Seq(E), NEW K
  PROVE  \E f : /\ f[0] = <<>>
                /\ \A i \in 1..Len(data) :
                     f[i] = IF data[i].type \in K THEN Append(f[i - 1], data[i])
                            ELSE f[i - 1]
                /\ OfTypes(K, data) = f[Len(data)]
<1> DEFINE N == Len(data)
           Step(i, q) == IF data[i].type \in K THEN Append(q, data[i]) ELSE q
           IsUpTo(n, g) ==
             g = [i \in 0..n |-> IF i = 0 THEN <<>>
                                 ELSE IF data[i].type \in K THEN Append(g[i - 1], data[i])
                                 ELSE g[i - 1]]
           T == {n \in Nat : \E g : IsUpTo(n, g)}
<1>1. 0 \in T
  <2> DEFINE g == [i \in 0..0 |-> <<>>]
  <2>1. IsUpTo(0, g)
    OBVIOUS
  <2> QED
    BY <2>1
<1>2. ASSUME NEW n \in Nat, n \in T
      PROVE  n + 1 \in T
  <2>1. PICK g : IsUpTo(n, g)
    BY <1>2
  <2> DEFINE h == [i \in 0..n + 1 |-> IF i = n + 1 THEN Step(n + 1, g[n]) ELSE g[i]]
  <2>2. ASSUME NEW i \in 0..n + 1
        PROVE  h[i] = IF i = 0 THEN <<>>
                      ELSE IF data[i].type \in K THEN Append(h[i - 1], data[i])
                      ELSE h[i - 1]
    <3>1. CASE i = n + 1
      <4>1. h[i] = Step(n + 1, g[n]) /\ i # 0
        BY <3>1
      <4>2. h[i - 1] = g[n]
        BY <3>1
      <4> QED
        BY <3>1, <4>1, <4>2
    <3>2. CASE i # n + 1
      <4>1. i \in 0..n /\ h[i] = g[i]
        BY <3>2
      <4>2. i # 0 => h[i - 1] = g[i - 1]
        BY <3>2
      <4>3. g[i] = IF i = 0 THEN <<>>
                   ELSE IF data[i].type \in K THEN Append(g[i - 1], data[i])
                   ELSE g[i - 1]
        BY <2>1, <4>1
      <4> QED
        BY <4>1, <4>2, <4>3
    <3> QED
      BY <3>1, <3>2
  <2>3. IsUpTo(n + 1, h)
    <3> HIDE DEF h
    <3> DEFINE k == [i \in 0..n + 1 |-> IF i = 0 THEN <<>>
                      ELSE IF data[i].type \in K THEN Append(h[i - 1], data[i])
                      ELSE h[i - 1]]
    <3>1. h = [i \in 0..n + 1 |-> h[i]]
      BY DEF h
    <3>2. k = [i \in 0..n + 1 |-> h[i]]
      BY <2>2
    <3> QED
      BY <3>1, <3>2
  <2>4. \E k : IsUpTo(n + 1, k)
    <3> HIDE DEF IsUpTo, h
    <3> QED
      BY <2>3
  <2> HIDE DEF IsUpTo
  <2> QED
    BY <2>4
<1>3. N \in T
  <2> HIDE DEF T
  <2> QED
    BY <1>1, <1>2, NaturalsByStep, LenProperties
<1> DEFINE F == CHOOSE g : IsUpTo(N, g)
<1>4. IsUpTo(N, F)
  BY <1>3
<1>5. OfTypes(K, data) = F[Len(data)]
  BY DEF OfTypes
<1>6. F[0] = <<>>
  <2> HIDE DEF F
  <2> QED
    BY <1>4, LenProperties
<1>7. ASSUME NEW i \in 1..Len(data)
      PROVE  F[i] = IF data[i].type \in K THEN Append(F[i - 1], data[i]) ELSE F[i - 1]
  <2> HIDE DEF F
  <2>1. i \in 0..N /\ i # 0
    BY LenProperties
  <2>2. F = [j \in 0..N |-> IF j = 0 THEN <<>>
                             ELSE IF data[j].type \in K THEN Append(F[j - 1], data[j])
                             ELSE F[j - 1]]
    BY <1>4
  <2> HIDE DEF N
  <2> QED
    BY <2>1, <2>2
<1> HIDE DEF F
<1> QED
  BY <1>5, <1>6, <1>7

LEMMA OfTypesType ==
  ASSUME NEW E, NEW data \in Seq(E), NEW K
  PROVE  OfTypes(K, data) \in Seq(E)
<1>1. PICK f : /\ f[0] = <<>>
               /\ \A i \in 1..Len(data) :
                    f[i] = IF data[i].type \in K THEN Append(f[i - 1], data[i])
                           ELSE f[i - 1]
               /\ OfTypes(K, data) = f[Len(data)]
  BY OfTypesBySteps
<1> DEFINE T == {n \in Nat : n <= Len(data) => f[n] \in Seq(E)}
<1>2. 0 \in T
  <2>1. <<>> \in Seq(E)
    OBVIOUS
  <2> QED
    BY <1>1, <2>1
<1>3. ASSUME NEW n \in Nat, n \in T
      PROVE  n + 1 \in T
  <2>1. Len(data) \in Nat
    BY LenProperties
  <2>2. CASE n + 1 <= Len(data)
    <3>1. n + 1 \in 1..Len(data) /\ (n + 1) - 1 = n /\ f[n] \in Seq(E)
      BY <2>1, <2>2, <1>3
    <3>2. data[n + 1] \in E
      BY <3>1
    <3>3. Append(f[n], data[n + 1]) \in Seq(E)
      BY <3>1, <3>2
    <3>4. f[n + 1] \in Seq(E)
      BY <1>1, <3>1, <3>3
    <3> QED
      BY <3>4
  <2>3. CASE ~(n + 1 <= Len(data))
    BY <2>3
  <2> QED
    BY <2>2, <2>3
<1> HIDE DEF T
<1>4. Len(data) \in T
  BY <1>2, <1>3, NaturalsByStep, LenProperties
<1> QED
  BY <1>1, <1>4, LenProperties DEF T

-----------------------------------------------------------------------------
(* Sequences of elements whose units are some of another's, in its order.    *)

Thins(q, d) ==
  \E m \in [DOMAIN q -> DOMAIN d] :
    \A i, j \in DOMAIN q : /\ q[i].unit = d[m[i]].unit
                           /\ i < j => m[i] < m[j]

LEMMA SameUnitsThin ==
  ASSUME NEW q, NEW d, DOMAIN q = DOMAIN d, \A i \in DOMAIN q : q[i].unit = d[i].unit
  PROVE  Thins(q, d)
<1> DEFINE m == [i \in DOMAIN q |-> i]
<1>1. m \in [DOMAIN q -> DOMAIN d]
  OBVIOUS
<1> QED
  BY <1>1 DEF Thins

LEMMA PartThins ==
  ASSUME NEW E, NEW d \in Seq(E), NEW a \in Nat \ {0}, NEW b \in Nat, b <= Len(d)
  PROVE  Thins(SubSeq(d, a, b), d)
<1> DEFINE q == SubSeq(d, a, b)
           m == [i \in DOMAIN q |-> i + a - 1]
<1>1. \A i \in DOMAIN q : /\ i \in 1..Len(d) /\ i + a - 1 \in 1..Len(d)
                          /\ q[i] = d[i + a - 1]
  BY SubSeqProperties, LenProperties
<1>2. m \in [DOMAIN q -> DOMAIN d]
  BY <1>1, LenProperties
<1>3. ASSUME NEW i \in DOMAIN q, NEW j \in DOMAIN q
      PROVE  q[i].unit = d[m[i]].unit /\ (i < j => m[i] < m[j])
  BY <1>1, LenProperties
<1> HIDE DEF q, m
<1>4. Thins(q, d)
  BY <1>2, <1>3 DEF Thins
<1> QED
  BY <1>4 DEF q

LEMMA ThinsOfThin ==
  ASSUME NEW p, NEW q, NEW d, DOMAIN p \subseteq Nat, DOMAIN q \subseteq Nat, DOMAIN d \subseteq Nat,
         Thins(p, q), Thins(q, d)
  PROVE  Thins(p, d)
<1>1. PICK m \in [DOMAIN p -> DOMAIN q] :
        \A i, j \in DOMAIN p : p[i].unit = q[m[i]].unit /\ (i < j => m[i] < m[j])
  BY DEF Thins
<1>2. PICK n \in [DOMAIN q -> DOMAIN d] :
        \A i, j \in DOMAIN q : q[i].unit = d[n[i]].unit /\ (i < j => n[i] < n[j])
  BY DEF Thins
<1> DEFINE k == [i \in DOMAIN p |-> n[m[i]]]
<1>3. k \in [DOMAIN p -> DOMAIN d]
  OBVIOUS
<1>4. ASSUME NEW i \in DOMAIN p, NEW j \in DOMAIN p
      PROVE  p[i].unit = d[k[i]].unit /\ (i < j => k[i] < k[j])
  BY <1>1, <1>2
<1> HIDE DEF k
<1> QED
  BY <1>3, <1>4 DEF Thins

LEMMA ConcatThins ==
  ASSUME NEW E, NEW p \in Seq(E), NEW q \in Seq(E), NEW c \in Seq(E), NEW d \in Seq(E),
         Thins(p, c), Thins(q, d)
  PROVE  Thins(p \o q, c \o d)
<1>1. PICK m \in [DOMAIN p -> DOMAIN c] :
        \A i, j \in DOMAIN p : p[i].unit = c[m[i]].unit /\ (i < j => m[i] < m[j])
  BY DEF Thins
<1>2. PICK n \in [DOMAIN q -> DOMAIN d] :
        \A i, j \in DOMAIN q : q[i].unit = d[n[i]].unit /\ (i < j => n[i] < n[j])
  BY DEF Thins
<1> DEFINE L == Len(p)
           k == [i \in 1..L + Len(q) |-> IF i <= L THEN m[i] ELSE Len(c) + n[i - L]]
<1>3. /\ L \in Nat /\ Len(q) \in Nat /\ Len(c) \in Nat /\ Len(d) \in Nat
      /\ DOMAIN p = 1..L /\ DOMAIN q = 1..Len(q)
      /\ DOMAIN c = 1..Len(c) /\ DOMAIN d = 1..Len(d)
  BY LenProperties
<1>4. /\ DOMAIN (p \o q) = 1..L + Len(q) /\ DOMAIN (c \o d) = 1..Len(c) + Len(d)
      /\ \A i \in 1..L + Len(q) : (p \o q)[i] = IF i <= L THEN p[i] ELSE q[i - L]
      /\ \A i \in 1..Len(c) + Len(d) :
           (c \o d)[i] = IF i <= Len(c) THEN c[i] ELSE d[i - Len(c)]
  BY <1>3, ConcatProperties, LenProperties
<1> HIDE DEF L
<1>5. \A i \in 1..L + Len(q) :
        IF i <= L
        THEN i \in DOMAIN p /\ m[i] \in 1..Len(c) /\ k[i] = m[i]
        ELSE i - L \in DOMAIN q /\ n[i - L] \in 1..Len(d) /\ k[i] = Len(c) + n[i - L]
  <2> SUFFICES ASSUME NEW i \in 1..L + Len(q)
               PROVE  IF i <= L
                      THEN i \in DOMAIN p /\ m[i] \in 1..Len(c) /\ k[i] = m[i]
                      ELSE /\ i - L \in DOMAIN q /\ n[i - L] \in 1..Len(d)
                           /\ k[i] = Len(c) + n[i - L]
    OBVIOUS
  <2>1. CASE i <= L
    <3>1. i \in DOMAIN p
      BY <1>3, <2>1
    <3> QED
      BY <1>3, <2>1, <3>1
  <2>2. CASE ~(i <= L)
    <3>1. i - L \in DOMAIN q
      BY <1>3, <2>2
    <3> QED
      BY <1>3, <2>2, <3>1
  <2> QED
    BY <2>1, <2>2
<1>6. k = [i \in 1..L + Len(q) |-> k[i]]
  OBVIOUS
<1>7. k \in [DOMAIN (p \o q) -> DOMAIN (c \o d)]
  <2>1. \A i \in 1..L + Len(q) : k[i] \in 1..Len(c) + Len(d)
    <3> HIDE DEF k
    <3> SUFFICES ASSUME NEW i \in 1..L + Len(q) PROVE k[i] \in 1..Len(c) + Len(d)
      OBVIOUS
    <3> DEFINE a == m[i]
               b == n[i - L]
               e == k[i]
    <3>1. IF i <= L THEN a \in 1..Len(c) /\ e = a
          ELSE b \in 1..Len(d) /\ e = Len(c) + b
      BY <1>5
    <3> HIDE DEF a, b, e
    <3>2. e \in 1..Len(c) + Len(d)
      BY <1>3, <3>1
    <3> QED
      BY <3>2 DEF e
  <2> HIDE DEF k
  <2> QED
    BY <1>4, <1>6, <2>1
<1> HIDE DEF k
<1>8. ASSUME NEW i \in DOMAIN (p \o q), NEW j \in DOMAIN (p \o q)
      PROVE  (p \o q)[i].unit = (c \o d)[k[i]].unit /\ (i < j => k[i] < k[j])
  <2>1. i \in 1..L + Len(q) /\ j \in 1..L + Len(q)
    BY <1>4
  <2>2. (p \o q)[i].unit = (c \o d)[k[i]].unit
    <3>1. CASE i <= L
      <4>1. i \in DOMAIN p /\ m[i] \in 1..Len(c) /\ k[i] = m[i]
        BY <1>5, <2>1, <3>1
      <4>2. (c \o d)[k[i]] = c[m[i]] /\ (p \o q)[i] = p[i]
        BY <1>3, <1>4, <2>1, <3>1, <4>1
      <4> QED
        BY <1>1, <4>1, <4>2
    <3>2. CASE ~(i <= L)
      <4>1. i - L \in DOMAIN q /\ n[i - L] \in 1..Len(d) /\ k[i] = Len(c) + n[i - L]
        BY <1>5, <2>1, <3>2
      <4>2. (p \o q)[i] = q[i - L]
        BY <1>4, <2>1, <3>2
      <4>3. k[i] \in 1..Len(c) + Len(d) /\ ~(k[i] <= Len(c)) /\ k[i] - Len(c) = n[i - L]
        BY <1>3, <4>1
      <4>4. (c \o d)[k[i]] = d[n[i - L]]
        BY <1>4, <4>3
      <4> QED
        BY <1>2, <4>1, <4>2, <4>4
    <3> QED
      BY <3>1, <3>2
  <2>3. i < j => k[i] < k[j]
    <3> SUFFICES ASSUME i < j PROVE k[i] < k[j]
      OBVIOUS
    <3>1. CASE j <= L
      <4>1. i <= L
        BY <1>3, <2>1, <3>1
      <4> QED
        BY <1>1, <1>5, <2>1, <3>1, <4>1
    <3>2. CASE i <= L /\ ~(j <= L)
      BY <1>3, <1>5, <2>1, <3>2
    <3>3. CASE ~(i <= L)
      <4>1. i - L \in DOMAIN q /\ j - L \in DOMAIN q /\ i - L < j - L
        BY <1>3, <1>5, <2>1, <3>3
      <4>2. n[i - L] < n[j - L]
        BY <1>2, <4>1
      <4>3. /\ k[i] = Len(c) + n[i - L] /\ k[j] = Len(c) + n[j - L]
            /\ n[i - L] \in Nat /\ n[j - L] \in Nat
        BY SMTT(30), <1>3, <1>5, <2>1, <3>3
      <4> QED
        BY SMTT(30), <1>3, <4>2, <4>3
    <3> QED
      BY <1>3, <2>1, <3>1, <3>2, <3>3
  <2> QED
    BY <2>2, <2>3
<1> QED
  BY <1>7, <1>8 DEF Thins

LEMMA OfTypesThins ==
  ASSUME NEW E, NEW data \in Seq(E), NEW K
  PROVE  Thins(OfTypes(K, data), data)
<1>1. PICK f : /\ f[0] = <<>>
               /\ \A i \in 1..Len(data) :
                    f[i] = IF data[i].type \in K THEN Append(f[i - 1], data[i])
                           ELSE f[i - 1]
               /\ OfTypes(K, data) = f[Len(data)]
  BY OfTypesBySteps
<1> DEFINE Begin(n) == SubSeq(data, 1, n)
           T == {n \in Nat : n <= Len(data) =>
                               f[n] \in Seq(E) /\ Thins(f[n], Begin(n))}
<1>2. 0 \in T
  <2>1. Thins(f[0], Begin(0))
    <3>1. Begin(0) = <<>> /\ DOMAIN Begin(0) = {} /\ DOMAIN f[0] = {}
      BY <1>1, SubSeqProperties
    <3> HIDE DEF Begin
    <3> QED
      BY <3>1, SameUnitsThin
  <2>2. f[0] \in Seq(E)
    BY <1>1
  <2> QED
    BY <2>1, <2>2
<1>3. ASSUME NEW n \in Nat, n \in T
      PROVE  n + 1 \in T
  <2> SUFFICES ASSUME n + 1 <= Len(data)
               PROVE  f[n + 1] \in Seq(E) /\ Thins(f[n + 1], Begin(n + 1))
    OBVIOUS
  <2> DEFINE x == data[n + 1]
             new == IF x.type \in K THEN <<x>> ELSE <<>>
  <2>1. n + 1 \in 1..Len(data) /\ (n + 1) - 1 = n /\ n <= Len(data) /\ n \in 0..Len(data)
    BY LenProperties
  <2>2. f[n] \in Seq(E) /\ Thins(f[n], Begin(n)) /\ x \in E
    BY <1>3, <2>1
  <2>3. new \in Seq(E) /\ <<x>> \in Seq(E)
    BY <2>2
  <2>4. Thins(new, <<x>>)
    <3>1. CASE x.type \in K
      BY <3>1, SameUnitsThin
    <3>2. CASE ~(x.type \in K)
      <4> DEFINE m == [i \in {} |-> i]
      <4>1. new = <<>> /\ DOMAIN new = {}
        BY <3>2
      <4>2. m \in [DOMAIN new -> DOMAIN <<x>>]
        BY <4>1
      <4> HIDE DEF new
      <4> QED
        BY <4>1, <4>2 DEF Thins
    <3> QED
      BY <3>1, <3>2
  <2>5. f[n + 1] = f[n] \o new
    <3>1. f[n + 1] = IF x.type \in K THEN Append(f[n], x) ELSE f[n]
      BY <1>1, <2>1
    <3>2. f[n] \o <<>> = f[n] /\ f[n] \o <<x>> = Append(f[n], x)
      BY <2>2, ConcatEmptySeq, AppendIsConcat
    <3> QED
      BY <3>1, <3>2
  <2>6. Begin(n) \in Seq(E) /\ Begin(n + 1) = Begin(n) \o <<x>>
    <3>1. Begin(n) \in Seq(E) /\ Begin(n + 1) = Append(Begin(n), x)
      BY <2>1, <2>2, SubSeqProperties, SubSeqRecursiveSecond
    <3> QED
      BY <2>2, <3>1, AppendIsConcat
  <2> HIDE DEF Begin, new
  <2>7. Thins(f[n] \o new, Begin(n) \o <<x>>)
    BY <2>2, <2>3, <2>4, <2>6, ConcatThins
  <2>8. f[n] \o new \in Seq(E)
    BY <2>2, <2>3
  <2> QED
    BY <2>5, <2>6, <2>7, <2>8
<1> HIDE DEF T
<1>4. Len(data) \in T
  BY <1>2, <1>3, NaturalsByStep, LenProperties
<1>5. Begin(Len(data)) = data
  BY SubSeqFull
<1>6. Thins(f[Len(data)], Begin(Len(data)))
  <2> HIDE DEF Begin
  <2> QED
    BY <1>4, LenProperties DEF T
<1> HIDE DEF Begin
<1> QED
  BY <1>1, <1>5, <1>6

LEMMA EmptyThins ==
  ASSUME NEW d
  PROVE  Thins(<<>>, d)
<1> DEFINE q == <<>>
           m == [i \in {} |-> i]
<1>1. DOMAIN q = {}
  OBVIOUS
<1> HIDE DEF q
<1>2. m \in [DOMAIN q -> DOMAIN d]
  BY <1>1
<1>3. Thins(q, d)
  BY <1>1, <1>2 DEF Thins
<1> QED
  BY <1>3 DEF q

-----------------------------------------------------------------------------
(* Sequences of units in the camera's order, behind low and up to high.      *)

Element == [unit : Nat, type : Types, of : Nat, got : Seq(Nat \X Nat)]

Ordered(low, q, high) ==
  /\ low <= high
  /\ \A i \in DOMAIN q : low < q[i].unit /\ q[i].unit <= high
  /\ \A i, j \in DOMAIN q : i < j => q[i].unit < q[j].unit

LEMMA ThinIsOrdered ==
  ASSUME NEW q, NEW d, NEW low, NEW high, Ordered(low, d, high), Thins(q, d)
  PROVE  Ordered(low, q, high)
<1>1. PICK m \in [DOMAIN q -> DOMAIN d] :
        \A i, j \in DOMAIN q : q[i].unit = d[m[i]].unit /\ (i < j => m[i] < m[j])
  BY DEF Thins
<1>2. \A i \in DOMAIN q : m[i] \in DOMAIN d /\ q[i].unit = d[m[i]].unit
  BY <1>1
<1> QED
  BY <1>1, <1>2 DEF Ordered

\* What comes behind high goes behind the sequence.
LEMMA OrderedConcat ==
  ASSUME NEW q \in Seq(Element), NEW d \in Seq(Element),
         NEW low \in Nat, NEW high \in Nat, NEW top \in Nat,
         Ordered(low, q, high), Ordered(high, d, top)
  PROVE  Ordered(low, q \o d, top)
<1>1. /\ Len(q) \in Nat /\ Len(d) \in Nat /\ DOMAIN q = 1..Len(q) /\ DOMAIN d = 1..Len(d)
      /\ DOMAIN (q \o d) = 1..Len(q) + Len(d)
      /\ \A i \in 1..Len(q) + Len(d) :
           (q \o d)[i] = IF i <= Len(q) THEN q[i] ELSE d[i - Len(q)]
  BY ConcatProperties, LenProperties
<1>2. low <= high /\ high <= top
  BY DEF Ordered
<1>3. \A i \in 1..Len(q) : /\ q[i].unit \in Nat /\ low < q[i].unit /\ q[i].unit <= high
                           /\ (q \o d)[i] = q[i]
  <2>1. \A i \in 1..Len(q) : q[i] \in Element
    BY <1>1
  <2>2. \A i \in 1..Len(q) : q[i].unit \in Nat
    BY <2>1 DEF Element
  <2>3. \A i \in 1..Len(q) : i \in 1..Len(q) + Len(d) /\ i <= Len(q)
    BY <1>1
  <2> QED
    BY <1>1, <2>2, <2>3 DEF Ordered
<1>4. \A i \in 1..Len(q) + Len(d) :
        i > Len(q) => /\ i - Len(q) \in 1..Len(d)
                      /\ (q \o d)[i].unit \in Nat
                      /\ high < (q \o d)[i].unit /\ (q \o d)[i].unit <= top
                      /\ (q \o d)[i] = d[i - Len(q)]
  <2>1. \A i \in 1..Len(d) : d[i] \in Element
    BY <1>1
  <2>2. \A i \in 1..Len(d) : d[i].unit \in Nat /\ high < d[i].unit /\ d[i].unit <= top
    BY <1>1, <2>1 DEF Ordered, Element
  <2>3. ASSUME NEW i \in 1..Len(q) + Len(d), i > Len(q)
        PROVE  i - Len(q) \in 1..Len(d) /\ (q \o d)[i] = d[i - Len(q)]
    BY <1>1, <2>3
  <2> QED
    BY <2>2, <2>3
<1>5. ASSUME NEW i \in 1..Len(q) + Len(d)
      PROVE  low < (q \o d)[i].unit /\ (q \o d)[i].unit <= top
  <2>1. CASE i <= Len(q)
    <3>1. i \in 1..Len(q)
      BY <1>1, <2>1
    <3> QED
      BY <1>2, <1>3, <3>1
  <2>2. CASE i > Len(q)
    <3>1. high < (q \o d)[i].unit /\ (q \o d)[i].unit <= top /\ (q \o d)[i].unit \in Nat
      BY <1>4, <2>2
    <3> QED
      BY <1>2, <3>1
  <2> QED
    BY <1>1, <2>1, <2>2
<1>6. ASSUME NEW i \in 1..Len(q) + Len(d), NEW j \in 1..Len(q) + Len(d), i < j
      PROVE  (q \o d)[i].unit < (q \o d)[j].unit
  <2>1. CASE j <= Len(q)
    <3>1. i \in 1..Len(q) /\ j \in 1..Len(q)
      BY <1>1, <1>6, <2>1
    <3> QED
      BY <1>1, <1>3, <1>6, <3>1 DEF Ordered
  <2>2. CASE i <= Len(q) /\ j > Len(q)
    <3>1. i \in 1..Len(q)
      BY <1>1, <2>2
    <3>2. high < (q \o d)[j].unit /\ (q \o d)[j].unit \in Nat
      BY <1>4, <2>2
    <3> QED
      BY <1>3, <3>1, <3>2
  <2>3. CASE i > Len(q) /\ j > Len(q)
    <3>1. /\ i - Len(q) \in DOMAIN d /\ j - Len(q) \in DOMAIN d
          /\ (q \o d)[i] = d[i - Len(q)] /\ (q \o d)[j] = d[j - Len(q)]
      BY <1>1, <1>4, <2>3
    <3>2. i - Len(q) < j - Len(q)
      BY <1>1, <1>6
    <3> QED
      BY <3>1, <3>2 DEF Ordered
  <2> QED
    BY <1>1, <1>6, <2>1, <2>2, <2>3
<1> QED
  BY <1>1, <1>2, <1>5, <1>6 DEF Ordered

LEMMA OrderedFront ==
  ASSUME NEW q \in Seq(Element), NEW d \in Seq(Element), NEW low, NEW high,
         Ordered(low, q \o d, high)
  PROVE  Ordered(low, q, high)
<1>1. Thins(q, q) /\ Thins(<<>>, d)
  BY SameUnitsThin, EmptyThins
<1>2. q \o <<>> = q /\ <<>> \in Seq(Element)
  BY ConcatEmptySeq
<1>3. Thins(q, q \o d)
  <2>1. Thins(q \o <<>>, q \o d)
    BY <1>1, <1>2, ConcatThins
  <2> QED
    BY <1>2, <2>1
<1> QED
  BY <1>3, ThinIsOrdered

\* When the first is given away, the rest is behind it.
LEMMA OrderedTail ==
  ASSUME NEW q \in Seq(Element), NEW d \in Seq(Element), NEW low \in Nat, NEW high \in Nat,
         q # <<>>, Ordered(low, q \o d, high)
  PROVE  /\ Head(q) \in Element /\ Tail(q) \in Seq(Element)
         /\ Thins(Tail(q) \o d, q \o d)
         /\ Ordered(Head(q).unit, Tail(q) \o d, high)
<1>1. /\ Head(q) \in Element /\ Tail(q) \in Seq(Element) /\ Len(Tail(q)) = Len(q) - 1
      /\ Tail(q) = SubSeq(q, 2, Len(q)) /\ Head(q) = q[1]
      /\ Len(q) \in Nat /\ Len(q) > 0 /\ Len(d) \in Nat
  BY HeadTailProperties, TailIsSubSeq, LenProperties, EmptySeq
<1>2. Thins(Tail(q) \o d, q \o d)
  <2>1. Thins(Tail(q), q)
    <3>1. 2 \in Nat \ {0} /\ Len(q) <= Len(q)
      BY <1>1
    <3>2. Thins(SubSeq(q, 2, Len(q)), q)
      BY <1>1, <3>1, PartThins
    <3> QED
      BY <1>1, <3>2
  <2>2. Thins(d, d)
    BY SameUnitsThin
  <2> QED
    BY <1>1, <2>1, <2>2, ConcatThins
<1> DEFINE c == q \o d
           t == Tail(q) \o d
<1>3. /\ DOMAIN c = 1..Len(q) + Len(d) /\ DOMAIN t = 1..(Len(q) - 1) + Len(d)
      /\ c[1] = Head(q)
      /\ \A i \in DOMAIN t : t[i] = c[i + 1]
  <2>1. /\ c \in Seq(Element) /\ Len(c) = Len(q) + Len(d)
        /\ t \in Seq(Element) /\ Len(t) = (Len(q) - 1) + Len(d)
    BY <1>1, ConcatProperties
  <2>2. \A i \in 1..Len(q) + Len(d) : c[i] = IF i <= Len(q) THEN q[i] ELSE d[i - Len(q)]
    BY ConcatProperties
  <2>3. \A i \in 1..(Len(q) - 1) + Len(d) :
          t[i] = IF i <= Len(q) - 1 THEN Tail(q)[i] ELSE d[i - (Len(q) - 1)]
    BY <1>1, ConcatProperties
  <2>4. \A i \in 1..Len(q) - 1 : Tail(q)[i] = q[i + 1]
    BY <1>1, HeadTailProperties
  <2> HIDE DEF c, t
  <2>5. DOMAIN c = 1..Len(q) + Len(d) /\ DOMAIN t = 1..(Len(q) - 1) + Len(d)
    BY <2>1, LenProperties
  <2>6. c[1] = Head(q)
    BY <1>1, <2>2
  <2>7. ASSUME NEW i \in 1..(Len(q) - 1) + Len(d)
        PROVE  t[i] = c[i + 1]
    <3>1. CASE i <= Len(q) - 1
      <4>1. i \in 1..Len(q) - 1 /\ i + 1 \in 1..Len(q) + Len(d) /\ i + 1 <= Len(q)
        BY <1>1, <3>1
      <4> QED
        BY <2>2, <2>3, <2>4, <3>1, <4>1
    <3>2. CASE ~(i <= Len(q) - 1)
      <4>1. /\ i + 1 \in 1..Len(q) + Len(d) /\ ~(i + 1 <= Len(q))
            /\ (i + 1) - Len(q) = i - (Len(q) - 1)
        BY <1>1, <3>2
      <4> QED
        BY <2>2, <2>3, <3>2, <4>1
    <3> QED
      BY <3>1, <3>2
  <2> QED
    BY <2>5, <2>6, <2>7
<1>4. Ordered(low, t, high)
  BY <1>2, ThinIsOrdered
<1>5. Head(q).unit <= high
  BY <1>1, <1>3 DEF Ordered
<1> HIDE DEF c
<1>6. ASSUME NEW i \in DOMAIN t
      PROVE  Head(q).unit < t[i].unit
  <2>1. 1 \in DOMAIN c /\ i + 1 \in DOMAIN c /\ 1 < i + 1
    BY <1>1, <1>3
  <2> QED
    BY <1>3, <2>1 DEF c, Ordered
<1> HIDE DEF t
<1>7. Ordered(Head(q).unit, t, high)
  BY <1>4, <1>5, <1>6 DEF Ordered
<1> QED
  BY <1>1, <1>2, <1>7 DEF t

-----------------------------------------------------------------------------
(* Types.                                                                  *)

CameraType ==
  /\ tcp \in BOOLEAN /\ mtap \in BOOLEAN
  /\ unit \in Nat /\ type \in Types \cup {None} /\ parts \in Nat /\ todo \in 0..parts
  /\ lost \in BOOLEAN /\ burst \in BOOLEAN
  /\ sdp \in {"none", "bare", "sets"}

AssemblyType ==
  /\ rtpData \in Seq(Element) /\ offsets \in Nat
  /\ params \in [Sinkers -> Nat \cup {None}]
  /\ cache \in [Sinkers -> Seq(Element)]
  /\ broken \in {"no", "offset", "sets", "thread"}

SinkersType ==
  /\ thread \in [Sinkers -> {"none", "fetch", "send", "done", "gone"}]
  /\ sending \in [Sinkers -> Seq(Element)]
  /\ sent \in [Sinkers -> Nat]
  /\ ended \in [Sinkers -> BOOLEAN] /\ quiet \in [Sinkers -> BOOLEAN]

TypeOK == CameraType /\ AssemblyType /\ linked \in SUBSET Sinkers /\ SinkersType

\* What TakeAll gives to each sinker.
LEMMA TakeAllGives ==
  ASSUME TypeOK, NEW data \in Seq(Element), TakeAll(data)
  PROVE  /\ params' \in [Sinkers -> Nat \cup {None}]
         /\ cache' \in [Sinkers -> Seq(Element)]
         /\ \A s \in Sinkers :
              cache'[s] = IF s \notin linked THEN cache[s]
                          ELSE cache[s] \o OfTypes(Types \ {"sets"}, data)
<1> DEFINE sets == OfTypes({"sets"}, data)
           units == OfTypes(Types \ {"sets"}, data)
<1>1. /\ cache' = [s \in Sinkers |-> IF s \notin linked THEN cache[s] ELSE cache[s] \o units]
      /\ params' = [s \in Sinkers |-> IF s \notin linked \/ sets = <<>> THEN params[s]
                                      ELSE Last(sets).unit]
  BY DEF TakeAll
<1>2. sets \in Seq(Element) /\ units \in Seq(Element)
  BY OfTypesType
<1> HIDE DEF sets, units
<1>3. sets # <<>> => Last(sets).unit \in Nat
  <2>1. sets # <<>> => sets[Len(sets)] \in Element
    BY <1>2, EmptySeq, LenProperties, ElementOfSeq
  <2> QED
    BY <2>1 DEF Last, Element
<1>4. \A s \in Sinkers : cache[s] \o units \in Seq(Element)
  BY <1>2 DEF TypeOK, CameraType, AssemblyType, SinkersType
<1> QED
  BY <1>1, <1>3, <1>4 DEF TypeOK, units, CameraType, AssemblyType, SinkersType

LEMMA DeliverType ==
  ASSUME TypeOK, NEW data \in Seq(Element), Deliver(data)
  PROVE  AssemblyType'
<1>1. CASE offsets > Len(data) /\ linked # {}
  BY <1>1 DEF Deliver, AssemblyType, TypeOK, assembly, CameraType, SinkersType
<1>2. CASE ~(offsets > Len(data) /\ linked # {})
  <2> DEFINE units == IF offsets = 0 THEN data ELSE SubSeq(data, 1, offsets)
  <2>1. TakeAll(units) /\ rtpData' = <<>> /\ offsets' = 0 /\ UNCHANGED broken
    BY <1>2 DEF Deliver
  <2>2. CASE linked = {}
    <3>1. \A s \in Sinkers : s \notin linked
      BY <2>2
    <3>2. /\ cache' = [s \in Sinkers |-> cache[s]]
          /\ params' = [s \in Sinkers |-> params[s]]
      BY <2>1, <3>1 DEF TakeAll
    <3> QED
      BY <2>1, <3>2 DEF AssemblyType, TypeOK, CameraType, SinkersType
  <2>3. CASE linked # {}
    <3>1. offsets \in Nat /\ offsets <= Len(data) /\ Len(data) \in Nat
      BY <1>2, <2>3, LenProperties DEF TypeOK, CameraType, AssemblyType, SinkersType
    <3>2. \A i \in 1..offsets : data[i] \in Element
      BY <3>1, ElementOfSeq
    <3>3. SubSeq(data, 1, offsets) \in Seq(Element)
      BY <3>1, <3>2, SubSeqProperties
    <3>4. units \in Seq(Element)
      BY <3>3
    <3> HIDE DEF units
    <3>5. /\ params' \in [Sinkers -> Nat \cup {None}]
          /\ cache' \in [Sinkers -> Seq(Element)]
      BY <2>1, <3>4, TakeAllGives
    <3> QED
      BY <2>1, <3>5, EmptySeq DEF AssemblyType, TypeOK, CameraType, SinkersType
  <2> QED
    BY <2>2, <2>3
<1> QED
  BY <1>1, <1>2

\* What is queued, and what stays, are units of what is delivered in its order.
LEMMA DeliverThins ==
  ASSUME TypeOK, NEW data \in Seq(Element), Deliver(data), UNCHANGED sending, NEW s \in Sinkers
  PROVE  \/ Queue(s)' = Queue(s) /\ rtpData' = rtpData
         \/ /\ rtpData' = <<>>
            /\ \E new \in Seq(Element) : /\ Queue(s)' = Queue(s) \o new
                                         /\ Thins(new, data)
<1>0. /\ cache[s] \in Seq(Element) /\ sending[s] \in Seq(Element)
      /\ Queue(s) \in Seq(Element) /\ sending'[s] = sending[s]
      /\ Queue(s)' = sending[s] \o cache'[s] /\ Queue(s) = sending[s] \o cache[s]
      /\ Queue(s) \o <<>> = Queue(s) /\ <<>> \in Seq(Element)
  BY ConcatProperties, ConcatEmptySeq DEF TypeOK, Queue, CameraType, AssemblyType, SinkersType
<1>1. CASE offsets > Len(data) /\ linked # {}
  <2>1. rtpData' = rtpData /\ cache' = cache
    BY <1>1 DEF Deliver, assembly
  <2> QED
    BY <1>0, <2>1
<1>2. CASE ~(offsets > Len(data) /\ linked # {})
  <2> DEFINE units == IF offsets = 0 THEN data ELSE SubSeq(data, 1, offsets)
             new == IF s \notin linked THEN <<>> ELSE OfTypes(Types \ {"sets"}, units)
  <2>1. TakeAll(units) /\ rtpData' = <<>>
    BY <1>2 DEF Deliver
  <2>2. CASE s \notin linked
    <3>1. cache'[s] = cache[s]
      BY <2>1, <2>2 DEF TakeAll
    <3>2. Thins(<<>>, data)
      BY EmptyThins
    <3> QED
      BY <1>0, <2>1, <3>1, <3>2
  <2>3. CASE s \in linked
    <3>1. offsets \in Nat /\ offsets <= Len(data) /\ Len(data) \in Nat
      BY <1>2, <2>3, LenProperties DEF TypeOK, CameraType, AssemblyType, SinkersType
    <3>2. \A i \in 1..offsets : data[i] \in Element
      BY <3>1, ElementOfSeq
    <3>3. SubSeq(data, 1, offsets) \in Seq(Element) /\ Thins(SubSeq(data, 1, offsets), data)
      <4>1. 1 \in Nat \ {0}
        OBVIOUS
      <4> QED
        BY <3>1, <3>2, <4>1, SubSeqProperties, PartThins
    <3>4. Thins(data, data)
      BY SameUnitsThin
    <3>5. units \in Seq(Element) /\ Thins(units, data)
      BY <3>3, <3>4
    <3> HIDE DEF units
    <3>6. OfTypes(Types \ {"sets"}, units) \in Seq(Element)
      BY <3>5, OfTypesType
    <3>7. Thins(OfTypes(Types \ {"sets"}, units), units)
      BY <3>5, OfTypesThins
    <3>8. new \in Seq(Element) /\ Thins(new, units)
      BY <2>3, <3>6, <3>7
    <3>9. cache'[s] = cache[s] \o new
      BY <2>1, <2>3, <3>5, TakeAllGives
    <3> HIDE DEF new
    <3>10. DOMAIN new \subseteq Nat /\ DOMAIN units \subseteq Nat /\ DOMAIN data \subseteq Nat
      BY <3>5, <3>8, LenProperties
    <3>11. Thins(new, data)
      BY <3>5, <3>8, <3>10, ThinsOfThin
    <3>12. Queue(s)' = Queue(s) \o new
      <4> DEFINE a == sending[s]
                 b == cache[s]
      <4>0. a \in Seq(Element) /\ b \in Seq(Element) /\ new \in Seq(Element)
        BY <1>0, <3>8
      <4> HIDE DEF a, b
      <4>1. (a \o b) \o new = a \o (b \o new)
        BY <4>0, ConcatAssociative
      <4> USE DEF a, b
      <4> QED
        BY <1>0, <3>9, <4>1
    <3> QED
      BY <2>1, <3>8, <3>11, <3>12
  <2> QED
    BY <2>2, <2>3
<1> QED
  BY <1>1, <1>2

\* Units that have just come are behind all that came before.
LEMMA FreshUnits ==
  ASSUME unit \in Nat, NEW b \in Seq(Types)
  PROVE  /\ Fresh(b) \in Seq(Element) /\ Len(Fresh(b)) = Len(b)
         /\ unit + Len(b) \in Nat
         /\ Ordered(unit, Fresh(b), unit + Len(b))
<1>1. Len(b) \in Nat /\ DOMAIN b = 1..Len(b)
  BY LenProperties
<1>2. ASSUME NEW i \in 1..Len(b)
      PROVE  /\ Part(unit + i, b[i], 1) \in Element
             /\ Part(unit + i, b[i], 1).unit = unit + i
  <2>1. unit + i \in Nat /\ 1 \in Nat /\ b[i] \in Types
    BY <1>1
  <2>2. <<<<unit + i, 1>>>> \in Seq(Nat \X Nat)
    BY <2>1
  <2> QED
    BY <2>1, <2>2 DEF Part, Element
<1>3. Fresh(b) \in [1..Len(b) -> Element]
  BY <1>1, <1>2 DEF Fresh
<1>4. Fresh(b) \in Seq(Element) /\ Len(Fresh(b)) = Len(b)
  BY <1>1, <1>3
<1>5. DOMAIN Fresh(b) = 1..Len(b) /\ \A i \in 1..Len(b) : Fresh(b)[i].unit = unit + i
  BY <1>1, <1>2 DEF Fresh
<1>6. Ordered(unit, Fresh(b), unit + Len(b))
  <2> DEFINE d == Fresh(b)
  <2>1. \A i \in DOMAIN d : d[i].unit = unit + i /\ i \in Nat /\ 0 < i /\ i <= Len(b)
    BY <1>1, <1>5
  <2> HIDE DEF d
  <2>2. Ordered(unit, d, unit + Len(b))
    BY <1>1, <2>1 DEF Ordered
  <2> QED
    BY <2>2 DEF d
<1> QED
  BY <1>1, <1>4, <1>6

LEMMA BundlesAreSequences ==
  /\ \A t \in Types : <<t>> \in Seq(Types) /\ Len(<<t>>) = 1
  /\ \A b \in Bundles : b \in Seq(Types) /\ Len(b) = 2
<1>1. ASSUME NEW b \in Bundles
      PROVE  b \in Seq(Types) /\ Len(b) = 2
  <2>1. b \in Types \X Types
    BY RtpReceiverAssumption
  <2>2. b = <<b[1], b[2]>> /\ b[1] \in Types /\ b[2] \in Types
    BY <2>1
  <2>3. <<b[1], b[2]>> \in Seq(Types) /\ Len(<<b[1], b[2]>>) = 2
    BY <2>2
  <2> QED
    BY <2>2, <2>3
<1> QED
  BY <1>1

\* The front unit with one more piece.
LEMMA MoreOfTheFront ==
  ASSUME TypeOK, rtpData # <<>>, NEW piece \in Nat \X Nat
  PROVE  LET data == [rtpData EXCEPT ![1].got = Append(@, piece)]
         IN /\ data \in Seq(Element) /\ Len(data) = Len(rtpData)
            /\ 1 \in DOMAIN rtpData /\ rtpData[1] \in Element
            /\ data[1] = [rtpData[1] EXCEPT !.got = Append(@, piece)]
            /\ \A i \in DOMAIN rtpData : i # 1 => data[i] = rtpData[i]
            /\ Thins(data, rtpData)
<1> DEFINE e == [rtpData[1] EXCEPT !.got = Append(@, piece)]
           data == [rtpData EXCEPT ![1].got = Append(@, piece)]
<1>1. /\ Len(rtpData) \in Nat /\ DOMAIN rtpData = 1..Len(rtpData)
      /\ 1 \in 1..Len(rtpData) /\ rtpData[1] \in Element
  BY EmptySeq, LenProperties, ElementOfSeq DEF TypeOK, CameraType, AssemblyType, SinkersType
<1>2. e \in Element /\ e.unit = rtpData[1].unit
  <2>1. Append(rtpData[1].got, piece) \in Seq(Nat \X Nat)
    BY <1>1 DEF Element
  <2> QED
    BY <1>1, <2>1 DEF Element
<1>3. data = [rtpData EXCEPT ![1] = e]
  OBVIOUS
<1> HIDE DEF data, e
<1>4. /\ data \in Seq(Element) /\ Len(data) = Len(rtpData)
      /\ \A i \in 1..Len(rtpData) : data[i] = IF i = 1 THEN e ELSE rtpData[i]
  BY <1>1, <1>2, <1>3, ExceptSeq DEF TypeOK, CameraType, AssemblyType, SinkersType
<1>5. DOMAIN data = DOMAIN rtpData /\ \A i \in DOMAIN data : data[i].unit = rtpData[i].unit
  BY <1>1, <1>2, <1>4, LenProperties
<1>6. Thins(data, rtpData)
  BY <1>5, SameUnitsThin
<1> QED
  BY <1>1, <1>4, <1>6 DEF data, e

-----------------------------------------------------------------------------
(* What a packet does: nothing if it is lost, else some data are delivered   *)
(* or kept, which are new or those that were there.                        *)

Received(data) == Deliver(data) \/ (Keep(data) /\ offsets' \in Nat)

Unheard == UNCHANGED <<rtpData, offsets, params, cache, broken>>

LEMMA WholeEffect ==
  ASSUME TypeOK, NEW b \in Seq(Types), SendWhole(b)
  PROVE  /\ CameraType' /\ linked' = linked
         /\ unit' = unit + Len(b) /\ unit' \in Nat /\ unit <= unit'
         /\ \/ Unheard
            \/ /\ Received(Fresh(b)) /\ Fresh(b) \in Seq(Element)
               /\ Ordered(unit, Fresh(b), unit')
<1>1. Bundle(b) /\ (Lose \/ (Arrives /\ Deliver(Fresh(b))))
  BY DEF SendWhole, GetWhole
<1>2. /\ Fresh(b) \in Seq(Element) /\ Ordered(unit, Fresh(b), unit + Len(b))
      /\ unit + Len(b) \in Nat /\ unit <= unit + Len(b)
  BY FreshUnits, LenProperties DEF TypeOK, CameraType, AssemblyType, SinkersType
<1>3. CameraType' /\ unit' = unit + Len(b) /\ linked' = linked
  BY <1>1, <1>2 DEF Bundle, Lose, Arrives, CameraType, TypeOK, AssemblyType, SinkersType
<1> QED
  BY <1>1, <1>2, <1>3 DEF Received, Lose, Unheard, assembly

LEMMA TimedEffect ==
  ASSUME TypeOK, NEW b \in Seq(Types), SendTimed(b)
  PROVE  /\ CameraType' /\ linked' = linked
         /\ unit' = unit + Len(b) /\ unit' \in Nat /\ unit <= unit'
         /\ \/ Unheard
            \/ /\ Received(Fresh(b)) /\ Fresh(b) \in Seq(Element)
               /\ Ordered(unit, Fresh(b), unit')
<1>1. Bundle(b) /\ (Lose \/ (Arrives /\ GetTimed(Fresh(b))))
  BY DEF SendTimed
<1>2. /\ Fresh(b) \in Seq(Element) /\ Ordered(unit, Fresh(b), unit + Len(b))
      /\ unit + Len(b) \in Nat /\ unit <= unit + Len(b) /\ Len(Fresh(b)) \in Nat
  BY FreshUnits, LenProperties DEF TypeOK, CameraType, AssemblyType, SinkersType
<1>3. CameraType' /\ unit' = unit + Len(b) /\ linked' = linked
  BY <1>1, <1>2 DEF Bundle, Lose, Arrives, CameraType, TypeOK, AssemblyType, SinkersType
<1> QED
  BY <1>1, <1>2, <1>3 DEF GetTimed, Received, Lose, Unheard, assembly

LEMMA FirstEffect ==
  ASSUME TypeOK, NEW t \in Types, NEW n \in 2..MaxParts, SendFirst(t, n)
  PROVE  /\ CameraType' /\ linked' = linked
         /\ unit' = unit + 1 /\ unit' \in Nat /\ unit <= unit'
         /\ LET data == <<Part(unit + 1, t, n)>>
            IN \/ Unheard
               \/ /\ Received(data) /\ data \in Seq(Element)
                  /\ Ordered(unit, data, unit')
<1> DEFINE data == <<Part(unit + 1, t, n)>>
<1>1. Lose \/ (Arrives /\ GetFirst(Part(unit + 1, t, n)))
  BY DEF SendFirst
<1>2. unit \in Nat /\ n \in Nat /\ n - 1 \in Nat /\ MaxParts \in Nat /\ n >= 2
  BY RtpReceiverAssumption DEF TypeOK, CameraType, AssemblyType, SinkersType
<1>3. CameraType' /\ unit' = unit + 1 /\ linked' = linked
  <2>1. todo' = n - 1 /\ parts' = n /\ type' = t /\ unit' = unit + 1 /\ linked' = linked
    BY DEF SendFirst
  <2>2. lost' \in BOOLEAN /\ burst' \in BOOLEAN
    BY <1>1 DEF Lose, Arrives, TypeOK, CameraType, AssemblyType, SinkersType
  <2>3. todo' \in 0..parts' /\ parts' \in Nat /\ unit' \in Nat
    BY <1>2, <2>1
  <2> QED
    BY <2>1, <2>2, <2>3 DEF SendFirst, CameraType, TypeOK, AssemblyType, SinkersType
<1>4. Part(unit + 1, t, n) \in Element /\ Part(unit + 1, t, n).unit = unit + 1
  <2>1. <<<<unit + 1, 1>>>> \in Seq(Nat \X Nat)
    BY <1>2
  <2> QED
    BY <1>2, <2>1 DEF Part, Element
<1>5. data \in Seq(Element) /\ Ordered(unit, data, unit + 1)
  <2> DEFINE e == Part(unit + 1, t, n)
  <2> HIDE DEF e
  <2>1. <<e>> \in Seq(Element) /\ Ordered(unit, <<e>>, unit + 1)
    BY <1>2, <1>4 DEF Ordered, e
  <2> QED
    BY <2>1 DEF e
<1>6. GetFirst(Part(unit + 1, t, n)) => Received(data)
  BY DEF GetFirst, Received, TypeOK, CameraType, AssemblyType, SinkersType
<1> HIDE DEF data
<1>7. Unheard \/ Received(data)
  BY <1>1, <1>6 DEF Lose, Unheard, assembly
<1> QED
  BY <1>2, <1>3, <1>5, <1>7 DEF data

LEMMA NextEffect ==
  ASSUME TypeOK, SendNext
  PROVE  /\ CameraType' /\ linked' = linked /\ unit' = unit
         /\ \/ Unheard
            \/ \E data \in Seq(Element) : Received(data) /\ Thins(data, rtpData)
<1> DEFINE piece == <<unit, parts - todo + 1>>
           more == [rtpData EXCEPT ![1].got = Append(@, piece)]
           data == IF rtpData = <<>> THEN <<>> ELSE more
<1>1. CameraType' /\ unit' = unit /\ linked' = linked
  <2>1. /\ parts \in Nat /\ todo \in Nat /\ todo <= parts /\ todo > 0 /\ todo' = todo - 1
    BY DEF SendNext, TypeOK, CameraType, AssemblyType, SinkersType
  <2>2. type' \in Types \cup {None} /\ parts' \in Nat /\ todo' \in 0..parts'
    <3>1. CASE todo = 1
      BY <2>1, <3>1 DEF SendNext
    <3>2. CASE todo # 1
      BY <2>1, <3>2 DEF SendNext, TypeOK, CameraType, AssemblyType, SinkersType
    <3> QED
      BY <3>1, <3>2
  <2>3. lost' \in BOOLEAN /\ burst' \in BOOLEAN
    BY DEF SendNext, Lose, Arrives, TypeOK, CameraType, AssemblyType, SinkersType
  <2> QED
    BY <2>2, <2>3 DEF SendNext, CameraType, TypeOK, AssemblyType, SinkersType
<1>2. Lose \/ (Arrives /\ GetNext(piece, todo = 1))
  BY DEF SendNext
<1>3. piece \in Nat \X Nat
  BY DEF TypeOK, CameraType, AssemblyType, SinkersType
<1> HIDE DEF piece
<1>4. data \in Seq(Element) /\ Thins(data, rtpData)
  <2>1. CASE rtpData = <<>>
    BY <2>1, EmptyThins, EmptySeq
  <2>2. CASE rtpData # <<>>
    <3>1. more \in Seq(Element) /\ Thins(more, rtpData)
      BY <1>3, <2>2, MoreOfTheFront
    <3> HIDE DEF more
    <3> QED
      BY <2>2, <3>1
  <2> QED
    BY <2>1, <2>2
<1>5. GetNext(piece, todo = 1) => Received(data)
  BY DEF GetNext, Received, TypeOK, CameraType, AssemblyType, SinkersType
<1> HIDE DEF data
<1> QED
  BY <1>1, <1>2, <1>4, <1>5 DEF Lose, Unheard, assembly

LEMMA ReceiveEffect ==
  ASSUME TypeOK, Receive
  PROVE  /\ CameraType' /\ linked' \in SUBSET Sinkers /\ unit' \in Nat /\ unit <= unit'
         /\ \/ Unheard
            \/ \E data \in Seq(Element) :
                 /\ Received(data)
                 /\ \/ Ordered(unit, data, unit')
                    \/ unit' = unit /\ Thins(data, rtpData)
<1>1. CASE \E t \in Types : SendWhole(<<t>>)
  <2>1. PICK t \in Types : SendWhole(<<t>>)
    BY <1>1
  <2>2. <<t>> \in Seq(Types)
    BY BundlesAreSequences
  <2> QED
    BY <2>1, <2>2, WholeEffect DEF TypeOK, CameraType, AssemblyType, SinkersType
<1>2. CASE \E b \in Bundles : SendWhole(b)
  <2>1. PICK b \in Bundles : SendWhole(b)
    BY <1>2
  <2>2. b \in Seq(Types)
    BY BundlesAreSequences
  <2> QED
    BY <2>1, <2>2, WholeEffect DEF TypeOK, CameraType, AssemblyType, SinkersType
<1>3. CASE \E b \in Bundles : SendTimed(b)
  <2>1. PICK b \in Bundles : SendTimed(b)
    BY <1>3
  <2>2. b \in Seq(Types)
    BY BundlesAreSequences
  <2> QED
    BY <2>1, <2>2, TimedEffect DEF TypeOK, CameraType, AssemblyType, SinkersType
<1>4. CASE \E t \in Types, n \in 2..MaxParts : SendFirst(t, n)
  <2>1. PICK t \in Types, n \in 2..MaxParts : SendFirst(t, n)
    BY <1>4
  <2> QED
    BY <2>1, FirstEffect DEF TypeOK, CameraType, AssemblyType, SinkersType
<1>5. CASE SendNext
  BY <1>5, NextEffect DEF TypeOK, CameraType, AssemblyType, SinkersType
<1>6. CASE Describe
  BY <1>6 DEF Describe, CameraType, Unheard, TypeOK, assembly, feed, AssemblyType, SinkersType
<1> QED
  BY <1>1, <1>2, <1>3, <1>4, <1>5, <1>6 DEF Receive

LEMMA ReceivedType ==
  ASSUME TypeOK, NEW data \in Seq(Element), Received(data)
  PROVE  AssemblyType'
<1>1. CASE Deliver(data)
  BY <1>1, DeliverType
<1>2. CASE Keep(data) /\ offsets' \in Nat
  BY <1>2 DEF Keep, AssemblyType, TypeOK, CameraType, SinkersType
<1> QED
  BY <1>1, <1>2 DEF Received

-----------------------------------------------------------------------------
(* What Fetch leaves of the two queues is the end of their concatenation.    *)

LEMMA TakenIsTheEnd ==
  ASSUME TypeOK, NEW s \in Sinkers
  PROVE  Taken(s) \in Seq(Element) /\ Thins(Taken(s), Queue(s))
<1> DEFINE old == sending[s]
           new == cache[s]
           room == Len(old) + Len(new) <= MaxCache
           over == IF Len(new) > MaxCache THEN Len(new) - MaxCache ELSE 0
           rest == IF room \/ new = <<>> THEN old ELSE <<>>
           end == SubSeq(new, over + 1, Len(new))
<1>1. /\ old \in Seq(Element) /\ new \in Seq(Element)
      /\ Len(old) \in Nat /\ Len(new) \in Nat /\ MaxCache \in Nat
  BY LenProperties, LiveSinkerAssumption DEF TypeOK, CameraType, AssemblyType, SinkersType
<1>2. over \in Nat /\ over + 1 \in Nat \ {0}
  BY <1>1
<1>3. rest \in Seq(Element) /\ Thins(rest, old)
  <2>1. Thins(old, old) /\ Thins(<<>>, old) /\ <<>> \in Seq(Element)
    BY SameUnitsThin, EmptyThins, EmptySeq
  <2> HIDE DEF old, room
  <2> QED
    BY <1>1, <2>1
<1>4. end \in Seq(Element) /\ Thins(end, new)
  <2> HIDE DEF over, new
  <2>1. \A i \in over + 1..Len(new) : new[i] \in Element
    BY <1>1, <1>2, ElementOfSeq
  <2>2. over + 1 \in Int /\ Len(new) \in Int /\ Len(new) <= Len(new)
    BY <1>1, <1>2
  <2>3. end \in Seq(Element)
    BY <2>1, <2>2, SubSeqProperties
  <2>4. Thins(SubSeq(new, over + 1, Len(new)), new)
    BY <1>1, <1>2, <2>2, PartThins
  <2> QED
    BY <2>3, <2>4
<1>5. Taken(s) = rest \o end
  BY DEF Taken
<1>6. Queue(s) = old \o new
  BY DEF Queue
<1> HIDE DEF rest, end, old, new
<1>7. rest \o end \in Seq(Element)
  BY <1>3, <1>4, ConcatProperties
<1>8. Thins(rest \o end, old \o new)
  BY <1>1, <1>3, <1>4, ConcatThins
<1> QED
  BY <1>5, <1>6, <1>7, <1>8

-----------------------------------------------------------------------------
(* The types are kept.                                                     *)

LEMMA InitType == Init => TypeOK
<1> SUFFICES ASSUME Init PROVE TypeOK
  OBVIOUS
<1>1. <<>> \in Seq(Element)
  BY EmptySeq
<1>2. CameraType
  <2>1. tcp \in BOOLEAN /\ mtap \in BOOLEAN
    BY RtpReceiverAssumption DEF Init, ReceiverInit
  <2>2. /\ unit = 0 /\ type = None /\ parts = 0 /\ todo = 0
        /\ lost = FALSE /\ burst = FALSE /\ sdp = "none"
    BY DEF Init, ReceiverInit
  <2>3. todo \in 0..parts /\ unit \in Nat /\ parts \in Nat
    BY <2>2
  <2>4. lost \in BOOLEAN /\ burst \in BOOLEAN
    BY <2>2
  <2>5. type \in Types \cup {None} /\ sdp \in {"none", "bare", "sets"}
    BY <2>2
  <2> QED
    BY <2>1, <2>3, <2>4, <2>5 DEF CameraType
<1>3. AssemblyType /\ linked \in SUBSET Sinkers
  BY <1>1 DEF Init, ReceiverInit, AssemblyType
<1>4. SinkersType
  BY <1>1 DEF Init, SinkersType
<1> QED
  BY <1>2, <1>3, <1>4 DEF TypeOK

\* Steps that leave a part of the state alone.
LEMMA SameCamera   == CameraType /\ UNCHANGED camera => CameraType'
BY DEF CameraType, camera

LEMMA SameAssembly ==
  AssemblyType /\ UNCHANGED <<assembly, params, cache, broken>> => AssemblyType'
BY DEF AssemblyType, assembly

LEMMA SameSinkers  == SinkersType /\ UNCHANGED sinkers => SinkersType'
BY DEF SinkersType, sinkers

LEMMA StepType == TypeOK /\ [Next]_vars => TypeOK'
<1> SUFFICES ASSUME TypeOK, [Next]_vars PROVE TypeOK'
  OBVIOUS
<1>0. CameraType /\ AssemblyType /\ SinkersType /\ linked \in SUBSET Sinkers
  BY DEF TypeOK
<1>1. CASE Receive /\ UNCHANGED sinkers
  <2>1. CameraType' /\ linked' \in SUBSET Sinkers
    BY <1>1, ReceiveEffect
  <2>2. AssemblyType'
    <3>1. CASE Unheard
      BY <1>0, <3>1, SameAssembly DEF Unheard, assembly
    <3>2. CASE \E data \in Seq(Element) : Received(data)
      BY <3>2, ReceivedType
    <3> QED
      BY <1>1, <3>1, <3>2, ReceiveEffect
  <2> QED
    BY <1>0, <1>1, <2>1, <2>2, SameSinkers DEF TypeOK
<1>2. ASSUME NEW s \in Sinkers, LinkSinker(s)
      PROVE  TypeOK'
  <2>1. UNCHANGED <<camera, assembly, cache, broken, sinkers>>
    BY <1>2 DEF LinkSinker, Link
  <2>2. linked' \in SUBSET Sinkers
    <3>1. linked' = linked \cup {s}
      BY <1>2 DEF LinkSinker, Link
    <3> QED
      BY <1>0, <3>1
  <2>3. params' \in [Sinkers -> Nat \cup {None}]
    <3>1. params' = [params EXCEPT ![s] = 0] \/ params' = params
      BY <1>2 DEF LinkSinker, Link
    <3>2. params \in [Sinkers -> Nat \cup {None}]
      BY <1>0 DEF AssemblyType
    <3> QED
      BY <3>1, <3>2
  <2>4. AssemblyType'
    BY <1>0, <2>1, <2>3 DEF AssemblyType, assembly
  <2> QED
    BY <1>0, <2>1, <2>2, <2>4, SameCamera, SameSinkers DEF TypeOK
<1>3. ASSUME NEW s \in Sinkers, UnlinkSinker(s)
      PROVE  TypeOK'
  <2>1. UNCHANGED <<camera, assembly, params, cache, broken, sinkers>>
    BY <1>3 DEF UnlinkSinker, Unlink
  <2>2. linked' \in SUBSET Sinkers
    BY <1>0, <1>3 DEF UnlinkSinker, Unlink
  <2> QED
    BY <1>0, <2>1, <2>2, SameCamera, SameAssembly, SameSinkers DEF TypeOK
<1>4. ASSUME NEW s \in Sinkers, StartStream(s)
      PROVE  TypeOK'
  <2>1. UNCHANGED <<camera, assembly, feed>>
    BY <1>4 DEF StartStream
  <2>2. SinkersType' /\ broken' \in {"no", "offset", "sets", "thread"}
    BY <1>0, <1>4 DEF StartStream, SinkersType, AssemblyType
  <2>3. AssemblyType'
    BY <1>0, <2>1, <2>2 DEF AssemblyType, assembly, feed
  <2> QED
    BY <1>0, <2>1, <2>2, <2>3, SameCamera DEF TypeOK, feed
<1>5. ASSUME NEW s \in Sinkers, StopStream(s) \/ Hush(s) \/ EndRound(s) \/ Paused(s)
      PROVE  TypeOK'
  <2>1. UNCHANGED <<camera, assembly, feed, broken>>
    BY <1>5 DEF StopStream, Hush, EndRound, Paused
  <2>2. SinkersType'
    BY <1>0, <1>5 DEF StopStream, Hush, EndRound, Paused, SinkersType
  <2> QED
    BY <1>0, <2>1, <2>2, SameCamera, SameAssembly DEF TypeOK, feed
<1>6. ASSUME NEW s \in Sinkers, Fetch(s)
      PROVE  TypeOK'
  <2>1. Taken(s) \in Seq(Element) /\ <<>> \in Seq(Element)
    BY TakenIsTheEnd, EmptySeq
  <2>2. UNCHANGED <<camera, assembly, linked, params, broken, sent, ended, quiet>>
    BY <1>6 DEF Fetch
  <2>3. cache' \in [Sinkers -> Seq(Element)] /\ sending' \in [Sinkers -> Seq(Element)]
    BY ZenonT(40), <1>0, <1>6, <2>1 DEF Fetch, AssemblyType, SinkersType
  <2>4. thread' \in [Sinkers -> {"none", "fetch", "send", "done", "gone"}]
    BY <1>0, <1>6 DEF Fetch, Quits, SinkersType
  <2>5. AssemblyType' /\ SinkersType'
    BY <1>0, <2>2, <2>3, <2>4 DEF AssemblyType, SinkersType, assembly
  <2> QED
    BY <1>0, <2>2, <2>5, SameCamera DEF TypeOK
<1>7. ASSUME NEW s \in Sinkers, Send(s)
      PROVE  TypeOK'
  <2> DEFINE e == Head(sending[s])
  <2>1. e \in Element /\ Tail(sending[s]) \in Seq(Element)
    <3>1. sending[s] \in Seq(Element) /\ sending[s] # <<>>
      BY <1>0, <1>7 DEF Send, SinkersType
    <3> QED
      BY <3>1, HeadTailProperties
  <2> HIDE DEF e
  <2>2. e.unit \in Nat
    BY <2>1 DEF Element
  <2>3. UNCHANGED <<camera, assembly, feed, ended, quiet>>
    BY <1>7 DEF Send
  <2>4. CASE e.type = "idr" /\ params[s] = None
    <3>1. broken' = "sets" /\ UNCHANGED <<thread, sending, sent>>
      BY <1>7, <2>4 DEF Send, e
    <3>2. AssemblyType' /\ SinkersType'
      BY <1>0, <2>3, <3>1 DEF AssemblyType, SinkersType, assembly, feed
    <3> QED
      BY <1>0, <2>3, <3>2, SameCamera DEF TypeOK, feed
  <2>5. CASE ~(e.type = "idr" /\ params[s] = None)
    <3>1. /\ sending' = [sending EXCEPT ![s] = Tail(@)] /\ UNCHANGED broken
          /\ IF e.type = "other"
             THEN thread' = [thread EXCEPT ![s] = "fetch"] /\ UNCHANGED sent
             ELSE sent' = [sent EXCEPT ![s] = e.unit] /\ UNCHANGED thread
      BY <1>7, <2>5 DEF Send, e
    <3>2. sending' \in [Sinkers -> Seq(Element)]
      BY <1>0, <2>1, <3>1 DEF SinkersType
    <3>3. /\ sent' \in [Sinkers -> Nat]
          /\ thread' \in [Sinkers -> {"none", "fetch", "send", "done", "gone"}]
      BY <1>0, <2>2, <3>1 DEF SinkersType
    <3>4. AssemblyType' /\ SinkersType'
      BY <1>0, <2>3, <3>1, <3>2, <3>3 DEF AssemblyType, SinkersType, assembly, feed
    <3> QED
      BY <1>0, <2>3, <3>4, SameCamera DEF TypeOK, feed
  <2> QED
    BY <2>4, <2>5
<1>8. ASSUME NEW s \in Sinkers, Destroyed(s)
      PROVE  TypeOK'
  <2>1. <<>> \in Seq(Element)
    BY EmptySeq
  <2>2. UNCHANGED <<camera, assembly, linked, params, broken, sent, ended, quiet>>
    BY <1>8 DEF Destroyed
  <2>3. /\ cache' \in [Sinkers -> Seq(Element)] /\ sending' \in [Sinkers -> Seq(Element)]
        /\ thread' \in [Sinkers -> {"none", "fetch", "send", "done", "gone"}]
    BY <1>0, <1>8, <2>1 DEF Destroyed, AssemblyType, SinkersType
  <2>4. AssemblyType' /\ SinkersType'
    BY <1>0, <2>2, <2>3 DEF AssemblyType, SinkersType, assembly
  <2> QED
    BY <1>0, <2>2, <2>4, SameCamera DEF TypeOK
<1>9. CASE UNCHANGED vars
  BY <1>0, <1>9, SameCamera, SameAssembly, SameSinkers DEF vars, feed, TypeOK
<1> QED
  BY <1>1, <1>2, <1>3, <1>4, <1>5, <1>6, <1>7, <1>8, <1>9 DEF Next, SendThread, Executor

\* Every variable of the media path and of its sinkers keeps its type.
THEOREM TypeCorrect == Spec => []TypeOK
BY InitType, StepType, PTL DEF Spec

-----------------------------------------------------------------------------
(* The order.  UnitsStayInOrder is not inductive: the units that are being   *)
(* put together must be behind those that are queued, and all that was sent, *)
(* queued or kept must be of the units that the camera has begun.          *)

Line(s) == Queue(s) \o rtpData

LinesAreOrdered == \A s \in Sinkers : Ordered(sent[s], Line(s), unit)

LEMMA OrderedUpTo ==
  ASSUME NEW q \in Seq(Element), NEW low \in Nat, NEW high \in Nat, NEW top \in Nat,
         Ordered(low, q, high), high <= top
  PROVE  Ordered(low, q, top)
<1>1. \A i \in DOMAIN q : q[i].unit \in Nat
  <2>1. \A i \in DOMAIN q : q[i] \in Element
    BY LenProperties
  <2> QED
    BY <2>1 DEF Element
<1> QED
  BY <1>1 DEF Ordered

LEMMA ElementsAssociate ==
  \A a, b, c \in Seq(Element) : (a \o b) \o c = a \o (b \o c)
BY ConcatAssociative

LEMMA LineType ==
  ASSUME TypeOK, NEW s \in Sinkers
  PROVE  /\ cache[s] \in Seq(Element) /\ sending[s] \in Seq(Element)
         /\ Queue(s) \in Seq(Element) /\ rtpData \in Seq(Element)
         /\ Line(s) \in Seq(Element) /\ sent[s] \in Nat /\ unit \in Nat
<1>1. /\ cache[s] \in Seq(Element) /\ sending[s] \in Seq(Element)
      /\ rtpData \in Seq(Element) /\ sent[s] \in Nat /\ unit \in Nat
  BY DEF TypeOK, CameraType, AssemblyType, SinkersType
<1>2. Queue(s) \in Seq(Element)
  BY <1>1, ConcatProperties DEF Queue
<1>3. Line(s) \in Seq(Element)
  BY <1>1, <1>2, ConcatProperties DEF Line
<1> QED
  BY <1>1, <1>2, <1>3

LEMMA ReceivedOrder ==
  ASSUME TypeOK, LinesAreOrdered, unit' \in Nat, unit <= unit', UNCHANGED sinkers,
         NEW data \in Seq(Element), Received(data),
         Ordered(unit, data, unit') \/ (unit' = unit /\ Thins(data, rtpData)),
         NEW s \in Sinkers
  PROVE  Ordered(sent[s], Line(s), unit)'
<1> DEFINE q == Queue(s)
<1>1. /\ q \in Seq(Element) /\ rtpData \in Seq(Element) /\ Line(s) = q \o rtpData
      /\ Line(s) \in Seq(Element)
      /\ sent[s] \in Nat /\ unit \in Nat /\ sent'[s] = sent[s] /\ UNCHANGED sending
      /\ Line(s)' = Queue(s)' \o rtpData' /\ Ordered(sent[s], Line(s), unit)
  BY LineType DEF Line, LinesAreOrdered, sinkers
<1>2. Queue(s)' = sending[s] \o cache'[s] /\ q = sending[s] \o cache[s]
  BY <1>1 DEF Queue
<1> HIDE DEF q
<1>3. Ordered(sent[s], q \o data, unit') /\ q \o data \in Seq(Element)
  <2>1. CASE Ordered(unit, data, unit')
    <3>1. Ordered(sent[s], q, unit)
      BY <1>1, OrderedFront
    <3> QED
      BY <1>1, <2>1, <3>1, OrderedConcat, ConcatProperties
  <2>2. CASE unit' = unit /\ Thins(data, rtpData)
    <3>1. Thins(q, q)
      BY SameUnitsThin
    <3>2. Thins(q \o data, q \o rtpData)
      BY <1>1, <2>2, <3>1, ConcatThins
    <3>3. Ordered(sent[s], q \o data, unit)
      BY <1>1, <3>2, ThinIsOrdered
    <3> QED
      BY <1>1, <2>2, <3>3, ConcatProperties
  <2> QED
    BY <2>1, <2>2
<1>4. CASE Keep(data)
  <2>1. Line(s)' = q \o data
    BY <1>1, <1>2, <1>4 DEF Keep
  <2> QED
    BY <1>1, <1>3, <2>1
<1>5. CASE Deliver(data)
  <2>1. CASE Queue(s)' = Queue(s) /\ rtpData' = rtpData
    <3>1. Line(s)' = Line(s)
      BY <1>1, <2>1 DEF q
    <3>2. Ordered(sent[s], Line(s), unit')
      BY <1>1, OrderedUpTo
    <3> QED
      BY <1>1, <3>1, <3>2
  <2>2. CASE /\ rtpData' = <<>>
             /\ \E new \in Seq(Element) : Queue(s)' = Queue(s) \o new /\ Thins(new, data)
    <3>1. PICK new \in Seq(Element) : Queue(s)' = q \o new /\ Thins(new, data)
      BY <2>2 DEF q
    <3>2. Thins(q, q)
      BY SameUnitsThin
    <3>3. Thins(q \o new, q \o data)
      BY <1>1, <3>1, <3>2, ConcatThins
    <3>4. Ordered(sent[s], q \o new, unit')
      BY <1>3, <3>3, ThinIsOrdered
    <3>5. (q \o new) \o <<>> = q \o new
      <4>1. q \o new \in Seq(Element)
        BY <1>1, <3>1, ConcatProperties
      <4> QED
        BY <4>1, ConcatEmptySeq
    <3>6. Line(s)' = q \o new
      BY <1>1, <2>2, <3>1, <3>5
    <3> QED
      BY <1>1, <3>4, <3>6
  <2> QED
    BY <1>1, <1>5, <2>1, <2>2, DeliverThins
<1> QED
  BY <1>4, <1>5 DEF Received

LEMMA InitOrder == Init => LinesAreOrdered
<1> SUFFICES ASSUME Init, NEW s \in Sinkers PROVE Ordered(sent[s], Line(s), unit)
  BY DEF LinesAreOrdered
<1>1. Line(s) = (<<>> \o <<>>) \o <<>> /\ sent[s] = 0 /\ unit = 0
  BY DEF Init, ReceiverInit, Line, Queue
<1>2. (<<>> \o <<>>) \o <<>> = <<>>
  <2>1. <<>> \in Seq(Element)
    BY EmptySeq
  <2> QED
    BY <2>1, ConcatEmptySeq
<1> DEFINE q == <<>>
<1>3. DOMAIN q = {} /\ Line(s) = q
  BY <1>1, <1>2
<1> HIDE DEF q
<1> QED
  BY <1>1, <1>3 DEF Ordered

\* A step of which a sinker's line is some of what it was before.
LEMMA ThinnedOrder ==
  ASSUME LinesAreOrdered, NEW s \in Sinkers, Thins(Line(s)', Line(s)), UNCHANGED unit,
         sent'[s] = sent[s]
  PROVE  Ordered(sent[s], Line(s), unit)'
BY ThinIsOrdered DEF LinesAreOrdered

LEMMA StepOrder == TypeOK /\ LinesAreOrdered /\ [Next]_vars => LinesAreOrdered'
<1> SUFFICES ASSUME TypeOK, LinesAreOrdered, [Next]_vars, NEW s \in Sinkers
             PROVE  Ordered(sent[s], Line(s), unit)'
  BY DEF LinesAreOrdered
<1>0. /\ cache[s] \in Seq(Element) /\ sending[s] \in Seq(Element)
      /\ Queue(s) \in Seq(Element) /\ rtpData \in Seq(Element)
      /\ Line(s) \in Seq(Element) /\ sent[s] \in Nat /\ unit \in Nat
      /\ Ordered(sent[s], Line(s), unit)
      /\ Line(s) = Queue(s) \o rtpData /\ Line(s)' = Queue(s)' \o rtpData'
      /\ Queue(s) = sending[s] \o cache[s] /\ Queue(s)' = sending'[s] \o cache'[s]
  BY LineType DEF LinesAreOrdered, Line, Queue
<1>1. CASE Receive /\ UNCHANGED sinkers
  <2>1. unit' \in Nat /\ unit <= unit'
    BY <1>1, ReceiveEffect
  <2>2. CASE Unheard
    <3>1. Line(s)' = Line(s) /\ sent'[s] = sent[s]
      BY <1>0, <1>1, <2>2 DEF Unheard, sinkers
    <3>2. Ordered(sent[s], Line(s), unit')
      BY <1>0, <2>1, OrderedUpTo
    <3> QED
      BY <3>1, <3>2
  <2>3. CASE \E data \in Seq(Element) :
               Received(data) /\ (Ordered(unit, data, unit') \/ (unit' = unit /\ Thins(data, rtpData)))
    BY <1>1, <2>1, <2>3, ReceivedOrder
  <2> QED
    BY <1>1, <2>2, <2>3, ReceiveEffect
<1>2. CASE UNCHANGED <<unit, sent, rtpData, cache, sending>>
  BY <1>0, <1>2
<1>3. ASSUME NEW r \in Sinkers,
             LinkSinker(r) \/ UnlinkSinker(r) \/ StartStream(r) \/ StopStream(r) \/ Hush(r)
               \/ EndRound(r) \/ Paused(r)
      PROVE  UNCHANGED <<unit, sent, rtpData, cache, sending>>
  BY <1>3 DEF LinkSinker, Link, UnlinkSinker, Unlink, StartStream, StopStream, Hush, EndRound,
              Paused, camera, assembly, feed, sinkers
<1>4. ASSUME NEW r \in Sinkers, Fetch(r)
      PROVE  Ordered(sent[s], Line(s), unit)'
  <2>1. UNCHANGED <<unit, sent, rtpData>>
    BY <1>4 DEF Fetch, camera, assembly
  <2>2. CASE UNCHANGED <<cache[s], sending[s]>>
    BY <1>0, <2>1, <2>2
  <2>3. CASE r = s /\ sending'[s] = Taken(s) /\ cache'[s] = <<>>
    <3>1. Taken(s) \in Seq(Element) /\ Thins(Taken(s), Queue(s)) /\ Thins(rtpData, rtpData)
      BY TakenIsTheEnd, SameUnitsThin
    <3>2. Queue(s)' = Taken(s)
      BY <1>0, <2>3, <3>1, ConcatEmptySeq
    <3>3. Thins(Taken(s) \o rtpData, Queue(s) \o rtpData)
      BY <1>0, <3>1, ConcatThins
    <3>4. Thins(Line(s)', Line(s))
      BY <1>0, <2>1, <3>2, <3>3
    <3> QED
      BY <2>1, <3>4, ThinnedOrder
  <2>4. UNCHANGED <<cache[s], sending[s]>>
          \/ (r = s /\ sending'[s] = Taken(s) /\ cache'[s] = <<>>)
    BY <1>4 DEF Fetch, TypeOK, AssemblyType, SinkersType
  <2> QED
    BY <2>2, <2>3, <2>4
<1>5. ASSUME NEW r \in Sinkers, Send(r)
      PROVE  Ordered(sent[s], Line(s), unit)'
  <2> DEFINE e == Head(sending[s])
             q == sending[s]
             rest == cache[s] \o rtpData
  <2>1. UNCHANGED <<unit, rtpData, cache>>
    BY <1>5 DEF Send, camera, assembly, feed
  <2>2. CASE UNCHANGED <<sending[s], sent[s]>>
    BY <1>0, <2>1, <2>2
  <2>3. CASE /\ sending[s] # <<>> /\ sending'[s] = Tail(sending[s])
             /\ sent'[s] = sent[s] \/ sent'[s] = e.unit
    <3>1. rest \in Seq(Element) /\ Line(s) = q \o rest
      <4>1. rest \in Seq(Element)
        BY <1>0, ConcatProperties
      <4> DEFINE c == cache[s]
      <4>2. (q \o c) \o rtpData = q \o (c \o rtpData)
        <5>1. q \in Seq(Element) /\ c \in Seq(Element) /\ rtpData \in Seq(Element)
          BY <1>0
        <5> HIDE DEF q, c
        <5> QED
          BY <5>1, ElementsAssociate
      <4> QED
        BY <1>0, <4>1, <4>2
    <3> HIDE DEF rest, q
    <3>2. /\ Head(q) \in Element /\ Tail(q) \in Seq(Element)
          /\ Thins(Tail(q) \o rest, q \o rest)
          /\ Ordered(Head(q).unit, Tail(q) \o rest, unit)
      <4>1. q \in Seq(Element) /\ q # <<>> /\ Ordered(sent[s], q \o rest, unit)
        BY <1>0, <2>3, <3>1 DEF q
      <4> QED
        BY <1>0, <3>1, <4>1, OrderedTail
    <3>3. Line(s)' = Tail(q) \o rest
      <4>1. Line(s)' = (Tail(q) \o cache[s]) \o rtpData
        BY <1>0, <2>1, <2>3 DEF q
      <4> QED
        BY ZenonT(40), <1>0, <3>2, <4>1, ElementsAssociate DEF rest
    <3>0. e = Head(q)
      BY DEF q
    <3> HIDE DEF e
    <3>4. CASE sent'[s] = sent[s]
      BY <2>1, <3>1, <3>2, <3>3, <3>4, ThinnedOrder
    <3>5. CASE sent'[s] = e.unit
      BY <2>1, <3>0, <3>2, <3>3, <3>5
    <3> QED
      BY <2>3, <3>4, <3>5
  <2>4. UNCHANGED <<sending[s], sent[s]>>
          \/ (/\ sending[s] # <<>> /\ sending'[s] = Tail(sending[s])
              /\ sent'[s] = sent[s] \/ sent'[s] = e.unit)
    BY <1>5 DEF Send, TypeOK, SinkersType
  <2> QED
    BY <2>2, <2>3, <2>4
<1>6. ASSUME NEW r \in Sinkers, Destroyed(r)
      PROVE  Ordered(sent[s], Line(s), unit)'
  <2>1. UNCHANGED <<unit, sent, rtpData>>
    BY <1>6 DEF Destroyed, camera, assembly
  <2>2. CASE r # s
    <3>1. UNCHANGED <<cache[s], sending[s]>>
      BY <1>6, <2>2 DEF Destroyed, TypeOK, AssemblyType, SinkersType
    <3> QED
      BY <1>0, <2>1, <3>1
  <2>3. CASE r = s
    <3>1. sending'[s] = <<>> /\ cache'[s] = <<>>
      BY <1>6, <2>3 DEF Destroyed, TypeOK, AssemblyType, SinkersType
    <3>2. <<>> \in Seq(Element) /\ <<>> \o <<>> = <<>>
      BY EmptySeq, ConcatEmptySeq
    <3>3. Thins(<<>>, Queue(s)) /\ Thins(rtpData, rtpData)
      BY EmptyThins, SameUnitsThin
    <3>4. Thins(<<>> \o rtpData, Queue(s) \o rtpData)
      BY <1>0, <3>2, <3>3, ConcatThins
    <3>5. Line(s)' = <<>> \o rtpData
      BY <1>0, <2>1, <3>1, <3>2
    <3>6. Thins(Line(s)', Line(s))
      BY <1>0, <3>4, <3>5
    <3> QED
      BY <2>1, <3>6, ThinnedOrder
  <2> QED
    BY <2>2, <2>3
<1>7. CASE UNCHANGED vars
  BY <1>2, <1>7 DEF vars, camera, assembly, feed, sinkers
<1> QED
  BY <1>1, <1>2, <1>3, <1>4, <1>5, <1>6, <1>7 DEF Next, SendThread, Executor

LEMMA OrderedLines == Spec => [](TypeOK /\ LinesAreOrdered)
<1>1. Init => TypeOK /\ LinesAreOrdered
  BY InitType, InitOrder
<1>2. TypeOK /\ LinesAreOrdered /\ [Next]_vars => (TypeOK /\ LinesAreOrdered)'
  BY StepType, StepOrder
<1> QED
  BY <1>1, <1>2, PTL DEF Spec

LEMMA OrderShows == TypeOK /\ LinesAreOrdered => UnitsStayInOrder
<1> SUFFICES ASSUME TypeOK, LinesAreOrdered, NEW s \in Sinkers,
                    NEW i \in DOMAIN Queue(s), NEW j \in DOMAIN Queue(s)
             PROVE  /\ sent[s] < Queue(s)[i].unit
                    /\ i < j => Queue(s)[i].unit < Queue(s)[j].unit
  BY DEF UnitsStayInOrder
<1>1. Ordered(sent[s], Queue(s), unit)
  <2>1. Ordered(sent[s], Queue(s) \o rtpData, unit)
    BY DEF LinesAreOrdered, Line
  <2> QED
    BY <2>1, LineType, OrderedFront
<1> QED
  BY <1>1 DEF Ordered

\* UnitsStayInOrder, for any sinkers, any units and fragments, and queues of any
\* limit: addTimedDataPacket, send_frame and what the two queues give up never put
\* a unit before an older one, and none is sent twice.
THEOREM UnitsAreSentInOrder == Spec => []UnitsStayInOrder
BY OrderedLines, OrderShows, PTL

-----------------------------------------------------------------------------
(* What is queued is put together rightly.  PiecesFit is not inductive: it   *)
(* rests on what the assembly holds between two packets.  Over TCP that is   *)
(* whole, or all the fragments so far of the unit that the camera is at;     *)
(* over UDP, as long as no two packets in a row were lost, what is left of   *)
(* an older unit is gone before a fragment of the next can meet it.        *)

Pure(e) == \A p \in Range(e.got) : p[1] = e.unit

Fit == {e \in Element : (tcp => Whole(e)) /\ (~burst /\ ~mtap => Pure(e))}

QueuesFit == \A s \in Sinkers : cache[s] \in Seq(Fit) /\ sending[s] \in Seq(Fit)

\* The first k pieces of unit u, and how many of the camera's unit were sent.
Pieces(u, k) == [i \in 1..k |-> <<u, i>>]

Begun == parts - todo

InOnePiece ==
  IF todo = 0 THEN \A i \in DOMAIN rtpData : Whole(rtpData[i])
  ELSE /\ todo < parts
       /\ Len(rtpData) = 1 /\ rtpData[1].unit = unit /\ rtpData[1].of = parts
       /\ rtpData[1].got = Pieces(unit, Begun)

OfOneUnit ==
  /\ todo = 0 /\ rtpData # <<>> => lost
  /\ todo > 0 /\ rtpData # <<>> => rtpData[1].unit = unit
  /\ \A i \in DOMAIN rtpData : Pure(rtpData[i])

AssemblyFits ==
  /\ ~mtap => offsets = 0
  /\ Alive => /\ tcp => InOnePiece
              /\ ~burst /\ ~mtap => OfOneUnit

LEMMA FirstPiece ==
  ASSUME NEW u \in Nat, NEW t \in Types, NEW n \in Nat
  PROVE  /\ Part(u, t, n).unit = u /\ Part(u, t, n).of = n
         /\ Part(u, t, n).got = [i \in 1..1 |-> <<u, i>>]
         /\ Part(u, t, n) \in Element
         /\ Pure(Part(u, t, n))
         /\ n = 1 => Whole(Part(u, t, n))
<1> DEFINE g == [i \in 1..1 |-> <<u, i>>]
<1>1. <<<<u, 1>>>> = g
  OBVIOUS
<1>2. <<<<u, 1>>>> \in Seq(Nat \X Nat)
  OBVIOUS
<1>3. /\ Part(u, t, n).unit = u /\ Part(u, t, n).of = n /\ Part(u, t, n).got = g
      /\ Part(u, t, n) \in Element
  BY <1>1, <1>2 DEF Part, Element
<1>4. DOMAIN g = 1..1 /\ \A i \in DOMAIN g : g[i] = <<u, i>>
  OBVIOUS
<1>5. Pure(Part(u, t, n))
  BY <1>3, <1>4 DEF Pure, Range
<1>6. n = 1 => Whole(Part(u, t, n))
  BY <1>3 DEF Whole
<1> QED
  BY <1>3, <1>5, <1>6

LEMMA FreshFits ==
  ASSUME unit \in Nat, NEW b \in Seq(Types)
  PROVE  /\ Fresh(b) \in Seq(Fit)
         /\ \A i \in DOMAIN Fresh(b) : Whole(Fresh(b)[i])
<1>1. Len(b) \in Nat /\ DOMAIN b = 1..Len(b)
  BY LenProperties
<1>2. ASSUME NEW i \in 1..Len(b)
      PROVE  Part(unit + i, b[i], 1) \in Fit /\ Whole(Part(unit + i, b[i], 1))
  <2>1. unit + i \in Nat /\ 1 \in Nat /\ b[i] \in Types
    BY <1>1
  <2> QED
    BY <2>1, FirstPiece DEF Fit
<1>3. Fresh(b) = [i \in 1..Len(b) |-> Part(unit + i, b[i], 1)]
  BY <1>1 DEF Fresh
<1>4. Fresh(b) \in [1..Len(b) -> Fit]
  BY <1>2, <1>3
<1>5. Fresh(b) \in Seq(Fit)
  BY <1>1, <1>4
<1> QED
  BY <1>2, <1>3, <1>5

\* The next piece of a unit.
LEMMA NextPiece ==
  ASSUME unit \in Nat, Begun \in Nat, NEW e \in Element, NEW x \in Element,
         x.unit = unit, e.unit = unit, x.got = Append(e.got, <<unit, Begun + 1>>)
  PROVE  /\ e.got = Pieces(unit, Begun) => x.got = Pieces(unit, Begun + 1)
         /\ Pure(e) => Pure(x)
<1> DEFINE u == unit
           k == Begun
           g == e.got
           piece == <<u, k + 1>>
<1>0. u \in Nat /\ k \in Nat /\ e.unit = u /\ x.unit = u
  OBVIOUS
<1>1. /\ g \in Seq(Nat \X Nat) /\ piece \in Nat \X Nat
      /\ x.got = Append(g, piece)
  BY DEF Element
<1> HIDE DEF g, piece, u, k
<1>2. /\ Len(g) \in Nat /\ DOMAIN g = 1..Len(g)
      /\ Append(g, piece) \in Seq(Nat \X Nat) /\ Len(Append(g, piece)) = Len(g) + 1
      /\ \A i \in 1..Len(g) : Append(g, piece)[i] = g[i]
      /\ Append(g, piece)[Len(g) + 1] = piece
      /\ DOMAIN Append(g, piece) = 1..Len(g) + 1
  BY <1>1, AppendProperties, LenProperties
<1>3. ASSUME g = Pieces(u, k)
      PROVE  x.got = Pieces(u, k + 1)
  <2> DEFINE h == [i \in 1..(k + 1) |-> <<u, i>>]
  <2>1. Len(g) = k
    BY <1>0, <1>3 DEF Pieces
  <2>2. \A i \in 1..k : g[i] = <<u, i>>
    BY <1>0, <1>3 DEF Pieces
  <2>3. /\ h \in Seq(Nat \X Nat) /\ Len(h) = k + 1
        /\ \A i \in 1..k + 1 : h[i] = <<u, i>>
    BY <1>0
  <2>4. ASSUME NEW i \in 1..k + 1
        PROVE  Append(g, piece)[i] = <<u, i>>
    <3>1. CASE i = k + 1
      BY <1>0, <1>2, <2>1, <3>1 DEF piece
    <3>2. CASE i # k + 1
      <4>1. i \in 1..k
        BY <1>0, <3>2
      <4> QED
        BY <1>0, <1>2, <2>1, <2>2, <4>1
    <3> QED
      BY <3>1, <3>2
  <2> HIDE DEF h
  <2>5. Append(g, piece) = h
    <3> DEFINE a == Append(g, piece)
    <3>1. /\ a \in Seq(Nat \X Nat) /\ h \in Seq(Nat \X Nat) /\ Len(a) = Len(h)
          /\ \A i \in 1..Len(a) : a[i] = h[i]
      BY <1>0, <1>2, <2>1, <2>3, <2>4
    <3> HIDE DEF a
    <3>2. a = h
      BY <3>1, SeqEqual
    <3> QED
      BY <3>2 DEF a
  <2> QED
    BY <1>1, <2>5 DEF h, Pieces
<1>4. ASSUME Pure(e)
      PROVE  Pure(x)
  <2>1. \A i \in 1..Len(g) : g[i][1] = u
    BY <1>0, <1>2, <1>4 DEF Pure, Range, g
  <2>2. piece[1] = u
    BY DEF piece
  <2>3. ASSUME NEW i \in 1..Len(g) + 1
        PROVE  Append(g, piece)[i][1] = u
    <3>1. i \in 1..Len(g) \/ i = Len(g) + 1
      BY <1>2
    <3> QED
      BY <1>2, <2>1, <2>2, <3>1
  <2>4. ASSUME NEW p \in Range(x.got)
        PROVE  p[1] = x.unit
    <3>1. PICK i \in DOMAIN x.got : p = x.got[i]
      BY <2>4 DEF Range
    <3>2. i \in 1..Len(g) + 1 /\ p = Append(g, piece)[i]
      BY <1>1, <1>2, <3>1
    <3> QED
      BY <1>0, <1>1, <2>3, <3>2
  <2> QED
    BY <2>4 DEF Pure
<1> QED
  BY <1>1, <1>3, <1>4 DEF g, u, k

\* What is delivered is queued as it is.
LEMMA DeliverKeepsFit ==
  ASSUME TypeOK, NEW F \in SUBSET Element, NEW data \in Seq(F), Deliver(data),
         NEW s \in Sinkers, cache[s] \in Seq(F)
  PROVE  cache'[s] \in Seq(F)
<1>1. CASE offsets > Len(data) /\ linked # {}
  BY <1>1 DEF Deliver
<1>2. CASE ~(offsets > Len(data) /\ linked # {})
  <2> DEFINE units == IF offsets = 0 THEN data ELSE SubSeq(data, 1, offsets)
  <2>1. TakeAll(units)
    BY <1>2 DEF Deliver
  <2>2. CASE s \notin linked
    BY <2>1, <2>2 DEF TakeAll
  <2>3. CASE s \in linked
    <3>1. offsets \in Nat /\ offsets <= Len(data) /\ Len(data) \in Nat
      BY <1>2, <2>3, LenProperties DEF TypeOK, AssemblyType
    <3>2. \A i \in 1..offsets : data[i] \in F
      BY <3>1, ElementOfSeq
    <3>3. SubSeq(data, 1, offsets) \in Seq(F)
      BY <3>1, <3>2, SubSeqProperties
    <3>4. units \in Seq(F)
      BY <3>3
    <3> HIDE DEF units
    <3>5. OfTypes(Types \ {"sets"}, units) \in Seq(F)
      BY <3>4, OfTypesType
    <3>6. cache'[s] = cache[s] \o OfTypes(Types \ {"sets"}, units)
      BY <2>1, <2>3 DEF TakeAll
    <3> QED
      BY <3>5, <3>6, ConcatProperties
  <2> QED
    BY <2>2, <2>3
<1> QED
  BY <1>1, <1>2

LEMMA DeliverEmpties ==
  ASSUME NEW data, Deliver(data), Alive'
  PROVE  rtpData' = <<>> /\ offsets' = 0
BY DEF Deliver, Alive

\* The elements that fit do so as long as no more packets are lost.
LEMMA StillFit ==
  ASSUME UNCHANGED <<tcp, mtap>>, burst => burst', NEW F, F = Fit'
  PROVE  Seq(Fit) \subseteq Seq(F)
<1>1. Fit \subseteq F
  BY DEF Fit, Whole, Pure
<1> QED
  BY <1>1

LEMMA QueuesStillFit ==
  ASSUME QueuesFit, UNCHANGED <<tcp, mtap, cache, sending>>, burst => burst'
  PROVE  QueuesFit'
<1> DEFINE F == Fit'
<1>1. Seq(Fit) \subseteq Seq(F)
  BY StillFit
<1>2. \A s \in Sinkers : cache'[s] \in Seq(F) /\ sending'[s] \in Seq(F)
  BY <1>1 DEF QueuesFit
<1> QED
  BY <1>2 DEF QueuesFit

LEMMA DeliveredQueuesFit ==
  ASSUME TypeOK, QueuesFit, UNCHANGED <<tcp, mtap, burst, sending>>,
         NEW data \in Seq(Fit), Deliver(data)
  PROVE  QueuesFit'
<1> DEFINE F == Fit'
<1>1. Seq(Fit) \subseteq Seq(F)
  BY StillFit
<1>2. \A s \in Sinkers : cache'[s] \in Seq(Fit) /\ sending'[s] \in Seq(Fit)
  <2>1. Fit \in SUBSET Element
    BY DEF Fit
  <2> QED
    BY <2>1, DeliverKeepsFit DEF QueuesFit
<1>3. \A s \in Sinkers : cache'[s] \in Seq(F) /\ sending'[s] \in Seq(F)
  BY <1>1, <1>2
<1> QED
  BY <1>3 DEF QueuesFit

FitInv == QueuesFit /\ AssemblyFits

\* A packet that is lost.
LEMMA LostFits ==
  ASSUME TypeOK, FitInv, Lose, UNCHANGED <<tcp, mtap, sending>>,
         todo' > 0 => (todo' = todo - 1 /\ unit' = unit) \/ todo = 0,
         todo' \in Nat
  PROVE  FitInv'
<1>1. ~tcp /\ ~tcp' /\ lost' /\ burst' = (burst \/ lost) /\ UNCHANGED <<rtpData, offsets, cache, broken>>
  BY DEF Lose, assembly
<1>2. QueuesFit'
  BY <1>1, QueuesStillFit DEF FitInv
<1>3. ASSUME Alive', ~burst', ~mtap'
      PROVE  OfOneUnit'
  <2>1. Alive /\ ~burst /\ ~lost /\ ~mtap /\ OfOneUnit
    BY <1>1, <1>3 DEF Alive, FitInv, AssemblyFits
  <2>2. \A i \in DOMAIN rtpData' : Pure(rtpData[i])'
    BY <1>1, <2>1 DEF OfOneUnit, Pure
  <2>3. todo' > 0 /\ rtpData' # <<>> => rtpData'[1].unit = unit'
    BY <1>1, <2>1 DEF OfOneUnit, TypeOK, CameraType
  <2> QED
    BY <1>1, <2>2, <2>3 DEF OfOneUnit
<1> QED
  BY <1>1, <1>2, <1>3 DEF FitInv, AssemblyFits

\* A packet with whole units, or that ends one: nothing is left.
LEMMA DeliveredFits ==
  ASSUME TypeOK, FitInv, UNCHANGED <<tcp, mtap, burst, sending>>, todo' = 0,
         NEW data \in Seq(Fit), Deliver(data)
  PROVE  FitInv'
<1>1. QueuesFit'
  BY DeliveredQueuesFit DEF FitInv
<1>2. ~mtap' => offsets' = 0
  BY DEF Deliver, assembly, FitInv, AssemblyFits
<1>3. ASSUME Alive'
      PROVE  InOnePiece' /\ OfOneUnit'
  <2>1. rtpData' = <<>>
    BY <1>3, DeliverEmpties
  <2>2. DOMAIN rtpData' = {}
    BY <2>1
  <2> QED
    BY <2>1, <2>2 DEF InOnePiece, OfOneUnit
<1> QED
  BY <1>1, <1>2, <1>3 DEF FitInv, AssemblyFits

LEMMA WholeFits ==
  ASSUME TypeOK, FitInv, UNCHANGED sinkers, NEW b \in Seq(Types), SendWhole(b)
  PROVE  FitInv'
<1>1. /\ Bundle(b) /\ (Lose \/ (Arrives /\ Deliver(Fresh(b))))
      /\ UNCHANGED <<tcp, mtap, sending, todo>> /\ todo = 0 /\ todo' = 0
  BY DEF SendWhole, GetWhole, Bundle, sinkers
<1>2. CASE Lose
  <2>1. todo' \in Nat /\ ~(todo' > 0)
    BY <1>1
  <2> QED
    BY <1>1, <1>2, <2>1, LostFits
<1>3. CASE Arrives /\ Deliver(Fresh(b))
  <2>1. Fresh(b) \in Seq(Fit)
    BY FreshFits DEF TypeOK, CameraType
  <2> QED
    BY <1>1, <1>3, <2>1, DeliveredFits DEF Arrives
<1> QED
  BY <1>1, <1>2, <1>3

LEMMA TimedFits ==
  ASSUME TypeOK, FitInv, UNCHANGED sinkers, NEW b \in Seq(Types), SendTimed(b)
  PROVE  FitInv'
<1>1. /\ mtap /\ Bundle(b) /\ (Lose \/ (Arrives /\ GetTimed(Fresh(b))))
      /\ UNCHANGED <<tcp, mtap, sending, todo>> /\ todo = 0 /\ todo' = 0
  BY DEF SendTimed, Bundle, sinkers
<1>2. CASE Lose
  <2>1. todo' \in Nat /\ ~(todo' > 0)
    BY <1>1
  <2> QED
    BY <1>1, <1>2, <2>1, LostFits
<1>3. CASE Arrives /\ GetTimed(Fresh(b))
  <2>1. rtpData' = Fresh(b) /\ UNCHANGED <<cache, broken, burst>>
    BY <1>3 DEF GetTimed, Keep, Arrives
  <2>2. QueuesFit'
    BY <1>1, <2>1, QueuesStillFit DEF FitInv
  <2>3. InOnePiece'
    <3>1. \A i \in DOMAIN Fresh(b) : Whole(Fresh(b)[i])
      BY FreshFits DEF TypeOK, CameraType
    <3>2. \A i \in DOMAIN rtpData' : Whole(rtpData'[i])
      BY <2>1, <3>1
    <3> QED
      BY <1>1, <3>2 DEF InOnePiece, Whole
  <2> QED
    BY <1>1, <2>2, <2>3 DEF FitInv, AssemblyFits
<1> QED
  BY <1>1, <1>2, <1>3

LEMMA FirstFits ==
  ASSUME TypeOK, FitInv, UNCHANGED sinkers, NEW t \in Types, NEW n \in 2..MaxParts,
         SendFirst(t, n)
  PROVE  FitInv'
<1> DEFINE e == Part(unit + 1, t, n)
<1>1. /\ Lose \/ (Arrives /\ GetFirst(e))
      /\ UNCHANGED <<tcp, mtap, sending>> /\ todo = 0 /\ todo' = n - 1 /\ parts' = n
      /\ unit' = unit + 1
  BY DEF SendFirst, sinkers
<1>2. unit \in Nat /\ n \in Nat /\ n >= 2 /\ unit + 1 \in Nat
  BY RtpReceiverAssumption DEF TypeOK, CameraType
<1>3. /\ e.unit = unit + 1 /\ e.of = n /\ e.got = [i \in 1..1 |-> <<unit + 1, i>>] /\ Pure(e)
  BY <1>2, FirstPiece
<1> HIDE DEF e
<1>4. CASE Lose
  <2>1. todo' \in Nat
    BY <1>1, <1>2
  <2> QED
    BY <1>1, <1>4, <2>1, LostFits
<1>5. CASE Arrives /\ GetFirst(e)
  <2>1. rtpData' = <<e>> /\ UNCHANGED <<cache, broken, burst, offsets>>
    BY <1>5 DEF GetFirst, Keep, Arrives
  <2>2. QueuesFit'
    BY <1>1, <2>1, QueuesStillFit DEF FitInv
  <2>3. /\ Len(rtpData') = 1 /\ rtpData'[1] = e /\ DOMAIN rtpData' = {1}
        /\ todo' > 0 /\ todo' # 0 /\ todo' < parts' /\ Begun' = 1
    BY <1>1, <1>2, <2>1 DEF Begun
  <2>4. InOnePiece'
    BY <1>1, <1>3, <2>3 DEF InOnePiece, Pieces
  <2>5. OfOneUnit'
    BY <1>1, <1>3, <2>3 DEF OfOneUnit, Pure
  <2>6. ~mtap' => offsets' = 0
    BY <1>1, <2>1 DEF FitInv, AssemblyFits
  <2> QED
    BY <2>2, <2>4, <2>5, <2>6 DEF FitInv, AssemblyFits
<1> QED
  BY <1>1, <1>4, <1>5

LEMMA NextFits ==
  ASSUME TypeOK, FitInv, UNCHANGED sinkers, SendNext
  PROVE  FitInv'
<1> DEFINE piece == <<unit, Begun + 1>>
           more == [rtpData EXCEPT ![1].got = Append(@, piece)]
           data == IF rtpData = <<>> THEN <<>> ELSE more
<1>1. /\ Lose \/ (Arrives /\ GetNext(piece, todo = 1))
      /\ Alive
      /\ UNCHANGED <<tcp, mtap, sending, unit>> /\ todo > 0 /\ todo' = todo - 1
      /\ todo # 1 => parts' = parts
  BY DEF SendNext, sinkers, Begun
<1>2. /\ todo \in Nat /\ parts \in Nat /\ todo <= parts /\ Begun \in Nat /\ unit \in Nat
      /\ todo' \in Nat /\ piece \in Nat \X Nat /\ todo # 0
  BY <1>1 DEF TypeOK, CameraType, Begun
<1>3. CASE Lose
  BY <1>1, <1>2, <1>3, LostFits
<1>4. CASE Arrives /\ GetNext(piece, todo = 1)
  <2>1. /\ tcp => InOnePiece
        /\ ~burst /\ ~mtap => OfOneUnit
    BY <1>1 DEF FitInv, AssemblyFits
  <2>2. /\ data \in Seq(Element) /\ Len(data) = Len(rtpData)
        /\ tcp => /\ Len(data) = 1 /\ data[1].unit = unit /\ data[1].of = parts
                  /\ data[1].got = Pieces(unit, Begun + 1)
        /\ ~burst /\ ~mtap => /\ data # <<>> => data[1].unit = unit
                              /\ \A i \in DOMAIN data : Pure(data[i])
    <3>1. CASE rtpData = <<>>
      <4>1. data = <<>> /\ DOMAIN data = {} /\ Len(rtpData) = 0 /\ ~tcp
        BY <1>2, <2>1, <3>1 DEF InOnePiece
      <4> HIDE DEF data
      <4> QED
        BY <3>1, <4>1, EmptySeq
    <3>2. CASE rtpData # <<>>
      <4>1. /\ more \in Seq(Element) /\ Len(more) = Len(rtpData)
            /\ 1 \in DOMAIN rtpData /\ rtpData[1] \in Element
            /\ more[1] = [rtpData[1] EXCEPT !.got = Append(@, piece)]
            /\ \A i \in DOMAIN rtpData : i # 1 => more[i] = rtpData[i]
        BY <1>2, <3>2, MoreOfTheFront
      <4> HIDE DEF more
      <4>2. DOMAIN more = DOMAIN rtpData
        BY <4>1, LenProperties DEF TypeOK, AssemblyType
      <4>3. ASSUME rtpData[1].unit = unit
            PROVE  /\ more[1].unit = unit /\ more[1].of = rtpData[1].of
                   /\ rtpData[1].got = Pieces(unit, Begun)
                        => more[1].got = Pieces(unit, Begun + 1)
                   /\ Pure(rtpData[1]) => Pure(more[1])
        <5> DEFINE old == rtpData[1]
                   new == more[1]
        <5>1. /\ old \in Element /\ unit \in Nat /\ Begun \in Nat /\ old.unit = unit
              /\ new = [old EXCEPT !.got = Append(@, <<unit, Begun + 1>>)]
          BY <1>2, <4>1, <4>3
        <5>3. new \in Element
          <6>1. 1 \in DOMAIN more /\ DOMAIN more = 1..Len(more)
            BY <4>1, <4>2, LenProperties
          <6> QED
            BY <4>1, <6>1, ElementOfSeq
        <5> HIDE DEF old, new
        <5>4. /\ new.unit = unit /\ new.of = old.of
              /\ new.got = Append(old.got, <<unit, Begun + 1>>)
          BY <5>1 DEF Element
        <5>2. /\ (old.got = Pieces(unit, Begun) => new.got = Pieces(unit, Begun + 1))
              /\ (Pure(old) => Pure(new))
          BY <5>1, <5>3, <5>4, NextPiece
        <5> QED
          BY <5>2, <5>4 DEF old, new
      <4>4. tcp => /\ Len(more) = 1 /\ more[1].unit = unit /\ more[1].of = parts
                   /\ more[1].got = Pieces(unit, Begun + 1)
        BY <1>2, <2>1, <4>1, <4>3 DEF InOnePiece
      <4>5. ~burst /\ ~mtap => /\ more[1].unit = unit
                               /\ \A i \in DOMAIN more : Pure(more[i])
        <5>1. ASSUME ~burst, ~mtap
              PROVE  rtpData[1].unit = unit /\ \A i \in DOMAIN rtpData : Pure(rtpData[i])
          BY <1>1, <2>1, <3>2, <5>1 DEF OfOneUnit
        <5> QED
          BY <4>1, <4>2, <4>3, <5>1
      <4> QED
        BY <3>2, <4>1, <4>4, <4>5
    <3> QED
      BY <3>1, <3>2
  <2> HIDE DEF data
  <2>3. CASE todo = 1
    <3>1. Deliver(data)
      BY <1>4, <2>3 DEF GetNext, data
    <3>2. Begun + 1 = parts
      BY <1>2, <2>3 DEF Begun
    <3>3. \A i \in DOMAIN data : data[i] \in Fit
      <4>1. ASSUME NEW i \in DOMAIN data
            PROVE  data[i] \in Element /\ (tcp => i = 1)
        <5>1. data[i] \in Element /\ DOMAIN data = 1..Len(data)
          BY <2>2, LenProperties
        <5> QED
          BY <2>2, <5>1
      <4>2. tcp => Whole(data[1])
        BY <2>2, <3>2 DEF Whole, Pieces
      <4> QED
        BY <2>2, <4>1, <4>2 DEF Fit
    <3>4. data \in Seq(Fit)
      <4>1. DOMAIN data = 1..Len(data) /\ Len(data) \in Nat /\ data \in [1..Len(data) -> Element]
        BY <2>2, LenProperties
      <4>2. data \in [1..Len(data) -> Fit]
        BY <3>3, <4>1
      <4> QED
        BY <4>1, <4>2
    <3>5. todo' = 0
      BY <1>1, <2>3
    <3> QED
      BY <1>1, <1>4, <3>1, <3>4, <3>5, DeliveredFits DEF Arrives
  <2>4. CASE todo # 1
    <3>1. rtpData' = data /\ UNCHANGED <<cache, broken, burst, offsets>>
      BY <1>4, <2>4 DEF GetNext, Keep, Arrives, data
    <3>2. QueuesFit'
      BY <1>1, <3>1, QueuesStillFit DEF FitInv
    <3>3. ~mtap' => offsets' = 0
      BY <1>1, <3>1 DEF FitInv, AssemblyFits
    <3>4. todo' # 0 /\ todo' < parts' /\ Begun' = Begun + 1 /\ todo' > 0
      BY <1>1, <1>2, <2>4 DEF Begun
    <3>5. tcp => InOnePiece'
      BY <1>1, <2>2, <2>4, <3>1, <3>4 DEF InOnePiece
    <3>6. ~burst /\ ~mtap => OfOneUnit'
      BY <1>1, <2>2, <3>1, <3>4 DEF OfOneUnit, Pure
    <3> QED
      BY <1>1, <3>1, <3>2, <3>3, <3>5, <3>6 DEF FitInv, AssemblyFits
  <2> QED
    BY <2>3, <2>4
<1> QED
  BY <1>1, <1>3, <1>4

LEMMA ReceiveFits ==
  ASSUME TypeOK, FitInv, UNCHANGED sinkers, Receive
  PROVE  FitInv'
<1>1. ASSUME NEW t \in Types, SendWhole(<<t>>)
      PROVE  FitInv'
  BY <1>1, BundlesAreSequences, WholeFits
<1>2. ASSUME NEW b \in Bundles, SendWhole(b)
      PROVE  FitInv'
  BY <1>2, BundlesAreSequences, WholeFits
<1>3. ASSUME NEW b \in Bundles, SendTimed(b)
      PROVE  FitInv'
  BY <1>3, BundlesAreSequences, TimedFits
<1>4. ASSUME NEW t \in Types, NEW n \in 2..MaxParts, SendFirst(t, n)
      PROVE  FitInv'
  BY <1>4, FirstFits
<1>5. CASE SendNext
  BY <1>5, NextFits
<1>6. CASE Describe
  <2>1. /\ UNCHANGED <<tcp, mtap, unit, parts, todo, lost, burst, rtpData, offsets, cache, broken>>
        /\ UNCHANGED sending
    BY <1>6 DEF Describe, assembly, feed, sinkers
  <2>2. QueuesFit'
    BY <2>1, QueuesStillFit DEF FitInv
  <2>3. AssemblyFits'
    BY <2>1 DEF FitInv, AssemblyFits, Alive, InOnePiece, OfOneUnit, Begun, Whole, Pure
  <2> QED
    BY <2>2, <2>3 DEF FitInv
<1> QED
  BY <1>1, <1>2, <1>3, <1>4, <1>5, <1>6 DEF Receive

LEMMA TakenFits ==
  ASSUME NEW F, NEW s \in Sinkers, cache[s] \in Seq(F), sending[s] \in Seq(F)
  PROVE  Taken(s) \in Seq(F)
<1> DEFINE old == sending[s]
           new == cache[s]
           room == Len(old) + Len(new) <= MaxCache
           over == IF Len(new) > MaxCache THEN Len(new) - MaxCache ELSE 0
           rest == IF room \/ new = <<>> THEN old ELSE <<>>
           end == SubSeq(new, over + 1, Len(new))
<1>1. Len(new) \in Nat /\ MaxCache \in Nat
  BY LenProperties, LiveSinkerAssumption
<1>2. rest \in Seq(F)
  <2>1. <<>> \in Seq(F)
    BY EmptySeq
  <2> HIDE DEF room
  <2> QED
    BY <2>1
<1>3. end \in Seq(F)
  <2>1. over + 1 \in Int /\ over + 1 \in Nat \ {0}
    BY <1>1
  <2> HIDE DEF over
  <2>2. \A i \in over + 1..Len(new) : new[i] \in F
    BY <1>1, <2>1, ElementOfSeq
  <2> QED
    BY <1>1, <2>1, <2>2, SubSeqProperties
<1>4. Taken(s) = rest \o end
  BY DEF Taken
<1> HIDE DEF rest, end
<1> QED
  BY <1>2, <1>3, <1>4, ConcatProperties

LEMMA InitFits == Init => FitInv
<1> SUFFICES ASSUME Init PROVE FitInv
  OBVIOUS
<1>1. QueuesFit
  BY EmptySeq DEF Init, ReceiverInit, QueuesFit
<1>2. todo = 0 /\ offsets = 0 /\ rtpData = <<>> /\ DOMAIN rtpData = {}
  BY DEF Init, ReceiverInit
<1> QED
  BY <1>1, <1>2 DEF FitInv, AssemblyFits, InOnePiece, OfOneUnit

\* The steps of the sinkers and of the job's tasks leave the assembly alone.
LEMMA SinkersFit ==
  ASSUME TypeOK, FitInv, UNCHANGED <<camera, assembly>>, Alive' => Alive,
         \A s \in Sinkers : cache[s] \in Seq(Fit) /\ sending[s] \in Seq(Fit)
                               => cache'[s] \in Seq(Fit) /\ sending'[s] \in Seq(Fit)
  PROVE  FitInv'
<1>1. UNCHANGED <<tcp, mtap, unit, parts, todo, lost, burst, rtpData, offsets>>
  BY DEF camera, assembly
<1>2. \A s \in Sinkers : cache'[s] \in Seq(Fit) /\ sending'[s] \in Seq(Fit)
  BY DEF FitInv, QueuesFit
<1> DEFINE F == Fit'
<1>3. Seq(Fit) \subseteq Seq(F)
  BY <1>1, StillFit
<1>4. \A s \in Sinkers : cache'[s] \in Seq(F) /\ sending'[s] \in Seq(F)
  BY <1>2, <1>3
<1>5. QueuesFit'
  BY <1>4 DEF QueuesFit
<1>6. AssemblyFits'
  BY <1>1 DEF FitInv, AssemblyFits, Alive, InOnePiece, OfOneUnit, Begun, Whole, Pure
<1> QED
  BY <1>5, <1>6 DEF FitInv

LEMMA StepFits == TypeOK /\ FitInv /\ [Next]_vars => FitInv'
<1> SUFFICES ASSUME TypeOK, FitInv, [Next]_vars PROVE FitInv'
  OBVIOUS
<1>1. CASE Receive /\ UNCHANGED sinkers
  BY <1>1, ReceiveFits
<1>2. CASE UNCHANGED <<camera, assembly, cache, sending>> /\ (Alive' => Alive)
  BY <1>2, SinkersFit
<1>3. ASSUME NEW r \in Sinkers,
             LinkSinker(r) \/ UnlinkSinker(r) \/ StartStream(r) \/ StopStream(r) \/ Hush(r)
               \/ EndRound(r) \/ Paused(r)
      PROVE  UNCHANGED <<camera, assembly, cache, sending>> /\ (Alive' => Alive)
  BY <1>3 DEF LinkSinker, Link, UnlinkSinker, Unlink, StartStream, StopStream, Hush, EndRound,
              Paused, feed, sinkers, Alive
<1>4. ASSUME NEW r \in Sinkers, Fetch(r)
      PROVE  FitInv'
  <2>1. UNCHANGED <<camera, assembly>> /\ (Alive' => Alive)
    BY <1>4 DEF Fetch, Alive
  <2>2. ASSUME NEW s \in Sinkers, cache[s] \in Seq(Fit), sending[s] \in Seq(Fit)
        PROVE  cache'[s] \in Seq(Fit) /\ sending'[s] \in Seq(Fit)
    <3>1. Taken(s) \in Seq(Fit) /\ <<>> \in Seq(Fit)
      BY <2>2, TakenFits, EmptySeq
    <3>2. \/ cache'[s] = cache[s] /\ sending'[s] = sending[s]
          \/ cache'[s] = <<>> /\ sending'[s] = Taken(s)
      BY <1>4 DEF Fetch, TypeOK, AssemblyType, SinkersType
    <3> QED
      BY <2>2, <3>1, <3>2
  <2> QED
    BY <2>1, <2>2, SinkersFit
<1>5. ASSUME NEW r \in Sinkers, Send(r)
      PROVE  FitInv'
  <2>1. UNCHANGED <<camera, assembly, cache>> /\ (Alive' => Alive)
    BY <1>5 DEF Send, feed, Alive
  <2>2. ASSUME NEW s \in Sinkers, cache[s] \in Seq(Fit), sending[s] \in Seq(Fit)
        PROVE  cache'[s] \in Seq(Fit) /\ sending'[s] \in Seq(Fit)
    <3>1. \/ sending'[s] = sending[s]
          \/ sending[s] # <<>> /\ sending'[s] = Tail(sending[s])
      BY <1>5 DEF Send, TypeOK, SinkersType
    <3>2. sending[s] # <<>> => Tail(sending[s]) \in Seq(Fit)
      BY <2>2, HeadTailProperties
    <3> QED
      BY <2>1, <2>2, <3>1, <3>2
  <2> QED
    BY <2>1, <2>2, SinkersFit
<1>6. ASSUME NEW r \in Sinkers, Destroyed(r)
      PROVE  FitInv'
  <2>1. UNCHANGED <<camera, assembly>> /\ (Alive' => Alive)
    BY <1>6 DEF Destroyed, Alive
  <2>2. ASSUME NEW s \in Sinkers, cache[s] \in Seq(Fit), sending[s] \in Seq(Fit)
        PROVE  cache'[s] \in Seq(Fit) /\ sending'[s] \in Seq(Fit)
    <3>1. \/ cache'[s] = cache[s] /\ sending'[s] = sending[s]
          \/ cache'[s] = <<>> /\ sending'[s] = <<>>
      BY <1>6 DEF Destroyed, TypeOK, AssemblyType, SinkersType
    <3> QED
      BY <2>2, <3>1, EmptySeq
  <2> QED
    BY <2>1, <2>2, SinkersFit
<1>7. CASE UNCHANGED vars
  BY <1>2, <1>7 DEF vars, feed, sinkers, Alive
<1> QED
  BY <1>1, <1>2, <1>3, <1>4, <1>5, <1>6, <1>7 DEF Next, SendThread, Executor

LEMMA PiecesShow == TypeOK /\ FitInv => PiecesFit
<1> SUFFICES ASSUME TypeOK, FitInv, NEW s \in Sinkers, NEW i \in DOMAIN Queue(s)
             PROVE  /\ tcp => Whole(Queue(s)[i])
                    /\ ~burst /\ ~mtap => \A p \in Range(Queue(s)[i].got) : p[1] = Queue(s)[i].unit
  BY DEF PiecesFit
<1>1. Queue(s) \in Seq(Fit)
  BY ConcatProperties DEF FitInv, QueuesFit, Queue
<1>2. Queue(s)[i] \in Fit
  BY <1>1, LenProperties
<1> QED
  BY <1>2 DEF Fit, Pure

\* PiecesFit, for any sinkers, any units and any number of fragments: what
\* parseH264Payload puts together over TCP is queued whole, in both packetization
\* modes, and over UDP no unit gets a piece of another before two packets in a
\* row were lost.
THEOREM PiecesAreFit == Spec => []PiecesFit
<1>1. Init => TypeOK /\ FitInv
  BY InitType, InitFits
<1>2. TypeOK /\ FitInv /\ [Next]_vars => (TypeOK /\ FitInv)'
  BY StepType, StepFits
<1> QED
  BY <1>1, <1>2, PiecesShow, PTL DEF Spec
=============================================================================
