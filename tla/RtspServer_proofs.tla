--------------------------- MODULE RtspServer_proofs ---------------------------
(* Proofs about RtspServer, for any number of clients, descriptors, ids    *)
(* and requests: the socket thread's invariant (sessions, times, the event *)
(* being handled), then that of the streams (ids, starts, tasks, the list) *)
(* which rests on it, and what follows from each.                          *)
EXTENDS RtspServer, FiniteSetTheorems, SequenceTheorems, WellFoundedInduction,
        TLAPS

-----------------------------------------------------------------------------
(* Bags of tasks, and the list without some of its streams.                *)

LEMMA BagSum ==
  ASSUME NEW A, NEW B, IsABag(A), IsABag(B)
  PROVE  IsABag(A (+) B) /\ BagToSet(A (+) B) = BagToSet(A) \cup BagToSet(B)
<1> DEFINE C == A (+) B
<1>1. DOMAIN C = DOMAIN A \cup DOMAIN B
  BY DEF (+)
<1>2. ASSUME NEW e \in DOMAIN C PROVE C[e] \in {n \in Nat : n > 0}
  BY <1>1, <1>2 DEF (+), IsABag
<1>3. C = [e \in DOMAIN C |-> C[e]]
  BY <1>1 DEF (+)
<1>. QED BY <1>1, <1>2, <1>3 DEF IsABag, BagToSet

LEMMA OneTask ==
  ASSUME NEW t
  PROVE  IsABag(SetToBag({t})) /\ BagToSet(SetToBag({t})) = {t}
  BY DEF IsABag, SetToBag, BagToSet

LEMMA BagTake ==
  ASSUME NEW A, IsABag(A), NEW t
  PROVE  /\ IsABag(A (-) SetToBag({t}))
         /\ BagToSet(A (-) SetToBag({t})) \subseteq BagToSet(A)
<1> DEFINE C == [e \in DOMAIN A |->
                   IF e \in DOMAIN SetToBag({t}) THEN A[e] - SetToBag({t})[e] ELSE A[e]]
           D == A (-) SetToBag({t})
<1>1. DOMAIN SetToBag({t}) = {t} /\ SetToBag({t})[t] = 1
  BY DEF SetToBag
<1>2. \A e \in DOMAIN A : C[e] \in Int
  BY <1>1 DEF IsABag
<1>3. D = [e \in {d \in DOMAIN A : C[d] > 0} |-> C[e]]
  BY DEF (-)
<1> HIDE DEF C, D
<1>4. ASSUME NEW e \in DOMAIN D PROVE D[e] \in {n \in Nat : n > 0}
  BY <1>2, <1>3
<1>5. DOMAIN D \subseteq DOMAIN A /\ D = [e \in DOMAIN D |-> D[e]]
  BY <1>3
<1>6. IsABag(D)
  BY <1>4, <1>5 DEF IsABag
<1>. QED BY <1>5, <1>6 DEF BagToSet, D

\* Streams that ask for their own stop name an id of theirs.
LEMMA NamesStop ==
  ASSUME streams \in Seq(Stream), NEW asking \in SUBSET DOMAIN streams
  PROVE  /\ IsABag(StopNames(asking))
         /\ BagToSet(StopNames(asking)) \subseteq [op : {"stopName"}, id : Ids]
<1> DEFINE T == {[op |-> "stopName", id |-> streams[i].id] : i \in asking}
           Of(t) == {i \in asking : streams[i].id = t.id}
<1>1. IsFiniteSet(asking)
  <2>1. Len(streams) \in Nat /\ DOMAIN streams = 1..Len(streams)
    BY LenProperties
  <2>2. IsFiniteSet(1..Len(streams))
    BY <2>1, FS_Interval
  <2>. QED BY <2>1, <2>2, FS_Subset
<1>2. ASSUME NEW t \in T PROVE Cardinality(Of(t)) \in Nat /\ Cardinality(Of(t)) > 0
  <2>1. IsFiniteSet(Of(t))
    BY <1>1, FS_Subset
  <2>2. Of(t) # {}
    BY <1>2
  <2> HIDE DEF Of
  <2>. QED BY <2>1, <2>2, FS_EmptySet, FS_CardinalityType
<1>3. T \subseteq [op : {"stopName"}, id : Ids]
  <2>1. \A i \in DOMAIN streams : streams[i] \in Stream
    OBVIOUS
  <2>2. \A x \in Stream : x.id \in Ids
    BY DEF Stream
  <2>3. \A i \in asking : streams[i].id \in Ids
    BY <2>1, <2>2
  <2>. QED BY <2>3
<1>4. StopNames(asking) = [t \in T |-> Cardinality(Of(t))]
  BY DEF StopNames
<1> HIDE DEF T, Of
<1>. QED BY <1>2, <1>3, <1>4 DEF IsABag, BagToSet

\* A set with 0 in it that has the successor of each of its numbers has all.
LEMMA NaturalsByStep ==
  ASSUME NEW T, 0 \in T, \A n \in Nat : n \in T => n + 1 \in T
  PROVE  \A n \in Nat : n \in T
<1> DEFINE R == {p \in Nat \X Nat : p[1] < p[2]}
           S == Nat \ T
<1>1. OpToRel(<, Nat) = R
  BY DEF OpToRel
<1>2. IsWellFoundedOn(R, Nat)
  BY <1>1, NatLessThanWellFounded
<1> HIDE DEF R
<1> SUFFICES ASSUME S # {} PROVE FALSE
  OBVIOUS
<1>3. PICK x \in S : \A y \in S : ~(<<y, x>> \in R)
  BY <1>2, WFMin
<1>4. x # 0 /\ x - 1 \in Nat /\ x - 1 < x /\ (x - 1) + 1 = x
  OBVIOUS
<1>5. x - 1 \in S
  BY <1>4
<1>6. <<x - 1, x>> \in R
  BY <1>4 DEF R
<1>. QED BY <1>3, <1>5, <1>6

\* The list that Without has built after each of the streams.
LEMMA WithoutBySteps ==
  ASSUME streams \in Seq(Stream), NEW gone
  PROVE  \E f : /\ f[0] = <<>>
                /\ \A i \in 1..Len(streams) :
                     f[i] = IF streams[i] \in gone THEN f[i - 1]
                            ELSE Append(f[i - 1], streams[i])
                /\ Without(gone) = f[Len(streams)]
<1> DEFINE N == Len(streams)
           Step(i, q) == IF streams[i] \in gone THEN q ELSE Append(q, streams[i])
           IsUpTo(n, g) ==
             g = [i \in 0..n |-> IF i = 0 THEN <<>>
                                 ELSE IF streams[i] \in gone THEN g[i - 1]
                                 ELSE Append(g[i - 1], streams[i])]
           T == {n \in Nat : \E g : IsUpTo(n, g)}
<1>1. 0 \in T
  <2> DEFINE g == [i \in 0..0 |-> <<>>]
  <2>1. IsUpTo(0, g)
    OBVIOUS
  <2>. QED BY <2>1
<1>2. ASSUME NEW n \in Nat, n \in T
      PROVE  n + 1 \in T
  <2>1. PICK g : IsUpTo(n, g)
    BY <1>2
  <2> DEFINE h == [i \in 0..n + 1 |-> IF i = n + 1 THEN Step(n + 1, g[n]) ELSE g[i]]
  <2>2. ASSUME NEW i \in 0..n + 1
        PROVE  h[i] = IF i = 0 THEN <<>>
                      ELSE IF streams[i] \in gone THEN h[i - 1]
                      ELSE Append(h[i - 1], streams[i])
    <3>1. CASE i = n + 1
      <4>1. h[i] = Step(n + 1, g[n]) /\ i # 0
        BY <3>1
      <4>2. h[i - 1] = g[n]
        BY <3>1
      <4>. QED BY <3>1, <4>1, <4>2
    <3>2. CASE i # n + 1
      <4>1. i \in 0..n /\ h[i] = g[i]
        BY <3>2
      <4>2. i # 0 => h[i - 1] = g[i - 1]
        BY <3>2
      <4>3. g[i] = IF i = 0 THEN <<>>
                   ELSE IF streams[i] \in gone THEN g[i - 1]
                   ELSE Append(g[i - 1], streams[i])
        BY <2>1, <4>1
      <4>. QED BY <4>1, <4>2, <4>3
    <3>. QED BY <3>1, <3>2
  <2>3. IsUpTo(n + 1, h)
    <3> HIDE DEF h
    <3> DEFINE k == [i \in 0..n + 1 |-> IF i = 0 THEN <<>>
                      ELSE IF streams[i] \in gone THEN h[i - 1]
                      ELSE Append(h[i - 1], streams[i])]
    <3>1. h = [i \in 0..n + 1 |-> h[i]]
      BY DEF h
    <3>2. k = [i \in 0..n + 1 |-> h[i]]
      BY <2>2
    <3>. QED BY <3>1, <3>2
  <2>4. \E k : IsUpTo(n + 1, k)
    <3> HIDE DEF IsUpTo, h
    <3>. QED BY <2>3
  <2> HIDE DEF IsUpTo
  <2>. QED BY <2>4
<1>3. N \in T
  <2> HIDE DEF T
  <2>. QED BY <1>1, <1>2, NaturalsByStep, LenProperties
<1> DEFINE F == CHOOSE g : IsUpTo(N, g)
<1>4. IsUpTo(N, F)
  BY <1>3
<1>5. Without(gone) = F[Len(streams)]
  BY DEF Without
<1>6. F[0] = <<>>
  <2> HIDE DEF F
  <2>. QED BY <1>4, LenProperties
<1>7. ASSUME NEW i \in 1..Len(streams)
      PROVE  F[i] = IF streams[i] \in gone THEN F[i - 1]
                    ELSE Append(F[i - 1], streams[i])
  <2> HIDE DEF F
  <2>1. i \in 0..N /\ i # 0
    BY LenProperties
  <2>2. F = [j \in 0..N |-> IF j = 0 THEN <<>>
                             ELSE IF streams[j] \in gone THEN F[j - 1]
                             ELSE Append(F[j - 1], streams[j])]
    BY <1>4
  <2> HIDE DEF N
  <2>. QED BY <2>1, <2>2
<1> HIDE DEF F
<1>. QED BY <1>5, <1>6, <1>7

\* What is left was listed, and none of it is gone.
LEMMA WithoutIsLeft ==
  ASSUME streams \in Seq(Stream), NEW gone
  PROVE  Without(gone) \in Seq(Listed \ gone)
<1> DEFINE E == Listed \ gone
<1>1. PICK f : /\ f[0] = <<>>
               /\ \A i \in 1..Len(streams) :
                    f[i] = IF streams[i] \in gone THEN f[i - 1]
                           ELSE Append(f[i - 1], streams[i])
               /\ Without(gone) = f[Len(streams)]
  BY WithoutBySteps
<1>2. Len(streams) \in Nat /\ DOMAIN streams = 1..Len(streams)
  BY LenProperties
<1>3. \A i \in 1..Len(streams) : streams[i] \notin gone => streams[i] \in E
  BY <1>2 DEF Listed
<1> HIDE DEF E
<1> DEFINE T == {n \in Nat : n <= Len(streams) => f[n] \in Seq(E)}
<1>4. 0 \in T
  <2>1. <<>> \in Seq(E)
    OBVIOUS
  <2>. QED BY <1>1, <2>1
<1>5. ASSUME NEW n \in Nat, n \in T
      PROVE  n + 1 \in T
  <2>1. CASE n + 1 <= Len(streams)
    <3>1. n + 1 \in 1..Len(streams) /\ (n + 1) - 1 = n /\ f[n] \in Seq(E)
      BY <1>2, <1>5, <2>1
    <3>2. f[n + 1] = IF streams[n + 1] \in gone THEN f[n]
                     ELSE Append(f[n], streams[n + 1])
      BY <1>1, <3>1
    <3>3. f[n + 1] \in Seq(E)
      BY <1>3, <3>1, <3>2
    <3>. QED BY <3>3
  <2>2. CASE ~(n + 1 <= Len(streams))
    BY <2>2
  <2>. QED BY <2>1, <2>2
<1> HIDE DEF T
<1>6. Len(streams) \in T
  BY <1>2, <1>4, <1>5, NaturalsByStep
<1>. QED BY <1>1, <1>2, <1>6 DEF T, E

-----------------------------------------------------------------------------
(* The socket thread's invariant.                                          *)

USE RtspServerAssumption

\* A session list as the socket thread keeps it.
Good(ss) ==
  /\ ss \in Seq(Session)
  /\ \A i \in DOMAIN ss :
       /\ ss[i].state # "init" <=> ss[i].id # None
       /\ ss[i].id # None => ss[i].track = "track1"
  /\ \A i, j \in DOMAIN ss : ss[i].track = ss[j].track => i = j
  /\ \A i \in DOMAIN ss : ss[i].track = None => Len(ss) = 1

\* The rest of the invariant, with the type of buffer left to Good.
Sockets ==
  /\ up \in BOOLEAN
  /\ client \in [Clients -> {"away", "up", "leaving", "lost", "gone"}]
  /\ fd \in [Clients -> Fds \cup {None}]
  /\ asked \in 0..MaxRequests
  /\ quiet \in [Clients -> Ages]
  /\ idle \in [Fds -> Ages \cup {None}]
  /\ callback \in Event \cup {None}
  /\ ids \subseteq Ids
  /\ ConnectedHaveSockets /\ SocketsAreDistinct /\ CallbackIsOfOpenSocket
  /\ AgesAgree /\ DueAreQuiet

\* Buffers are functions to good lists, empty where no socket is open.
Buffers ==
  /\ buffer \in [Fds -> Seq(Session)]
  /\ \A f \in Fds : Good(buffer[f])
  /\ NothingLeftOfClosedSockets

\* The invariant in the form in which the steps preserve it.
LEMMA InvSplits == Inv <=> Sockets /\ Buffers
  BY DEF Inv, RecordsAgree, Sockets, Buffers, Good, ServerTypeOK, ReadyIsSetUp,
         OneSessionPerTrack, TracksAreKnown

LEMMA EmptyIsGood == Good(<<>>)
  BY DEF Good

LEMMA DefaultIsGood == Default \in Session /\ Good(<<Default>>)
<1>1. Default \in Session
  BY DEF Default, Session, States
<1>2. <<Default>> \in Seq(Session) /\ Len(<<Default>>) = 1
         /\ DOMAIN <<Default>> = {1} /\ <<Default>>[1] = Default
  BY <1>1
<1>. QED BY <1>1, <1>2 DEF Good, Default

\* Get_RTSP_buffer hands out a good list with a session.
LEMMA SessionsAreGood ==
  ASSUME Buffers, NEW f \in Fds
  PROVE  /\ Good(Sessions(f))
         /\ Sessions(f) # <<>> /\ 1 \in DOMAIN Sessions(f)
         /\ Sessions(f) \in Seq(Session)
<1>1. CASE buffer[f] = <<>>
  BY <1>1, DefaultIsGood DEF Sessions
<1>2. CASE buffer[f] # <<>>
  BY <1>2 DEF Sessions, Buffers, Good
<1>. QED BY <1>1, <1>2

\* RTSP_state_machine turns to a session of the list.
LEMMA ChosenIsThere ==
  ASSUME Buffers, NEW f \in Fds, NEW header
  PROVE  Chosen(f, header) \in DOMAIN Sessions(f)
<1> DEFINE match == {i \in DOMAIN Sessions(f) : Sessions(f)[i].id = header}
<1>1. CASE header = None \/ match = {}
  BY <1>1, SessionsAreGood DEF Chosen
<1>2. CASE header # None /\ match # {}
  <2>1. match \subseteq Nat /\ match # {}
    BY <1>2, SessionsAreGood
  <2> DEFINE R == OpToRel(<, Nat)
  <2>2. \E i \in match : \A j \in match : ~ (<<j, i>> \in R)
    <3> HIDE DEF match, R
    <3>1. IsWellFoundedOn(R, Nat)
      BY NatLessThanWellFounded DEF R
    <3>. QED BY <2>1, <3>1, WFMin
  <2>3. \A i, j \in Nat : j < i => <<j, i>> \in R
    BY DEF OpToRel
  <2>4. \E i \in match : \A j \in match : i <= j
    <3> HIDE DEF match, R
    <3>1. PICK i \in match : \A j \in match : ~ (<<j, i>> \in R)
      BY <2>2
    <3>2. \A j \in match : i <= j
      <4>1. i \in Nat
        BY <2>1
      <4>2. ASSUME NEW j \in match PROVE i <= j
        <5>1. j \in Nat
          BY <2>1
        <5>2. ~ (j < i)
          BY <2>3, <3>1, <4>1, <5>1
        <5>. QED BY <4>1, <5>1, <5>2
      <4>. QED BY <4>2
    <3>. QED BY <3>2
  <2>. QED BY <1>2, <2>4 DEF Chosen
<1>. QED BY <1>1, <1>2

-----------------------------------------------------------------------------
(* What the handlers make of a session list.                               *)

\* A session may change its state between READY and PLAY.
LEMMA StateChangeIsGood ==
  ASSUME NEW ss, Good(ss), NEW i \in DOMAIN ss, ss[i].state # "init",
         NEW state \in {"ready", "play"}
  PROVE  Good([ss EXCEPT ![i].state = state])
<1> DEFINE tt == [ss EXCEPT ![i].state = state]
<1>1. /\ ss \in Seq(Session) /\ Len(ss) \in Nat /\ DOMAIN ss = 1..Len(ss)
      /\ \A j \in DOMAIN ss : ss[j] \in Session
  BY DEF Good
<1>2. tt \in Seq(Session) /\ Len(tt) = Len(ss) /\ DOMAIN tt = DOMAIN ss
  BY <1>1 DEF Session, States
<1>3. \A j \in DOMAIN ss :
        /\ tt[j].id = ss[j].id /\ tt[j].track = ss[j].track
        /\ tt[j].state = IF j = i THEN state ELSE ss[j].state
  BY <1>1 DEF Session
<1>6. Good(tt)
  <2> HIDE DEF tt
  <2>1. ASSUME NEW j \in DOMAIN tt
        PROVE  /\ tt[j].state # "init" <=> tt[j].id # None
               /\ tt[j].id # None => tt[j].track = "track1"
    BY <1>2, <1>3 DEF Good
  <2>2. \A j, k \in DOMAIN tt : tt[j].track = tt[k].track => j = k
    BY <1>2, <1>3 DEF Good
  <2>3. \A j \in DOMAIN tt : tt[j].track = None => Len(tt) = 1
    BY <1>2, <1>3 DEF Good
  <2>4. tt \in Seq(Session)
    BY <1>2
  <2>. QED BY <2>1, <2>2, <2>3, <2>4 DEF Good
<1>. QED BY <1>6

\* RTSP_SETUP gives the control id to a session that has none, or finds the one
\* that has it, or adds one: at its target there is a session of this track, and
\* the list stays good.
LEMMA SetupListIsGood ==
  ASSUME Sockets, Buffers, callback # None, callback.req # None,
         callback.req.m = "SETUP"
  PROVE  LET track == callback.req.what
             i     == SetupTarget(track)
             ss    == SetupList(track)
         IN /\ Good(ss) /\ ss # <<>>
            /\ i \in DOMAIN ss /\ ss[i].track = track
<1> DEFINE track == callback.req.what
           i     == SetupTarget(track)
           ss    == SetupList(track)
           n     == Len(list)
           same  == {k \in DOMAIN list : list[k].track = track}
<1>1. /\ track \in Tracks /\ track # None /\ callback.header = None
      /\ callback.fd \in Fds
  BY DEF Sockets, CallbackIsOfOpenSocket, Event
<1>2. chosen = 1
  BY <1>1 DEF chosen, Chosen
<1>3. /\ Good(list) /\ list \in Seq(Session) /\ n \in Nat \ {0}
      /\ DOMAIN list = 1..n /\ \A k \in 1..n : list[k] \in Session
  BY <1>1, SessionsAreGood DEF list
<1>4. CASE on.track = None
  <2>1. list[1].track = None /\ n = 1 /\ i = 1
    BY <1>2, <1>3, <1>4 DEF on, SetupTarget, Good
  <2>2. ss = [list EXCEPT ![1].track = track]
    BY <1>3, <2>1 DEF SetupList
  <2>3. /\ ss \in Seq(Session) /\ Len(ss) = 1 /\ DOMAIN ss = {1}
        /\ ss[1] = [list[1] EXCEPT !.track = track]
    BY <1>1, <1>3, <2>1, <2>2 DEF Session
  <2>4. /\ ss[1].track = track /\ ss[1].id = list[1].id
        /\ ss[1].state = list[1].state
    BY <1>3, <2>1, <2>3 DEF Session
  <2>5. list[1].id = None /\ list[1].state = "init"
    BY <1>3, <2>1 DEF Good, Tracks
  <2>6. Good(ss) /\ ss # <<>> /\ 1 \in DOMAIN ss /\ ss[1].track = track
    <3> HIDE DEF ss
    <3>1. Good(ss)
      BY <2>3, <2>4, <2>5 DEF Good
    <3>. QED BY <2>3, <2>4, <3>1
  <2>. QED BY <2>1, <2>6
<1>5. CASE on.track # None /\ same = {}
  <2>1. i = n + 1 /\ \A k \in 1..n : list[k].track # track
    BY <1>3, <1>5 DEF SetupTarget
  <2> DEFINE new == [Default EXCEPT !.track = track]
  <2>2. /\ new \in Session /\ new.track = track /\ new.id = None
        /\ new.state = "init"
    BY <1>1 DEF Default, Session, States
  <2>3. ss = Append(list, new)
    BY <2>1 DEF SetupList
  <2>4. \A k \in 1..n : list[k].track # None
    <3>1. list[1].track # None
      BY <1>2, <1>5 DEF on
    <3>. QED BY <1>3, <3>1 DEF Good
  <2>5. /\ ss \in Seq(Session) /\ Len(ss) = n + 1 /\ DOMAIN ss = 1..(n + 1)
        /\ \A k \in 1..n : ss[k] = list[k]
        /\ ss[n + 1] = new
    <3> HIDE DEF new
    <3>. QED BY <1>3, <2>2, <2>3
  <2>6. /\ Good(ss) /\ ss # <<>>
        /\ n + 1 \in DOMAIN ss /\ ss[n + 1].track = track
    <3> HIDE DEF ss, new
    <3>1. Good(ss)
      BY <1>1, <1>3, <2>1, <2>2, <2>4, <2>5 DEF Good
    <3>2. ss # <<>>
      BY <1>3, <2>5
    <3>. QED BY <1>3, <2>2, <2>5, <3>1, <3>2
  <2>. QED BY <2>1, <2>6
<1>6. CASE on.track # None /\ same # {}
  <2>1. PICK k \in 1..n : list[k].track = track
    BY <1>3, <1>6
  <2>2. same = {k}
    BY <1>3, <2>1 DEF Good
  <2>3. i = k
    <3>1. i = CHOOSE a \in same : \A b \in same : b <= a
      BY <1>6 DEF SetupTarget
    <3> HIDE DEF same
    <3>. QED BY <2>2, <3>1
  <2>4. ss = [list EXCEPT ![k].track = track]
    <3>1. k # Len(list) + 1
      BY <1>3, <2>1
    <3>. QED BY <2>3, <3>1, Zenon DEF SetupList
  <2>5. /\ [list[k] EXCEPT !.track = track] = list[k]
    BY <1>3, <2>1 DEF Session
  <2>6. ss = list
    BY <1>3, <2>4, <2>5
  <2>7. Good(list) /\ list # <<>> /\ k \in DOMAIN list
    BY <1>3, <2>1
  <2>. QED BY <2>1, <2>3, <2>6, <2>7
<1>. QED BY <1>4, <1>5, <1>6

\* An accepted SETUP gives the session its id and makes it READY.
LEMMA SetupIsGood ==
  ASSUME NEW ss, Good(ss), NEW i \in DOMAIN ss, ss[i].track = "track1",
         NEW id \in Ids
  PROVE  Good([ss EXCEPT ![i].id = id, ![i].state = "ready"])
<1> DEFINE tt == [ss EXCEPT ![i].id = id, ![i].state = "ready"]
<1>1. /\ ss \in Seq(Session) /\ Len(ss) \in Nat /\ DOMAIN ss = 1..Len(ss)
      /\ \A j \in DOMAIN ss : ss[j] \in Session
  BY DEF Good
<1>2. \A j \in DOMAIN ss :
        tt[j] = IF j = i THEN [ss[i] EXCEPT !.id = id, !.state = "ready"]
                ELSE ss[j]
  BY <1>1
<1>3. [ss[i] EXCEPT !.id = id, !.state = "ready"]
        = [state |-> "ready", id |-> id, track |-> ss[i].track]
  <2>1. ss[i] \in Session
    BY <1>1
  <2>2. ASSUME NEW x \in Session
        PROVE  [x EXCEPT !.id = id, !.state = "ready"]
                 = [state |-> "ready", id |-> id, track |-> x.track]
    <3> DEFINE y == [x EXCEPT !.id = id]
    <3>1. y \in Session /\ y.id = id /\ y.track = x.track
      BY DEF Session
    <3>2. ASSUME NEW z \in Session
          PROVE  [z EXCEPT !.state = "ready"]
                   = [state |-> "ready", id |-> z.id, track |-> z.track]
      BY DEF Session
    <3>3. [y EXCEPT !.state = "ready"]
            = [state |-> "ready", id |-> id, track |-> x.track]
      <4> HIDE DEF y
      <4>. QED BY <3>1, <3>2
    <3>. QED BY <3>3
  <2>. QED BY <2>1, <2>2
<1>4. tt \in Seq(Session) /\ Len(tt) = Len(ss) /\ DOMAIN tt = DOMAIN ss
  <2>1. \A j \in DOMAIN ss : tt[j] \in Session
    BY <1>1, <1>2, <1>3 DEF Session, States
  <2>2. DOMAIN tt = 1..Len(ss)
    BY <1>1
  <2>3. tt = [j \in 1..Len(ss) |-> tt[j]]
    BY <2>2
  <2> HIDE DEF tt
  <2>. QED BY <1>1, <2>1, <2>2, <2>3
<1>5. \A j \in DOMAIN ss :
        /\ tt[j].track = ss[j].track
        /\ tt[j].id = IF j = i THEN id ELSE ss[j].id
        /\ tt[j].state = IF j = i THEN "ready" ELSE ss[j].state
  BY <1>1, <1>2, <1>3
<1>6. Good(tt)
  <2> HIDE DEF tt
  <2>1. ASSUME NEW j \in DOMAIN tt
        PROVE  /\ tt[j].state # "init" <=> tt[j].id # None
               /\ tt[j].id # None => tt[j].track = "track1"
    BY <1>4, <1>5 DEF Good
  <2>2. \A j, k \in DOMAIN tt : tt[j].track = tt[k].track => j = k
    BY <1>4, <1>5 DEF Good
  <2>3. \A j \in DOMAIN tt : tt[j].track = None => Len(tt) = 1
    BY <1>4, <1>5 DEF Good
  <2>4. tt \in Seq(Session)
    BY <1>4
  <2>. QED BY <2>1, <2>2, <2>3, <2>4 DEF Good
<1>. QED BY <1>6

-----------------------------------------------------------------------------
(* The handlers of requests.                                               *)

\* A handler leaves a good list behind, for a socket that is open.
LEMMA DoneKeeps ==
  ASSUME Sockets, Buffers, callback # None, NEW ss, Good(ss), Done(ss),
         ids' \subseteq Ids
  PROVE  Sockets' /\ Buffers'
<1>1. callback.fd \in Fds /\ callback.fd \in OpenFds
  BY DEF Sockets, CallbackIsOfOpenSocket, Event
<1>2. Sockets'
  BY DEF Done, Running, network, Sockets, ConnectedHaveSockets,
         SocketsAreDistinct, CallbackIsOfOpenSocket, AgesAgree, DueAreQuiet
<1>3. OpenFds' = OpenFds
  BY DEF Done, network, OpenFds
<1>4. /\ buffer' \in [Fds -> Seq(Session)]
      /\ \A f \in Fds : buffer'[f] = IF f = callback.fd THEN ss ELSE buffer[f]
  BY <1>1 DEF Done, Buffers, Good
<1>5. Buffers'
  BY <1>1, <1>3, <1>4 DEF Done, Buffers, NothingLeftOfClosedSockets
<1>. QED BY <1>2, <1>5

LEMMA ListIsGood ==
  ASSUME Sockets, Buffers, callback # None
  PROVE  /\ Good(list) /\ list # <<>> /\ chosen \in DOMAIN list
         /\ callback.fd \in Fds
<1>1. callback.fd \in Fds
  BY DEF Sockets, Event
<1>. QED BY <1>1, SessionsAreGood, ChosenIsThere DEF list, chosen

LEMMA SetupKeeps ==
  ASSUME Sockets, Buffers, Setup
  PROVE  Sockets' /\ Buffers'
<1> DEFINE track == callback.req.what
           i     == SetupTarget(track)
           ss    == SetupList(track)
<1>1. /\ callback # None /\ callback.req # None /\ callback.req.m = "SETUP"
  BY DEF Setup, Handling
<1>2. Good(ss) /\ i \in DOMAIN ss /\ ss[i].track = track
  BY <1>1, SetupListIsGood
<1>3. CASE fine /\ track = "track1"
  <2>1. PICK id \in Ids \ ids :
          /\ ids' = ids \cup {id}
          /\ Done([ss EXCEPT ![i].id = id, ![i].state = "ready"])
    BY <1>3 DEF Setup
  <2>2. Good([ss EXCEPT ![i].id = id, ![i].state = "ready"])
    <3> HIDE DEF ss, i
    <3>. QED BY <1>2, <1>3, SetupIsGood
  <2>3. ids' \subseteq Ids
    BY <2>1 DEF Sockets
  <2> HIDE DEF ss, i
  <2>. QED BY <1>1, <2>1, <2>2, <2>3, DoneKeeps
<1>4. CASE ~ (fine /\ track = "track1")
  <2>1. Done(ss) /\ UNCHANGED ids
    BY <1>4 DEF Setup
  <2>2. ids' \subseteq Ids
    BY <2>1 DEF Sockets
  <2>. QED BY <1>1, <1>2, <2>1, <2>2, DoneKeeps
<1>. QED BY <1>3, <1>4

\* PLAY and PAUSE turn the chosen session from READY to PLAY and back.
LEMMA PlayPauseKeep ==
  ASSUME Sockets, Buffers, Play \/ Pause
  PROVE  Sockets' /\ Buffers'
<1>1. callback # None /\ on.state # "init" /\ ids' = ids
  BY DEF Play, Pause, Handling
<1>2. PICK state \in {"ready", "play"} : Done([list EXCEPT ![chosen].state = state])
  BY DEF Play, Pause
<1>3. Good([list EXCEPT ![chosen].state = state])
  BY <1>1, ListIsGood, StateChangeIsGood DEF on
<1>. QED BY <1>1, <1>2, <1>3, DoneKeeps DEF Sockets

\* The other requests leave the sessions as they are.
LEMMA AnswersKeep ==
  ASSUME Sockets, Buffers, Teardown \/ OptionsInPlay \/ ReceiveRtcp \/ Answer
  PROVE  Sockets' /\ Buffers'
<1>1. callback # None /\ Done(list) /\ ids' = ids
  BY DEF Teardown, OptionsInPlay, ReceiveRtcp, Answer, Handling
<1>2. Good(list) /\ ids' \subseteq Ids
  BY <1>1, ListIsGood DEF Sockets
<1>. QED BY <1>1, <1>2, DoneKeeps

-----------------------------------------------------------------------------
(* Connections and time.                                                   *)

\* An event resets the age of its own socket and collects the overdue ones.
LEMMA HearKeeps ==
  ASSUME Sockets, NEW c \in Clients, NEW f \in Fds,
         NEW req \in Requests \cup {None}, NEW header \in Ids \cup {None},
         req = None \/ (req.m = "SETUP" => header = None),
         up' = up, ids' = ids, asked' \in 0..MaxRequests,
         client' \in [Clients -> {"away", "up", "leaving", "lost", "gone"}],
         fd' \in [Clients -> Fds \cup {None}], fd'[c] = f,
         \A d \in Clients : d # c => fd'[d] = fd[d],
         ConnectedHaveSockets', SocketsAreDistinct',
         Hear(c, f, req, header)
  PROVE  /\ Sockets' /\ f \in OpenFds'
         /\ \A g \in Fds : idle[g] = None /\ g # f => idle'[g] = None
<1> DEFINE times == [idle EXCEPT ![f] = 0]
           due   == Overdue(times)
<1>1. /\ times \in [Fds -> Ages \cup {None}] /\ times[f] = 0
      /\ \A g \in Fds : g # f => times[g] = idle[g]
  BY DEF Sockets, Ages
<1>2. /\ due \subseteq Fds /\ f \notin due
      /\ \A g \in due : times[g] # None /\ times[g] > Timeout
  BY <1>1 DEF Overdue
<1>3. /\ idle' = [g \in Fds |-> IF g \in due THEN None ELSE times[g]]
      /\ quiet' = [quiet EXCEPT ![c] = 0]
      /\ callback' = [client |-> c, fd |-> f, req |-> req, header |-> header,
                      due |-> due]
  BY DEF Hear
<1> HIDE DEF times, due
<1>4. idle' \in [Fds -> Ages \cup {None}]
  BY <1>1, <1>3
<1>5. quiet' \in [Clients -> Ages] /\ quiet'[c] = 0
        /\ \A d \in Clients : d # c => quiet'[d] = quiet[d]
  BY <1>3 DEF Sockets, Ages
<1>6. callback' \in Event /\ callback' # None
  BY <1>2, <1>3 DEF Event
<1>7. f \in OpenFds'
  BY DEF OpenFds
<1>8. CallbackIsOfOpenSocket'
  BY <1>3, <1>7 DEF CallbackIsOfOpenSocket
<1>9. AgesAgree'
  BY <1>1, <1>2, <1>3, <1>5 DEF AgesAgree, Sockets, SocketsAreDistinct
<1>10. DueAreQuiet'
  <2>1. ASSUME NEW d \in Clients, fd'[d] \in due
        PROVE  quiet'[d] > Timeout
    <3>1. d # c /\ fd[d] \in due /\ fd[d] # f /\ fd[d] \in Fds
      BY <1>2, <2>1
    <3>2. idle[fd[d]] # None /\ idle[fd[d]] > Timeout
      BY <1>1, <1>2, <3>1
    <3>3. quiet[d] = idle[fd[d]]
      BY <3>1, <3>2 DEF Sockets, AgesAgree
    <3>. QED BY <1>5, <3>1, <3>2, <3>3
  <2>. QED BY <1>3, <2>1 DEF DueAreQuiet
<1>11. \A g \in Fds : idle[g] = None /\ g # f => idle'[g] = None
  BY <1>1, <1>3
<1>. QED BY <1>4, <1>5, <1>6, <1>7, <1>8, <1>9, <1>10, <1>11 DEF Sockets

LEMMA AcceptKeeps ==
  ASSUME Sockets, Buffers, NEW c \in Clients, NEW f \in Fds, Accept(c, f)
  PROVE  Sockets' /\ Buffers'
<1>1. /\ client' \in [Clients -> {"away", "up", "leaving", "lost", "gone"}]
      /\ fd' \in [Clients -> Fds \cup {None}] /\ fd'[c] = f
      /\ \A d \in Clients : d # c => fd'[d] = fd[d]
      /\ client'[c] = "up" /\ \A d \in Clients : d # c => client'[d] = client[d]
  BY DEF Accept, Sockets
<1>2. \A d \in Clients : fd[d] # f
  BY DEF Accept, OpenFds
<1>3. ConnectedHaveSockets'
  BY <1>1 DEF Sockets, ConnectedHaveSockets
<1>4. SocketsAreDistinct'
  BY <1>1, <1>2 DEF Sockets, SocketsAreDistinct
<1>5. up' = up /\ ids' = ids /\ asked' \in 0..MaxRequests
        /\ Hear(c, f, None, None) /\ buffer' = buffer
  BY DEF Accept, Running, Sockets
<1>6. /\ Sockets' /\ f \in OpenFds'
      /\ \A g \in Fds : idle[g] = None /\ g # f => idle'[g] = None
  BY <1>1, <1>3, <1>4, <1>5, HearKeeps
<1>7. OpenFds \subseteq OpenFds'
  BY <1>1 DEF OpenFds, Accept, Sockets, ConnectedHaveSockets
<1>. QED BY <1>5, <1>6, <1>7 DEF Buffers, NothingLeftOfClosedSockets

LEMMA ReceiveKeeps ==
  ASSUME Sockets, Buffers, NEW c \in Clients, NEW req \in Requests,
         NEW header \in ids \cup {None}, Receive(c, req, header)
  PROVE  Sockets' /\ Buffers'
<1>1. fd[c] \in Fds /\ fd[c] # None
  BY DEF Receive, Sockets, ConnectedHaveSockets
<1>2. /\ up' = up /\ ids' = ids /\ fd' = fd /\ client' = client
      /\ buffer' = buffer /\ asked' \in 0..MaxRequests
      /\ Hear(c, fd[c], req, header) /\ (req.m = "SETUP" => header = None)
  BY DEF Receive, Running, Sockets
<1>3. ConnectedHaveSockets' /\ SocketsAreDistinct'
  BY <1>2 DEF Sockets, ConnectedHaveSockets, SocketsAreDistinct
<1>4. header \in Ids \cup {None}
  BY DEF Sockets
<1>5. /\ Sockets' /\ fd[c] \in OpenFds'
      /\ \A g \in Fds : idle[g] = None /\ g # fd[c] => idle'[g] = None
  BY <1>1, <1>2, <1>3, <1>4, HearKeeps DEF Sockets
<1>6. OpenFds' = OpenFds
  BY <1>2 DEF OpenFds
<1>. QED BY <1>2, <1>5, <1>6 DEF Buffers, NothingLeftOfClosedSockets

LEMMA DropTimeoutKeeps ==
  ASSUME Sockets, Buffers, NEW f \in Fds, DropTimeout(f)
  PROVE  Sockets' /\ Buffers'
<1>1. /\ callback \in Event /\ callback # None
      /\ callback' = [callback EXCEPT !.due = @ \ {f}]
      /\ up' = up /\ ids' = ids /\ fd' = fd /\ client' = client
      /\ quiet' = quiet /\ idle' = idle /\ asked' = asked
      /\ buffer' = [buffer EXCEPT ![f] = <<>>]
  BY DEF DropTimeout, CloseClient, Running, network, Sockets
<1>2. /\ callback' \in Event /\ callback' # None
      /\ callback'.due = callback.due \ {f} /\ callback'.fd = callback.fd
      /\ callback'.req = callback.req /\ callback'.header = callback.header
  BY <1>1 DEF Event
<1>3. OpenFds' = OpenFds
  BY <1>1 DEF OpenFds
<1>4. Sockets'
  BY <1>1, <1>2, <1>3 DEF Sockets, ConnectedHaveSockets, SocketsAreDistinct,
     CallbackIsOfOpenSocket, AgesAgree, DueAreQuiet
<1>5. /\ buffer' \in [Fds -> Seq(Session)]
      /\ \A g \in Fds : buffer'[g] = IF g = f THEN <<>> ELSE buffer[g]
  BY <1>1 DEF Buffers
<1>6. Buffers'
  BY <1>1, <1>3, <1>5, EmptyIsGood DEF Buffers, NothingLeftOfClosedSockets
<1>. QED BY <1>4, <1>6

\* The buffer, the sessions and the time of a socket go with it.
LEMMA NoticeCloseKeeps ==
  ASSUME Sockets, Buffers, NEW c \in Clients, NoticeClose(c)
  PROVE  Sockets' /\ Buffers'
<1>1. /\ callback = None /\ callback' = None /\ fd[c] \in Fds /\ fd[c] # None
      /\ up' = up /\ ids' = ids /\ asked' = asked
      /\ buffer' = [buffer EXCEPT ![fd[c]] = <<>>]
      /\ idle' = [idle EXCEPT ![fd[c]] = None]
      /\ quiet' = [quiet EXCEPT ![c] = 0]
      /\ client' = [client EXCEPT ![c] = "gone"]
      /\ fd' = [fd EXCEPT ![c] = None]
  BY DEF NoticeClose, CloseClient, Running, Sockets, ConnectedHaveSockets
<1>2. /\ idle' \in [Fds -> Ages \cup {None}]
      /\ \A g \in Fds : idle'[g] = IF g = fd[c] THEN None ELSE idle[g]
      /\ quiet' \in [Clients -> Ages]
      /\ \A d \in Clients : quiet'[d] = IF d = c THEN 0 ELSE quiet[d]
      /\ client' \in [Clients -> {"away", "up", "leaving", "lost", "gone"}]
      /\ \A d \in Clients : client'[d] = IF d = c THEN "gone" ELSE client[d]
      /\ fd' \in [Clients -> Fds \cup {None}]
      /\ \A d \in Clients : fd'[d] = IF d = c THEN None ELSE fd[d]
  BY <1>1 DEF Sockets, Ages
<1>3. ConnectedHaveSockets' /\ SocketsAreDistinct'
  BY <1>2 DEF Sockets, ConnectedHaveSockets, SocketsAreDistinct
<1>4. AgesAgree'
  BY <1>1, <1>2 DEF Sockets, AgesAgree, SocketsAreDistinct
<1>5. Sockets'
  BY <1>1, <1>2, <1>3, <1>4 DEF Sockets, CallbackIsOfOpenSocket, DueAreQuiet
<1>6. \A g \in OpenFds : g # fd[c] => g \in OpenFds'
  BY <1>2 DEF OpenFds
<1>7. /\ buffer' \in [Fds -> Seq(Session)]
      /\ \A g \in Fds : buffer'[g] = IF g = fd[c] THEN <<>> ELSE buffer[g]
  BY <1>1 DEF Buffers
<1>8. Buffers'
  BY <1>2, <1>6, <1>7, EmptyIsGood DEF Buffers, NothingLeftOfClosedSockets
<1>. QED BY <1>5, <1>8

\* A client that closes, noticed or not, keeps its descriptor.
LEMMA HangupKeeps ==
  ASSUME Sockets, Buffers, NEW c \in Clients, Hangup(c) \/ OverlookClose(c)
  PROVE  Sockets' /\ Buffers'
<1>1. /\ fd' = fd /\ quiet' = quiet /\ asked' = asked /\ up' = up
      /\ UNCHANGED server /\ client[c] \in {"up", "leaving"}
      /\ \E s \in {"leaving", "lost"} : client' = [client EXCEPT ![c] = s]
  BY DEF Hangup, OverlookClose, Running
<1>2. OpenFds' = OpenFds
  BY <1>1 DEF OpenFds
<1>3. /\ client' \in [Clients -> {"away", "up", "leaving", "lost", "gone"}]
      /\ ConnectedHaveSockets'
  BY <1>1 DEF Sockets, ConnectedHaveSockets
<1>4. Sockets'
  BY <1>1, <1>2, <1>3 DEF server, Sockets, SocketsAreDistinct,
     CallbackIsOfOpenSocket, AgesAgree, DueAreQuiet
<1>5. Buffers'
  BY <1>1, <1>2 DEF server, Buffers, NothingLeftOfClosedSockets
<1>. QED BY <1>4, <1>5

\* Time passes for a client and its socket alike.
LEMMA TickKeeps ==
  ASSUME Sockets, Buffers, Tick
  PROVE  Sockets' /\ Buffers'
<1>1. \A a \in Ages : /\ Older(a) \in Ages
                      /\ a > Timeout => Older(a) > Timeout
  BY DEF Ages, Older
<1>2. /\ idle' = [f \in Fds |-> IF idle[f] = None THEN None ELSE Older(idle[f])]
      /\ quiet' = [c \in Clients |->
                     IF fd[c] = None THEN 0 ELSE Older(quiet[c])]
      /\ UNCHANGED <<up, client, fd, asked, buffer, callback, ids>>
  BY DEF Tick, Running
<1>3. /\ idle' \in [Fds -> Ages \cup {None}]
      /\ \A f \in Fds : idle'[f] = None <=> idle[f] = None
  BY <1>1, <1>2 DEF Sockets
<1>4. quiet' \in [Clients -> Ages]
  BY <1>1, <1>2 DEF Sockets, Ages
<1>5. AgesAgree'
  BY <1>2, <1>3 DEF Sockets, AgesAgree
<1>6. DueAreQuiet'
  <2> SUFFICES ASSUME callback # None, NEW c \in Clients, fd[c] \in callback.due
               PROVE  quiet'[c] > Timeout
    BY <1>2 DEF DueAreQuiet
  <2>1. fd[c] # None /\ quiet[c] > Timeout /\ quiet[c] \in Ages
    BY DEF Sockets, DueAreQuiet, Event
  <2>. QED BY <1>1, <1>2, <2>1
<1>7. OpenFds' = OpenFds
  BY <1>2 DEF OpenFds
<1>8. Sockets'
  BY <1>2, <1>3, <1>4, <1>5, <1>6, <1>7 DEF Sockets, ConnectedHaveSockets,
     SocketsAreDistinct, CallbackIsOfOpenSocket
<1>9. Buffers'
  BY <1>2, <1>3, <1>7 DEF Buffers, NothingLeftOfClosedSockets
<1>. QED BY <1>8, <1>9

\* Workers, jobs and streams touch nothing of the socket thread's.
LEMMA OthersKeep ==
  ASSUME Sockets, Buffers, UNCHANGED <<network, server>>, up' \in BOOLEAN
  PROVE  Sockets' /\ Buffers'
BY DEF network, server, Sockets, Buffers, ConnectedHaveSockets,
       SocketsAreDistinct, CallbackIsOfOpenSocket, AgesAgree, DueAreQuiet,
       NothingLeftOfClosedSockets, OpenFds

LEMMA NoDataKeeps ==
  ASSUME Sockets, Buffers, NoData
  PROVE  Sockets' /\ Buffers'
<1>1. callback' = None /\ UNCHANGED <<up, client, fd, asked, quiet, buffer, idle, ids>>
  BY DEF NoData, Running, network
<1>. QED BY <1>1 DEF Sockets, Buffers, ConnectedHaveSockets,
       SocketsAreDistinct, CallbackIsOfOpenSocket, AgesAgree, DueAreQuiet,
       NothingLeftOfClosedSockets, OpenFds

-----------------------------------------------------------------------------
(* The invariant and what follows from it.                                 *)

LEMMA InitInv == Init => Inv
<1> SUFFICES ASSUME Init PROVE Sockets /\ Buffers
  BY InvSplits
<1>1. 0 \in Ages /\ 0 \in 0..MaxRequests /\ OpenFds = {}
  BY DEF Init, Ages, OpenFds
<1>2. Sockets
  BY <1>1 DEF Init, Sockets, ConnectedHaveSockets, SocketsAreDistinct,
     CallbackIsOfOpenSocket, AgesAgree, DueAreQuiet
<1>3. Buffers
  BY EmptyIsGood DEF Init, Buffers, NothingLeftOfClosedSockets
<1>. QED BY <1>2, <1>3

LEMMA NextKeeps == Inv /\ [Next]_vars => Inv'
<1>0. Inv' <=> Sockets' /\ Buffers'
  BY InvSplits, PTL
<1> SUFFICES ASSUME Sockets, Buffers, [Next]_vars PROVE Sockets' /\ Buffers'
  BY <1>0, InvSplits
<1>1. CASE \E c \in Clients, f \in Fds : Accept(c, f)
  BY <1>1, AcceptKeeps
<1>2. CASE \E c \in Clients, req \in Requests, header \in ids \cup {None} :
             Receive(c, req, header)
  BY <1>2, ReceiveKeeps
<1>3. CASE \E c \in Clients : Hangup(c) \/ OverlookClose(c)
  BY <1>3, HangupKeeps
<1>4. CASE \E c \in Clients : NoticeClose(c)
  BY <1>4, NoticeCloseKeeps
<1>5. CASE \E f \in Fds : DropTimeout(f)
  BY <1>5, DropTimeoutKeeps
<1>6. CASE Serve
  BY <1>6, NoDataKeeps, SetupKeeps, PlayPauseKeep, AnswersKeep DEF Serve
<1>7. CASE Tick
  BY <1>7, TickKeeps
<1>8. CASE Abort
  BY <1>8, OthersKeep DEF Abort
<1>9. CASE Work
  <2>1. UNCHANGED <<network, server>> /\ up' = up
    BY <1>9 DEF Work, Taken, Running, StartLive, RestartFile, OpenFile,
       StopStreams, HandOver, ListFile
  <2>. QED BY <2>1, OthersKeep DEF Sockets
<1>10. CASE Publish \/ Unpublish \/ \E i \in DOMAIN streams : StreamEnds(i)
  <2>1. UNCHANGED <<network, server>> /\ up' = up
    BY <1>10 DEF Publish, Unpublish, StreamEnds, Running
  <2>. QED BY <2>1, OthersKeep DEF Sockets
<1>11. CASE UNCHANGED vars
  BY <1>11, OthersKeep DEF vars, Sockets
<1>. QED
  BY <1>1, <1>2, <1>3, <1>4, <1>5, <1>6, <1>7, <1>8, <1>9, <1>10, <1>11
     DEF Next

\* Whatever the clients ask for, in whatever order, and whatever the workers do
\* meanwhile, the socket thread's buffers, sessions, times and current event fit
\* each other and the connections.
THEOREM InvHolds == Spec => []Inv
BY InitInv, NextKeeps, PTL DEF Spec

\* What the server keeps per descriptor has its type in every reachable state.
THEOREM ServerTypeCorrect == Spec => []ServerTypeOK
<1>1. Inv => ServerTypeOK
  BY DEF Inv
<1>. QED BY <1>1, InvHolds, PTL

\* Connected clients have sockets of their own, the event being handled is of one
\* of them, and m_mapTimeInfo is as old as its clients have been quiet.
THEOREM RecordsFit == Spec => []RecordsAgree
<1>1. Inv => RecordsAgree
  BY DEF Inv
<1>. QED BY <1>1, InvHolds, PTL

\* A descriptor that the system gives out again carries nothing over from the
\* connection that had it before: neither its sessions nor its time.
THEOREM ClosedSocketsAreForgotten == Spec => []NothingLeftOfClosedSockets
<1>1. Inv => NothingLeftOfClosedSockets
  BY DEF Inv
<1>. QED BY <1>1, InvHolds, PTL

\* Only an accepted SETUP makes a session playable, and refused ones do not
\* change that for it or for the others of the connection.
THEOREM SessionsAreSetUp == Spec => []ReadyIsSetUp
<1>1. Inv => ReadyIsSetUp
  BY DEF Inv
<1>. QED BY <1>1, InvHolds, PTL

\* RTSP_SETUP keeps one session for a control id of a connection.
THEOREM SessionPerTrack == Spec => []OneSessionPerTrack
<1>1. Inv => OneSessionPerTrack
  BY DEF Inv
<1>. QED BY <1>1, InvHolds, PTL

\* The time-out never drops the sessions of a client that was heard from within
\* it: nothing but the client's own close and its own silence empties its buffer.
THEOREM ActiveAreKept == Spec => ActiveClientsAreKept
<1> DEFINE Kept(c) ==
      (fd[c] # None /\ buffer[fd[c]] # <<>> /\ buffer'[fd[c]] = <<>>) =>
         client[c] \in {"leaving", "lost"} \/ quiet[c] > Timeout
<1>1. ASSUME Inv, Next, NEW c \in Clients PROVE Kept(c)
  <2> SUFFICES ASSUME fd[c] # None, buffer[fd[c]] # <<>>, buffer'[fd[c]] = <<>>
               PROVE  client[c] \in {"leaving", "lost"} \/ quiet[c] > Timeout
    OBVIOUS
  <2>1. Sockets /\ Buffers /\ fd[c] \in Fds
    BY <1>1, InvSplits DEF Sockets
  <2>2. CASE \E f \in Fds : DropTimeout(f)
    <3>1. PICK f \in Fds : DropTimeout(f)
      BY <2>2
    <3>2. callback # None /\ f \in callback.due
            /\ buffer' = [buffer EXCEPT ![f] = <<>>]
      BY <3>1 DEF DropTimeout, CloseClient
    <3>3. f = fd[c]
      BY <2>1, <3>2 DEF Buffers
    <3>. QED BY <2>1, <3>2, <3>3 DEF Sockets, DueAreQuiet
  <2>3. CASE \E d \in Clients : NoticeClose(d)
    <3>1. PICK d \in Clients : NoticeClose(d)
      BY <2>3
    <3>2. client[d] \in {"leaving", "lost"}
            /\ buffer' = [buffer EXCEPT ![fd[d]] = <<>>]
      BY <3>1 DEF NoticeClose, CloseClient
    <3>3. fd[d] = fd[c]
      BY <2>1, <3>2 DEF Buffers
    <3>. QED BY <2>1, <3>2, <3>3 DEF Sockets, SocketsAreDistinct
  <2>4. CASE Serve
    <3>1. CASE NoData
      BY <3>1 DEF NoData
    <3>2. CASE \E ss : callback # None /\ ss # <<>> /\ Done(ss)
      BY <2>1, <3>2 DEF Done, Buffers
    <3>3. CASE Setup
      <4>1. callback # None /\ callback.req # None /\ callback.req.m = "SETUP"
        BY <3>3 DEF Setup, Handling
      <4> DEFINE i  == SetupTarget(callback.req.what)
                 ss == SetupList(callback.req.what)
      <4>2. ss # <<>> /\ Good(ss)
        BY <2>1, <4>1, SetupListIsGood
      <4>3. \E id : \/ Done([ss EXCEPT ![i].id = id, ![i].state = "ready"])
                    \/ Done(ss)
        BY <3>3 DEF Setup
      <4> HIDE DEF ss, i
      <4>4. \A id : [ss EXCEPT ![i].id = id, ![i].state = "ready"] # <<>>
        BY <4>2 DEF Good
      <4>. QED BY <3>2, <4>1, <4>2, <4>3, <4>4
    <3>4. CASE Play \/ Pause
      <4>1. callback # None /\ \E state :
               Done([list EXCEPT ![chosen].state = state])
        BY <3>4 DEF Play, Pause, Handling
      <4>2. Good(list) /\ list # <<>>
        BY <2>1, <4>1, ListIsGood
      <4>3. \A state : [list EXCEPT ![chosen].state = state] # <<>>
        BY <4>2 DEF Good
      <4>. QED BY <3>2, <4>1, <4>3
    <3>5. CASE Teardown \/ OptionsInPlay \/ ReceiveRtcp \/ Answer
      <4>1. callback # None /\ Done(list)
        BY <3>5 DEF Teardown, OptionsInPlay, ReceiveRtcp, Answer, Handling
      <4>2. list # <<>>
        BY <2>1, <4>1, ListIsGood
      <4>. QED BY <3>2, <4>1, <4>2
    <3>. QED BY <2>4, <3>1, <3>3, <3>4, <3>5 DEF Serve
  <2>5. CASE buffer' = buffer
    BY <2>5
  <2>6. ASSUME NEW d \in Clients,
               \/ \E f \in Fds : Accept(d, f)
               \/ \E req \in Requests, header \in ids \cup {None} :
                    Receive(d, req, header)
               \/ Hangup(d) \/ OverlookClose(d)
        PROVE  buffer' = buffer
    BY <2>6 DEF Accept, Receive, Hangup, OverlookClose, server
  <2>7. ASSUME \/ Abort \/ Tick \/ Work \/ Publish \/ Unpublish
               \/ \E i \in DOMAIN streams : StreamEnds(i)
        PROVE  buffer' = buffer
    BY <2>7 DEF Abort, Tick, Work, Publish, Unpublish, StreamEnds, Taken,
       StartLive, RestartFile, OpenFile, StopStreams, HandOver, ListFile, server
  <2>. QED BY <1>1, <2>2, <2>3, <2>4, <2>5, <2>6, <2>7 DEF Next
<1>2. ASSUME Inv, [Next]_vars PROVE [\A c \in Clients : Kept(c)]_vars
  BY <1>1, <1>2
<1>. QED BY <1>2, InvHolds, PTL DEF Spec, ActiveClientsAreKept

-----------------------------------------------------------------------------
(* Streams and the sockets they send on.                                   *)

\* The starts that were posted and are not done: in the queue, or with the file
\* being opened.
Starts == {t \in BagToSet(tasks) : t.op = "start"} \cup BagToSet(opening)

\* What stands for a PLAY that was accepted.
Played == Listed \cup Starts

\* The ids of the sessions of a connection.
Names(f) == {buffer[f][i].id : i \in DOMAIN buffer[f]} \ {None}

\* The request being handled is of the client that has its socket.
CallerHasSocket == callback # None => fd[callback.client] = callback.fd

\* A start names the socket of its client, as long as the client has it.
StartsFit ==
  \A t \in Starts : client[t.client] = "gone" \/ fd[t.client] = t.fd

\* An id was given out to one session of one connection, and whatever was played
\* under it is of the client of that connection.
NamesFit ==
  /\ \A x \in Played : x.id \in ids
  /\ \A f \in Fds : Names(f) \subseteq ids
  /\ \A x, y \in Played : x.id = y.id => x.client = y.client
  /\ \A f \in Fds : \A x \in Played : x.id \in Names(f) => fd[x.client] = f
  /\ \A f, g \in Fds : Names(f) \cap Names(g) # {} => f = g

\* With the socket thread's invariant this one is inductive.
MediaInv ==
  /\ MediaTypeOK
  /\ CallerHasSocket /\ StartsFit /\ NamesFit
  /\ StreamsUseTheirClientsSocket

LEMMA StartTypes ==
  ASSUME MediaTypeOK
  PROVE  Starts \subseteq StartTask
<1>1. \A t \in Tasks : t.op = "start" => t \in StartTask
  BY DEF Tasks, StartTask
<1>. QED BY <1>1 DEF Starts, MediaTypeOK

LEMMA PlayedTypes ==
  ASSUME MediaTypeOK
  PROVE  /\ Listed \subseteq Stream /\ Starts \subseteq StartTask
         /\ \A x \in Played : x.id \in Ids /\ x.client \in Clients /\ x.fd \in Fds
<1>1. Listed \subseteq Stream
  BY DEF Listed, MediaTypeOK
<1>2. \A x \in Stream : x.id \in Ids /\ x.client \in Clients /\ x.fd \in Fds
  BY DEF Stream
<1>3. \A x \in StartTask : x.id \in Ids /\ x.client \in Clients /\ x.fd \in Fds
  BY DEF StartTask
<1>. QED BY <1>1, <1>2, <1>3, StartTypes DEF Played

\* How a stream on the list comes from what there was: it was listed with the
\* same socket, a start has made it, or a start has given it the socket.
Follows(x) ==
  \/ \E y \in Listed : /\ x.id = y.id /\ x.client = y.client
                       /\ x.fd = y.fd /\ x.late = y.late
  \/ \E t \in Starts : /\ x.id = t.id /\ x.client = t.client /\ x.fd = t.fd
                       /\ x.late <=> client[t.client] = "gone"
  \/ \E y \in Listed, t \in Starts :
       /\ y.id = t.id /\ x.id = y.id /\ x.client = y.client
       /\ x.fd = t.fd /\ x.late = y.late

\* Streams that come from what there was keep to their clients' sockets, if
\* nobody who has one, or had, gets another.
LEMMA StreamsKeep ==
  ASSUME Sockets, MediaInv,
         \A c \in Clients : client[c] = "gone" => client'[c] = "gone",
         \A c \in Clients : fd[c] # None => fd'[c] = fd[c],
         Starts' \subseteq Starts, \A x \in Listed' : Follows(x)
  PROVE  StartsFit' /\ StreamsUseTheirClientsSocket'
<1>1. MediaTypeOK /\ StartsFit /\ NamesFit /\ StreamsUseTheirClientsSocket
  BY DEF MediaInv
<1>2. /\ \A x \in Played : x.client \in Clients /\ x.fd \in Fds /\ x.fd # None
      /\ Listed \subseteq Played /\ Starts \subseteq Played
  BY <1>1, PlayedTypes DEF Played
<1>3. StartsFit'
  BY <1>1, <1>2 DEF StartsFit
<1>4. \A y \in Listed : y.late \/ fd[y.client] = y.fd
  BY <1>1 DEF StreamsUseTheirClientsSocket, Listed
<1>5. ASSUME NEW x \in Listed' PROVE x.late \/ fd'[x.client] = x.fd
  <2>1. CASE \E y \in Listed : /\ x.id = y.id /\ x.client = y.client
                               /\ x.fd = y.fd /\ x.late = y.late
    BY <1>2, <1>4, <2>1
  <2>2. CASE \E t \in Starts : /\ x.id = t.id /\ x.client = t.client /\ x.fd = t.fd
                               /\ x.late <=> client[t.client] = "gone"
    BY <1>1, <1>2, <2>2 DEF StartsFit
  <2>3. CASE \E y \in Listed, t \in Starts :
               /\ y.id = t.id /\ x.id = y.id /\ x.client = y.client
               /\ x.fd = t.fd /\ x.late = y.late
    <3>1. PICK y \in Listed, t \in Starts :
               /\ y.id = t.id /\ x.id = y.id /\ x.client = y.client
               /\ x.fd = t.fd /\ x.late = y.late
      BY <2>3
    <3>2. y.client = t.client /\ y.client \in Clients
      BY <1>1, <1>2, <3>1 DEF NamesFit
    <3>3. CASE client[t.client] = "gone"
      <4>1. fd[y.client] = None
        BY <3>2, <3>3 DEF Sockets, ConnectedHaveSockets
      <4>. QED BY <1>2, <1>4, <3>1, <4>1
    <3>4. CASE fd[t.client] = t.fd
      BY <1>2, <3>1, <3>2, <3>4
    <3>. QED BY <1>1, <3>3, <3>4 DEF StartsFit
  <2>. QED BY <1>5, <2>1, <2>2, <2>3 DEF Follows
<1>6. StreamsUseTheirClientsSocket'
  BY <1>5 DEF StreamsUseTheirClientsSocket, Listed
<1>. QED BY <1>3, <1>6

\* Names fit as long as none is new and their connections stay.
LEMMA NamesKeep ==
  ASSUME NamesFit, ids \subseteq ids',
         \A x \in Played' : \E y \in Played : y.id = x.id /\ y.client = x.client,
         \A f \in Fds : Names(f)' \subseteq Names(f),
         \A f \in Fds : \A x \in Played :
           x.id \in Names(f)' => fd'[x.client] = fd[x.client]
  PROVE  NamesFit'
<1>1. \A x \in Played' : x.id \in ids'
  BY DEF NamesFit
<1>2. \A f \in Fds : Names(f)' \subseteq ids'
  BY DEF NamesFit
<1>3. \A x, y \in Played' : x.id = y.id => x.client = y.client
  <2> SUFFICES ASSUME NEW x \in Played', NEW y \in Played', x.id = y.id
               PROVE  x.client = y.client
    OBVIOUS
  <2>1. PICK a \in Played : a.id = x.id /\ a.client = x.client
    OBVIOUS
  <2>2. PICK b \in Played : b.id = y.id /\ b.client = y.client
    OBVIOUS
  <2>. QED BY <2>1, <2>2 DEF NamesFit
<1>4. ASSUME NEW f \in Fds, NEW x \in Played', x.id \in Names(f)'
      PROVE  fd'[x.client] = f
  <2>1. PICK y \in Played : y.id = x.id /\ y.client = x.client
    OBVIOUS
  <2>2. fd[y.client] = f /\ fd'[y.client] = fd[y.client]
    BY <1>4, <2>1 DEF NamesFit
  <2>. QED BY <2>1, <2>2
<1>5. \A f, g \in Fds : Names(f)' \cap Names(g)' # {} => f = g
  BY DEF NamesFit
<1>. QED BY <1>1, <1>2, <1>3, <1>4, <1>5 DEF NamesFit

\* A step that changes no connection, makes no start and adds no name.
LEMMA StepKeeps ==
  ASSUME Sockets, MediaInv, MediaTypeOK', CallerHasSocket', fd' = fd,
         \A c \in Clients : client[c] = "gone" => client'[c] = "gone",
         ids \subseteq ids', \A f \in Fds : Names(f)' \subseteq Names(f),
         Starts' \subseteq Starts, \A x \in Listed' : Follows(x)
  PROVE  MediaInv'
<1>1. StartsFit' /\ StreamsUseTheirClientsSocket'
  BY StreamsKeep
<1>2. MediaTypeOK /\ NamesFit
  BY DEF MediaInv
<1>3. ASSUME NEW x \in Played' PROVE \E y \in Played : y.id = x.id /\ y.client = x.client
  <2>1. CASE x \in Listed'
    <3>1. Follows(x)
      BY <2>1
    <3>. QED BY <3>1 DEF Follows, Played
  <2>2. CASE x \in Starts'
    BY <2>2 DEF Played
  <2>. QED BY <1>3, <2>1, <2>2 DEF Played
<1>4. NamesFit'
  BY <1>2, <1>3, NamesKeep
<1>. QED BY <1>1, <1>4 DEF MediaInv

\* The same where the socket thread does nothing.
LEMMA MediaStepKeeps ==
  ASSUME Sockets, MediaInv, MediaTypeOK', UNCHANGED <<network, server>>,
         Starts' \subseteq Starts, \A x \in Listed' : Follows(x)
  PROVE  MediaInv'
<1>1. CallerHasSocket' /\ fd' = fd /\ client' = client /\ ids' = ids
        /\ buffer' = buffer
  BY DEF MediaInv, CallerHasSocket, network, server
<1>2. \A f \in Fds : Names(f)' = Names(f)
  BY <1>1 DEF Names
<1>. QED BY <1>1, <1>2, StepKeeps

-----------------------------------------------------------------------------
(* The workers, the live job and the ends of streams.                      *)

\* A task that is not a start is posted.
LEMMA PostKeeps ==
  ASSUME MediaTypeOK, NEW t \in Tasks, tasks' = Post(t)
  PROVE  /\ IsABag(tasks') /\ BagToSet(tasks') = BagToSet(tasks) \cup {t}
         /\ BagToSet(tasks') \subseteq Tasks
<1>1. IsABag(tasks) /\ BagToSet(tasks) \subseteq Tasks
  BY DEF MediaTypeOK
<1>2. IsABag(SetToBag({t})) /\ BagToSet(SetToBag({t})) = {t}
  BY OneTask
<1>3. tasks' = tasks (+) SetToBag({t})
  BY DEF Post
<1>. QED BY <1>1, <1>2, <1>3, BagSum

LEMMA TakeKeeps ==
  ASSUME MediaTypeOK, NEW t
  PROVE  /\ IsABag(tasks (-) SetToBag({t})) /\ IsABag(opening (-) SetToBag({t}))
         /\ BagToSet(tasks (-) SetToBag({t})) \subseteq BagToSet(tasks)
         /\ BagToSet(opening (-) SetToBag({t})) \subseteq BagToSet(opening)
BY BagTake DEF MediaTypeOK

\* What is removed is off the list, and the stops it asks for are no starts.
LEMMA RemoveKeeps ==
  ASSUME MediaTypeOK, NEW gone, NEW others, IsABag(others),
         BagToSet(others) \subseteq BagToSet(tasks), Remove(gone, others)
  PROVE  /\ streams' \in Seq(Stream) /\ Listed' \subseteq Listed \ gone
         /\ IsABag(tasks') /\ BagToSet(tasks') \subseteq Tasks
         /\ \A t \in BagToSet(tasks') : t.op = "start" => t \in BagToSet(others)
<1>1. streams \in Seq(Stream) /\ Listed \subseteq Stream
  BY PlayedTypes DEF MediaTypeOK
<1>2. streams' \in Seq(Listed \ gone)
  BY <1>1, WithoutIsLeft DEF Remove
<1>3. streams' \in Seq(Stream) /\ Listed' \subseteq Listed \ gone
  <2>1. DOMAIN streams' = 1..Len(streams')
          /\ \A i \in DOMAIN streams' : streams'[i] \in Listed \ gone
    BY <1>2
  <2>2. Listed' \subseteq Listed \ gone
    BY <2>1 DEF Listed
  <2>3. Len(streams') \in Nat /\ streams' = [i \in 1..Len(streams') |-> streams'[i]]
    BY <1>2
  <2>4. \A i \in 1..Len(streams') : streams'[i] \in Stream
    BY <1>1, <2>1
  <2>5. streams' \in Seq(Stream)
    BY <2>3, <2>4
  <2>. QED BY <2>2, <2>5
<1>4. PICK asking \in SUBSET DOMAIN streams : tasks' = others (+) StopNames(asking)
  BY DEF Remove
<1>5. /\ IsABag(StopNames(asking))
      /\ BagToSet(StopNames(asking)) \subseteq [op : {"stopName"}, id : Ids]
  BY <1>1, NamesStop
<1>6. /\ IsABag(tasks')
      /\ BagToSet(tasks') = BagToSet(others) \cup BagToSet(StopNames(asking))
  BY <1>4, <1>5, BagSum
<1>7. [op : {"stopName"}, id : Ids] \subseteq Tasks
  BY DEF Tasks
<1>8. BagToSet(tasks') \subseteq Tasks
  BY <1>5, <1>6, <1>7 DEF MediaTypeOK
<1>9. \A t \in [op : {"stopName"}, id : Ids] : t.op # "start"
  OBVIOUS
<1>. QED BY <1>3, <1>5, <1>6, <1>8, <1>9

\* One more stream at the end of the list.
LEMMA AppendLists ==
  ASSUME streams \in Seq(Stream), NEW x \in Stream, streams' = Append(streams, x)
  PROVE  streams' \in Seq(Stream) /\ Listed' = Listed \cup {x}
<1>1. /\ streams' \in Seq(Stream) /\ DOMAIN streams' = 1..(Len(streams) + 1)
      /\ Len(streams) \in Nat /\ DOMAIN streams = 1..Len(streams)
      /\ streams'[Len(streams) + 1] = x
      /\ \A i \in 1..Len(streams) : streams'[i] = streams[i]
  OBVIOUS
<1>2. \A i \in 1..(Len(streams) + 1) : i \in 1..Len(streams) \/ i = Len(streams) + 1
  BY <1>1
<1>3. 1..Len(streams) \subseteq 1..(Len(streams) + 1)
        /\ Len(streams) + 1 \in 1..(Len(streams) + 1)
  BY <1>1
<1>4. Listed' = {streams'[i] : i \in 1..(Len(streams) + 1)}
        /\ Listed = {streams[i] : i \in 1..Len(streams)}
  BY <1>1 DEF Listed
<1>. QED BY <1>1, <1>2, <1>3, <1>4

\* Streams that change in place.
LEMMA ChangeLists ==
  ASSUME streams \in Seq(Stream), DOMAIN streams' = DOMAIN streams,
         streams' = [i \in DOMAIN streams |-> streams'[i]],
         \A i \in DOMAIN streams : streams'[i] \in Stream
  PROVE  /\ streams' \in Seq(Stream)
         /\ \A x \in Listed' : \E i \in DOMAIN streams : x = streams'[i]
<1>1. DOMAIN streams = 1..Len(streams) /\ Len(streams) \in Nat
  OBVIOUS
<1>2. streams' \in Seq(Stream)
  BY <1>1
<1>. QED BY <1>2 DEF Listed

\* No start is made by a step that only posts others and takes some.
LEMMA FewerStarts ==
  ASSUME \A t \in BagToSet(tasks') : t.op = "start" => t \in BagToSet(tasks),
         BagToSet(opening') \subseteq Starts
  PROVE  Starts' \subseteq Starts
BY DEF Starts

\* A stream of the list as it was comes from itself.
LEMMA ListedFollow ==
  ASSUME NEW x \in Listed PROVE Follows(x)
BY DEF Follows

LEMMA ChangedFollow ==
  ASSUME NEW y \in Listed, NEW x, x.id = y.id, x.client = y.client, x.fd = y.fd,
         x.late = y.late
  PROVE  Follows(x)
BY DEF Follows

LEMMA RestartedFollow ==
  ASSUME NEW y \in Listed, NEW t \in Starts, y.id = t.id, NEW x, x.id = y.id,
         x.client = y.client, x.fd = t.fd, x.late = y.late
  PROVE  Follows(x)
BY DEF Follows

LEMMA StartLiveKeeps ==
  ASSUME Sockets, MediaInv, NEW t, StartLive(t)
  PROVE  MediaInv'
<1>1. MediaTypeOK /\ t \in Starts /\ UNCHANGED <<network, server>>
        /\ published' = published /\ opening' = opening
  BY DEF MediaInv, StartLive, Taken, Starts
<1>2. /\ IsABag(tasks') /\ BagToSet(tasks') \subseteq BagToSet(tasks)
  BY <1>1, TakeKeeps DEF StartLive
<1>3. NewStream(t) \in Stream
  BY <1>1, StartTypes DEF NewStream, Stream, StartTask
<1>4. Follows(NewStream(t))
  BY <1>1 DEF Follows, NewStream
<1>5. streams' \in Seq(Stream) /\ Listed' \subseteq Listed \cup {NewStream(t)}
  BY <1>1, <1>3, AppendLists DEF StartLive, MediaTypeOK, Listed
<1>6. MediaTypeOK'
  BY <1>1, <1>2, <1>5 DEF MediaTypeOK
<1>7. Starts' \subseteq Starts
  BY <1>1, <1>2 DEF Starts
<1>8. \A x \in Listed' : Follows(x)
  BY <1>4, <1>5, ListedFollow
<1>. QED BY <1>1, <1>6, <1>7, <1>8, MediaStepKeeps

LEMMA RestartFileKeeps ==
  ASSUME Sockets, MediaInv, NEW t, RestartFile(t)
  PROVE  MediaInv'
<1> DEFINE match == {i \in DOMAIN streams :
                       streams[i].kind = "file" /\ streams[i].id = t.id}
<1>1. MediaTypeOK /\ t \in Starts /\ UNCHANGED <<network, server>>
        /\ published' = published /\ opening' = opening
  BY DEF MediaInv, RestartFile, Taken, Starts
<1>2. /\ IsABag(tasks') /\ BagToSet(tasks') \subseteq BagToSet(tasks)
  BY <1>1, TakeKeeps DEF RestartFile
<1>3. streams' = [i \in DOMAIN streams |->
                   IF i \in match /\ \A j \in match : i <= j
                   THEN [streams[i] EXCEPT !.state = "on", !.fd = t.fd]
                   ELSE streams[i]]
  BY DEF RestartFile
<1>4. streams \in Seq(Stream) /\ t.fd \in Fds
  BY <1>1, StartTypes DEF MediaTypeOK, StartTask
<1>5. ASSUME NEW i \in DOMAIN streams
      PROVE  streams'[i] \in Stream /\ Follows(streams'[i])
  <2>1. streams[i] \in Stream /\ streams[i] \in Listed
    BY <1>4 DEF Listed
  <2>2. CASE i \in match /\ \A j \in match : i <= j
    <3>1. streams'[i] = [streams[i] EXCEPT !.state = "on", !.fd = t.fd]
      BY <1>3, <2>2
    <3>2. ASSUME NEW s \in Stream
          PROVE  /\ [s EXCEPT !.state = "on", !.fd = t.fd] \in Stream
                 /\ [s EXCEPT !.state = "on", !.fd = t.fd].id = s.id
                 /\ [s EXCEPT !.state = "on", !.fd = t.fd].client = s.client
                 /\ [s EXCEPT !.state = "on", !.fd = t.fd].fd = t.fd
                 /\ [s EXCEPT !.state = "on", !.fd = t.fd].late = s.late
      BY <1>4 DEF Stream
    <3>3. streams[i].id = t.id
      BY <2>2
    <3> HIDE DEF match
    <3>4. /\ streams'[i] \in Stream /\ streams'[i].id = streams[i].id
          /\ streams'[i].client = streams[i].client /\ streams'[i].fd = t.fd
          /\ streams'[i].late = streams[i].late
      BY <2>1, <3>1, <3>2
    <3>. QED BY <1>1, <2>1, <3>3, <3>4, RestartedFollow
  <2>3. CASE ~(i \in match /\ \A j \in match : i <= j)
    <3>1. streams'[i] = streams[i]
      BY <1>3, <2>3
    <3>. QED BY <2>1, <3>1, ListedFollow
  <2>. QED BY <2>2, <2>3
<1>6. DOMAIN streams' = DOMAIN streams /\ streams' = [i \in DOMAIN streams |-> streams'[i]]
  BY <1>3
<1>7. streams' \in Seq(Stream) /\ \A x \in Listed' : Follows(x)
  BY <1>4, <1>5, <1>6, ChangeLists
<1>8. MediaTypeOK'
  BY <1>1, <1>2, <1>7 DEF MediaTypeOK
<1>9. Starts' \subseteq Starts
  BY <1>1, <1>2 DEF Starts
<1>. QED BY <1>1, <1>7, <1>8, <1>9, MediaStepKeeps

LEMMA OpenFileKeeps ==
  ASSUME Sockets, MediaInv, NEW t, OpenFile(t)
  PROVE  MediaInv'
<1>1. MediaTypeOK /\ t \in Starts /\ UNCHANGED <<network, server>>
        /\ published' = published /\ streams' = streams
  BY DEF MediaInv, OpenFile, Taken, Starts
<1>2. /\ IsABag(tasks') /\ BagToSet(tasks') \subseteq BagToSet(tasks)
  BY <1>1, TakeKeeps DEF OpenFile
<1>3. t \in StartTask
  BY <1>1, StartTypes
<1>4. /\ IsABag(opening') /\ BagToSet(opening') \subseteq BagToSet(opening) \cup {t}
  <2>1. IsABag(opening) /\ IsABag(SetToBag({t})) /\ BagToSet(SetToBag({t})) = {t}
    BY <1>1, OneTask DEF MediaTypeOK
  <2>2. opening' = opening (+) SetToBag({t}) \/ opening' = opening
    BY DEF OpenFile
  <2>. QED BY <2>1, <2>2, BagSum
<1>5. MediaTypeOK'
  BY <1>1, <1>2, <1>3, <1>4 DEF MediaTypeOK
<1>6. Starts' \subseteq Starts
  BY <1>1, <1>2, <1>4 DEF Starts
<1>7. \A x \in Listed' : Follows(x)
  BY <1>1, ListedFollow DEF Listed
<1>. QED BY <1>1, <1>5, <1>6, <1>7, MediaStepKeeps

LEMMA ListFileKeeps ==
  ASSUME Sockets, MediaInv, NEW t, ListFile(t)
  PROVE  MediaInv'
<1>1. MediaTypeOK /\ t \in Starts /\ UNCHANGED <<network, server>>
        /\ published' = published /\ tasks' = tasks
  BY DEF MediaInv, ListFile, Starts
<1>2. IsABag(opening') /\ BagToSet(opening') \subseteq BagToSet(opening)
  BY <1>1, TakeKeeps DEF ListFile
<1>3. NewStream(t) \in Stream
  BY <1>1, StartTypes DEF NewStream, Stream, StartTask
<1>4. Follows(NewStream(t))
  BY <1>1 DEF Follows, NewStream
<1>5. streams' \in Seq(Stream) /\ Listed' = Listed \cup {NewStream(t)}
  BY <1>1, <1>3, AppendLists DEF ListFile, MediaTypeOK
<1>6. MediaTypeOK'
  BY <1>1, <1>2, <1>5 DEF MediaTypeOK
<1>7. Starts' \subseteq Starts
  BY <1>1, <1>2 DEF Starts
<1>8. \A x \in Listed' : Follows(x)
  BY <1>4, <1>5, ListedFollow
<1>. QED BY <1>1, <1>6, <1>7, <1>8, MediaStepKeeps

LEMMA StopStreamsKeeps ==
  ASSUME Sockets, MediaInv, NEW t, StopStreams(t)
  PROVE  MediaInv'
<1>1. MediaTypeOK /\ UNCHANGED <<network, server>>
        /\ published' = published /\ opening' = opening
  BY DEF MediaInv, StopStreams, Taken
<1>2. PICK gone : Remove(gone, tasks (-) SetToBag({t}))
  BY DEF StopStreams
<1>3. /\ IsABag(tasks (-) SetToBag({t}))
      /\ BagToSet(tasks (-) SetToBag({t})) \subseteq BagToSet(tasks)
  BY <1>1, TakeKeeps
<1>4. /\ streams' \in Seq(Stream) /\ Listed' \subseteq Listed \ gone
      /\ IsABag(tasks') /\ BagToSet(tasks') \subseteq Tasks
      /\ \A u \in BagToSet(tasks') :
           u.op = "start" => u \in BagToSet(tasks (-) SetToBag({t}))
  BY <1>1, <1>2, <1>3, RemoveKeeps
<1>5. MediaTypeOK'
  BY <1>1, <1>4 DEF MediaTypeOK
<1>6. Starts' \subseteq Starts
  BY <1>1, <1>3, <1>4 DEF Starts
<1>7. \A x \in Listed' : Follows(x)
  BY <1>4, ListedFollow
<1>. QED BY <1>1, <1>5, <1>6, <1>7, MediaStepKeeps

LEMMA HandOverKeeps ==
  ASSUME Sockets, MediaInv, NEW t, HandOver(t)
  PROVE  MediaInv'
<1>1. MediaTypeOK /\ UNCHANGED <<network, server>>
        /\ UNCHANGED <<published, opening, streams>>
  BY DEF MediaInv, HandOver, Taken
<1>2. /\ IsABag(tasks') /\ BagToSet(tasks') \subseteq BagToSet(tasks)
  BY <1>1, TakeKeeps DEF HandOver
<1>3. MediaTypeOK'
  BY <1>1, <1>2 DEF MediaTypeOK
<1>4. Starts' \subseteq Starts
  BY <1>1, <1>2 DEF Starts
<1>5. \A x \in Listed' : Follows(x)
  BY <1>1, ListedFollow DEF Listed
<1>. QED BY <1>1, <1>3, <1>4, <1>5, MediaStepKeeps

\* Streams that end, each for itself or with the live job.
LEMMA EndsKeep ==
  ASSUME Sockets, MediaInv, Unpublish \/ \E i \in DOMAIN streams : StreamEnds(i)
  PROVE  MediaInv'
<1>1. MediaTypeOK /\ streams \in Seq(Stream) /\ UNCHANGED <<network, server>>
        /\ opening' = opening /\ published' \in BOOLEAN
  BY DEF MediaInv, MediaTypeOK, Unpublish, StreamEnds
<1>2. /\ DOMAIN streams' = DOMAIN streams
      /\ streams' = [i \in DOMAIN streams |-> streams'[i]]
      /\ \A i \in DOMAIN streams :
           \/ streams'[i] = streams[i]
           \/ \E s \in {"ending", "off"} :
                streams'[i] = [streams[i] EXCEPT !.state = s]
  BY <1>1 DEF Unpublish, StreamEnds
<1>3. ASSUME NEW x \in Stream, NEW s \in {"ending", "off"}
      PROVE  /\ [x EXCEPT !.state = s] \in Stream
             /\ [x EXCEPT !.state = s].id = x.id
             /\ [x EXCEPT !.state = s].client = x.client
             /\ [x EXCEPT !.state = s].fd = x.fd
             /\ [x EXCEPT !.state = s].late = x.late
  BY DEF Stream
<1>4. ASSUME NEW i \in DOMAIN streams
      PROVE  streams'[i] \in Stream /\ Follows(streams'[i])
  <2>1. streams[i] \in Stream /\ streams[i] \in Listed
    BY <1>1 DEF Listed
  <2>2. CASE streams'[i] = streams[i]
    BY <2>1, <2>2, ListedFollow
  <2>3. ASSUME NEW s \in {"ending", "off"},
               streams'[i] = [streams[i] EXCEPT !.state = s]
        PROVE  streams'[i] \in Stream /\ Follows(streams'[i])
    <3> DEFINE y == [streams[i] EXCEPT !.state = s]
    <3>0. /\ y \in Stream /\ y.id = streams[i].id /\ y.client = streams[i].client
          /\ y.fd = streams[i].fd /\ y.late = streams[i].late
      BY <1>3, <2>1, Zenon
    <3> HIDE DEF y
    <3>1. /\ streams'[i] \in Stream /\ streams'[i].id = streams[i].id
          /\ streams'[i].client = streams[i].client
          /\ streams'[i].fd = streams[i].fd /\ streams'[i].late = streams[i].late
      BY <2>3, <3>0, Zenon DEF y
    <3>. QED BY <2>1, <3>1, ChangedFollow
  <2>. QED BY <1>2, <2>2, <2>3
<1>5. streams' \in Seq(Stream) /\ \A x \in Listed' : Follows(x)
  BY <1>1, <1>2, <1>4, ChangeLists
<1>6. /\ IsABag(tasks') /\ BagToSet(tasks') \subseteq Tasks
      /\ \A t \in BagToSet(tasks') : t.op = "start" => t \in BagToSet(tasks)
  <2>1. CASE tasks' = tasks
    BY <1>1, <2>1 DEF MediaTypeOK
  <2>2. ASSUME NEW i \in DOMAIN streams, StreamEnds(i)
        PROVE  \E t \in Tasks : t.op # "start" /\ tasks' = Post(t)
    <3>1. streams[i].id \in Ids
      <4>1. streams[i] \in Stream
        BY <1>1
      <4>. QED BY <4>1 DEF Stream
    <3>2. tasks' = Post([op |-> "stopName", id |-> streams[i].id])
      BY <2>2 DEF StreamEnds
    <3>3. [op |-> "stopName", id |-> streams[i].id] \in Tasks
      BY <3>1 DEF Tasks
    <3>. QED BY <3>2, <3>3
  <2>3. ASSUME NEW t \in Tasks, t.op # "start", tasks' = Post(t)
        PROVE  /\ IsABag(tasks') /\ BagToSet(tasks') \subseteq Tasks
               /\ \A u \in BagToSet(tasks') : u.op = "start" => u \in BagToSet(tasks)
    BY <1>1, <2>3, PostKeeps
  <2>4. CASE Unpublish
    BY <2>1, <2>4 DEF Unpublish
  <2>. QED BY <2>2, <2>3, <2>4
<1>7. MediaTypeOK'
  BY <1>1, <1>5, <1>6 DEF MediaTypeOK
<1>8. Starts' \subseteq Starts
  BY <1>1, <1>6 DEF Starts
<1>. QED BY <1>1, <1>5, <1>7, <1>8, MediaStepKeeps

\* Steps that leave streams and tasks alone.
LEMMA IdleKeeps ==
  ASSUME Sockets, MediaInv, UNCHANGED <<network, server, tasks, opening, streams>>,
         published' \in BOOLEAN
  PROVE  MediaInv'
<1>1. MediaTypeOK' /\ Starts' = Starts /\ Listed' = Listed
  BY DEF MediaInv, MediaTypeOK, Starts, Listed
<1>. QED BY <1>1, ListedFollow, MediaStepKeeps

-----------------------------------------------------------------------------
(* The requests.                                                           *)

\* The sessions that a handler leaves behind name what those it found did, or
\* what it has added to them.
LEMMA DoneNames ==
  ASSUME Sockets, Buffers, callback # None, NEW ss, Done(ss), NEW new,
         \A i \in DOMAIN ss :
           \/ ss[i].id \in new
           \/ \E j \in DOMAIN list : ss[i].id = list[j].id
  PROVE  /\ callback.fd \in Fds
         /\ \A f \in Fds : IF f = callback.fd THEN Names(f)' \subseteq Names(f) \cup new
                           ELSE Names(f)' = Names(f)
<1>1. callback.fd \in Fds /\ buffer' = [buffer EXCEPT ![callback.fd] = ss]
        /\ buffer \in [Fds -> Seq(Session)]
  BY DEF Sockets, Event, Done, Buffers
<1>2. buffer'[callback.fd] = ss /\ \A f \in Fds \ {callback.fd} : buffer'[f] = buffer[f]
  BY <1>1
<1>3. \A j \in DOMAIN list : list[j].id = None \/ list[j].id \in Names(callback.fd)
  <2>1. CASE buffer[callback.fd] = <<>>
    <3>1. list = <<Default>>
      BY <2>1 DEF list, Sessions
    <3>2. DOMAIN list = {1} /\ list[1].id = None
      BY <3>1 DEF Default
    <3>. QED BY <3>2
  <2>2. CASE buffer[callback.fd] # <<>>
    BY <2>2 DEF list, Sessions, Names
  <2>. QED BY <2>1, <2>2
<1>4. \A f \in Fds : f # callback.fd => Names(f)' = Names(f)
  BY <1>2 DEF Names
<1>5. ASSUME NEW id \in {ss[i].id : i \in DOMAIN ss} \ {None}
      PROVE  id \in Names(callback.fd) \cup new
  BY <1>3
<1>6. \A f : f = callback.fd => Names(f)' \subseteq Names(f) \cup new
  BY <1>2, <1>5 DEF Names
<1>. QED BY <1>1, <1>4, <1>6

\* Handlers that make no start and give no id out.
LEMMA HandledKeeps ==
  ASSUME Sockets, Buffers, MediaInv, MediaTypeOK', callback # None,
         NEW ss, Done(ss), ids' = ids,
         \A i \in DOMAIN ss : \E j \in DOMAIN list : ss[i].id = list[j].id,
         Starts' \subseteq Starts, \A x \in Listed' : Follows(x)
  PROVE  MediaInv'
<1>1. \A f \in Fds : Names(f)' \subseteq Names(f)
  <2>1. \A f \in Fds : IF f = callback.fd THEN Names(f)' \subseteq Names(f) \cup {}
                       ELSE Names(f)' = Names(f)
    BY DoneNames
  <2>. QED BY <2>1
<1>2. fd' = fd /\ client' = client /\ CallerHasSocket'
  BY DEF Done, network, CallerHasSocket
<1>. QED BY <1>1, <1>2, StepKeeps

\* The list of streams and the bag of tasks, where they stay or get a task that
\* is not a start.
LEMMA OtherTasks ==
  ASSUME MediaTypeOK, UNCHANGED <<published, opening, streams>>,
         \/ tasks' = tasks
         \/ \E t \in Tasks : t.op # "start" /\ tasks' = Post(t)
  PROVE  MediaTypeOK' /\ Starts' \subseteq Starts /\ \A x \in Listed' : Follows(x)
<1>1. /\ IsABag(tasks') /\ BagToSet(tasks') \subseteq Tasks
      /\ \A u \in BagToSet(tasks') : u.op = "start" => u \in BagToSet(tasks)
  <2>1. CASE tasks' = tasks
    BY <2>1 DEF MediaTypeOK
  <2>2. ASSUME NEW t \in Tasks, t.op # "start", tasks' = Post(t)
        PROVE  /\ IsABag(tasks') /\ BagToSet(tasks') \subseteq Tasks
               /\ \A u \in BagToSet(tasks') : u.op = "start" => u \in BagToSet(tasks)
    BY <2>2, PostKeeps
  <2>. QED BY <2>1, <2>2
<1>2. MediaTypeOK'
  BY <1>1 DEF MediaTypeOK
<1>3. Starts' \subseteq Starts
  BY <1>1 DEF Starts
<1>4. Listed' = Listed
  BY DEF Listed
<1>. QED BY <1>2, <1>3, <1>4, ListedFollow

LEMMA AnsweredKeeps ==
  ASSUME Sockets, Buffers, MediaInv,
         Teardown \/ OptionsInPlay \/ ReceiveRtcp \/ Answer
  PROVE  MediaInv'
<1>1. /\ MediaTypeOK /\ callback # None /\ Done(list) /\ ids' = ids
      /\ UNCHANGED <<published, opening, streams>>
  BY DEF MediaInv, Teardown, OptionsInPlay, ReceiveRtcp, Answer, Handling, media
<1>2. Good(list) /\ list # <<>> /\ callback.fd \in Fds
  BY <1>1, ListIsGood
<1>3. list[1].id \in Ids \cup {None}
  <2>1. list[1] \in Session
    BY <1>2 DEF Good
  <2>. QED BY <2>1 DEF Session
<1>4. \/ tasks' = tasks
      \/ \E t \in Tasks : t.op # "start" /\ tasks' = Post(t)
  <2>1. CASE Teardown
    <3>1. [op |-> "stopSocket", fd |-> callback.fd] \in Tasks
      BY <1>2 DEF Tasks
    <3>. QED BY <2>1, <3>1 DEF Teardown
  <2>2. CASE OptionsInPlay
    <3>1. [op |-> "sendRtsp", id |-> list[1].id] \in Tasks
      BY <1>3 DEF Tasks
    <3>. QED BY <2>2, <3>1 DEF OptionsInPlay
  <2>3. CASE ReceiveRtcp
    <3>1. [op |-> "rtcp"] \in Tasks
      BY DEF Tasks
    <3>. QED BY <2>3, <3>1 DEF ReceiveRtcp
  <2>4. CASE Answer
    BY <2>4 DEF Answer, media
  <2>. QED BY <2>1, <2>2, <2>3, <2>4
<1>5. MediaTypeOK' /\ Starts' \subseteq Starts /\ \A x \in Listed' : Follows(x)
  BY <1>1, <1>4, OtherTasks
<1>6. \A i \in DOMAIN list : \E j \in DOMAIN list : list[i].id = list[j].id
  OBVIOUS
<1>. QED BY <1>1, <1>5, <1>6, HandledKeeps

\* A change of state changes no id.
LEMMA StateChangeNames ==
  ASSUME NEW ss \in Seq(Session), NEW i \in DOMAIN ss, NEW state
  PROVE  \A j \in DOMAIN [ss EXCEPT ![i].state = state] :
           j \in DOMAIN ss /\ [ss EXCEPT ![i].state = state][j].id = ss[j].id
<1>1. \A j \in DOMAIN ss : ss[j] \in Session
  OBVIOUS
<1>2. \A s \in Session : [s EXCEPT !.state = state].id = s.id
  BY DEF Session
<1>3. \A j \in DOMAIN ss : [ss EXCEPT ![i].state = state][j]
                             = IF j = i THEN [ss[i] EXCEPT !.state = state] ELSE ss[j]
  OBVIOUS
<1>4. DOMAIN [ss EXCEPT ![i].state = state] = DOMAIN ss
  OBVIOUS
<1>5. ASSUME NEW j \in DOMAIN ss
      PROVE  [ss EXCEPT ![i].state = state][j].id = ss[j].id
  BY <1>1, <1>2, <1>3, Zenon
<1>. QED BY <1>4, <1>5, Zenon

LEMMA PauseKeeps ==
  ASSUME Sockets, Buffers, MediaInv, Pause
  PROVE  MediaInv'
<1> DEFINE match == {i \in DOMAIN streams : streams[i].id = on.id}
<1>1. /\ MediaTypeOK /\ streams \in Seq(Stream) /\ callback # None /\ ids' = ids
      /\ Done([list EXCEPT ![chosen].state = "ready"])
      /\ UNCHANGED <<published, tasks, opening>>
  BY DEF MediaInv, MediaTypeOK, Pause, Handling
<1>2. streams' = [i \in DOMAIN streams |->
                   IF i \in match /\ \A j \in match : i <= j
                   THEN [streams[i] EXCEPT !.state = "off"] ELSE streams[i]]
  BY DEF Pause
<1>3. ASSUME NEW x \in Stream
      PROVE  /\ [x EXCEPT !.state = "off"] \in Stream
             /\ [x EXCEPT !.state = "off"].id = x.id
             /\ [x EXCEPT !.state = "off"].client = x.client
             /\ [x EXCEPT !.state = "off"].fd = x.fd
             /\ [x EXCEPT !.state = "off"].late = x.late
  BY DEF Stream
<1> HIDE DEF match
<1>4. ASSUME NEW i \in DOMAIN streams
      PROVE  streams'[i] \in Stream /\ Follows(streams'[i])
  <2>1. streams[i] \in Stream /\ streams[i] \in Listed
    BY <1>1 DEF Listed
  <2>2. streams'[i] = streams[i] \/ streams'[i] = [streams[i] EXCEPT !.state = "off"]
    BY <1>2
  <2>3. CASE streams'[i] = streams[i]
    BY <2>1, <2>3, ListedFollow
  <2>4. CASE streams'[i] = [streams[i] EXCEPT !.state = "off"]
    <3> DEFINE y == [streams[i] EXCEPT !.state = "off"]
    <3>1. /\ y \in Stream /\ y.id = streams[i].id /\ y.client = streams[i].client
          /\ y.fd = streams[i].fd /\ y.late = streams[i].late
      BY <1>3, <2>1, Zenon
    <3> HIDE DEF y
    <3>2. /\ streams'[i] \in Stream /\ streams'[i].id = streams[i].id
          /\ streams'[i].client = streams[i].client
          /\ streams'[i].fd = streams[i].fd /\ streams'[i].late = streams[i].late
      BY <2>4, <3>1, Zenon DEF y
    <3>. QED BY <2>1, <3>2, ChangedFollow
  <2>. QED BY <2>2, <2>3, <2>4
<1>5. DOMAIN streams' = DOMAIN streams /\ streams' = [i \in DOMAIN streams |-> streams'[i]]
  BY <1>2
<1>6. streams' \in Seq(Stream) /\ \A x \in Listed' : Follows(x)
  BY <1>1, <1>4, <1>5, ChangeLists
<1>7. MediaTypeOK' /\ Starts' = Starts
  BY <1>1, <1>6 DEF MediaTypeOK, Starts
<1>8. list \in Seq(Session) /\ chosen \in DOMAIN list
  BY <1>1, ListIsGood DEF Good
<1> DEFINE ss == [list EXCEPT ![chosen].state = "ready"]
<1>9. \A j \in DOMAIN ss : j \in DOMAIN list /\ ss[j].id = list[j].id
  BY <1>8, StateChangeNames
<1> HIDE DEF ss
<1>10. Done(ss)
  BY <1>1 DEF ss
<1>. QED BY <1>1, <1>6, <1>7, <1>9, <1>10, HandledKeeps

\* The start that PLAY posts is of the client that has asked, and of no other
\* that an id of its connection stands for.
LEMMA PlayKeeps ==
  ASSUME Sockets, Buffers, MediaInv, Play
  PROVE  MediaInv'
<1>0. PICK t : t = [op |-> "start", kind |-> callback.req.what,
                    fd |-> callback.fd, id |-> on.id, client |-> callback.client]
  OBVIOUS
<1>1. /\ MediaTypeOK /\ callback # None /\ ids' = ids /\ tasks' = Post(t)
      /\ CallerHasSocket /\ NamesFit /\ StartsFit /\ StreamsUseTheirClientsSocket
      /\ on.state = "ready" /\ callback.req # None /\ callback.req.m = "PLAY"
      /\ Done([list EXCEPT ![chosen].state = "play"])
      /\ UNCHANGED <<published, opening, streams>>
  BY <1>0 DEF MediaInv, Play, Handling
<1>2. fd' = fd /\ client' = client /\ callback' = None
  BY <1>1 DEF Done, network
<1>3. /\ callback.client \in Clients /\ callback.fd \in Fds
      /\ callback.req.what \in Media
  BY <1>1 DEF Sockets, CallbackIsOfOpenSocket, Event
<1>4. Good(list) /\ list \in Seq(Session) /\ chosen \in DOMAIN list
  BY <1>1, ListIsGood DEF Good
<1>5. on \in Session /\ on.id # None /\ on.id \in Ids
  <2>1. on \in Session /\ on.id # None
    BY <1>1, <1>4 DEF on, Good
  <2>. QED BY <2>1 DEF Session
<1>6. on.id \in Names(callback.fd)
  <2>1. buffer[callback.fd] # <<>>
    <3>1. buffer[callback.fd] = <<>> => list = <<Default>> /\ DOMAIN list = {1}
      BY DEF list, Sessions
    <3>2. buffer[callback.fd] = <<>> => on = Default
      BY <1>4, <3>1 DEF on
    <3>. QED BY <1>1, <3>2 DEF Default
  <2>2. list = buffer[callback.fd]
    BY <2>1 DEF list, Sessions
  <2>. QED BY <1>4, <1>5, <2>2 DEF on, Names
<1>7. /\ t \in StartTask /\ t \in Tasks /\ t.op = "start" /\ t.fd = callback.fd
      /\ t.id = on.id /\ t.client = callback.client
  BY <1>0, <1>3, <1>5 DEF StartTask, Tasks
<1>8. IsABag(tasks') /\ BagToSet(tasks') = BagToSet(tasks) \cup {t}
        /\ BagToSet(tasks') \subseteq Tasks
  BY <1>1, <1>7, PostKeeps
<1>9. MediaTypeOK'
  BY <1>1, <1>8 DEF MediaTypeOK
<1>10. Starts' = Starts \cup {t} /\ Listed' = Listed /\ Played' = Played \cup {t}
  BY <1>1, <1>7, <1>8 DEF Starts, Listed, Played
<1>11. fd[t.client] = t.fd /\ t.fd # None
  BY <1>1, <1>3, <1>7 DEF CallerHasSocket
<1>12. StartsFit'
  BY <1>1, <1>2, <1>10, <1>11 DEF StartsFit
<1> DEFINE ss == [list EXCEPT ![chosen].state = "play"]
<1>13. \A j \in DOMAIN ss : j \in DOMAIN list /\ ss[j].id = list[j].id
  BY <1>4, StateChangeNames
<1> HIDE DEF ss
<1>14. \A f \in Fds : Names(f)' \subseteq Names(f)
  <2>1. Done(ss)
    BY <1>1 DEF ss
  <2>2. \A f \in Fds : IF f = callback.fd THEN Names(f)' \subseteq Names(f) \cup {}
                       ELSE Names(f)' = Names(f)
    BY <1>1, <1>13, <2>1, DoneNames
  <2>. QED BY <2>2
<1>15. \A x \in Played : x.id = t.id => x.client = t.client
  <2>1. ASSUME NEW x \in Played, x.id = t.id PROVE x.client = t.client
    <3>1. fd[x.client] = callback.fd
      BY <1>1, <1>3, <1>6, <1>7, <2>1 DEF NamesFit
    <3>2. x.client \in Clients
      BY <1>1, PlayedTypes
    <3>. QED BY <1>3, <1>7, <1>11, <3>1, <3>2 DEF Sockets, SocketsAreDistinct
  <2>. QED BY <2>1
<1>16. NamesFit'
  <2>1. \A x \in Played' : x.id \in ids'
    BY <1>1, <1>3, <1>6, <1>7, <1>10 DEF NamesFit
  <2>2. \A f \in Fds : Names(f)' \subseteq ids'
    BY <1>1, <1>14 DEF NamesFit
  <2>3. \A x, y \in Played' : x.id = y.id => x.client = y.client
    BY <1>1, <1>10, <1>15 DEF NamesFit
  <2>4. ASSUME NEW f \in Fds, NEW x \in Played', x.id \in Names(f)'
        PROVE  fd'[x.client] = f
    <3>1. x.id \in Names(f)
      BY <1>14, <2>4
    <3>2. CASE x \in Played
      BY <1>1, <1>2, <3>1, <3>2 DEF NamesFit
    <3>3. CASE x = t
      <4>1. f = callback.fd
        BY <1>1, <1>3, <1>6, <1>7, <3>1, <3>3 DEF NamesFit
      <4>. QED BY <1>2, <1>7, <1>11, <3>3, <4>1
    <3>. QED BY <1>10, <3>2, <3>3
  <2>5. \A f, g \in Fds : Names(f)' \cap Names(g)' # {} => f = g
    BY <1>1, <1>14 DEF NamesFit
  <2>. QED BY <2>1, <2>2, <2>3, <2>4, <2>5 DEF NamesFit
<1>17. StreamsUseTheirClientsSocket' /\ CallerHasSocket'
  BY <1>1, <1>2 DEF StreamsUseTheirClientsSocket, CallerHasSocket
<1>. QED BY <1>9, <1>12, <1>16, <1>17 DEF MediaInv

\* RTSP_SETUP changes no id of the list, but for that of the session it accepts.
LEMMA SetupNames ==
  ASSUME Sockets, Buffers, callback # None, callback.req # None,
         callback.req.m = "SETUP", NEW id
  PROVE  LET track == callback.req.what
             i     == SetupTarget(track)
             ss    == SetupList(track)
             tt    == [ss EXCEPT ![i].id = id, ![i].state = "ready"]
         IN /\ \A j \in DOMAIN ss : ss[j].id = None
                                    \/ \E k \in DOMAIN list : ss[j].id = list[k].id
            /\ \A j \in DOMAIN tt : j \in DOMAIN ss /\ tt[j].id \in {id, ss[j].id}
<1> DEFINE track == callback.req.what
           i     == SetupTarget(track)
           ss    == SetupList(track)
           tt    == [ss EXCEPT ![i].id = id, ![i].state = "ready"]
<1>1. Good(ss) /\ ss \in Seq(Session) /\ i \in DOMAIN ss
  BY SetupListIsGood DEF Good
<1>2. Good(list) /\ list \in Seq(Session)
  BY ListIsGood DEF Good
<1>3. \A j \in DOMAIN ss : ss[j].id = None
                           \/ \E k \in DOMAIN list : ss[j].id = list[k].id
  <2>1. CASE i = Len(list) + 1
    <3> DEFINE new == [Default EXCEPT !.track = track]
    <3>1. ss = Append(list, new)
      BY <2>1 DEF SetupList
    <3>2. new.id = None
      BY DEF Default
    <3> HIDE DEF new, ss
    <3>3. \A j \in DOMAIN ss : ss[j] = new \/ (j \in DOMAIN list /\ ss[j] = list[j])
      <4>1. DOMAIN ss = 1..(Len(list) + 1) /\ Len(list) \in Nat
              /\ DOMAIN list = 1..Len(list)
        BY <1>2, <3>1
      <4>2. \A j \in 1..(Len(list) + 1) : j \in 1..Len(list) \/ j = Len(list) + 1
        BY <4>1
      <4>3. ss[Len(list) + 1] = new /\ \A j \in 1..Len(list) : ss[j] = list[j]
        BY <1>2, <3>1
      <4>. QED BY <4>1, <4>2, <4>3
    <3>. QED BY <3>2, <3>3
  <2>2. CASE i # Len(list) + 1
    <3>1. ss = [list EXCEPT ![i].track = track]
      BY <2>2 DEF SetupList
    <3> HIDE DEF i, track
    <3>2. \A s \in Session : [s EXCEPT !.track = track].id = s.id
      BY DEF Session
    <3>3. \A j \in DOMAIN list : list[j] \in Session
      BY <1>2
    <3>4. DOMAIN ss = DOMAIN list
      BY <3>1
    <3>5. \A j \in DOMAIN list :
            ss[j] = IF j = i THEN [list[i] EXCEPT !.track = track] ELSE list[j]
      BY <3>1
    <3> HIDE DEF ss
    <3>6. \A j \in DOMAIN list : ss[j].id = list[j].id
      BY <3>2, <3>3, <3>5, Zenon
    <3>. QED BY <3>4, <3>6
  <2>. QED BY <2>1, <2>2
<1> HIDE DEF ss, i
<1>4. ASSUME NEW j \in DOMAIN tt PROVE j \in DOMAIN ss /\ tt[j].id \in {id, ss[j].id}
  <2>1. DOMAIN tt = DOMAIN ss
    OBVIOUS
  <2>2. tt[j] = IF j = i THEN [ss[i] EXCEPT !.id = id, !.state = "ready"] ELSE ss[j]
    BY <1>1
  <2>3. ss[i] \in Session
    BY <1>1
  <2>4. \A s \in Session : [s EXCEPT !.id = id, !.state = "ready"].id = id
    BY DEF Session
  <2> HIDE DEF tt
  <2>. QED BY <2>1, <2>2, <2>3, <2>4
<1>. QED BY <1>3, <1>4 DEF ss, i

\* A SETUP that is accepted gives out an id that nothing has.
LEMMA NewNameKeeps ==
  ASSUME Sockets, MediaInv, NEW id \in Ids \ ids, ids' = ids \cup {id}, fd' = fd,
         Played' = Played, NEW f \in Fds, None \notin Names(f)',
         \A g \in Fds : IF g = f THEN Names(g)' \subseteq Names(g) \cup {id, None}
                        ELSE Names(g)' = Names(g)
  PROVE  NamesFit'
<1>1. NamesFit
  BY DEF MediaInv
<1>2. \A g \in Fds : Names(g)' \subseteq Names(g) \cup (IF g = f THEN {id} ELSE {})
  OBVIOUS
<1>3. \A g \in Fds : id \notin Names(g)
  BY <1>1 DEF NamesFit
<1>4. \A x \in Played : x.id # id
  BY <1>1 DEF NamesFit
<1>5. \A x \in Played' : x.id \in ids'
  BY <1>1 DEF NamesFit
<1>6. \A g \in Fds : Names(g)' \subseteq ids'
  BY <1>1, <1>2 DEF NamesFit
<1>7. \A x, y \in Played' : x.id = y.id => x.client = y.client
  BY <1>1 DEF NamesFit
<1>8. \A g \in Fds : \A x \in Played' : x.id \in Names(g)' => fd'[x.client] = g
  BY <1>1, <1>2, <1>4 DEF NamesFit
<1>9. ASSUME NEW g \in Fds, NEW h \in Fds, NEW e \in Names(g)', e \in Names(h)'
      PROVE  g = h
  <2>1. CASE e = id
    BY <1>2, <1>3, <1>9, <2>1
  <2>2. CASE e # id
    <3>1. e \in Names(g) /\ e \in Names(h)
      BY <1>2, <1>9, <2>2
    <3>. QED BY <1>1, <3>1 DEF NamesFit
  <2>. QED BY <2>1, <2>2
<1>. QED BY <1>5, <1>6, <1>7, <1>8, <1>9 DEF NamesFit

LEMMA SetupKeepsNames ==
  ASSUME Sockets, Buffers, MediaInv, Setup
  PROVE  MediaInv'
<1> DEFINE track == callback.req.what
           i     == SetupTarget(track)
           ss    == SetupList(track)
<1>1. /\ callback # None /\ callback.req # None /\ callback.req.m = "SETUP"
      /\ UNCHANGED media
  BY DEF Setup, Handling
<1>2. MediaTypeOK' /\ Starts' = Starts /\ Listed' = Listed /\ Played' = Played
  BY <1>1 DEF MediaInv, MediaTypeOK, Starts, Listed, Played, media
<1>3. \A x \in Listed' : Follows(x)
  BY <1>2, ListedFollow
<1>4. \A j \in DOMAIN ss : ss[j].id \in {None}
                           \/ \E k \in DOMAIN list : ss[j].id = list[k].id
  BY <1>1, SetupNames
<1>5. CASE fine /\ track = "track1"
  <2>1. PICK id \in Ids \ ids :
          /\ ids' = ids \cup {id}
          /\ Done([ss EXCEPT ![i].id = id, ![i].state = "ready"])
    BY <1>5 DEF Setup
  <2> DEFINE tt == [ss EXCEPT ![i].id = id, ![i].state = "ready"]
  <2>2. \A j \in DOMAIN tt : j \in DOMAIN ss /\ tt[j].id \in {id, ss[j].id}
    BY <1>1, SetupNames
  <2> HIDE DEF ss, i, tt
  <2>3. \A j \in DOMAIN tt : tt[j].id \in {id, None}
                             \/ \E k \in DOMAIN list : tt[j].id = list[k].id
    BY <1>4, <2>2
  <2>4. Done(tt)
    BY <2>1 DEF tt
  <2>5. /\ callback.fd \in Fds
        /\ \A f \in Fds : IF f = callback.fd
                          THEN Names(f)' \subseteq Names(f) \cup {id, None}
                          ELSE Names(f)' = Names(f)
    BY <1>1, <2>3, <2>4, DoneNames
  <2>6. fd' = fd /\ client' = client /\ callback' = None
    BY <2>4 DEF Done, network
  <2>7. \A f \in Fds : None \notin Names(f)'
    BY DEF Names
  <2>8. NamesFit'
    <3>1. PICK f \in Fds : f = callback.fd
      BY <2>5
    <3>2. \A g \in Fds : IF g = f THEN Names(g)' \subseteq Names(g) \cup {id, None}
                         ELSE Names(g)' = Names(g)
      BY <2>5, <3>1
    <3>. QED BY <1>2, <2>1, <2>6, <2>7, <3>2, NewNameKeeps
  <2>9. StartsFit' /\ StreamsUseTheirClientsSocket'
    BY <1>2, <1>3, <2>6, StreamsKeep
  <2>10. CallerHasSocket'
    BY <2>6 DEF CallerHasSocket
  <2>. QED BY <1>2, <2>8, <2>9, <2>10 DEF MediaInv
<1>6. CASE ~(fine /\ track = "track1")
  <2>1. Done(ss) /\ ids' = ids
    BY <1>6 DEF Setup
  <2> HIDE DEF ss
  <2>2. \A f \in Fds : IF f = callback.fd THEN Names(f)' \subseteq Names(f) \cup {None}
                       ELSE Names(f)' = Names(f)
    BY <1>1, <1>4, <2>1, DoneNames
  <2>3. \A f \in Fds : None \notin Names(f)'
    BY DEF Names
  <2>4. \A f \in Fds : Names(f)' \subseteq Names(f)
    BY <2>2, <2>3
  <2>5. fd' = fd /\ client' = client /\ CallerHasSocket'
    BY <2>1 DEF Done, network, CallerHasSocket
  <2>. QED BY <1>2, <1>3, <2>1, <2>4, <2>5, StepKeeps
<1>. QED BY <1>5, <1>6

LEMMA NoDataKeepsMedia ==
  ASSUME Sockets, MediaInv, NoData
  PROVE  MediaInv'
<1>1. /\ fd' = fd /\ client' = client /\ callback' = None /\ ids' = ids
      /\ buffer' = buffer /\ UNCHANGED media
  BY DEF NoData, network
<1>2. MediaTypeOK' /\ Starts' = Starts /\ Listed' = Listed
  BY <1>1 DEF MediaInv, MediaTypeOK, Starts, Listed, media
<1>3. CallerHasSocket' /\ \A f \in Fds : Names(f)' = Names(f)
  BY <1>1 DEF CallerHasSocket, Names
<1>. QED BY <1>1, <1>2, <1>3, ListedFollow, StepKeeps

-----------------------------------------------------------------------------
(* Connections.                                                            *)

LEMMA ReceiveKeepsMedia ==
  ASSUME Sockets, MediaInv, NEW c \in Clients, NEW req, NEW header,
         Receive(c, req, header)
  PROVE  MediaInv'
<1>1. /\ fd' = fd /\ client' = client /\ ids' = ids /\ buffer' = buffer
      /\ UNCHANGED media /\ callback'.client = c /\ callback'.fd = fd[c]
  BY DEF Receive, Hear
<1>2. MediaTypeOK' /\ Starts' = Starts /\ Listed' = Listed
  BY <1>1 DEF MediaInv, MediaTypeOK, Starts, Listed, media
<1>3. CallerHasSocket' /\ \A f \in Fds : Names(f)' = Names(f)
  BY <1>1 DEF CallerHasSocket, Names
<1>. QED BY <1>1, <1>2, <1>3, ListedFollow, StepKeeps

\* Nothing that was played is of a client that was not there yet.
LEMMA AcceptKeepsMedia ==
  ASSUME Sockets, MediaInv, NEW c \in Clients, NEW f \in Fds, Accept(c, f)
  PROVE  MediaInv'
<1>1. /\ client[c] = "away" /\ client' = [client EXCEPT ![c] = "up"]
      /\ fd' = [fd EXCEPT ![c] = f] /\ ids' = ids /\ buffer' = buffer
      /\ UNCHANGED media /\ callback'.client = c /\ callback'.fd = f
  BY DEF Accept, Hear
<1>2. MediaTypeOK' /\ Starts' = Starts /\ Listed' = Listed /\ Played' = Played
  BY <1>1 DEF MediaInv, MediaTypeOK, Starts, Listed, Played, media
<1>3. /\ fd[c] = None /\ fd'[c] = f
      /\ \A d \in Clients : d # c => fd'[d] = fd[d] /\ client'[d] = client[d]
  BY <1>1 DEF Sockets, ConnectedHaveSockets
<1>4. CallerHasSocket' /\ \A g \in Fds : Names(g)' = Names(g)
  BY <1>1, <1>3 DEF CallerHasSocket, Names
<1>5. NamesFit /\ MediaTypeOK
  BY DEF MediaInv
<1>6. \A g \in Fds : \A x \in Played : x.id \in Names(g)' => fd'[x.client] = fd[x.client]
  <2>1. ASSUME NEW g \in Fds, NEW x \in Played, x.id \in Names(g)'
        PROVE  fd'[x.client] = fd[x.client]
    <3>1. fd[x.client] = g /\ x.client \in Clients
      BY <1>4, <1>5, <2>1, PlayedTypes DEF NamesFit
    <3>. QED BY <1>3, <3>1
  <2>. QED BY <2>1
<1>7. NamesFit'
  BY <1>1, <1>2, <1>4, <1>5, <1>6, NamesKeep
<1>8. StartsFit' /\ StreamsUseTheirClientsSocket'
  <2>1. \A d \in Clients : client[d] = "gone" => client'[d] = "gone"
    BY <1>1, <1>3
  <2>2. \A d \in Clients : fd[d] # None => fd'[d] = fd[d]
    BY <1>3
  <2>. QED BY <1>2, <2>1, <2>2, ListedFollow, StreamsKeep
<1>. QED BY <1>2, <1>4, <1>7, <1>8 DEF MediaInv

\* A client that hangs up has its socket until the close is noticed.
LEMMA HangupKeepsMedia ==
  ASSUME Sockets, MediaInv, NEW c \in Clients, Hangup(c) \/ OverlookClose(c)
  PROVE  MediaInv'
<1>1. /\ fd' = fd /\ UNCHANGED server /\ UNCHANGED media /\ client[c] # "gone"
      /\ \E s : client' = [client EXCEPT ![c] = s]
  BY DEF Hangup, OverlookClose
<1>2. MediaTypeOK' /\ Starts' = Starts /\ Listed' = Listed
  BY <1>1 DEF MediaInv, MediaTypeOK, Starts, Listed, media
<1>3. CallerHasSocket' /\ \A f \in Fds : Names(f)' = Names(f)
  BY <1>1 DEF MediaInv, CallerHasSocket, Names, server
<1>4. \A d \in Clients : client[d] = "gone" => client'[d] = "gone"
  BY <1>1 DEF Sockets
<1>5. ids' = ids
  BY <1>1 DEF server
<1>. QED BY <1>1, <1>2, <1>3, <1>4, <1>5, ListedFollow, StepKeeps

LEMMA TickKeepsMedia ==
  ASSUME Sockets, MediaInv, Tick
  PROVE  MediaInv'
<1>1. /\ fd' = fd /\ client' = client /\ callback' = None /\ ids' = ids
      /\ buffer' = buffer /\ UNCHANGED media
  BY DEF Tick
<1>2. MediaTypeOK' /\ Starts' = Starts /\ Listed' = Listed
  BY <1>1 DEF MediaInv, MediaTypeOK, Starts, Listed, media
<1>3. CallerHasSocket' /\ \A f \in Fds : Names(f)' = Names(f)
  BY <1>1 DEF CallerHasSocket, Names
<1>. QED BY <1>1, <1>2, <1>3, ListedFollow, StepKeeps

\* What a closed socket leaves of sessions, streams and tasks.
LEMMA CloseClientLeaves ==
  ASSUME Buffers, MediaTypeOK, NEW f \in Fds, CloseClient(f),
         UNCHANGED <<published, opening>>
  PROVE  /\ MediaTypeOK' /\ Starts' \subseteq Starts
         /\ \A x \in Listed' : x \in Listed /\ x.fd # f
         /\ \A g \in Fds : Names(g)' = IF g = f THEN {} ELSE Names(g)
<1>1. Remove({s \in Listed : s.fd = f}, tasks) /\ buffer' = [buffer EXCEPT ![f] = <<>>]
  BY DEF CloseClient
<1>2. IsABag(tasks)
  BY DEF MediaTypeOK
<1>3. /\ streams' \in Seq(Stream) /\ Listed' \subseteq Listed \ {s \in Listed : s.fd = f}
      /\ IsABag(tasks') /\ BagToSet(tasks') \subseteq Tasks
      /\ \A t \in BagToSet(tasks') : t.op = "start" => t \in BagToSet(tasks)
  BY <1>1, <1>2, RemoveKeeps
<1>4. MediaTypeOK'
  BY <1>3 DEF MediaTypeOK
<1>5. Starts' \subseteq Starts
  BY <1>3 DEF Starts
<1>6. \A g \in Fds : buffer'[g] = IF g = f THEN <<>> ELSE buffer[g]
  BY <1>1 DEF Buffers
<1>7. \A g \in Fds : Names(g)' = IF g = f THEN {} ELSE Names(g)
  BY <1>6 DEF Names
<1>. QED BY <1>3, <1>4, <1>5, <1>7

LEMMA DropTimeoutKeepsMedia ==
  ASSUME Sockets, Buffers, MediaInv, NEW f \in Fds, DropTimeout(f)
  PROVE  MediaInv'
<1>1. /\ MediaTypeOK /\ fd' = fd /\ client' = client /\ ids' = ids /\ callback # None
      /\ CloseClient(f) /\ UNCHANGED <<published, opening>>
      /\ callback' = [callback EXCEPT !.due = @ \ {f}]
  BY DEF MediaInv, DropTimeout, network
<1>2. /\ MediaTypeOK' /\ Starts' \subseteq Starts
      /\ \A x \in Listed' : x \in Listed /\ x.fd # f
      /\ \A g \in Fds : Names(g)' = IF g = f THEN {} ELSE Names(g)
  BY <1>1, CloseClientLeaves
<1>3. callback'.client = callback.client /\ callback'.fd = callback.fd
  BY <1>1 DEF Sockets, Event
<1>4. CallerHasSocket'
  BY <1>1, <1>3 DEF MediaInv, CallerHasSocket
<1>5. \A g \in Fds : Names(g)' \subseteq Names(g)
  BY <1>2
<1>. QED BY <1>1, <1>2, <1>4, <1>5, ListedFollow, StepKeeps

\* With the socket go the sessions and the streams of the client.
LEMMA NoticeCloseKeepsMedia ==
  ASSUME Sockets, Buffers, MediaInv, NEW c \in Clients, NoticeClose(c)
  PROVE  MediaInv'
<1>1. /\ MediaTypeOK /\ NamesFit /\ StartsFit /\ StreamsUseTheirClientsSocket
      /\ ids' = ids /\ callback' = None /\ fd[c] # None /\ fd[c] \in Fds
      /\ CloseClient(fd[c]) /\ UNCHANGED <<published, opening>>
      /\ client' = [client EXCEPT ![c] = "gone"] /\ fd' = [fd EXCEPT ![c] = None]
  BY DEF MediaInv, NoticeClose, Sockets, ConnectedHaveSockets
<1>2. PICK f \in Fds : f = fd[c]
  BY <1>1
<1>3. /\ MediaTypeOK' /\ Starts' \subseteq Starts
      /\ \A x \in Listed' : x \in Listed /\ x.fd # f
      /\ \A g \in Fds : Names(g)' = IF g = f THEN {} ELSE Names(g)
  BY <1>1, <1>2, CloseClientLeaves
<1>4. \A d \in Clients : /\ d # c => fd'[d] = fd[d] /\ client'[d] = client[d]
                         /\ client'[c] = "gone"
  BY <1>1 DEF Sockets
<1>5. \A x \in Played : x.client \in Clients
  BY <1>1, PlayedTypes
<1>6. Played' \subseteq Played
  BY <1>3 DEF Played
<1>7. StartsFit'
  <2>1. \A t \in Starts : t.client \in Clients
    BY <1>5 DEF Played
  <2>. QED BY <1>1, <1>3, <1>4, <2>1 DEF StartsFit
<1>8. ASSUME NEW g \in Fds, NEW x \in Played, x.id \in Names(g)'
      PROVE  fd'[x.client] = fd[x.client]
  <2>1. g # f /\ x.id \in Names(g)
    BY <1>3, <1>8
  <2>2. fd[x.client] = g
    BY <1>1, <2>1 DEF NamesFit
  <2>. QED BY <1>2, <1>4, <1>5, <2>1, <2>2
<1>9. NamesFit'
  <2>1. \A g \in Fds : Names(g)' \subseteq Names(g)
    BY <1>3
  <2>. QED BY <1>1, <1>6, <1>8, <2>1, NamesKeep
<1>10. StreamsUseTheirClientsSocket'
  <2>1. ASSUME NEW x \in Listed' PROVE x.late \/ fd'[x.client] = x.fd
    <3>1. x \in Listed /\ x.fd # f /\ x.client \in Clients
      BY <1>3, <1>5, <2>1 DEF Played
    <3>2. x.late \/ fd[x.client] = x.fd
      BY <1>1, <3>1 DEF StreamsUseTheirClientsSocket, Listed
    <3>. QED BY <1>2, <1>4, <3>1, <3>2
  <2>. QED BY <2>1 DEF StreamsUseTheirClientsSocket, Listed
<1>11. CallerHasSocket'
  BY <1>1 DEF CallerHasSocket
<1>. QED BY <1>3, <1>7, <1>9, <1>10, <1>11 DEF MediaInv

-----------------------------------------------------------------------------
(* The second invariant and what follows from it.                          *)

LEMMA InitMedia == Init => MediaInv
<1> SUFFICES ASSUME Init PROVE MediaInv
  OBVIOUS
<1>1. IsABag(EmptyBag) /\ BagToSet(EmptyBag) = {}
  BY DEF IsABag, BagToSet, EmptyBag, SetToBag
<1>2. /\ tasks = EmptyBag /\ opening = EmptyBag /\ streams = <<>>
      /\ published = FALSE /\ callback = None
      /\ \A f \in Fds : buffer[f] = <<>>
  BY DEF Init
<1>3. MediaTypeOK
  <2>1. streams \in Seq(Stream)
    BY <1>2
  <2>2. published \in BOOLEAN
    BY <1>2
  <2>3. IsABag(tasks) /\ IsABag(opening) /\ BagToSet(tasks) = {}
          /\ BagToSet(opening) = {}
    BY <1>1, <1>2
  <2>. QED BY <2>1, <2>2, <2>3, Zenon DEF MediaTypeOK
<1>4. Listed = {} /\ Starts = {} /\ Played = {}
  BY <1>1, <1>2 DEF Listed, Starts, Played
<1>5. \A f \in Fds : Names(f) = {}
  BY <1>2 DEF Names
<1>6. NamesFit /\ StartsFit /\ CallerHasSocket
  BY <1>2, <1>4, <1>5 DEF NamesFit, StartsFit, CallerHasSocket
<1>7. StreamsUseTheirClientsSocket
  BY <1>2 DEF StreamsUseTheirClientsSocket
<1>. QED BY <1>3, <1>6, <1>7 DEF MediaInv

LEMMA NextKeepsMedia == Inv /\ MediaInv /\ [Next]_vars => MediaInv'
<1> SUFFICES ASSUME Sockets, Buffers, MediaInv, [Next]_vars PROVE MediaInv'
  BY InvSplits
<1>1. CASE \E c \in Clients, f \in Fds : Accept(c, f)
  BY <1>1, AcceptKeepsMedia
<1>2. CASE \E c \in Clients, req \in Requests, header \in ids \cup {None} :
             Receive(c, req, header)
  BY <1>2, ReceiveKeepsMedia
<1>3. CASE \E c \in Clients : Hangup(c) \/ OverlookClose(c)
  BY <1>3, HangupKeepsMedia
<1>4. CASE \E c \in Clients : NoticeClose(c)
  BY <1>4, NoticeCloseKeepsMedia
<1>5. CASE \E f \in Fds : DropTimeout(f)
  BY <1>5, DropTimeoutKeepsMedia
<1>6. CASE Serve
  BY <1>6, NoDataKeepsMedia, SetupKeepsNames, PlayKeeps, PauseKeeps, AnsweredKeeps
     DEF Serve
<1>7. CASE Tick
  BY <1>7, TickKeepsMedia
<1>8. CASE Abort \/ Publish \/ UNCHANGED vars
  <2>1. published' \in BOOLEAN /\ UNCHANGED <<network, server, tasks, opening, streams>>
    BY <1>8 DEF Abort, Publish, vars, media, MediaInv, MediaTypeOK
  <2>. QED BY <2>1, IdleKeeps
<1>9. CASE Work
  BY <1>9, StartLiveKeeps, RestartFileKeeps, OpenFileKeeps, ListFileKeeps,
     StopStreamsKeeps, HandOverKeeps DEF Work
<1>10. CASE Unpublish \/ \E i \in DOMAIN streams : StreamEnds(i)
  BY <1>10, EndsKeep
<1>. QED
  BY <1>1, <1>2, <1>3, <1>4, <1>5, <1>6, <1>7, <1>8, <1>9, <1>10 DEF Next

\* Whatever is played, stopped, paused and closed, and whenever the workers get
\* to it: ids stand for one connection, and starts and streams for its socket.
THEOREM MediaHolds == Spec => []MediaInv
BY InitMedia, NextKeepsMedia, InvHolds, PTL DEF Spec

\* Every variable of the server has its type in every reachable state; so a PLAY
\* that was accepted names a session id that was given out.
THEOREM TypeCorrect == Spec => []TypeOK
<1>1. Inv /\ MediaInv => TypeOK
  BY DEF Inv, MediaInv, TypeOK
<1>. QED BY <1>1, InvHolds, MediaHolds, PTL

\* A listed stream never sends on a descriptor that has passed to another client:
\* it is on its own client's socket until it is removed, unless its client was
\* gone before it was listed.
THEOREM StreamsKeepTheirSocket == Spec => []StreamsUseTheirClientsSocket
<1>1. MediaInv => StreamsUseTheirClientsSocket
  BY DEF MediaInv
<1>. QED BY <1>1, MediaHolds, PTL
===============================================================================
