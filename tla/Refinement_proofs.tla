--------------------------- MODULE Refinement_proofs ---------------------------
(***************************************************************************)
(* Proofs about the two components that the scheduler knows by what they   *)
(* promise: a task queue (module TaskQueue) implements TaskPool, for any   *)
(* objects and any worker threads, and a pull job (module PullClient)      *)
(* implements PullJob, for any number of descriptors and whatever its      *)
(* threads do to the sockets they share without a mutex.                   *)
(***************************************************************************)
EXTENDS TaskQueue, PullClient, TLAPS

-----------------------------------------------------------------------------
(* The elements of a queue.                                                *)

\* push_back adds one element, at a place of its own.
LEMMA AppendElements ==
  ASSUME queue \in Seq(Objs), NEW t \in Objs
  PROVE  LET q == Append(queue, t) IN
         /\ q \in Seq(Objs)
         /\ ToSet(q) = Queued \cup {t}
         /\ (/\ IsInjective(queue)
             /\ t \notin Queued) =>
              IsInjective(q)
<1> DEFINE q == Append(queue, t)
           n == Len(queue)
<1>1. /\ q \in Seq(Objs) /\ DOMAIN q = 1 .. (n + 1) /\ DOMAIN queue = 1 .. n
      /\ n \in Nat
  OBVIOUS
<1>2. (\A i \in 1 .. n : q[i] = queue[i]) /\ q[n + 1] = t
  OBVIOUS
<1>3. ToSet(q) = Queued \cup {t}
  <2>1. 1 .. (n + 1) = (1 .. n) \cup {n + 1}
    BY <1>1
  <2> HIDE DEF q, n
  <2> QED
    BY <1>1, <1>2, <2>1 DEF Queued, ToSet
<1>4. ASSUME IsInjective(queue),
             t \notin Queued
      PROVE  IsInjective(q)
  <2>1. \A i \in 1 .. n : q[i] # t
    BY <1>1, <1>2, <1>4 DEF Queued, ToSet
  <2> HIDE DEF q, n
  <2> QED
    BY <1>1, <1>2, <1>4, <2>1 DEF IsInjective
<1> QED
  BY <1>1, <1>3, <1>4

\* front and pop_front take out one element, and all of it.
LEMMA TailElements ==
  ASSUME queue \in Seq(Objs), queue # <<>>
  PROVE  LET q == Tail(queue) IN
         /\ q \in Seq(Objs) /\ Head(queue) \in Objs
         /\ Queued = ToSet(q) \cup {Head(queue)}
         /\ (IsInjective(queue)) =>
              /\ IsInjective(q)
              /\ Head(queue) \notin ToSet(q)
<1> DEFINE q == Tail(queue)
           n == Len(queue)
<1>1. /\ q \in Seq(Objs) /\ DOMAIN q = 1 .. (n - 1) /\ DOMAIN queue = 1 .. n
      /\ n \in Nat /\ n > 0 /\ Head(queue) = queue[1] /\ Head(queue) \in Objs
  OBVIOUS
<1>2. \A i \in 1 .. (n - 1) : q[i] = queue[i + 1]
  OBVIOUS
<1>3. Queued = ToSet(q) \cup {Head(queue)}
  <2>1. ASSUME NEW x \in Queued
        PROVE  x \in ToSet(q) \cup {Head(queue)}
    <3>1. PICK i \in 1 .. n : x = queue[i]
      BY <1>1 DEF Queued, ToSet
    <3>2. CASE i = 1
      BY <3>1, <3>2, <1>1
    <3>3. CASE i # 1
      <4>1. i - 1 \in 1 .. (n - 1) /\ q[i - 1] = x
        BY <3>1, <3>3, <1>1, <1>2
      <4> QED
        BY <4>1, <1>1 DEF ToSet
    <3> QED
      BY <3>2, <3>3
  <2>2. ASSUME NEW i \in DOMAIN q PROVE q[i] \in Queued
    BY <1>1, <1>2 DEF Queued, ToSet
  <2>3. Head(queue) \in Queued
    BY <1>1 DEF Queued, ToSet
  <2> HIDE DEF q, n
  <2> QED
    BY <2>1, <2>2, <2>3 DEF ToSet
<1>4. ASSUME IsInjective(queue)
      PROVE  /\ IsInjective(q)
             /\ Head(queue) \notin ToSet(q)
  <2>1. \A i \in 1 .. (n - 1) : i + 1 \in 1 .. n /\ i + 1 # 1
    BY <1>1
  <2> HIDE DEF q, n
  <2>2. ASSUME NEW i \in DOMAIN q, NEW j \in DOMAIN q, q[i] = q[j]
        PROVE  i = j
    <3>1. queue[i + 1] = queue[j + 1]
      BY <2>2, <1>1, <1>2
    <3>2. i + 1 = j + 1
      BY <2>1, <3>1, <1>1, <1>4 DEF IsInjective
    <3> QED
      BY <3>2, <1>1
  <2>3. ASSUME NEW i \in DOMAIN q PROVE q[i] # Head(queue)
    BY SMTT(30), <2>1, <2>3, <1>1, <1>2, <1>4 DEF IsInjective
  <2> QED
    BY <2>2, <2>3 DEF ToSet, IsInjective
<1> QED
  BY <1>1, <1>3, <1>4

-----------------------------------------------------------------------------
(* The invariant.                                                          *)

LEMMA QueueInitInv == QueueInit => QueueInv
  BY TaskQueueAssumption
  DEF QueueInit, QueueInv, QueueTypeOK, NobodySleepsOnWork, HandledOnce, Queued, ToSet,
      IsInjective

\* Every step preserves the invariant.
LEMMA QueueNextInv == QueueInv /\ [QueueNext]_queueVars => QueueInv'
<1> SUFFICES ASSUME QueueInv, [QueueNext]_queueVars PROVE QueueInv'
  OBVIOUS
<1> USE TaskQueueAssumption DEF QueueInv, QueueTypeOK, NobodySleepsOnWork, HandledOnce
<1>1. ASSUME NEW t \in Objs, Add(t) PROVE QueueInv'
  BY <1>1 DEF Add, Known, Queued
<1>2. ASSUME NEW t \in Objs, Push(t) PROVE QueueInv'
  <2>1. /\ queue' \in Seq(Objs) /\ Queued' = Queued \cup {t}
        /\ IsInjective(queue')
    BY <1>2, AppendElements DEF Push, Queued
  <2>2. HandledOnce'
    BY <1>2, <2>1 DEF Push
  <2> QED
    BY <1>2, <2>1, <2>2 DEF Push
<1>3. ASSUME NEW w \in Workers, Loop(w) PROVE QueueInv'
  BY <1>3 DEF Loop, Queued
<1>4. ASSUME NEW w \in Workers, Fetch(w) PROVE QueueInv'
  <2>1. CASE queue = <<>>
    BY <1>4, <2>1 DEF Fetch, Queued
  <2>2. CASE queue # <<>>
    <3>1. /\ queue' \in Seq(Objs) /\ Head(queue) \in Objs
          /\ Queued = Queued' \cup {Head(queue)}
          /\ Head(queue) \notin Queued'
          /\ IsInjective(queue')
      BY <1>4, <2>2, TailElements DEF Fetch, Queued
    <3>2. HandledOnce'
      BY <1>4, <2>2, <3>1 DEF Fetch
    <3> QED
      BY <1>4, <2>2, <3>1, <3>2 DEF Fetch
  <2> QED
    BY <2>1, <2>2
<1>5. ASSUME NEW w \in Workers, Finish(w) PROVE QueueInv'
  <2>1. obj[w] \in Objs /\ obj[w] \notin adding \cup Queued
    BY <1>5 DEF Finish
  <2>2. QueueTypeOK' /\ NobodySleepsOnWork'
    BY <1>5, <2>1 DEF Finish
  <2>3. /\ obj' = [obj EXCEPT ![w] = NoObj] /\ pc' = [pc EXCEPT ![w] = "top"]
        /\ deleted' = deleted \cup {obj[w]} /\ pc[w] = "handle"
        /\ adding' = adding /\ queue' = queue /\ Queued' = Queued
    BY <1>5 DEF Finish, Queued
  <2>4. \A v \in Workers \ {w} : obj[v] # obj[w]
    BY <2>1
  <2>5. \A u, v \in Workers : obj'[u] = obj'[v] /\ obj'[u] # NoObj => u = v
    BY <2>3
  <2>6. \A v \in Workers : obj'[v] # NoObj <=> pc'[v] = "handle"
    BY <2>3
  <2>7. \A v \in Workers : obj'[v] \notin adding' \cup Queued' \cup deleted'
    <3>1. NoObj \notin Queued
      BY DEF Queued, ToSet
    <3> QED
      BY <2>1, <2>3, <2>4, <3>1
  <2>8. HandledOnce'
    BY <2>1, <2>3, <2>5, <2>6, <2>7
  <2> QED
    BY <2>2, <2>8
<1>6. ASSUME NEW w \in Workers, WakeSpuriously(w) PROVE QueueInv'
  BY <1>6 DEF WakeSpuriously, Queued
<1>7. CASE Shutdown \/ ClearJobs
  BY <1>7 DEF Shutdown, ClearJobs, Queued
<1>8. CASE UNCHANGED queueVars
  BY <1>8 DEF queueVars, Queued
<1> QED
  BY <1>1, <1>2, <1>3, <1>4, <1>5, <1>6, <1>7, <1>8 DEF QueueNext, Turn

THEOREM QueueInvHolds == QueueSpec => []QueueInv
  BY QueueInitInv, QueueNextInv, PTL DEF QueueSpec

\* Every variable of the queue keeps its type: the worker that wakes up takes an
\* object if there is one, and none if there is none.
THEOREM QueueTypeCorrect == QueueSpec => []QueueTypeOK
<1>1. QueueInv => QueueTypeOK
  BY DEF QueueInv
<1> QED
  BY <1>1, QueueInvHolds, PTL

\* The wake-ups of the condition variable are never lost.
THEOREM NoLostWakeup == QueueSpec => []NobodySleepsOnWork
<1>1. QueueInv => NobodySleepsOnWork
  BY DEF QueueInv
<1> QED
  BY <1>1, QueueInvHolds, PTL

\* No object is handled twice or used after it was deleted.
THEOREM NoDoubleHandling == QueueSpec => []HandledOnce
<1>1. QueueInv => HandledOnce
  BY DEF QueueInv
<1> QED
  BY <1>1, QueueInvHolds, PTL

-----------------------------------------------------------------------------
(* The refinement of TaskPool.                                             *)

LEMMA QueueInitRefines == QueueInit => Pool!Init
  BY DEF QueueInit, Pool!Init, Queued, ToSet

\* Every step is a step of TaskPool, or leaves its variables alone.
LEMMA QueueStepRefines == QueueInv /\ [QueueNext]_queueVars => [Pool!Next]_(Pool!vars)
<1> SUFFICES ASSUME QueueInv, [QueueNext]_queueVars PROVE [Pool!Next]_(Pool!vars)
  OBVIOUS
<1> USE TaskQueueAssumption DEF QueueInv, QueueTypeOK, HandledOnce, Pool!vars
<1>1. ASSUME NEW t \in Objs, Add(t) PROVE Pool!Next
  BY <1>1 DEF Add, Known, Queued, Pool!Next, Pool!Add, Pool!Handed
<1>2. ASSUME NEW t \in Objs, Push(t) PROVE UNCHANGED Pool!vars
  <2>1. Queued' = Queued \cup {t}
    BY <1>2, AppendElements DEF Push, Queued
  <2> QED
    BY <1>2, <2>1 DEF Push
<1>3. ASSUME NEW w \in Workers, Fetch(w) PROVE [Pool!Next]_(Pool!vars)
  <2>1. CASE queue = <<>>
    BY <1>3, <2>1 DEF Fetch, Queued
  <2>2. CASE queue # <<>>
    <3>1. /\ Queued = Queued' \cup {Head(queue)}
          /\ Head(queue) \notin Queued' /\ Head(queue) \notin adding
      BY <1>3, <2>2, TailElements DEF Fetch, Queued
    <3>2. Pool!Take(w)
      BY <1>3, <2>2, <3>1 DEF Fetch, Pool!Take
    <3> QED
      BY <3>2 DEF Pool!Next
  <2> QED
    BY <2>1, <2>2
<1>4. ASSUME NEW w \in Workers, Finish(w) PROVE Pool!Next
  BY <1>4 DEF Finish, Queued, Pool!Next, Pool!Finish
<1>5. ASSUME NEW w \in Workers, Loop(w) \/ WakeSpuriously(w)
      PROVE  UNCHANGED Pool!vars
  BY <1>5 DEF Loop, WakeSpuriously, Queued
<1>6. CASE Shutdown \/ ClearJobs
  BY <1>6 DEF Shutdown, ClearJobs, Queued
<1>7. CASE UNCHANGED queueVars
  BY <1>7 DEF queueVars, Queued
<1> QED
  BY <1>1, <1>2, <1>3, <1>4, <1>5, <1>6, <1>7 DEF QueueNext, Turn

\* The queue implements the pool: tasks may be overtaken, never lost or doubled.
THEOREM QueueKeepsPromise == QueueSpec => QueueKeepsPool
  BY QueueInitRefines, QueueStepRefines, QueueInvHolds, PTL DEF QueueSpec, QueueKeepsPool, Pool!Spec

-----------------------------------------------------------------------------
(* A pull job.                                                             *)

\* The helper threads exist only while the stream thread waits for them: what
\* they do comes before notifyLiveEnded.
HelpersAreJoined ==
  stream # "join" => \A t \in Helpers : helper[t] \in {"none", "done"}

IInv == TypeOK /\ HelpersAreJoined

LEMMA InitInv == Init => IInv
  BY PullClientAssumption
  DEF Init, IInv, TypeOK, HelpersAreJoined, Dialogue, Helpers, Closers, Sockets, Fds

\* The stream thread waits for its helpers before it goes on.
LEMMA TalkInv == IInv /\ Talk => IInv'
<1> SUFFICES ASSUME IInv, Talk PROVE IInv'
  OBVIOUS
<1> USE PullClientAssumption DEF IInv, TypeOK, HelpersAreJoined, Go
<1>1. CASE Connect
  BY <1>1 DEF Connect, Dialogue, IsNext, Free, news, Sockets
<1>2. CASE Options \/ DialogueFails \/ Describe
  BY ZenonT(40), <1>2 DEF Options, DialogueFails, Describe, Dialogue, sockets, news
<1>3. CASE Ports
  BY <1>3 DEF Ports, IsNext, Free, news, Sockets, Dialogue
<1>4. CASE OddPort
  BY <1>4 DEF OddPort, IsNext, Free, news, Sockets
<1>5. CASE Setup
  BY <1>5 DEF Setup, Dialogue, sockets, news
<1>6. CASE Play
  <2>1. mode = "tcp" => stream' = "join" /\ StartHelpers({"reader", "beat"})
    BY <1>6 DEF Play
  <2>2. mode # "tcp" => stream' = "probe" /\ UNCHANGED <<helper, overdue>>
    BY <1>6 DEF Play
  <2>3. stream = "play" /\ UNCHANGED <<mode, sockets, mEnd, deleter, news, limited>>
    BY <1>6 DEF Play
  <2>4. CASE mode = "tcp"
    BY <2>1, <2>3, <2>4 DEF StartHelpers, sockets, news
  <2>5. CASE mode # "tcp"
    BY <2>2, <2>3, <2>5 DEF Dialogue, sockets, news
  <2> QED
    BY <2>4, <2>5
<1>7. CASE Probe
  BY <1>7 DEF Probe, StartHelpers, sockets, news
<1>8. CASE Join
  BY <1>8 DEF Join, sockets, news
<1>9. CASE NotifyEnded \/ AskDeletion
  BY ZenonT(40), <1>9 DEF NotifyEnded, AskDeletion, sockets
<1> QED
  BY <1>1, <1>2, <1>3, <1>4, <1>5, <1>6, <1>7, <1>8, <1>9 DEF Talk

\* Closing takes the sockets in their order, whoever else closes them.
LEMMA CloseKeepsTypes ==
  ASSUME NEW c \in Closers, TypeOK, Close(c)
  PROVE  /\ closing' \in [Closers -> Sockets \cup {None}]
         /\ sock' \in [Sockets -> Fds \cup {None}]
         /\ owner' \in [Fds -> {"free", "pull", "other"}]
<1>1. \A i \in 1..3 : Order[i] \in Sockets
  BY DEF Order, Sockets
<1> QED
  BY <1>1 DEF TypeOK, Close, IsNextOpen

\* A helper acts only while the stream thread is joining.
LEMMA HelperInv ==
  ASSUME IInv, NEW t \in Helpers, Receive(t) \/ Work(t)
  PROVE  IInv'
<1> USE DEF IInv, TypeOK, HelpersAreJoined, Step
<1>1. CASE GetMedia(t)
  BY <1>1 DEF GetMedia, Looped, sockets
<1>2. CASE GetOther(t)
  BY <1>2 DEF GetOther, Looped, sockets, news
<1>3. CASE RecvFails(t)
  BY <1>3 DEF RecvFails, sockets, news
<1>4. CASE HelperCloses(t)
  BY <1>4, CloseKeepsTypes DEF HelperCloses, news, Closers
<1>5. CASE HelperExits(t)
  BY <1>5 DEF HelperExits, sockets, news
<1> QED
  BY <1>1, <1>2, <1>3, <1>4, <1>5 DEF Receive, Work

LEMMA DeleterInv == IInv /\ (Doom \/ Deleter) => IInv'
<1> SUFFICES ASSUME IInv, Doom \/ Deleter PROVE IInv'
  OBVIOUS
<1> USE DEF IInv, TypeOK, HelpersAreJoined
<1>1. CASE Doom
  BY <1>1 DEF Doom, sockets, news
<1>2. CASE DeleterCloses
  BY <1>2, CloseKeepsTypes DEF DeleterCloses, sockets, news, Closers
<1>3. CASE Destroy
  BY <1>3 DEF Destroy, sockets, news
<1> QED
  BY <1>1, <1>2, <1>3 DEF Deleter

LEMMA NextInv == IInv /\ [Next]_vars => IInv'
<1> SUFFICES ASSUME IInv, [Next]_vars PROVE IInv'
  OBVIOUS
<1> USE DEF IInv, TypeOK, HelpersAreJoined
<1>1. CASE Talk
  BY <1>1, TalkInv
<1>2. ASSUME NEW t \in Helpers, Receive(t) \/ Work(t) PROVE IInv'
  BY <1>2, HelperInv
<1>3. CASE Beat \/ Nap
  BY ZenonT(40), <1>3 DEF Beat, Nap, Step, sockets, news, Helpers
<1>4. CASE Doom \/ Deleter
  BY <1>4, DeleterInv
<1>5. CASE Tick
  BY <1>5 DEF Tick, sockets, news
<1>6. ASSUME NEW f \in Fds, OtherOpens(f) PROVE IInv'
  BY <1>6 DEF OtherOpens, news
<1>7. CASE UNCHANGED vars
  BY <1>7 DEF vars, sockets, news
<1> QED
  BY <1>1, <1>2, <1>3, <1>4, <1>5, <1>6, <1>7 DEF Next

\* The members that the threads share keep their types: a socket member is -1
\* or a descriptor, however closing and connecting interleave.
THEOREM TypeCorrect == Spec => []TypeOK
<1>1. IInv => TypeOK
  BY DEF IInv
<1> QED
  BY <1>1, InitInv, NextInv, PTL DEF Spec

THEOREM InvHolds == Spec => []IInv
  BY InitInv, NextInv, PTL DEF Spec

-----------------------------------------------------------------------------
(* The refinement of PullJob.                                              *)

\* What the scheduler sees of the destructor.
Fate == CASE deleter = "none" -> "kept"
          [] deleter = "gone" -> "destroyed"
          [] OTHER -> "ending"

LEMMA InitRefines == Init => Job!Init
  BY DEF Init, Job!Init

\* The dialogue and the join are of no interest to the scheduler; the two
\* steps after them are.
LEMMA TalkRefines == Talk => [Job!Next]_(Job!vars)
<1> SUFFICES ASSUME Talk PROVE [Job!Next]_(Job!vars)
  OBVIOUS
<1>1. CASE Connect \/ Options \/ Describe \/ Ports \/ OddPort \/ Setup \/ Play
             \/ Probe \/ DialogueFails \/ Join
  <2>1. /\ stream \notin {"idle", "over", "ask"}
        /\ stream' \notin {"idle", "over", "ask"}
        /\ UNCHANGED <<deleter, notices, asked>>
    BY <1>1 DEF Connect, Options, Describe, Ports, OddPort, Setup, Play, Probe,
                DialogueFails, Join, Go, Dialogue, news
  <2> QED
    BY <2>1 DEF Job!vars
<1>2. CASE NotifyEnded
  BY <1>2 DEF NotifyEnded, Go, Job!Next, Job!End
<1>3. CASE AskDeletion
  <2>1. stream = "ask" /\ stream' = "over"
    BY <1>3 DEF AskDeletion, Go
  <2>2. asked' = (Fate = "kept") /\ UNCHANGED <<deleter, notices>>
    BY <1>3 DEF AskDeletion, Fate
  <2> QED
    BY <2>1, <2>2 DEF Job!Next, Job!Leave, Fate
<1> QED
  BY <1>1, <1>2, <1>3 DEF Talk

\* Every step of any thread is a step of PullJob, or leaves its variables alone.
LEMMA StepRefines == IInv /\ [Next]_vars => [Job!Next]_(Job!vars)
<1> SUFFICES ASSUME IInv, [Next]_vars PROVE [Job!Next]_(Job!vars)
  OBVIOUS
<1>1. CASE Talk
  BY <1>1, TalkRefines
<1>2. ASSUME NEW t \in Helpers, GetMedia(t) PROVE [Job!Next]_(Job!vars)
  <2>1. stream = "join" /\ UNCHANGED <<stream, deleter, asked>>
    BY <1>2 DEF GetMedia, IInv, HelpersAreJoined
  <2>2. notices' = notices \/ notices' = notices \cup {"start"}
    BY <1>2 DEF GetMedia
  <2> QED
    BY <2>1, <2>2 DEF Job!Next, Job!Start, Job!vars
<1>3. ASSUME NEW t \in Helpers, GetOther(t) \/ RecvFails(t) \/ Work(t)
      PROVE  UNCHANGED Job!vars
  BY <1>3 DEF GetOther, RecvFails, Work, HelperCloses, HelperExits, news, Job!vars
<1>4. CASE Doom
  BY <1>4 DEF Doom, news, Job!Next, Job!Doom
<1>5. CASE DeleterCloses
  BY <1>5 DEF DeleterCloses, news, Job!vars
<1>6. CASE Destroy
  BY <1>6 DEF Destroy, news, Job!Next, Job!Destroy
<1>7. CASE Beat \/ Nap \/ Tick
  BY <1>7 DEF Beat, Nap, Tick, news, Job!vars
<1>8. ASSUME NEW f \in Fds, OtherOpens(f) PROVE UNCHANGED Job!vars
  BY <1>8 DEF OtherOpens, news, Job!vars
<1>9. CASE UNCHANGED vars
  BY <1>9 DEF vars, news, Job!vars
<1> QED
  BY <1>1, <1>2, <1>3, <1>4, <1>5, <1>6, <1>7, <1>8, <1>9
  DEF Next, Receive, Deleter

\* To the scheduler a pull job is a PullJob, however the four helper threads,
\* the stream thread and the destructor interleave.
THEOREM PullKeepsPromise == Spec => KeepsPromise
  BY InitRefines, StepRefines, InvHolds, PTL DEF Spec, KeepsPromise, Job!Spec
=============================================================================
