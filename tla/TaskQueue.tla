------------------------------ MODULE TaskQueue ------------------------------
(***************************************************************************)
(* The task queue of taskSchedule, of which it has two of the same make,   *)
(* one for living tasks and one for JSON tasks: addTaskObj and its         *)
(* detached threads, the list with its mutex and condition variable, the   *)
(* worker loop, and taskScheduleShutdown.  A critical section is one step. *)
(***************************************************************************)
EXTENDS Naturals, Sequences, SequencesExt

CONSTANTS
  Objs,     \* task objects, each handed over at most once
  Workers,  \* hardware_concurrency() of them
  NoObj

ASSUME TaskQueueAssumption == NoObj \notin Objs

VARIABLES
  adding,   \* objects carried by a detached thread of addTaskObj
  queue,    \* m_taskLivingScheduleObjList, or m_taskJsonScheduleobjList
  pc,       \* where each worker is
  obj,      \* Obj of each worker
  deleted,  \* objects handled and deleted
  over      \* how far taskScheduleShutdown is

queueVars == <<adding, queue, pc, obj, deleted, over>>

Queued == ToSet(queue)

Known == adding \cup Queued \cup {obj[w] : w \in Workers} \cup deleted

QueueInit ==
  /\ adding = {}
  /\ queue = <<>>
  /\ pc = [w \in Workers |-> "top"]
  /\ obj = [w \in Workers |-> NoObj]
  /\ deleted = {}
  /\ over = "running"

\* addTaskObj starts a thread for the object and returns.
Add(t) ==
  /\ t \notin Known
  /\ adding' = adding \cup {t}
  /\ UNCHANGED <<queue, pc, obj, deleted, over>>

\* Mutant: the object is pushed and nobody is notified.
PushSilently(t) ==
  /\ t \in adding
  /\ adding' = adding \ {t}
  /\ queue' = Append(queue, t)
  /\ UNCHANGED <<pc, obj, deleted, over>>

\* addTaskObjPri, in that thread: push_back and notify_all.
Push(t) ==
  /\ t \in adding
  /\ adding' = adding \ {t}
  /\ queue' = Append(queue, t)
  /\ pc' = [w \in Workers |-> IF pc[w] = "asleep" THEN "fetch" ELSE pc[w]]
  /\ UNCHANGED <<obj, deleted, over>>

\* The shutdown flag is only looked at between two objects.
Loop(w) ==
  /\ pc[w] = "top"
  /\ pc' = [pc EXCEPT ![w] = IF over = "running" THEN "fetch" ELSE "exited"]
  /\ UNCHANGED <<adding, queue, obj, deleted, over>>

\* Mutant: front without pop_front.
FetchKeepsFront(w) ==
  /\ pc[w] = "fetch"
  /\ IF queue = <<>>
     THEN pc' = [pc EXCEPT ![w] = "asleep"] /\ UNCHANGED obj
     ELSE pc' = [pc EXCEPT ![w] = "handle"] /\ obj' = [obj EXCEPT ![w] = Head(queue)]
  /\ UNCHANGED <<adding, queue, deleted, over>>

\* Mutant: the predicate is not tested again after a wait, and front of an empty
\* list is anything.
FetchUntested(w) ==
  /\ pc[w] = "fetch"
  /\ pc' = [pc EXCEPT ![w] = "handle"]
  /\ obj' = [obj EXCEPT ![w] = IF queue = <<>> THEN NoObj ELSE Head(queue)]
  /\ queue' = IF queue = <<>> THEN queue ELSE Tail(queue)
  /\ UNCHANGED <<adding, deleted, over>>

\* Under the mutex: wait while the list is empty, else take the front.
Fetch(w) ==
  /\ pc[w] = "fetch"
  /\ IF queue = <<>>
     THEN /\ pc' = [pc EXCEPT ![w] = "asleep"]
          /\ UNCHANGED <<queue, obj>>
     ELSE /\ pc' = [pc EXCEPT ![w] = "handle"]
          /\ obj' = [obj EXCEPT ![w] = Head(queue)]
          /\ queue' = Tail(queue)
  /\ UNCHANGED <<adding, deleted, over>>

\* A wait may end without a notification; the predicate is tested again.
WakeSpuriously(w) ==
  /\ pc[w] = "asleep"
  /\ pc' = [pc EXCEPT ![w] = "fetch"]
  /\ UNCHANGED <<adding, queue, obj, deleted, over>>

\* The handler returns and the object is deleted.
Finish(w) ==
  /\ pc[w] = "handle"
  /\ pc' = [pc EXCEPT ![w] = "top"]
  /\ obj' = [obj EXCEPT ![w] = NoObj]
  /\ deleted' = deleted \cup {obj[w]}
  /\ UNCHANGED <<adding, queue, over>>

\* taskScheduleShutdown sets the flag, notifies nobody, and joins the workers
\* before it clears the map of jobs.
Shutdown ==
  /\ over = "running"
  /\ over' = "joining"
  /\ UNCHANGED <<adding, queue, pc, obj, deleted>>

ClearJobs ==
  /\ over = "joining" /\ \A w \in Workers : pc[w] = "exited"
  /\ over' = "cleared"
  /\ UNCHANGED <<adding, queue, pc, obj, deleted>>

Turn(w) == Loop(w) \/ Fetch(w) \/ Finish(w)

QueueNext ==
  \/ \E t \in Objs : Add(t) \/ Push(t)
  \/ \E w \in Workers : Turn(w) \/ WakeSpuriously(w)
  \/ Shutdown \/ ClearJobs

QueueSpec == QueueInit /\ [][QueueNext]_queueVars

\* Threads run, handlers return; nothing makes a sleeping worker wake up, and
\* nobody need shut the process down.
QueueFairness ==
  /\ \A t \in Objs : WF_queueVars(Push(t))
  /\ \A w \in Workers : WF_queueVars(Turn(w))
  /\ WF_queueVars(ClearJobs)

QueueFairSpec == QueueSpec /\ QueueFairness

-----------------------------------------------------------------------------
QueueTypeOK ==
  /\ adding \subseteq Objs
  /\ queue \in Seq(Objs)
  /\ pc \in [Workers -> {"top", "fetch", "asleep", "handle", "exited"}]
  /\ obj \in [Workers -> Objs \cup {NoObj}]
  /\ deleted \subseteq Objs
  /\ over \in {"running", "joining", "cleared"}

\* No worker sleeps while an object is queued: notify_all is called after the
\* push, and a worker tests the list before it waits.
NobodySleepsOnWork == queue # <<>> => \A w \in Workers : pc[w] # "asleep"

\* An object is in one place only: it is never handled twice, nor used by a
\* handler after another has deleted it.
HandledOnce ==
  /\ IsInjective(queue)
  /\ \A v, w \in Workers : obj[v] = obj[w] /\ obj[v] # NoObj => v = w
  /\ \A w \in Workers :
       /\ obj[w] # NoObj <=> pc[w] = "handle"
       /\ obj[w] \notin adding \cup Queued \cup deleted
  /\ adding \cap Queued = {}
  /\ adding \cap deleted = {}
  /\ Queued \cap deleted = {}

\* The inductive invariant.
QueueInv == QueueTypeOK /\ NobodySleepsOnWork /\ HandledOnce

\* The queue and the detached threads in front of it keep the promise of
\* TaskPool.
Pool == INSTANCE TaskPool WITH pool <- adding \cup Queued, doing <- obj

QueueKeepsPool == Pool!Spec

\* Until the shutdown, every object handed over is handled.
EveryTaskIsHandled ==
  \A t \in Objs : t \in adding ~> (t \in deleted \/ over # "running")
=============================================================================
