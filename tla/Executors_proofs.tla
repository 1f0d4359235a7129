-------------------------- MODULE Executors_proofs --------------------------
(* Proofs about module Executors, for any number of threads, ids, sessions *)
(* and objects, and any quotas.                                            *)
EXTENDS Executors, TLAPS

-----------------------------------------------------------------------------
(* Tasks and the bag they wait in.                                         *)

\* Posting tasks to a bag of tasks gives one.
LEMMA PostType ==
  ASSUME IsABag(tasks), BagToSet(tasks) \subseteq Tasks,
         NEW ts, ts \subseteq Tasks
  PROVE  IsABag(Post(ts)) /\ BagToSet(Post(ts)) \subseteq Tasks
<1>1. DOMAIN Post(ts) = DOMAIN tasks \cup ts
  BY DEF Post, (+), SetToBag
<1>2. \A t \in DOMAIN Post(ts) : Post(ts)[t] \in {n \in Nat : n > 0}
  BY DEF Post, (+), SetToBag, IsABag
<1>3. Post(ts) = [t \in DOMAIN Post(ts) |-> Post(ts)[t]]
  BY DEF Post, (+), SetToBag
<1> QED
  BY <1>1, <1>2, <1>3 DEF IsABag, BagToSet

\* So does taking one out of it.
LEMMA TakeType ==
  ASSUME IsABag(tasks), BagToSet(tasks) \subseteq Tasks, NEW t
  PROVE  /\ IsABag(tasks (-) SetToBag({t}))
         /\ BagToSet(tasks (-) SetToBag({t})) \subseteq Tasks
<1> DEFINE rest == tasks (-) SetToBag({t})
<1>1. DOMAIN rest \subseteq DOMAIN tasks
  BY DEF (-), SetToBag
<1>2. \A u \in DOMAIN rest : rest[u] \in {n \in Nat : n > 0}
  BY DEF (-), SetToBag, IsABag
<1>3. rest = [u \in DOMAIN rest |-> rest[u]]
  BY DEF (-), SetToBag
<1> QED
  BY <1>1, <1>2, <1>3 DEF IsABag, BagToSet

\* The tasks that the program makes.
LEMMA MadeTasks ==
  /\ \A i \in TaskIds, n \in Names : StartLiving(i, n) \in Tasks
  /\ \A t \in FileType, n \in Names : StartFile(t, n) \in Tasks
  /\ \A n \in Names \cup {None} : Stop(n) \in Tasks
  /\ \A n \in Names : Pause(n) \in Tasks
  /\ \A i \in TaskIds, f \in SUBSET Formats, v \in BOOLEAN :
       CreateTask(i, f, v) \in Tasks
  /\ \A i \in TaskIds : DeleteTask(i) \in Tasks
  /\ Task("deleteAll") \in Tasks
  /\ \A i \in TaskIds \cup {None} : StopJson(i) \in Tasks
<1> USE DEF Tasks, Task, Ops, LivingOps, JsonOps, Kinds, FileType
<1>1. \A i \in TaskIds, n \in Names : StartLiving(i, n) \in Tasks
  BY DEF StartLiving
<1>2. \A t \in FileType, n \in Names : StartFile(t, n) \in Tasks
  BY DEF StartFile
<1>3. \A n \in Names \cup {None} : Stop(n) \in Tasks
  BY DEF Stop
<1>4. \A n \in Names : Pause(n) \in Tasks
  BY DEF Pause
<1>5. \A i \in TaskIds, f \in SUBSET Formats, v \in BOOLEAN :
        CreateTask(i, f, v) \in Tasks
  BY DEF CreateTask
<1>6. \A i \in TaskIds : DeleteTask(i) \in Tasks
  BY DEF DeleteTask
<1>7. Task("deleteAll") \in Tasks
  OBVIOUS
<1>8. \A i \in TaskIds \cup {None} : StopJson(i) \in Tasks
  BY DEF StopJson
<1> QED
  BY <1>1, <1>2, <1>3, <1>4, <1>5, <1>6, <1>7, <1>8

\* A task of which one recording is done.
LEMMA SavedType ==
  ASSUME NEW t \in Tasks, NEW f
  PROVE  /\ [t EXCEPT !.save = @ \ {f}] \in Tasks
         /\ [t EXCEPT !.save = @ \ {f}].op = t.op
  BY DEF Tasks

LEMMA RequestsAreTasks == Requests \subseteq Tasks
  BY ExecutorsAssumption, MadeTasks DEF Names
-----------------------------------------------------------------------------
(* Type correctness.                                                       *)

LEMMA InitType == Init => TypeInv
  BY ExecutorsAssumption
  DEF Init, TypeInv, TypeOK, WorkersHoldTasks, IsABag,
      Ops, LivingOps, JsonOps,
      BagToSet, EmptyBag, SetToBag

\* A handler that returns leaves its worker with nothing in hand.
LEMMA ReturnType ==
  ASSUME TypeInv, NEW w \in Workers, Return(w)
  PROVE  /\ WorkersHoldTasks'
         /\ pc' \in [Workers -> Ops \cup {"idle", "saveFile", "pushSave",
                        "lockLiving", "attach", "pushFile", "detach", "erase",
                        "aborted"}]
         /\ task' \in [Workers -> Tasks \cup {None}]
         /\ src' \in [Workers -> Sources \cup {None}]
         /\ hand' \in [Workers -> Sinkers \cup {None}]
         /\ victims' \in [Workers -> SUBSET Sinkers]
BY DEF TypeInv, TypeOK, WorkersHoldTasks, Return, Goto, Ops, LivingOps, JsonOps

\* Every step preserves the types.
LEMMA NextType == TypeInv /\ [Next]_vars => TypeInv'
<1> SUFFICES ASSUME TypeInv, [Next]_vars PROVE TypeInv'
  OBVIOUS
<1> USE DEF TypeInv, TypeOK, WorkersHoldTasks, Ops, LivingOps, JsonOps, graph, locals, Goto
<1>1. ASSUME NEW t \in Requests, Request(t) PROVE TypeInv'
  BY <1>1, RequestsAreTasks, PostType DEF Request
<1>2. ASSUME NEW w \in Workers, NEW t \in BagToSet(tasks), Take(w, t)
      PROVE  TypeInv'
  <2>1. t \in Tasks /\ t.op \in Ops
    BY DEF BagToSet, Tasks
  <2>2. IsABag(tasks') /\ BagToSet(tasks') \subseteq Tasks
    BY <1>2, TakeType DEF Take
  <2>3. task' = [task EXCEPT ![w] = t] /\ pc' = [pc EXCEPT ![w] = t.op]
    BY <1>2 DEF Take
  <2>4. pc' \in [Workers -> Ops \cup {"idle", "saveFile", "pushSave",
                  "lockLiving", "attach", "pushFile", "detach", "erase",
                  "aborted"}]
    BY <2>1, <2>3
  <2>5. task' \in [Workers -> Tasks \cup {None}]
    BY <2>1, <2>3
  <2>6. TypeOK'
    BY <1>2, <2>2, <2>4, <2>5 DEF Take
  <2>7. WorkersHoldTasks'
    BY <1>2, <2>1, <2>3 DEF Take
  <2> QED
    BY <2>6, <2>7
<1>3. ASSUME NEW w \in Workers, Handle(w) PROVE TypeInv'
  <2>1. ASSUME NEW s \in Sources, NewJob(w, s) PROVE TypeInv'
    BY <2>1 DEF NewJob, Tasks
  <2>2. CASE RefuseJob(w)
    BY SMTT(30), <2>2 DEF RefuseJob, Return
  <2>3. CASE SaveFailed(w)
    <3>1. task[w] \in Tasks
      BY <2>3 DEF SaveFailed
    <3>2. /\ task'[w] \in Tasks /\ task'[w].op = task[w].op
          /\ task' = [task EXCEPT ![w] = task'[w]]
      BY <2>3, <3>1, SavedType DEF SaveFailed, Saved
    <3> QED
      BY <2>3, <3>2 DEF SaveFailed
  <2>4. CASE PushSave(w)
    BY <2>4 DEF PushSave
  <2>5. CASE Created(w)
    BY <2>5, ReturnType DEF Created
  <2>6. CASE DeleteJob(w)
    BY <2>6, ReturnType DEF DeleteJob, Unlink
  <2>7. CASE NoMediaType(w)
    BY <2>7, ReturnType DEF NoMediaType
  <2>8. CASE LockLiving(w)
    BY <2>8 DEF LockLiving
  <2>9. CASE Attach(w)
    <3>1. Return(w)
      BY <2>9 DEF Attach
    <3>2. sinker' \in [Sinkers -> {"unborn", "made", "sending", "ending",
                                    "silent", "paused", "freed"}]
      BY <2>9 DEF Attach
    <3>3. hand[w] \in Sinkers /\ jobs[task[w].id] \in Sources
      <4>1. /\ pc[w] = "attach" /\ hand[w] \in Sinkers /\ task[w] \in Tasks
            /\ jobs \in [TaskIds -> Sources \cup {None}] /\ jobs[task[w].id] # None
            /\ task[w].op = "startLiving"
        BY <2>9 DEF Attach
      <4>2. task[w].id \in TaskIds
        BY <4>1 DEF Tasks
      <4> QED
        BY <4>1, <4>2
    <3>4. executors' \subseteq Sinkers
      BY <2>9, <3>3 DEF Attach
    <3>5. sinks' \in [Sources -> SUBSET Sinkers]
      BY <2>9, <3>3 DEF Attach
    <3>6. TypeOK'
      BY <2>9, <3>1, <3>2, <3>4, <3>5, ReturnType DEF Attach
    <3>7. WorkersHoldTasks'
      <4> HIDE DEF WorkersHoldTasks
      <4> QED
        BY <3>1, ReturnType
    <3> QED
      BY <3>6, <3>7
  <2>10. CASE SourceGone(w)
    BY <2>10, ReturnType DEF SourceGone
  <2>11. CASE NoFile(w)
    BY <2>11, ReturnType DEF NoFile
  <2>12. CASE PushFile(w)
    BY <2>12, ReturnType DEF PushFile
  <2>13. CASE PauseStream(w)
    BY <2>13, ReturnType DEF PauseStream
  <2>14. CASE Collect(w)
    <3> DEFINE match == {k \in executors : name[k] = task[w].name}
    <3>1. sinker' \in [Sinkers -> {"unborn", "made", "sending", "ending",
                                    "silent", "paused", "freed"}]
      BY <2>14 DEF Collect
    <3>2. CASE match = {}
      <4>1. Return(w) /\ living' = living
        BY <2>14, <3>2 DEF Collect
      <4> QED
        BY <2>14, <3>1, <4>1, ReturnType DEF Collect
    <3>3. CASE match # {}
      <4>1. /\ living' = w /\ victims' = [victims EXCEPT ![w] = match]
            /\ pc' = [pc EXCEPT ![w] = "detach"]
            /\ task' = task /\ src' = src /\ hand' = hand
        BY <2>14, <3>3 DEF Collect
      <4>2. TypeOK'
        BY <2>14, <3>1, <4>1 DEF Collect
      <4>3. WorkersHoldTasks'
        BY <2>14, <4>1 DEF Collect
      <4> QED
        BY <4>2, <4>3
    <3> QED
      BY <3>2, <3>3
  <2>15. CASE Erase(w)
    <3> DEFINE rest == victims[w] \ {hand[w]}
    <3>1. /\ sinker' \in [Sinkers -> {"unborn", "made", "sending", "ending",
                                    "silent", "paused", "freed"}]
          /\ executors' \subseteq Sinkers
      BY <2>15 DEF Erase
    <3>2. CASE rest = {}
      <4>1. Return(w) /\ living' = None
        BY <2>15, <3>2 DEF Erase
      <4> QED
        BY <2>15, <3>1, <4>1, ReturnType DEF Erase
    <3>3. CASE rest # {}
      <4>1. /\ victims' = [victims EXCEPT ![w] = rest]
            /\ hand' = [hand EXCEPT ![w] = None]
            /\ pc' = [pc EXCEPT ![w] = "detach"]
            /\ living' = living /\ task' = task /\ src' = src
        BY <2>15, <3>3 DEF Erase
      <4>2. TypeOK'
        BY <2>15, <3>1, <4>1 DEF Erase
      <4>3. WorkersHoldTasks'
        BY <2>15, <4>1 DEF Erase
      <4> QED
        BY <4>2, <4>3
    <3> QED
      BY <3>2, <3>3
  <2>16. ASSUME NEW k \in Sinkers, SaveFile(w, k) PROVE TypeInv'
    <3>1. task[w] \in Tasks
      BY <2>16 DEF SaveFile
    <3>2. /\ task'[w] \in Tasks /\ task'[w].op = task[w].op
          /\ task' = [task EXCEPT ![w] = task'[w]]
      BY <2>16, <3>1, SavedType DEF SaveFile, Saved
    <3>3. name' \in [Sinkers -> Names \cup {None}]
      <4>1. task[w].id \in TaskIds
        BY <2>16, <3>1 DEF SaveFile, Tasks
      <4>2. <<task[w].id, NextFormat(w)>> \in Names
        BY <4>1 DEF Names, NextFormat, Formats
      <4> QED
        BY <2>16, <4>2 DEF SaveFile, Construct
    <3>4. TypeOK'
      BY <2>16, <3>2, <3>3 DEF SaveFile, Construct, Kinds
    <3>5. WorkersHoldTasks'
      BY <2>16, <3>2 DEF SaveFile
    <3> QED
      BY <3>4, <3>5
  <2>17. ASSUME NEW k \in Sinkers, MakeLiving(w, k) PROVE TypeInv'
    BY <2>17 DEF MakeLiving, Construct, Kinds, Tasks
  <2>18. ASSUME NEW k \in Sinkers, RestartFile(w, k) PROVE TypeInv'
    <3>1. CASE kind[k] = "h264" /\ sinker[k] # "paused"
      BY <2>18, <3>1 DEF RestartFile
    <3>2. CASE ~(kind[k] = "h264" /\ sinker[k] # "paused")
      <4>1. sinker' = [sinker EXCEPT ![k] = "sending"] /\ Return(w)
        BY <2>18, <3>2 DEF RestartFile
      <4>2. TypeOK'
        BY <2>18, <4>1 DEF RestartFile, Return
      <4>3. WorkersHoldTasks'
        BY <2>18, <4>1 DEF RestartFile, Return
      <4> QED
        BY <4>2, <4>3
    <3> QED
      BY <3>1, <3>2
  <2>19. ASSUME NEW k \in Sinkers, MakeFile(w, k) PROVE TypeInv'
    BY <2>19 DEF MakeFile, Construct, Kinds, Tasks
  <2>20. ASSUME NEW k \in Sinkers, Detach(w, k) PROVE TypeInv'
    <3>1. IsABag(tasks') /\ BagToSet(tasks') \subseteq Tasks
      BY <2>20, MadeTasks, PostType DEF Detach
    <3> QED
      BY <2>20, <3>1 DEF Detach
  <2> QED
    BY <1>3, <2>1, <2>2, <2>3, <2>4, <2>5, <2>6, <2>7, <2>8, <2>9, <2>10,
       <2>11, <2>12, <2>13, <2>14, <2>15, <2>16, <2>17, <2>18, <2>19, <2>20
       DEF Handle
<1>4. ASSUME NEW s \in Sources, StreamThread(s) PROVE TypeInv'
  <2>1. CASE LiveEnded(s)
    BY <2>1, MadeTasks, PostType DEF LiveEnded, NotifyLiveEnded
  <2>2. CASE StreamExit(s)
    <3>1. IsABag(tasks') /\ BagToSet(tasks') \subseteq Tasks
      <4>1. {StopJson(taskId[s])} \subseteq Tasks
        <5>1. taskId[s] \in TaskIds \cup {None}
          OBVIOUS
        <5> HIDE DEF TypeInv, TypeOK, WorkersHoldTasks
        <5> QED
          BY <5>1, MadeTasks
      <4> QED
        BY <2>2, <4>1, PostType DEF StreamExit
    <3> QED
      BY <2>2, <3>1 DEF StreamExit
  <2> QED
    BY <1>4, <2>1, <2>2 DEF StreamThread
<1>5. ASSUME NEW s \in Sources, Deleter(s) PROVE TypeInv'
  BY <1>5 DEF Deleter, DestroyBegin, DestroyEnd
<1>6. ASSUME NEW k \in Sinkers, SenderExit(k) PROVE TypeInv'
  BY <1>6, MadeTasks, PostType DEF SenderExit
<1>7. CASE UNCHANGED vars
  BY <1>7 DEF vars
<1> QED
  BY <1>1, <1>2, <1>3, <1>4, <1>5, <1>6, <1>7 DEF Next

\* The variables of the executors, jobs, sinkers and threads keep their types.
THEOREM TypeCorrect == Spec => []TypeOK
<1>1. TypeInv => TypeOK
  BY DEF TypeInv
<1> QED
  BY InitType, NextType, <1>1, PTL DEF Spec

-----------------------------------------------------------------------------
(* The inductive invariant.                                              *)

\* A new recording is fed by the job that createTask still owns.
LEMMA SaveFileInv ==
  ASSUME Inv, TypeInv', NEW w \in Workers, NEW k \in Sinkers, SaveFile(w, k)
  PROVE  Inv'
<1> USE DEF Inv, TypeInv, TypeOK, graph, locals, Goto
<1>1. LocksAreOwned'
  BY ExecutorsAssumption DEF SaveFile, Construct, Saved, LocksAreOwned
<1>2. NewSinkersArePrivate'
  BY ExecutorsAssumption DEF SaveFile, Construct, Saved, NewSinkersArePrivate,
     WorkersHoldTasks, LocksAreOwned, UnbornAreUnknown, ListedSinkersExist,
     StopsAreExact, Exists
<1>3. StopsAreExact'
  BY ExecutorsAssumption DEF SaveFile, Construct, Saved, StopsAreExact,
     WorkersHoldTasks, LocksAreOwned, NewSinkersArePrivate, UnbornAreUnknown,
     ListedSinkersExist, Exists, Mapped
<1>4. UnbornAreUnknown'
  BY ExecutorsAssumption DEF SaveFile, Construct, Saved, UnbornAreUnknown,
     WorkersHoldTasks, NewSinkersArePrivate, MappedJobsAreKept,
     CreatedJobIsKept, LocksAreOwned, StopsAreExact, ListedSinkersExist,
     Exists
<1>5. ListedSinkersExist'
  BY ExecutorsAssumption DEF SaveFile, Construct, Saved, ListedSinkersExist,
     NewSinkersArePrivate, StopsAreExact, Exists, WorkersHoldTasks
<1>6. MappedJobsFeedExistingSinkers'
  BY ExecutorsAssumption DEF SaveFile, Construct, Saved,
     MappedJobsFeedExistingSinkers, NewSinkersArePrivate, StopsAreExact,
     UnbornAreUnknown, MappedJobsAreKept, WorkersHoldTasks, Exists, Mapped,
     ListedSinkersExist
<1>7. NoSinkerLost'
  BY SMTT(30), ExecutorsAssumption DEF SaveFile, Construct, Saved, NoSinkerLost,
     NewSinkersArePrivate, StopsAreExact, LocksAreOwned, WorkersHoldTasks,
     Exists
<1>8. MappedJobsAreKept'
  BY ExecutorsAssumption DEF SaveFile, Construct, Saved, MappedJobsAreKept,
     UnbornAreUnknown, WorkersHoldTasks
<1>9. CreatedJobIsKept'
  BY ExecutorsAssumption DEF SaveFile, Construct, Saved, CreatedJobIsKept,
     MappedJobsAreKept, UnbornAreUnknown, LocksAreOwned, WorkersHoldTasks
<1> QED
  BY <1>1, <1>2, <1>3, <1>4, <1>5, <1>6, <1>7, <1>8, <1>9 DEF TypeInv

\* A recording that cannot be created is left out.
LEMMA SaveFailedInv ==
  ASSUME Inv, TypeInv', NEW w \in Workers, SaveFailed(w)
  PROVE  Inv'
<1> USE DEF Inv, TypeInv, TypeOK, graph, locals, Goto
<1>1. LocksAreOwned'
  BY ExecutorsAssumption DEF SaveFailed, Saved, LocksAreOwned
<1>2. NewSinkersArePrivate'
  BY ExecutorsAssumption DEF SaveFailed, Saved, NewSinkersArePrivate,
     WorkersHoldTasks, LocksAreOwned, UnbornAreUnknown, ListedSinkersExist,
     StopsAreExact, Exists
<1>3. StopsAreExact'
  BY ExecutorsAssumption DEF SaveFailed, Saved, StopsAreExact,
     WorkersHoldTasks, LocksAreOwned, NewSinkersArePrivate, UnbornAreUnknown,
     ListedSinkersExist, Exists, Mapped
<1>4. UnbornAreUnknown'
  BY ExecutorsAssumption DEF SaveFailed, Saved, UnbornAreUnknown,
     WorkersHoldTasks, NewSinkersArePrivate, MappedJobsAreKept,
     CreatedJobIsKept, LocksAreOwned, StopsAreExact, ListedSinkersExist,
     Exists
<1>5. ListedSinkersExist'
  BY ExecutorsAssumption DEF SaveFailed, Saved, ListedSinkersExist,
     NewSinkersArePrivate, StopsAreExact, Exists, WorkersHoldTasks
<1>6. MappedJobsFeedExistingSinkers'
  BY ExecutorsAssumption DEF SaveFailed, Saved, MappedJobsFeedExistingSinkers,
     NewSinkersArePrivate, StopsAreExact, UnbornAreUnknown, MappedJobsAreKept,
     WorkersHoldTasks, Exists, Mapped, ListedSinkersExist
<1>7. NoSinkerLost'
  BY ExecutorsAssumption DEF SaveFailed, Saved, NoSinkerLost,
     NewSinkersArePrivate, StopsAreExact, LocksAreOwned, WorkersHoldTasks,
     Exists
<1>8. MappedJobsAreKept'
  BY ExecutorsAssumption DEF SaveFailed, Saved, MappedJobsAreKept,
     UnbornAreUnknown, WorkersHoldTasks
<1>9. CreatedJobIsKept'
  BY ExecutorsAssumption DEF SaveFailed, Saved, CreatedJobIsKept,
     MappedJobsAreKept, UnbornAreUnknown, LocksAreOwned, WorkersHoldTasks
<1> QED
  BY <1>1, <1>2, <1>3, <1>4, <1>5, <1>6, <1>7, <1>8, <1>9 DEF TypeInv

\* A file stream gets a new send thread, or the process ends.
LEMMA RestartFileInv ==
  ASSUME Inv, TypeInv', NEW w \in Workers, NEW k \in Sinkers, RestartFile(w, k)
  PROVE  Inv'
<1> USE DEF Inv, TypeInv, TypeOK, graph, locals, Goto
<1>1. LocksAreOwned'
  BY ExecutorsAssumption DEF RestartFile, Return, Accepts, LocksAreOwned
<1>2. NewSinkersArePrivate'
  BY ExecutorsAssumption DEF RestartFile, Return, Accepts,
     NewSinkersArePrivate, WorkersHoldTasks, LocksAreOwned, UnbornAreUnknown,
     ListedSinkersExist, StopsAreExact, Exists
<1>3. StopsAreExact'
  BY ExecutorsAssumption DEF RestartFile, Return, Accepts, StopsAreExact,
     WorkersHoldTasks, LocksAreOwned, NewSinkersArePrivate, UnbornAreUnknown,
     ListedSinkersExist, Exists, Mapped
<1>4. UnbornAreUnknown'
  BY ExecutorsAssumption DEF RestartFile, Return, Accepts, UnbornAreUnknown,
     WorkersHoldTasks, NewSinkersArePrivate, MappedJobsAreKept,
     CreatedJobIsKept, LocksAreOwned, StopsAreExact, ListedSinkersExist,
     Exists
<1>5. ListedSinkersExist'
  BY ExecutorsAssumption DEF RestartFile, Return, Accepts, ListedSinkersExist,
     NewSinkersArePrivate, StopsAreExact, Exists, WorkersHoldTasks
<1>6. MappedJobsFeedExistingSinkers'
  BY ExecutorsAssumption DEF RestartFile, Return, Accepts,
     MappedJobsFeedExistingSinkers, NewSinkersArePrivate, StopsAreExact,
     UnbornAreUnknown, MappedJobsAreKept, WorkersHoldTasks, Exists, Mapped,
     ListedSinkersExist
<1>7. NoSinkerLost'
  BY ExecutorsAssumption DEF RestartFile, Return, Accepts, NoSinkerLost,
     NewSinkersArePrivate, StopsAreExact, LocksAreOwned, WorkersHoldTasks,
     Exists
<1>8. MappedJobsAreKept'
  BY ExecutorsAssumption DEF RestartFile, Return, Accepts, MappedJobsAreKept,
     UnbornAreUnknown, WorkersHoldTasks
<1>9. CreatedJobIsKept'
  BY ExecutorsAssumption DEF RestartFile, Return, Accepts, CreatedJobIsKept,
     MappedJobsAreKept, UnbornAreUnknown, LocksAreOwned, WorkersHoldTasks
<1> QED
  BY <1>1, <1>2, <1>3, <1>4, <1>5, <1>6, <1>7, <1>8, <1>9 DEF TypeInv

\* The mapped jobs let go of the sinker that is about to be destroyed.
LEMMA DetachInv ==
  ASSUME Inv, TypeInv', NEW w \in Workers, NEW k \in Sinkers, Detach(w, k)
  PROVE  Inv'
<1> USE DEF Inv, TypeInv, TypeOK, graph, locals, Goto
<1>1. LocksAreOwned'
  BY ExecutorsAssumption DEF Detach, LocksAreOwned
<1>2. NewSinkersArePrivate'
  BY ExecutorsAssumption DEF Detach, NewSinkersArePrivate, WorkersHoldTasks,
     LocksAreOwned, UnbornAreUnknown, ListedSinkersExist, StopsAreExact,
     Exists
<1>3. StopsAreExact'
  BY ExecutorsAssumption DEF Detach, StopsAreExact, WorkersHoldTasks,
     LocksAreOwned, NewSinkersArePrivate, UnbornAreUnknown,
     ListedSinkersExist, Exists, Mapped
<1>4. UnbornAreUnknown'
  BY ExecutorsAssumption DEF Detach, UnbornAreUnknown, WorkersHoldTasks,
     NewSinkersArePrivate, MappedJobsAreKept, CreatedJobIsKept, LocksAreOwned,
     StopsAreExact, ListedSinkersExist, Exists
<1>5. ListedSinkersExist'
  BY ExecutorsAssumption DEF Detach, ListedSinkersExist, NewSinkersArePrivate,
     StopsAreExact, Exists, WorkersHoldTasks
<1>6. MappedJobsFeedExistingSinkers'
  BY ExecutorsAssumption DEF Detach, MappedJobsFeedExistingSinkers,
     NewSinkersArePrivate, StopsAreExact, UnbornAreUnknown, MappedJobsAreKept,
     WorkersHoldTasks, Exists, Mapped, ListedSinkersExist
<1>7. NoSinkerLost'
  BY ExecutorsAssumption DEF Detach, NoSinkerLost, NewSinkersArePrivate,
     StopsAreExact, LocksAreOwned, WorkersHoldTasks, Exists
<1>8. MappedJobsAreKept'
  BY ExecutorsAssumption DEF Detach, MappedJobsAreKept, UnbornAreUnknown,
     WorkersHoldTasks
<1>9. CreatedJobIsKept'
  BY ExecutorsAssumption DEF Detach, CreatedJobIsKept, MappedJobsAreKept,
     UnbornAreUnknown, LocksAreOwned, WorkersHoldTasks
<1> QED
  BY <1>1, <1>2, <1>3, <1>4, <1>5, <1>6, <1>7, <1>8, <1>9 DEF TypeInv

\* The sinker that is destroyed leaves the list in the same step.
LEMMA EraseInv ==
  ASSUME Inv, TypeInv', NEW w \in Workers, Erase(w)
  PROVE  Inv'
<1> USE DEF Inv, TypeInv, TypeOK, graph, locals, Goto
<1>1. LocksAreOwned'
  BY SMTT(30), ExecutorsAssumption DEF Erase, Return, LocksAreOwned
<1>2. NewSinkersArePrivate'
  BY ExecutorsAssumption DEF Erase, Return, NewSinkersArePrivate,
     WorkersHoldTasks, LocksAreOwned, UnbornAreUnknown, ListedSinkersExist,
     StopsAreExact, Exists
<1>3. StopsAreExact'
  BY ExecutorsAssumption DEF Erase, Return, StopsAreExact, WorkersHoldTasks,
     LocksAreOwned, NewSinkersArePrivate, UnbornAreUnknown,
     ListedSinkersExist, Exists, Mapped
<1>4. UnbornAreUnknown'
  BY ExecutorsAssumption DEF Erase, Return, UnbornAreUnknown,
     WorkersHoldTasks, NewSinkersArePrivate, MappedJobsAreKept,
     CreatedJobIsKept, LocksAreOwned, StopsAreExact, ListedSinkersExist,
     Exists
<1>5. ListedSinkersExist'
  BY ExecutorsAssumption DEF Erase, Return, ListedSinkersExist,
     NewSinkersArePrivate, StopsAreExact, Exists, WorkersHoldTasks
<1>6. MappedJobsFeedExistingSinkers'
  BY ExecutorsAssumption DEF Erase, Return, MappedJobsFeedExistingSinkers,
     NewSinkersArePrivate, StopsAreExact, UnbornAreUnknown, MappedJobsAreKept,
     WorkersHoldTasks, Exists, Mapped, ListedSinkersExist
<1>7. NoSinkerLost'
  BY ExecutorsAssumption DEF Erase, Return, NoSinkerLost,
     NewSinkersArePrivate, StopsAreExact, LocksAreOwned, WorkersHoldTasks,
     Exists
<1>8. MappedJobsAreKept'
  BY ExecutorsAssumption DEF Erase, Return, MappedJobsAreKept,
     UnbornAreUnknown, WorkersHoldTasks
<1>9. CreatedJobIsKept'
  BY ExecutorsAssumption DEF Erase, Return, CreatedJobIsKept,
     MappedJobsAreKept, UnbornAreUnknown, LocksAreOwned, WorkersHoldTasks
<1> QED
  BY <1>1, <1>2, <1>3, <1>4, <1>5, <1>6, <1>7, <1>8, <1>9 DEF TypeInv

\* A handler's step preserves the invariant.
LEMMA HandleInv ==
  ASSUME Inv, TypeInv', NEW w \in Workers, Handle(w)
  PROVE  Inv'
<1> USE ExecutorsAssumption
    DEF Inv, TypeInv, TypeOK, WorkersHoldTasks, LocksAreOwned,
        NewSinkersArePrivate, StopsAreExact, UnbornAreUnknown,
        ListedSinkersExist, MappedJobsFeedExistingSinkers, NoSinkerLost,
        MappedJobsAreKept, CreatedJobIsKept, Mapped, Exists, Ops, LivingOps,
        JsonOps, graph, locals, Goto
<1>1. ASSUME NEW s \in Sources, NewJob(w, s) PROVE Inv'
  BY <1>1 DEF NewJob
<1>2. CASE RefuseJob(w)
  BY SMTT(30), <1>2 DEF RefuseJob, Return
<1>3. CASE PushSave(w)
  BY <1>3 DEF PushSave
<1>4. CASE Created(w)
  BY <1>4 DEF Created, Return
<1>5. CASE DeleteJob(w)
  BY <1>5 DEF DeleteJob, Return, Unlink
<1>6. ASSUME NEW k \in Sinkers, MakeLiving(w, k) PROVE Inv'
  BY <1>6 DEF MakeLiving, Construct
<1>7. CASE NoMediaType(w)
  BY <1>7 DEF NoMediaType, Return
<1>8. CASE LockLiving(w)
  BY <1>8 DEF LockLiving
<1>9. CASE Attach(w)
  <2>0. /\ hand[w] \in Sinkers /\ task[w].id \in TaskIds
        /\ jobs[task[w].id] \in Sources
    <3>1. task[w] \in Tasks /\ task[w].op = "startLiving" /\ pc[w] = "attach"
      BY <1>9 DEF Attach
    <3>2. task[w].id \in TaskIds
      BY <3>1 DEF Tasks
    <3> QED
      BY <1>9, <3>1, <3>2 DEF Attach
  <2>1. LocksAreOwned'
    BY <1>9 DEF Attach, Return
  <2>2. NewSinkersArePrivate'
    BY <1>9 DEF Attach, Return
  <2>3. StopsAreExact' /\ UnbornAreUnknown'
    BY <1>9, <2>0 DEF Attach, Return
  <2>4. ListedSinkersExist' /\ MappedJobsFeedExistingSinkers'
    BY <1>9, <2>0 DEF Attach, Return
  <2>5. NoSinkerLost'
    BY <1>9, <2>0 DEF Attach, Return
  <2>6. MappedJobsAreKept'
    BY <1>9, <2>0 DEF Attach, Return
  <2>7. CreatedJobIsKept'
    BY <1>9, <2>0 DEF Attach, Return
  <2> HIDE DEF TypeInv, LocksAreOwned, NewSinkersArePrivate, StopsAreExact,
        UnbornAreUnknown, ListedSinkersExist, MappedJobsFeedExistingSinkers,
        NoSinkerLost, MappedJobsAreKept, CreatedJobIsKept
  <2> QED
    BY <2>1, <2>2, <2>3, <2>4, <2>5, <2>6, <2>7
<1>10. CASE SourceGone(w)
  BY <1>10 DEF SourceGone, Return
<1>11. ASSUME NEW k \in Sinkers, MakeFile(w, k) PROVE Inv'
  BY <1>11 DEF MakeFile, Construct
<1>12. CASE NoFile(w)
  BY <1>12 DEF NoFile, Return
<1>13. CASE PushFile(w)
  BY <1>13 DEF PushFile, Return
<1>14. CASE PauseStream(w)
  <2>1. \A k \in Sinkers : /\ Exists(k)' <=> Exists(k)
                           /\ sinker'[k] = "unborn" <=> sinker[k] = "unborn"
    BY <1>14 DEF PauseStream
  <2>2. /\ UNCHANGED <<living, json, executors, jobs, sinks, stream, fate,
                      taskId, kind, name, tasks, asked>>
        /\ pc[w] = "pause"
        /\ Return(w)
    BY <1>14 DEF PauseStream
  <2> HIDE DEF Exists
  <2> QED
    BY <2>1, <2>2 DEF Return
<1>15. CASE Collect(w)
  BY <1>15 DEF Collect, Return
<1> HIDE DEF Inv, TypeInv
<1> QED
  BY <1>1, <1>2, <1>3, <1>4, <1>5, <1>6, <1>7, <1>8, <1>9, <1>10, <1>11,
     <1>12, <1>13, <1>14, <1>15, SaveFileInv, SaveFailedInv, RestartFileInv,
     DetachInv, EraseInv DEF Handle

LEMMA InitInv == Init => Inv
<1> SUFFICES ASSUME Init PROVE Inv
  OBVIOUS
<1>1. TypeInv
  BY InitType
<1>2. LocksAreOwned /\ NewSinkersArePrivate /\ StopsAreExact /\ UnbornAreUnknown
  BY ExecutorsAssumption
  DEF Init, LocksAreOwned, NewSinkersArePrivate, StopsAreExact, UnbornAreUnknown
<1>3. ListedSinkersExist /\ MappedJobsFeedExistingSinkers /\ NoSinkerLost
  BY DEF Init, ListedSinkersExist, MappedJobsFeedExistingSinkers, NoSinkerLost,
         Exists
<1>4. MappedJobsAreKept /\ CreatedJobIsKept
  BY DEF Init, MappedJobsAreKept, CreatedJobIsKept
<1> QED
  BY <1>1, <1>2, <1>3, <1>4 DEF Inv, TypeInv

\* So does every step.
LEMMA NextInv == Inv /\ [Next]_vars => Inv'
<1> SUFFICES ASSUME Inv, [Next]_vars PROVE Inv'
  OBVIOUS
<1>1. TypeOK /\ TypeInv'
  BY NextType DEF Inv, TypeInv
<1> USE <1>1 DEF Inv, LocksAreOwned, NewSinkersArePrivate, StopsAreExact,
        UnbornAreUnknown, ListedSinkersExist, MappedJobsFeedExistingSinkers,
        NoSinkerLost, MappedJobsAreKept, CreatedJobIsKept, Mapped, Exists,
        graph, locals
<1>2. ASSUME NEW t \in Requests, Request(t) PROVE Inv'
  BY <1>2 DEF Request, TypeOK
<1>3. ASSUME NEW w \in Workers, NEW t \in BagToSet(tasks), Take(w, t)
      PROVE  Inv'
  <2>1. t.op \in Ops
    BY DEF TypeOK, BagToSet, Tasks
  <2> QED
    BY <1>3, <2>1 DEF TypeOK, Take, Goto, Ops, LivingOps, JsonOps
<1>4. ASSUME NEW s \in Sources, StreamThread(s) PROVE Inv'
  <2>1. CASE LiveEnded(s)
    <3>1. \A k \in Sinkers : /\ Exists(k)' <=> Exists(k)
                             /\ sinker'[k] = "unborn" <=> sinker[k] = "unborn"
      BY <2>1 DEF TypeOK, LiveEnded, NotifyLiveEnded
    <3>2. /\ UNCHANGED <<living, json, executors, jobs, sinks, fate, kind,
                        name, pc, locals>>
          /\ stream' = [stream EXCEPT ![s] = "ended"]
          /\ stream[s] = "running"
      BY <2>1 DEF LiveEnded, NotifyLiveEnded
    <3>3. LocksAreOwned' /\ StopsAreExact'
      BY <3>2
    <3>4. WorkersHoldTasks
      BY DEF TypeInv
    <3>5. NewSinkersArePrivate'
      BY <3>1, <3>2, <3>4 DEF TypeOK, WorkersHoldTasks
    <3>6. ListedSinkersExist' /\ NoSinkerLost'
      BY <3>1, <3>2 DEF TypeOK
    <3>7. UnbornAreUnknown' /\ MappedJobsFeedExistingSinkers'
      BY <3>1, <3>2 DEF TypeOK
    <3>8. MappedJobsAreKept' /\ CreatedJobIsKept'
      BY <3>2 DEF TypeOK
    <3> QED
      BY <3>3, <3>5, <3>6, <3>7, <3>8
  <2>2. CASE StreamExit(s)
    BY <2>2 DEF TypeOK, StreamExit
  <2> QED
    BY <1>4, <2>1, <2>2 DEF StreamThread
<1>5. ASSUME NEW s \in Sources, Deleter(s) PROVE Inv'
  <2>1. CASE DestroyBegin(s)
    BY <2>1 DEF TypeOK, DestroyBegin
  <2>2. CASE DestroyEnd(s)
    BY <2>2 DEF TypeOK, DestroyEnd
  <2> QED
    BY <1>5, <2>1, <2>2 DEF Deleter
<1>6. ASSUME NEW k \in Sinkers, SenderExit(k) PROVE Inv'
  BY <1>6 DEF TypeOK, SenderExit
<1>7. CASE UNCHANGED vars
  BY <1>7 DEF vars
<1> HIDE DEF Inv
<1> QED
  BY <1>2, <1>3, <1>4, <1>5, <1>6, <1>7, HandleInv DEF Next

-----------------------------------------------------------------------------
(* The theorems.                                                           *)

\* Inv is an invariant.
THEOREM InvHolds == Spec => []Inv
  BY InitInv, NextInv, PTL DEF Spec

\* The list loops of taskSchedule touch allocated sinkers only.
THEOREM ListIsSafe == Spec => []ListedSinkersExist
<1>1. Inv => ListedSinkersExist
  BY DEF Inv
<1> QED
  BY <1>1, InvHolds, PTL

\* The stream thread of a job that is still mapped never reaches a destroyed
\* sinker.
THEOREM MappedJobsAreSafe == Spec => []MappedJobsFeedExistingSinkers
<1>1. Inv => MappedJobsFeedExistingSinkers
  BY DEF Inv
<1> QED
  BY <1>1, InvHolds, PTL

\* No allocated sinker is out of everybody's reach.
THEOREM SinkersAreFound == Spec => []NoSinkerLost
<1>1. Inv => NoSinkerLost
  BY DEF Inv
<1> QED
  BY <1>1, InvHolds, PTL

\* A mapped job is alive, and mapped once: it is destroyed once.
THEOREM JobsAreDestroyedOnce == Spec => []MappedJobsAreKept
<1>1. Inv => MappedJobsAreKept
  BY DEF Inv
<1> QED
  BY <1>1, InvHolds, PTL

\* createTask works on a job that nobody destroys.
THEOREM CreateTaskIsSafe == Spec => []CreatedJobIsKept
<1>1. Inv => CreatedJobIsKept
  BY DEF Inv
<1> QED
  BY <1>1, InvHolds, PTL

\* A stop removes every listed stream of its name: only the last step of the
\* handler, and a stop that matches nothing, return.
THEOREM StopIsComplete == Spec => StopLeavesNone
<1> DEFINE Complete ==
      \A w \in Workers :
        (pc[w] \in {"stop", "erase"} /\ pc'[w] = "idle") =>
          \A k \in executors' : name'[k] # task[w].name
<1>1. ASSUME Inv, Next PROVE Complete
  <2> SUFFICES ASSUME NEW w \in Workers, pc[w] \in {"stop", "erase"},
                      pc'[w] = "idle"
               PROVE  \A k \in executors' : name'[k] # task[w].name
    OBVIOUS
  <2>1. Collect(w) \/ Erase(w)
    <3>1. \/ pc'[w] = pc[w] \/ \E t : Take(w, t)
          \/ \E v \in Workers : Handle(v)
      BY <1>1 DEF Next, Request, Take, StreamThread, LiveEnded, NotifyLiveEnded, StreamExit,
                  Deleter, DestroyBegin, DestroyEnd, SenderExit, Goto, locals,
                  Inv, TypeInv, TypeOK
    <3>2. ASSUME NEW v \in Workers, Handle(v), v # w
          PROVE  pc'[w] = pc[w]
      <4>1. DOMAIN pc = Workers
        BY <1>1 DEF Inv, TypeInv, TypeOK
      <4> USE <4>1 DEF Goto, Return, locals
      <4>2. ASSUME NEW s \in Sources, NewJob(v, s) PROVE pc'[w] = pc[w]
        BY <3>2, <4>2 DEF NewJob
      <4>3. CASE \/ RefuseJob(v) \/ SaveFailed(v) \/ PushSave(v) \/ Created(v)
                 \/ DeleteJob(v)
        BY <3>2, <4>3 DEF RefuseJob, SaveFailed, PushSave, Created, DeleteJob
      <4>4. CASE \/ NoMediaType(v) \/ LockLiving(v) \/ Attach(v)
                 \/ SourceGone(v) \/ NoFile(v) \/ PushFile(v)
        BY <3>2, <4>4 DEF NoMediaType, LockLiving, Attach, SourceGone, NoFile,
                          PushFile
      <4>5. CASE PauseStream(v) \/ Collect(v) \/ Erase(v)
        BY <3>2, <4>5 DEF PauseStream, Collect, Erase
      <4>6. ASSUME NEW k \in Sinkers,
                   \/ SaveFile(v, k) \/ MakeLiving(v, k) \/ RestartFile(v, k)
                   \/ MakeFile(v, k) \/ Detach(v, k)
            PROVE  pc'[w] = pc[w]
        BY <3>2, <4>6 DEF SaveFile, MakeLiving, RestartFile, MakeFile, Detach
      <4> QED
        BY <3>2, <4>2, <4>3, <4>4, <4>5, <4>6 DEF Handle
    <3>3. ASSUME Handle(w) PROVE Collect(w) \/ Erase(w)
      BY <3>3
      DEF Handle, NewJob, RefuseJob, SaveFailed, PushSave, Created, DeleteJob,
          NoMediaType, LockLiving, Attach, SourceGone, NoFile, PushFile,
          PauseStream, SaveFile, MakeLiving, RestartFile, MakeFile, Detach,
          Goto
    <3> QED
      BY <3>1, <3>2, <3>3 DEF Take
  <2>2. CASE Collect(w)
    BY <2>2, <1>1 DEF Collect, Return, Goto, Inv, TypeInv, TypeOK
  <2>3. CASE Erase(w)
    BY <2>3, <1>1 DEF Erase, Return, Goto, Inv, TypeInv, TypeOK, StopsAreExact
  <2> QED
    BY <2>1, <2>2, <2>3
<1>2. ASSUME Inv, UNCHANGED vars PROVE Complete
  BY <1>2 DEF vars
<1> QED
  BY <1>1, <1>2, InvHolds, PTL DEF Spec, StopLeavesNone

=============================================================================
