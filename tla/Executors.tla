------------------------------ MODULE Executors ------------------------------
(***************************************************************************)
(* taskSchedule's executors: the list of streams being served             *)
(* (m_taskLivingExecutorList, guarded by m_mutexLivingExecutorMap), the    *)
(* map of pull jobs (m_taskJsonExecutorMap, guarded by                     *)
(* m_mutexTaskJsonExecutor), the sinkers each pull job feeds               *)
(* (rtspClientSource::m_sinkerList), and every thread that creates, links, *)
(* unlinks or destroys them: the living and JSON workers, the thread that  *)
(* calls executeTaskObj, the detached deleter threads, the stream thread   *)
(* of each rtspClientSource and the send thread of each streamed sinker.   *)
(*                                                                         *)
(* A critical section that takes no second lock is one step.  A step that  *)
(* ends while it still owns a mutex does so because the code goes on to    *)
(* take the other one.  m_sinkerMutex is only ever innermost, so its       *)
(* critical sections are steps and it needs no variable.                   *)
(*                                                                         *)
(* addTaskObj hands a task to a detached thread, so tasks are taken in any *)
(* order: the queue is a bag (module TaskQueue shows it is one).            *)
(***************************************************************************)
EXTENDS Naturals, FiniteSets, Bags

CONSTANTS
  TaskIds,      \* ids of createTask, the names clients play
  Sessions,     \* RTSP session ids
  Sources,      \* rtspClientSource objects
  Sinkers,      \* streamSinker / streamSource objects
  LivingWorkers,\* threads that run the living handlers: the living workers,
                \* and the socket thread, which calls executeTaskObj
  JsonWorkers,  \* the JSON workers
  Requests,     \* the tasks that clients may ask for
  Quota,        \* bound on how often they ask for each
  None

Formats  == {"flv", "mp4"}
FileType == {"h264", "flv"}
Kinds    == {"live", "save"} \cup FileType

\* A stream is stopped by the name it goes by: its session id, or, for a
\* recording, its file name (by default made of the task id and the format).
Names == Sessions \cup (TaskIds \X Formats)

LivingOps == {"startLiving", "startFile", "stop", "pause", "stopJson"}
JsonOps   == {"createTask", "deleteTask", "deleteAll"}
Ops       == LivingOps \cup JsonOps

Workers == LivingWorkers \cup JsonWorkers

Tasks ==
  {t \in [op : Ops, id : TaskIds \cup {None}, name : Names \cup {None},
          kind : Kinds \cup {None}, save : SUBSET Formats, valid : BOOLEAN] :
     /\ t.op \in {"createTask", "startLiving"} => t.id \in TaskIds
     /\ t.op = "startFile" => t.kind \in FileType}

Task(op) == [op |-> op, id |-> None, name |-> None, kind |-> None,
             save |-> {}, valid |-> TRUE]

StartLiving(id, n)  == [Task("startLiving") EXCEPT !.id = id, !.name = n]
StartFile(type, n)  == [Task("startFile") EXCEPT !.kind = type, !.name = n]
Stop(n)             == [Task("stop") EXCEPT !.name = n]
Pause(n)            == [Task("pause") EXCEPT !.name = n]
CreateTask(id, save, valid) ==
  [Task("createTask") EXCEPT !.id = id, !.save = save, !.valid = valid]
DeleteTask(id)      == [Task("deleteTask") EXCEPT !.id = id]
StopJson(id)        == [Task("stopJson") EXCEPT !.id = id]

ASSUME ExecutorsAssumption ==
  /\ None \notin TaskIds \cup Sessions \cup Sources \cup Sinkers \cup Workers
  /\ None \notin Names
  /\ Sessions \cap (TaskIds \X Formats) = {}
  /\ Quota \in [Requests -> Nat]
  /\ Requests \subseteq
       {StartLiving(i, n) : i \in TaskIds, n \in Sessions}
         \cup {StartFile(t, n) : t \in FileType, n \in Sessions}
         \cup {Stop(n) : n \in Sessions} \cup {Pause(n) : n \in Sessions}
         \cup {CreateTask(i, f, v) : i \in TaskIds, f \in SUBSET Formats,
                                     v \in BOOLEAN}
         \cup {DeleteTask(i) : i \in TaskIds} \cup {Task("deleteAll")}

VARIABLES
  living,    \* owner of m_mutexLivingExecutorMap
  json,      \* owner of m_mutexTaskJsonExecutor
  executors, \* m_taskLivingExecutorList
  jobs,      \* m_taskJsonExecutorMap
  sinks,     \* m_sinkerList of each source
  stream,    \* how far the stream thread of each source is
  fate,      \* whether a source was handed to a deleter, and its destructor
  taskId,    \* m_taskStruct.taskId of each source
  sinker,    \* life of each sinker and its send thread
  kind,      \* class of each sinker
  name,      \* session id or file name of each sinker
  tasks,     \* tasks queued and not yet taken, a bag
  asked,     \* how often clients asked for each so far
  pc,        \* where each worker is
  task,      \* the task it handles
  src,       \* createTask: its rtspClientSource
  hand,      \* the sinker it is creating, or destroying
  victims    \* stopLivingStreamFile: listRemove

graph  == <<executors, jobs, sinks, stream, fate, taskId, sinker, kind, name>>
locals == <<task, src, hand, victims>>
vars   == <<living, json, graph, tasks, asked, pc, locals>>

Mapped(s) == \E i \in TaskIds : jobs[i] = s

\* addTaskObj
Post(ts) == tasks (+) SetToBag(ts)

Goto(w, l) == pc' = [pc EXCEPT ![w] = l]

\* The handler returns and its task object is deleted.
Return(w) ==
  /\ Goto(w, "idle")
  /\ task'    = [task EXCEPT ![w] = None]
  /\ src'     = [src EXCEPT ![w] = None]
  /\ hand'    = [hand EXCEPT ![w] = None]
  /\ victims' = [victims EXCEPT ![w] = {}]

Init ==
  /\ living = None
  /\ json = None
  /\ executors = {}
  /\ jobs = [i \in TaskIds |-> None]
  /\ sinks = [s \in Sources |-> {}]
  /\ stream = [s \in Sources |-> "unborn"]
  /\ fate = [s \in Sources |-> "kept"]
  /\ taskId = [s \in Sources |-> None]
  /\ sinker = [k \in Sinkers |-> "unborn"]
  /\ kind = [k \in Sinkers |-> None]
  /\ name = [k \in Sinkers |-> None]
  /\ tasks = EmptyBag
  /\ asked = [t \in Requests |-> 0]
  /\ pc = [w \in Workers |-> "idle"]
  /\ task = [w \in Workers |-> None]
  /\ src = [w \in Workers |-> None]
  /\ hand = [w \in Workers |-> None]
  /\ victims = [w \in Workers |-> {}]

-----------------------------------------------------------------------------
(* Requests, and the workers that take them.                               *)

Request(t) ==
  /\ asked[t] < Quota[t]
  /\ asked' = [asked EXCEPT ![t] = @ + 1]
  /\ tasks' = Post({t})
  /\ UNCHANGED <<living, json, graph, pc, locals>>

Crew(t) == IF t.op \in JsonOps THEN JsonWorkers ELSE LivingWorkers

Take(w, t) ==
  /\ pc[w] = "idle" /\ w \in Crew(t)
  /\ tasks' = tasks (-) SetToBag({t})
  /\ task' = [task EXCEPT ![w] = t]
  /\ Goto(w, t.op)
  /\ UNCHANGED <<living, json, graph, asked, src, hand, victims>>

\* A sinker is allocated and constructed.
Construct(k, c, n, life) ==
  /\ sinker[k] = "unborn"
  /\ sinker' = [sinker EXCEPT ![k] = life]
  /\ kind' = [kind EXCEPT ![k] = c]
  /\ name' = [name EXCEPT ![k] = n]

-----------------------------------------------------------------------------
(* createTask.  The look-up of an existing job uses the empty local taskId *)
(* instead of the request's, so it finds nothing; insert leaves the map    *)
(* alone if the id is taken.  m_mutexTaskJsonExecutor is held throughout.  *)

NewJob(w, s) ==
  LET t == task[w] IN
  /\ pc[w] = "createTask" /\ t.valid
  /\ json = None /\ stream[s] = "unborn"
  /\ json' = w
  /\ stream' = [stream EXCEPT ![s] = "running"]
  /\ taskId' = [taskId EXCEPT ![s] = t.id]
  /\ jobs' = IF jobs[t.id] = None THEN [jobs EXCEPT ![t.id] = s] ELSE jobs
  /\ src' = [src EXCEPT ![w] = s]
  /\ Goto(w, "saveFile")
  /\ UNCHANGED <<living, executors, sinks, fate, sinker, kind, name, tasks,
                 asked, task, hand, victims>>

\* A target that does not parse: the source is deleted and Failed is sent, but
\* the recordings are then set up on the null pointer.
RefuseJob(w) ==
  /\ pc[w] = "createTask" /\ ~task[w].valid
  /\ json = None
  /\ IF task[w].save = {}
     THEN Return(w)
     ELSE Goto(w, "aborted") /\ UNCHANGED locals
  /\ UNCHANGED <<living, json, graph, tasks, asked>>

\* flv before mp4; a recording whose file cannot be created is dropped.
NextFormat(w) == IF "flv" \in task[w].save THEN "flv" ELSE "mp4"

Saved(w) == [task EXCEPT ![w].save = @ \ {NextFormat(w)}]

SaveFile(w, k) ==
  /\ pc[w] = "saveFile" /\ task[w].save # {}
  /\ Construct(k, "save", <<task[w].id, NextFormat(w)>>, "made")
  /\ sinks' = [sinks EXCEPT ![src[w]] = @ \cup {k}]
  /\ hand' = [hand EXCEPT ![w] = k]
  /\ task' = Saved(w)
  /\ Goto(w, "pushSave")
  /\ UNCHANGED <<living, json, executors, jobs, stream, fate, taskId, tasks,
                 asked, src, victims>>

SaveFailed(w) ==
  /\ pc[w] = "saveFile" /\ task[w].save # {}
  /\ task' = Saved(w)
  /\ UNCHANGED <<living, json, graph, tasks, asked, pc, src, hand, victims>>

\* m_mutexLivingExecutorMap is taken while m_mutexTaskJsonExecutor is held.
PushSave(w) ==
  /\ pc[w] = "pushSave" /\ living = None
  /\ executors' = executors \cup {hand[w]}
  /\ hand' = [hand EXCEPT ![w] = None]
  /\ Goto(w, "saveFile")
  /\ UNCHANGED <<living, json, jobs, sinks, stream, fate, taskId, sinker, kind,
                 name, tasks, asked, task, src, victims>>

\* Mutant: a return without unlocking m_mutexTaskJsonExecutor.
CreatedKeepsLock(w) ==
  /\ pc[w] = "saveFile" /\ task[w].save = {}
  /\ Return(w)
  /\ UNCHANGED <<living, json, graph, tasks, asked>>

Created(w) ==
  /\ pc[w] = "saveFile" /\ task[w].save = {}
  /\ json' = None
  /\ Return(w)
  /\ UNCHANGED <<living, graph, tasks, asked>>

-----------------------------------------------------------------------------
(* deleteTask, its empty-id form, and stop_json_task: unlink under the     *)
(* JSON lock, destroy on a detached thread.                                *)

\* Mutant: the deleter is started and the map entry is left in place.
UnlinkKeepsEntry(ids) ==
  /\ fate' = [s \in Sources |->
                IF s \in {jobs[i] : i \in TaskIds \cap ids} THEN "doomed" ELSE fate[s]]
  /\ UNCHANGED jobs

Unlink(ids) ==
  LET gone == {jobs[i] : i \in TaskIds \cap ids} IN
  /\ fate' = [s \in Sources |-> IF s \in gone THEN "doomed" ELSE fate[s]]
  /\ jobs' = [i \in TaskIds |-> IF i \in ids THEN None ELSE jobs[i]]

\* Mutant: the map is changed without m_mutexTaskJsonExecutor.
DeleteJobUnlocked(w) ==
  /\ pc[w] \in {"deleteTask", "deleteAll", "stopJson"}
  /\ Unlink(IF pc[w] = "deleteAll" THEN TaskIds ELSE {task[w].id})
  /\ Return(w)
  /\ UNCHANGED <<living, json, executors, sinks, stream, taskId, sinker, kind,
                 name, tasks, asked>>

DeleteJob(w) ==
  /\ pc[w] \in {"deleteTask", "deleteAll", "stopJson"} /\ json = None
  /\ Unlink(IF pc[w] = "deleteAll" THEN TaskIds ELSE {task[w].id})
  /\ Return(w)
  /\ UNCHANGED <<living, json, executors, sinks, stream, taskId, sinker, kind,
                 name, tasks, asked>>

\* ~rtspClientSource sets m_hasCalledDeleteSelf and m_end ...
DestroyBegin(s) ==
  /\ fate[s] = "doomed"
  /\ fate' = [fate EXCEPT ![s] = "closing"]
  /\ UNCHANGED <<living, json, executors, jobs, sinks, stream, taskId, sinker,
                 kind, name, tasks, asked, pc, locals>>

\* ... and joins the stream thread.
DestroyEnd(s) ==
  /\ fate[s] = "closing" /\ stream[s] = "exited"
  /\ stream' = [stream EXCEPT ![s] = "freed"]
  /\ sinks' = [sinks EXCEPT ![s] = {}]
  /\ UNCHANGED <<living, json, executors, jobs, fate, taskId, sinker, kind,
                 name, tasks, asked, pc, locals>>

\* Every sinker is told that its source is gone: a recording asks for its own
\* removal, a live sinker's send thread is told to end.
NotifyLiveEnded(s) ==
  /\ sinker' = [k \in Sinkers |->
                  IF k \in sinks[s] /\ sinker[k] = "sending" THEN "ending"
                  ELSE sinker[k]]
  /\ tasks' = Post({Stop(name[k]) : k \in {j \in sinks[s] : kind[j] = "save"}})

\* rtspStreamStart leaves its loop, for whatever reason.
LiveEnded(s) ==
  /\ stream[s] = "running"
  /\ stream' = [stream EXCEPT ![s] = "ended"]
  /\ NotifyLiveEnded(s)
  /\ UNCHANGED <<living, json, executors, jobs, sinks, fate, taskId, kind, name,
                 asked, pc, locals>>

\* Mutant: it waits for its job to be deleted by others.
StreamExitWaits(s) ==
  /\ stream[s] = "ended" /\ fate[s] = "kept"
  /\ stream' = [stream EXCEPT ![s] = "exited"]
  /\ tasks' = Post({StopJson(taskId[s])})
  /\ UNCHANGED <<living, json, executors, jobs, sinks, fate, taskId, sinker,
                 kind, name, asked, pc, locals>>

\* Mutant: the job is named by its address instead of its id.
StreamExitMisnamed(s) ==
  /\ stream[s] = "ended"
  /\ stream' = [stream EXCEPT ![s] = "exited"]
  /\ tasks' = IF fate[s] = "closing" THEN tasks ELSE Post({StopJson(s)})
  /\ UNCHANGED <<living, json, executors, jobs, sinks, fate, taskId, sinker,
                 kind, name, asked, pc, locals>>

\* Unless it is being destroyed already, it asks for its job to be deleted, by
\* id.
StreamExit(s) ==
  /\ stream[s] = "ended"
  /\ stream' = [stream EXCEPT ![s] = "exited"]
  /\ tasks' = IF fate[s] = "closing" THEN tasks
              ELSE Post({StopJson(taskId[s])})
  /\ UNCHANGED <<living, json, executors, jobs, sinks, fate, taskId, sinker,
                 kind, name, asked, pc, locals>>

-----------------------------------------------------------------------------
(* PLAY of a live task.                                                    *)

\* createNewRealtimeSource asks for the media type, unknown until the job has
\* got its DESCRIBE, and constructs the sinker without any lock.
MakeLiving(w, k) ==
  /\ pc[w] = "startLiving" /\ json = None
  /\ jobs[task[w].id] # None
  /\ Construct(k, "live", task[w].name, "made")
  /\ hand' = [hand EXCEPT ![w] = k]
  /\ Goto(w, "lockLiving")
  /\ UNCHANGED <<living, json, executors, jobs, sinks, stream, fate, taskId,
                 tasks, asked, task, src, victims>>

NoMediaType(w) ==
  /\ pc[w] = "startLiving" /\ json = None
  /\ Return(w)
  /\ UNCHANGED <<living, json, graph, tasks, asked>>

LockLiving(w) ==
  /\ pc[w] = "lockLiving" /\ living = None
  /\ living' = w
  /\ Goto(w, "attach")
  /\ UNCHANGED <<json, graph, tasks, asked, locals>>

\* Mutant: the stream is linked and started, and not listed.
AttachUnlisted(w) ==
  LET k == hand[w]  s == jobs[task[w].id] IN
  /\ pc[w] = "attach" /\ json = None /\ s # None
  /\ sinks' = [sinks EXCEPT ![s] = @ \cup {k}]
  /\ sinker' = [sinker EXCEPT ![k] = "sending"]
  /\ living' = None
  /\ Return(w)
  /\ UNCHANGED <<json, executors, jobs, stream, fate, taskId, kind, name, tasks,
                 asked>>

\* Both locks are held: link the sinker to the job, list it, start its sender.
Attach(w) ==
  LET k == hand[w]  s == jobs[task[w].id] IN
  /\ pc[w] = "attach" /\ json = None /\ s # None
  /\ sinks' = [sinks EXCEPT ![s] = @ \cup {k}]
  /\ executors' = executors \cup {k}
  /\ sinker' = [sinker EXCEPT ![k] = "sending"]
  /\ living' = None
  /\ Return(w)
  /\ UNCHANGED <<json, jobs, stream, fate, taskId, kind, name, tasks, asked>>

SourceGone(w) ==
  /\ pc[w] = "attach" /\ json = None /\ jobs[task[w].id] = None
  /\ sinker' = [sinker EXCEPT ![hand[w]] = "freed"]
  /\ living' = None
  /\ Return(w)
  /\ UNCHANGED <<json, executors, jobs, sinks, stream, fate, taskId, kind, name,
                 tasks, asked>>

-----------------------------------------------------------------------------
(* PLAY of a file: it is first offered to the listed streams, of which one *)
(* of the same session restarts.                                           *)

Accepts(w, k) ==
  /\ k \in executors /\ kind[k] \in FileType /\ name[k] = task[w].name

\* A send thread that was not joined: FlvVideoFileStreamSource joins it first,
\* H264VideoFileStreamSource assigns over a joinable std::thread.
RestartFile(w, k) ==
  /\ pc[w] = "startFile" /\ living = None /\ Accepts(w, k)
  /\ IF kind[k] = "h264" /\ sinker[k] # "paused"
     THEN Goto(w, "aborted") /\ UNCHANGED <<sinker, locals>>
     ELSE /\ sinker' = [sinker EXCEPT ![k] = "sending"]
          /\ Return(w)
  /\ UNCHANGED <<living, json, executors, jobs, sinks, stream, fate, taskId,
                 kind, name, tasks, asked>>

\* Otherwise a new one is constructed and started, outside the lock ...
MakeFile(w, k) ==
  /\ pc[w] = "startFile" /\ living = None
  /\ \A j \in Sinkers : ~Accepts(w, j)
  /\ Construct(k, task[w].kind, task[w].name, "sending")
  /\ hand' = [hand EXCEPT ![w] = k]
  /\ Goto(w, "pushFile")
  /\ UNCHANGED <<living, json, executors, jobs, sinks, stream, fate, taskId,
                 tasks, asked, task, src, victims>>

\* ... unless the file cannot be opened ...
NoFile(w) ==
  /\ pc[w] = "startFile" /\ living = None
  /\ \A j \in Sinkers : ~Accepts(w, j)
  /\ Return(w)
  /\ UNCHANGED <<living, json, graph, tasks, asked>>

\* Mutant: the file stream is listed without m_mutexLivingExecutorMap.
PushFileUnlocked(w) ==
  /\ pc[w] = "pushFile"
  /\ executors' = executors \cup {hand[w]}
  /\ Return(w)
  /\ UNCHANGED <<living, json, jobs, sinks, stream, fate, taskId, sinker, kind,
                 name, tasks, asked>>

\* ... and listed later.
PushFile(w) ==
  /\ pc[w] = "pushFile" /\ living = None
  /\ executors' = executors \cup {hand[w]}
  /\ Return(w)
  /\ UNCHANGED <<living, json, jobs, sinks, stream, fate, taskId, sinker, kind,
                 name, tasks, asked>>

-----------------------------------------------------------------------------
(* Send threads.  One that was told to end, has nothing more to send or    *)
(* cannot send any more asks for its own stream to be stopped, unless the  *)
(* stream is being paused or destroyed.                                    *)

\* Mutant: a send thread that is told to end asks for nothing.
SenderExitQuiet(k) ==
  /\ sinker[k] \in {"sending", "ending"}
  /\ sinker' = [sinker EXCEPT ![k] = "silent"]
  /\ UNCHANGED <<living, json, executors, jobs, sinks, stream, fate, taskId,
                 kind, name, tasks, asked, pc, locals>>

SenderExit(k) ==
  /\ sinker[k] \in {"sending", "ending"}
  /\ sinker' = [sinker EXCEPT ![k] = "silent"]
  /\ tasks' = Post({Stop(name[k])})
  /\ UNCHANGED <<living, json, executors, jobs, sinks, stream, fate, taskId,
                 kind, name, asked, pc, locals>>

\* pauseLivingStreamFile joins the send thread of the first match.
PauseStream(w) ==
  LET match == {k \in executors : name[k] = task[w].name} IN
  /\ pc[w] = "pause" /\ living = None
  /\ \/ match = {} /\ UNCHANGED sinker
     \/ \E k \in match : sinker' = [sinker EXCEPT ![k] = "paused"]
  /\ Return(w)
  /\ UNCHANGED <<living, json, executors, jobs, sinks, stream, fate, taskId,
                 kind, name, tasks, asked>>

-----------------------------------------------------------------------------
(* stopLivingStreamFile: under the living lock, collect every match, then  *)
(* for each one tell the mapped jobs, and destroy it.                      *)

Collect(w) ==
  LET match == {k \in executors : name[k] = task[w].name} IN
  /\ pc[w] = "stop" /\ living = None
  /\ sinker' = [k \in Sinkers |->
                  IF k \in match /\ sinker[k] = "sending" THEN "ending"
                  ELSE sinker[k]]
  /\ IF match = {}
     THEN Return(w) /\ UNCHANGED living
     ELSE /\ living' = w
          /\ victims' = [victims EXCEPT ![w] = match]
          /\ Goto(w, "detach")
          /\ UNCHANGED <<task, src, hand>>
  /\ UNCHANGED <<json, executors, jobs, sinks, stream, fate, taskId, kind, name,
                 tasks, asked>>

\* Mutant: the jobs are not told.
DetachUntold(w, k) ==
  /\ pc[w] = "detach" /\ k \in victims[w] /\ json = None
  /\ hand' = [hand EXCEPT ![w] = k]
  /\ Goto(w, "erase")
  /\ UNCHANGED <<living, json, graph, tasks, asked, task, src, victims>>

\* A live sinker found in a job's list answers with one more stop task.
Detach(w, k) ==
  LET feeding == {s \in Sources : Mapped(s) /\ k \in sinks[s]} IN
  /\ pc[w] = "detach" /\ k \in victims[w] /\ json = None
  /\ sinks' = [s \in Sources |->
                 IF s \in feeding THEN sinks[s] \ {k} ELSE sinks[s]]
  /\ tasks' = IF feeding # {} /\ kind[k] = "live"
              THEN Post({Stop(name[k])}) ELSE tasks
  /\ hand' = [hand EXCEPT ![w] = k]
  /\ Goto(w, "erase")
  /\ UNCHANGED <<living, json, executors, jobs, stream, fate, taskId, sinker,
                 kind, name, asked, task, src, victims>>

Erase(w) ==
  LET k == hand[w]  rest == victims[w] \ {k} IN
  /\ pc[w] = "erase"
  /\ sinker' = [sinker EXCEPT ![k] = "freed"]
  /\ executors' = executors \ {k}
  /\ IF rest = {}
     THEN living' = None /\ Return(w)
     ELSE /\ victims' = [victims EXCEPT ![w] = rest]
          /\ hand' = [hand EXCEPT ![w] = None]
          /\ Goto(w, "detach")
          /\ UNCHANGED <<living, task, src>>
  /\ UNCHANGED <<json, jobs, sinks, stream, fate, taskId, kind, name, tasks,
                 asked>>

-----------------------------------------------------------------------------
Handle(w) ==
  \/ \E s \in Sources : NewJob(w, s)
  \/ RefuseJob(w) \/ SaveFailed(w) \/ PushSave(w) \/ Created(w)
  \/ DeleteJob(w)
  \/ NoMediaType(w) \/ LockLiving(w) \/ Attach(w) \/ SourceGone(w)
  \/ NoFile(w) \/ PushFile(w)
  \/ PauseStream(w) \/ Collect(w) \/ Erase(w)
  \/ \E k \in Sinkers :
       \/ SaveFile(w, k) \/ MakeLiving(w, k) \/ RestartFile(w, k)
       \/ MakeFile(w, k) \/ Detach(w, k)

StreamThread(s) == LiveEnded(s) \/ StreamExit(s)

Deleter(s) == DestroyBegin(s) \/ DestroyEnd(s)

\* A null dereference or std::terminate ends the process.
Alive == \A w \in Workers : pc[w] # "aborted"

Next ==
  /\ Alive
  /\ \/ \E t \in Requests : Request(t)
     \/ \E w \in Workers : Handle(w) \/ \E t \in BagToSet(tasks) : Take(w, t)
     \/ \E s \in Sources : StreamThread(s) \/ Deleter(s)
     \/ \E k \in Sinkers : SenderExit(k)

Spec == Init /\ [][Next]_vars

\* Threads run.  A stream thread sees m_end and leaves its loop, and a send
\* thread sees m_send_end; neither need end otherwise.
Fairness ==
  /\ \A w \in Workers : WF_vars(Alive /\ Handle(w))
  /\ WF_vars(Alive /\ \E w \in LivingWorkers, t \in BagToSet(tasks) : Take(w, t))
  /\ WF_vars(Alive /\ \E w \in JsonWorkers, t \in BagToSet(tasks) : Take(w, t))
  /\ \A s \in Sources :
       /\ WF_vars(Alive /\ fate[s] = "closing" /\ LiveEnded(s))
       /\ WF_vars(Alive /\ StreamExit(s))
       /\ WF_vars(Alive /\ Deleter(s))
  /\ \A k \in Sinkers :
       WF_vars(Alive /\ sinker[k] = "ending" /\ SenderExit(k))

FairSpec == Spec /\ Fairness

-----------------------------------------------------------------------------
TypeOK ==
  /\ living \in Workers \cup {None}
  /\ json \in Workers \cup {None}
  /\ executors \subseteq Sinkers
  /\ jobs \in [TaskIds -> Sources \cup {None}]
  /\ sinks \in [Sources -> SUBSET Sinkers]
  /\ stream \in [Sources -> {"unborn", "running", "ended", "exited", "freed"}]
  /\ fate \in [Sources -> {"kept", "doomed", "closing"}]
  /\ taskId \in [Sources -> TaskIds \cup {None}]
  /\ sinker \in [Sinkers -> {"unborn", "made", "sending", "ending", "silent",
                              "paused", "freed"}]
  /\ kind \in [Sinkers -> Kinds \cup {None}]
  /\ name \in [Sinkers -> Names \cup {None}]
  /\ IsABag(tasks) /\ BagToSet(tasks) \subseteq Tasks
  /\ asked \in [Requests -> Nat]
  /\ pc \in [Workers -> Ops \cup {"idle", "saveFile", "pushSave", "lockLiving",
                                   "attach", "pushFile", "detach", "erase",
                                   "aborted"}]
  /\ task \in [Workers -> Tasks \cup {None}]
  /\ src \in [Workers -> Sources \cup {None}]
  /\ hand \in [Workers -> Sinkers \cup {None}]
  /\ victims \in [Workers -> SUBSET Sinkers]

Exists(k) == sinker[k] \notin {"unborn", "freed"}

\* Every sinker on m_taskLivingExecutorList is allocated: the loops over the
\* list in startLivingStreamFile, pauseLivingStreamFile and
\* stopLivingStreamFile, and the delete in the last, touch live objects only.
ListedSinkersExist == \A k \in executors : Exists(k)

\* A job that can still be found in m_taskJsonExecutorMap feeds allocated
\* sinkers only: stopLivingStreamFile's tour of the map reached it, whatever
\* was created, linked or deleted between its two passes.
MappedJobsFeedExistingSinkers ==
  \A i \in TaskIds : jobs[i] # None => \A k \in sinks[jobs[i]] : Exists(k)

\* No sinker is lost: each one allocated is on the list, where a stop finds it,
\* or in the hands of the one thread that is still creating it.
NoSinkerLost ==
  \A k \in Sinkers : Exists(k) =>
    \/ k \in executors
    \/ \E w \in Workers : hand[w] = k

\* A mapped job is allocated, nobody was told to destroy it, and no other id
\* maps to it: a rtspClientSource is handed to one deleter, once.
MappedJobsAreKept ==
  \A i \in TaskIds : jobs[i] # None =>
    /\ fate[jobs[i]] = "kept"
    /\ stream[jobs[i]] \notin {"unborn", "freed"}
    /\ \A j \in TaskIds : jobs[j] = jobs[i] => j = i

\* While createTask sets up the recordings of the job it made, nobody destroys
\* that job, though it can be found in the map already.
CreatedJobIsKept ==
  \A w \in Workers : pc[w] \in {"saveFile", "pushSave"} =>
    /\ fate[src[w]] = "kept"
    /\ stream[src[w]] \notin {"unborn", "freed"}

\* When stopLivingStreamFile returns, no stream of that name is listed: nothing
\* gets onto the list between its two passes.
StopLeavesNone ==
  [][\A w \in Workers :
       (pc[w] \in {"stop", "erase"} /\ pc'[w] = "idle") =>
         \A k \in executors' : name'[k] # task[w].name]_vars

\* Every handler returns, however the others interleave with it: nobody waits
\* for ever for one of the two locks.
HandlersReturn == \A w \in Workers : pc[w] # "idle" ~> pc[w] = "idle"

\* An unlinked job is destroyed: its destructor always gets to join the stream
\* thread.
UnlinkedJobsAreDestroyed ==
  \A s \in Sources : fate[s] = "doomed" ~> stream[s] = "freed"

\* A send thread that was told to end leads to the removal of its stream, by
\* the stop in progress or by the one it asks for, unless a pause joins it.
EndedStreamsAreRemoved ==
  \A k \in Sinkers : sinker[k] = "ending" ~> sinker[k] \in {"freed", "paused"}

-----------------------------------------------------------------------------
(* The inductive invariant.                                                *)

\* Each mutex is owned by the one worker that is inside its critical section.
LocksAreOwned ==
  /\ \A w \in Workers : living = w <=> pc[w] \in {"attach", "detach", "erase"}
  /\ \A w \in Workers : json = w <=> pc[w] \in {"saveFile", "pushSave"}

\* A handler works on a task of its kind, and on the objects it made.
WorkersHoldTasks ==
  \A w \in Workers :
    /\ pc[w] # "idle" => task[w] \in Tasks
    /\ pc[w] \in Ops => task[w].op = pc[w]
    /\ pc[w] \in {"saveFile", "pushSave"} =>
         task[w].op = "createTask" /\ src[w] \in Sources
    /\ pc[w] \in {"lockLiving", "attach"} => task[w].op = "startLiving"
    /\ pc[w] \in {"pushSave", "lockLiving", "attach", "pushFile", "erase"} =>
         hand[w] \in Sinkers

TypeInv == TypeOK /\ WorkersHoldTasks

\* A worker between constructing a sinker and listing it is the only one that
\* knows it, and until it is linked no job feeds it.
NewSinkersArePrivate ==
  \A w \in Workers :
    /\ pc[w] \in {"pushSave", "lockLiving", "attach", "pushFile"} =>
         /\ hand[w] \notin executors
         /\ Exists(hand[w])
         /\ \A v \in Workers \ {w} : hand[v] # hand[w]
    /\ pc[w] \in {"lockLiving", "attach"} =>
         \A s \in Sources : hand[w] \notin sinks[s]
    /\ hand[w] # None =>
         pc[w] \in {"pushSave", "lockLiving", "attach", "pushFile", "erase"}

\* While stopLivingStreamFile holds the living lock, what it collected is what
\* is listed under that name, and the sinker it is about to destroy is fed by
\* no mapped job.
StopsAreExact ==
  \A w \in Workers : pc[w] \in {"detach", "erase"} =>
    /\ victims[w] # {}
    /\ victims[w] = {k \in executors : name[k] = task[w].name}
    /\ pc[w] = "erase" =>
         /\ hand[w] \in victims[w]
         /\ \A s \in Sources : Mapped(s) => hand[w] \notin sinks[s]

\* What is not constructed yet is nowhere.
UnbornAreUnknown ==
  /\ \A s \in Sources : stream[s] = "unborn" => fate[s] = "kept" /\ sinks[s] = {}
  /\ \A s \in Sources : \A k \in sinks[s] : sinker[k] # "unborn"

\* Together with the invariants above these are preserved by every step.
Inv ==
  /\ TypeInv
  /\ LocksAreOwned
  /\ NewSinkersArePrivate
  /\ StopsAreExact
  /\ UnbornAreUnknown
  /\ ListedSinkersExist
  /\ MappedJobsFeedExistingSinkers
  /\ NoSinkerLost
  /\ MappedJobsAreKept
  /\ CreatedJobIsKept

-----------------------------------------------------------------------------
(* What a comment of the source says, and the code does not do.            *)

\* taskScheduleJson.cpp:188, a deleteTask is answered, then carried out.
DeleteTaskAnswered ==
  \A w \in Workers : pc[w] = "deleteTask" ~> pc[w] = "idle"
=============================================================================
