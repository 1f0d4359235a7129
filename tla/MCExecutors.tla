----------------------------- MODULE MCExecutors -----------------------------
(* Bounded instances of Executors.                                         *)
EXTENDS Executors, TLC

CONSTANTS t1, t2, n1

Create(id)    == CreateTask(id, {}, TRUE)
CreateFlv(id) == CreateTask(id, {"flv"}, TRUE)
BadFlv(id)    == CreateTask(id, {"flv"}, FALSE)
Play          == StartLiving(t1, n1)
PlayFlv       == StartFile("flv", n1)

\* A job that is recorded, and one that takes its place under its id, while a
\* session plays what the id stands for.
LiveScenario == {CreateFlv(t1), Create(t1), DeleteTask(t1), Play, Stop(n1)}

\* A session plays files of both kinds, with pauses and a stop; a job that is
\* refused may end it all.
FileScenario == {PlayFlv, StartFile("h264", n1), Stop(n1), Pause(n1), BadFlv(t1)}

\* Each task once, and what restarts or ends a stream of a file twice.
LiveRequests == LiveScenario \cup FileScenario
LiveQuota    == [t \in LiveRequests |-> IF t \in {PlayFlv, Pause(n1)} THEN 2 ELSE 1]

OneScenario ==
  \E scenario \in {LiveScenario, FileScenario} :
    \A t \in LiveRequests : asked[t] > 0 => t \in scenario

\* No recordings: every handler takes the living lock before the JSON lock.
PlayQuota ==
  Create(t1) :> 1 @@ Task("deleteAll") :> 1 @@ Play :> 1 @@ Stop(n1) :> 1
    @@ Pause(n1) :> 1

\* A recording is created while a stream of another job is started.
LockQuota ==
  Create(t1) :> 1 @@ CreateFlv(t2) :> 1 @@ DeleteTask(t1) :> 1 @@ Play :> 1

PlayRequests == DOMAIN PlayQuota
LockRequests == DOMAIN LockQuota

Symmetric ==
  Permutations(Sources) \cup Permutations(Sinkers)
    \cup Permutations(LivingWorkers) \cup Permutations(JsonWorkers)
=============================================================================
