------------------------------ MODULE TaskPool ------------------------------
(***************************************************************************)
(* What taskSchedule::addTaskObj promises: an object handed over is later  *)
(* handled and deleted by one worker, once.  It promises nothing about     *)
(* order, and module Executors relies on nothing more.                     *)
(***************************************************************************)
CONSTANTS
  Objs,     \* task objects
  Workers,  \* worker threads
  NoObj

VARIABLES
  pool,     \* objects handed over and not yet taken
  doing,    \* the object that each worker handles
  deleted   \* objects handled and deleted

vars == <<pool, doing, deleted>>

Init ==
  /\ pool = {}
  /\ doing = [w \in Workers |-> NoObj]
  /\ deleted = {}

Handed == pool \cup {doing[w] : w \in Workers} \cup deleted

Add(t) ==
  /\ t \notin Handed
  /\ pool' = pool \cup {t}
  /\ UNCHANGED <<doing, deleted>>

Take(w) ==
  /\ doing[w] = NoObj
  /\ \E t \in pool :
       /\ pool' = pool \ {t}
       /\ doing' = [doing EXCEPT ![w] = t]
  /\ UNCHANGED deleted

Finish(w) ==
  /\ doing[w] # NoObj
  /\ doing' = [doing EXCEPT ![w] = NoObj]
  /\ deleted' = deleted \cup {doing[w]}
  /\ UNCHANGED pool

Next ==
  \/ \E t \in Objs : Add(t)
  \/ \E w \in Workers : Take(w) \/ Finish(w)

Spec == Init /\ [][Next]_vars
=============================================================================
