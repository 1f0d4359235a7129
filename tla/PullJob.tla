------------------------------- MODULE PullJob -------------------------------
(***************************************************************************)
(* What the scheduler (module Executors) relies on a pull job for: it      *)
(* pulls, tells everybody that it has ended, asks for its own deletion     *)
(* unless it is being deleted, and is destroyed only after that.  Its      *)
(* notices to the client that created it are posted in this order, too.    *)
(***************************************************************************)

VARIABLES
  phase,   \* "pulling", "told" (sinkers and client know the end), "over"
  fate,    \* "kept", "ending" (its destructor runs), "destroyed"
  notices, \* what was posted for the client: "start", "end"
  asked    \* whether it has asked to be deleted

vars == <<phase, fate, notices, asked>>

Init ==
  /\ phase \in {"pulling", "over"}
  /\ fate = "kept"
  /\ notices = {}
  /\ asked = FALSE

\* Frames come: the first of them is news.
Start ==
  /\ phase = "pulling"
  /\ notices' = notices \cup {"start"}
  /\ UNCHANGED <<phase, fate, asked>>

End ==
  /\ phase = "pulling"
  /\ phase' = "told"
  /\ notices' \in {notices, notices \cup {"end"}}
  /\ UNCHANGED <<fate, asked>>

Leave ==
  /\ phase = "told"
  /\ phase' = "over"
  /\ asked' = (fate = "kept")
  /\ UNCHANGED <<fate, notices>>

Doom ==
  /\ fate = "kept"
  /\ fate' = "ending"
  /\ UNCHANGED <<phase, notices, asked>>

Destroy ==
  /\ fate = "ending"
  /\ phase = "over"
  /\ fate' = "destroyed"
  /\ UNCHANGED <<phase, notices, asked>>

Next == Start \/ End \/ Leave \/ Doom \/ Destroy

Spec == Init /\ [][Next]_vars
=============================================================================
