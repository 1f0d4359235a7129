------------------------------ MODULE LiveSinker ------------------------------
(***************************************************************************)
(* The live sinkers that a pull job feeds, h264RtspLiveSinker, each with   *)
(* its send thread and two queues: m_dataPacketCache, which the job's      *)
(* thread fills, and m_dataPacketSend, which only the send thread knows.   *)
(* Composed with the media path of module RtpReceiver.                     *)
(***************************************************************************)
EXTENDS RtpReceiver

CONSTANT MaxCache \* s_maxCachePacket

ASSUME LiveSinkerAssumption == MaxCache \in Nat \ {0}

VARIABLES
  thread,  \* m_thread_send: "none", "fetch" (at the head of its loop), "send",
           \* "done" (ended but not joined), "gone" with the sinker
  sending, \* m_dataPacketSend
  sent,    \* the last unit that the client was sent
  ended,   \* m_send_end
  quiet    \* m_hasCalledDelete
sinkers == <<thread, sending, sent, ended, quiet>>
vars    == <<camera, assembly, feed, broken, sinkers>>

Init ==
  /\ ReceiverInit
  /\ thread = [s \in Sinkers |-> "none"]
  /\ sending = [s \in Sinkers |-> <<>>]
  /\ sent = [s \in Sinkers |-> 0]
  /\ ended = [s \in Sinkers |-> FALSE]
  /\ quiet = [s \in Sinkers |-> FALSE]

Running(s) == thread[s] \in {"fetch", "send"}
Quits(s)   == thread' = [thread EXCEPT ![s] = "done"]

-----------------------------------------------------------------------------
(* The send thread.  When it ends by itself it asks for the stop of its      *)
(* stream (SenderExit of module Executors), unless it is to be quiet.      *)

\* Mutant: new units go before what is left.
TakenBefore(s) ==
  LET room == Len(sending[s]) + Len(cache[s]) <= MaxCache
      over == IF Len(cache[s]) > MaxCache THEN Len(cache[s]) - MaxCache ELSE 0
  IN SubSeq(cache[s], over + 1, Len(cache[s]))
       \o (IF room \/ cache[s] = <<>> THEN sending[s] ELSE <<>>)

\* After its sleep it moves what was queued: what is left of the last round and
\* the oldest of the new are given up if that is too much.
Taken(s) ==
  LET room == Len(sending[s]) + Len(cache[s]) <= MaxCache
      over == IF Len(cache[s]) > MaxCache THEN Len(cache[s]) - MaxCache ELSE 0
  IN (IF room \/ cache[s] = <<>> THEN sending[s] ELSE <<>>)
       \o SubSeq(cache[s], over + 1, Len(cache[s]))

\* Mutant: the thread does not look at m_send_end.
FetchDeaf(s) ==
  /\ Alive /\ thread[s] = "fetch"
  /\ sending' = [sending EXCEPT ![s] = Taken(s)]
  /\ cache' = [cache EXCEPT ![s] = <<>>]
  /\ thread' = [thread EXCEPT ![s] = "send"]
  /\ UNCHANGED <<camera, assembly, linked, params, broken, sent,
                 ended, quiet>>

\* m_send_end is looked at before the sleep and after it.
Fetch(s) ==
  /\ Alive /\ thread[s] = "fetch"
  /\ \/ /\ ended[s]
        /\ Quits(s)
        /\ UNCHANGED <<cache, sending>>
     \/ /\ sending' = [sending EXCEPT ![s] = Taken(s)]
        /\ cache' = [cache EXCEPT ![s] = <<>>]
        /\ IF ended[s] THEN Quits(s)
           ELSE thread' = [thread EXCEPT ![s] = "send"]
  /\ UNCHANGED <<camera, assembly, linked, params, broken, sent,
                 ended, quiet>>

\* Mutant: a unit that is not sent stays at the head of the queue.
SendSticks(s) ==
  /\ Alive /\ thread[s] = "send" /\ sending[s] # <<>>
  /\ LET e == Head(sending[s])
     IN IF e.type = "idr" /\ params[s] = None
        THEN broken' = "sets" /\ UNCHANGED <<thread, sending, sent>>
        ELSE /\ IF e.type = "other"
                THEN /\ thread' = [thread EXCEPT ![s] = "fetch"]
                     /\ UNCHANGED <<sending, sent>>
                ELSE /\ sent' = [sent EXCEPT ![s] = e.unit]
                     /\ sending' = [sending EXCEPT ![s] = Tail(@)]
                     /\ UNCHANGED thread
             /\ UNCHANGED broken
  /\ UNCHANGED <<camera, assembly, feed, ended, quiet>>

\* send_frame and generate_sendable_frame: a round ends with the queue, or with
\* a unit of a type that is not sent.  An IDR goes out behind the parameter sets
\* of that moment.  That the client does not get it makes no difference.
Send(s) ==
  /\ Alive /\ thread[s] = "send" /\ sending[s] # <<>>
  /\ LET e == Head(sending[s])
     IN IF e.type = "idr" /\ params[s] = None
        THEN broken' = "sets" /\ UNCHANGED <<thread, sending, sent>>
        ELSE /\ sending' = [sending EXCEPT ![s] = Tail(@)]
             /\ IF e.type = "other"
                THEN thread' = [thread EXCEPT ![s] = "fetch"] /\ UNCHANGED sent
                ELSE sent' = [sent EXCEPT ![s] = e.unit] /\ UNCHANGED thread
             /\ UNCHANGED broken
  /\ UNCHANGED <<camera, assembly, feed, ended, quiet>>

EndRound(s) ==
  /\ Alive /\ thread[s] = "send" /\ sending[s] = <<>>
  /\ thread' = [thread EXCEPT ![s] = "fetch"]
  /\ UNCHANGED <<camera, assembly, feed, broken, sending, sent, ended, quiet>>

-----------------------------------------------------------------------------
(* handTask of the sinker, and the end of the job.                         *)

\* PLAY: std::thread over one that was not joined ends the process.
StartStream(s) ==
  /\ Alive /\ ~quiet[s] /\ ~Running(s) /\ thread[s] # "gone"
  /\ IF thread[s] = "none"
     THEN thread' = [thread EXCEPT ![s] = "fetch"] /\ UNCHANGED broken
     ELSE broken' = "thread" /\ UNCHANGED thread
  /\ UNCHANGED <<camera, assembly, feed, sending, sent, ended, quiet>>

\* stopStream, or sourceRemoved on the thread of a job that ends.
StopStream(s) ==
  /\ Alive /\ thread[s] # "gone"
  /\ ended' = [ended EXCEPT ![s] = TRUE]
  /\ UNCHANGED <<camera, assembly, feed, broken, thread, sending, sent, quiet>>

\* PAUSE and the destructor tell the send thread to end without a word, and
\* join it.  After PAUSE m_send_end is reset.
Hush(s) ==
  /\ Alive /\ ~quiet[s] /\ thread[s] # "gone"
  /\ quiet' = [quiet EXCEPT ![s] = TRUE]
  /\ ended' = [ended EXCEPT ![s] = TRUE]
  /\ UNCHANGED <<camera, assembly, feed, broken, thread, sending, sent>>

Paused(s) ==
  /\ Alive /\ quiet[s] /\ thread[s] \in {"none", "done"}
  /\ thread' = [thread EXCEPT ![s] = "none"]
  /\ quiet' = [quiet EXCEPT ![s] = FALSE]
  /\ ended' = [ended EXCEPT ![s] = FALSE]
  /\ UNCHANGED <<camera, assembly, feed, broken, sending, sent>>

Destroyed(s) ==
  /\ Alive /\ quiet[s] /\ thread[s] \in {"none", "done"} /\ s \notin linked
  /\ thread' = [thread EXCEPT ![s] = "gone"]
  /\ sending' = [sending EXCEPT ![s] = <<>>]
  /\ cache' = [cache EXCEPT ![s] = <<>>]
  /\ UNCHANGED <<camera, assembly, linked, params, broken, sent,
                 ended, quiet>>

LinkSinker(s) ==
  /\ thread[s] = "none"
  /\ Link(s)
  /\ UNCHANGED sinkers

UnlinkSinker(s) == Unlink(s) /\ UNCHANGED sinkers

SendThread(s) == Fetch(s) \/ Send(s) \/ EndRound(s)

Executor(s) == Paused(s) \/ Destroyed(s)

Next ==
  \/ Receive /\ UNCHANGED sinkers
  \/ \E s \in Sinkers :
       \/ LinkSinker(s) \/ UnlinkSinker(s)
       \/ StartStream(s) \/ StopStream(s) \/ Hush(s)
       \/ SendThread(s) \/ Executor(s)

Spec == Init /\ [][Next]_vars

\* Threads are scheduled.  A client that reads nothing would block its send
\* thread until its connection is given up.
Fairness == \A s \in Sinkers : WF_vars(SendThread(s)) /\ WF_vars(Executor(s))

FairSpec == Spec /\ Fairness

-----------------------------------------------------------------------------
(* Properties.                                                             *)

Queue(s) == sending[s] \o cache[s]

\* A client sees the units in the camera's order and none twice, across what is
\* lost on the network, given up between two queues, and a pause.
UnitsStayInOrder ==
  \A s \in Sinkers : \A i, j \in DOMAIN Queue(s) :
    /\ sent[s] < Queue(s)[i].unit
    /\ i < j => Queue(s)[i].unit < Queue(s)[j].unit

Whole(e) == e.got = [i \in 1..e.of |-> <<e.unit, i>>]

\* What comes over TCP is queued whole, in both packetization modes.  Over UDP the
\* pieces of two units get into one only after two packets in a row were lost (or,
\* of the interleaved mode, one): the sequence numbers are not looked at.
PiecesFit ==
  \A s \in Sinkers : \A i \in DOMAIN Queue(s) :
    LET e == Queue(s)[i]
    IN /\ tcp => Whole(e)
       /\ ~burst /\ ~mtap => \A p \in Range(e.got) : p[1] = e.unit

\* A running stream sends or gives up what was queued, whatever stops a round.
QueueDrains ==
  \A s \in Sinkers :
    (Running(s) /\ cache[s] # <<>>) ~> (Queue(s) = <<>> \/ ~Running(s) \/ ~Alive)

\* PAUSE and destruction, which join the send thread with the lists locked, end.
PauseEnds ==
  \A s \in Sinkers : quiet[s] ~> (~quiet[s] \/ thread[s] = "gone" \/ ~Alive)
=============================================================================
