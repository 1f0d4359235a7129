------------------------------ MODULE PullClient ------------------------------
(***************************************************************************)
(* One pull job, rtspClientSource, from the inside: the thread that talks  *)
(* RTSP to the camera, the helper threads that it starts after PLAY and    *)
(* waits for, the sockets they share, and the destructor on another        *)
(* thread.  No mutex protects m_end and the socket members.                *)
(*                                                                         *)
(* An exchange with the camera (request, one recv, the checks of the       *)
(* reply) is one step that succeeds or not.  What is in the media packets  *)
(* is the matter of module RtpReceiver.                                    *)
(***************************************************************************)
EXTENDS Naturals, Sequences

CONSTANTS
  MaxFd, \* descriptors of this process are 1 to MaxFd
  Live,  \* m_taskStruct.liveRTSP: the client wants notices
  Limits, \* whether receiving from the camera may time out: SO_RCVTIMEO is twice
          \* the camera's time-out, and 0 is no limit
  None

Fds == 1..MaxFd

\* In the order in which they are closed.
Order   == <<"rtsp", "rtp", "rtcp">>
Sockets == {"rtsp", "rtp", "rtcp"}

ASSUME PullClientAssumption ==
  /\ MaxFd \in Nat /\ None \notin Fds /\ None \notin Sockets
  /\ Live \in BOOLEAN /\ Limits \subseteq BOOLEAN

\* rtspProcessThread, rtspHeartbeatThread, rtpProcessThread, rtcpProcessThread
Helpers == {"reader", "beat", "rtp", "rtcp"}
Closers == Helpers \cup {"deleter"}

Dialogue == {"connect", "options", "describe", "ports", "setup", "play",
             "probe"}

VARIABLES
  mode,     \* RAW/RAW/UDP or interleaved TCP, as the SDP says
  stream,   \* where the stream thread is
  helper,   \* where each helper is
  closing,  \* the member whose socket a thread has closed and not yet forgotten
  sock,     \* m_rtspSocket, m_rtpSocket, m_rtcpSocket; None is -1
  owner,    \* what the system knows of each descriptor
  mEnd,     \* m_end
  deleter,  \* the thread in ~rtspClientSource; m_hasCalledDeleteSelf
  started,  \* m_notifyStarted
  notices,  \* notices posted to the client
  asked,    \* the job has asked to be deleted
  overdue,  \* m_timeout / 2 seconds have passed since m_lastRtpRecvedTime
  limited   \* receiving from the camera times out

sockets == <<closing, sock, owner>>
news    == <<started, notices, asked>>
vars == <<mode, stream, helper, sockets, mEnd, deleter, news, overdue,
          limited>>

TypeOK ==
  /\ mode \in {"tcp", "raw"}
  /\ stream \in Dialogue \cup {"idle", "join", "ended", "ask", "over"}
  /\ helper \in [Helpers -> {"none", "recv", "run", "sleep", "close", "done"}]
  /\ closing \in [Closers -> Sockets \cup {None}]
  /\ sock \in [Sockets -> Fds \cup {None}]
  /\ owner \in [Fds -> {"free", "pull", "other"}]
  /\ mEnd \in BOOLEAN
  /\ deleter \in {"none", "close", "join", "gone"}
  /\ started \in BOOLEAN
  /\ notices \subseteq {"start", "end"}
  /\ asked \in BOOLEAN
  /\ overdue \in BOOLEAN
  /\ limited \in BOOLEAN

\* The constructor starts the stream thread if parseTaskParam accepts the
\* address; setSocketTimeout gives every receive its limit.
Init ==
  /\ mode = "tcp"
  /\ stream \in {"connect", "idle"}
  /\ helper = [t \in Helpers |-> "none"]
  /\ closing = [c \in Closers |-> None]
  /\ sock = [v \in Sockets |-> None]
  /\ owner = [f \in Fds |-> "free"]
  /\ mEnd = FALSE
  /\ deleter = "none"
  /\ started = FALSE
  /\ notices = {}
  /\ asked = FALSE
  /\ overdue = FALSE
  /\ limited = TRUE

\* The system gives out the lowest free descriptor.
Free == {f \in Fds : owner[f] = "free"}
IsNext(f) == f \in Free /\ \A g \in Free : f <= g

-----------------------------------------------------------------------------
(* The stream thread: rtspStreamStart, with rtspTcp or rtspUdp.            *)

Go(place) == stream' = place

\* socketCreateTcpClient: a connection that fails has a descriptor, too.
Connect ==
  /\ stream = "connect"
  /\ \/ \E f \in Fds :
          /\ IsNext(f)
          /\ owner' = [owner EXCEPT ![f] = "pull"]
          /\ sock' = [sock EXCEPT !["rtsp"] = f]
          /\ Go("options")
     \/ Go("ended") /\ UNCHANGED <<sock, owner>>
  /\ UNCHANGED <<mode, helper, closing, mEnd, deleter, news,
                 overdue, limited>>

\* Sending, receiving or the reply failed.
DialogueFails ==
  /\ stream \in Dialogue \ {"connect"}
  /\ Go("ended")
  /\ UNCHANGED <<mode, helper, sockets, mEnd, deleter, news, overdue,
                 limited>>

Options ==
  /\ stream = "options"
  /\ Go("describe")
  /\ UNCHANGED <<mode, helper, sockets, mEnd, deleter, news, overdue,
                 limited>>

\* A description without media ends the dialogue, too (DialogueFails).
Describe ==
  /\ stream = "describe"
  /\ \/ mode' = "tcp" /\ Go("setup")
     \/ mode' = "raw" /\ Go("ports")
  /\ UNCHANGED <<helper, sockets, mEnd, deleter, news, overdue,
                 limited>>

\* Mutant: the second socket is taken to have the next descriptor.
PortsNext ==
  /\ stream = "ports"
  /\ \E f \in Fds :
       /\ IsNext(f)
       /\ owner' = [owner EXCEPT ![f] = "pull"]
       /\ sock' = [sock EXCEPT !["rtp"] = f, !["rtcp"] = f + 1]
  /\ Go("setup")
  /\ UNCHANGED <<mode, helper, closing, mEnd, deleter, news, overdue, limited>>

\* creaetRtpRtcpSocket: a pair with an even port and the next one.
Ports ==
  /\ stream = "ports"
  /\ \E f, g \in Fds :
       /\ IsNext(f) /\ g \in Free \ {f} /\ \A h \in Free \ {f} : g <= h
       /\ owner' = [owner EXCEPT ![f] = "pull", ![g] = "pull"]
       /\ sock' = [sock EXCEPT !["rtp"] = f, !["rtcp"] = g]
  /\ Go("setup")
  /\ UNCHANGED <<mode, helper, closing, mEnd, deleter, news,
                 overdue, limited>>

\* An odd port: what is closed is the port's number, so the descriptor stays
\* open and is forgotten.
OddPort ==
  /\ stream = "ports"
  /\ \E f \in Fds :
       /\ IsNext(f)
       /\ owner' = [owner EXCEPT ![f] = "pull"]
  /\ sock' = [sock EXCEPT !["rtp"] = None]
  /\ UNCHANGED <<mode, stream, helper, closing, mEnd,
                 deleter, news, overdue, limited>>

\* parseTransport and parseSession, which sets the limit of receiving.
Setup ==
  /\ stream = "setup"
  /\ limited' \in Limits
  /\ Go("play")
  /\ UNCHANGED <<mode, helper, sockets, mEnd, deleter, news, overdue>>

\* Each thread begins with the test of m_end at the head of its loop; the
\* heartbeat thread sets the time of the last frame before.
StartHelpers(threads) ==
  /\ helper' = [t \in Helpers |->
                  IF t \notin threads THEN "none"
                  ELSE IF mEnd THEN "close"
                  ELSE IF t = "beat" THEN "run" ELSE "recv"]
  /\ overdue' = FALSE

\* The reply to PLAY is left to the reader.
Play ==
  /\ stream = "play"
  /\ IF mode = "tcp" THEN Go("join") /\ StartHelpers({"reader", "beat"})
                     ELSE Go("probe") /\ UNCHANGED <<helper, overdue>>
  /\ UNCHANGED <<mode, sockets, mEnd, deleter, news, limited>>

\* The first packet shows that UDP gets through.
Probe ==
  /\ stream = "probe"
  /\ Go("join")
  /\ StartHelpers(Helpers)
  /\ UNCHANGED <<mode, sockets, mEnd, deleter, news, limited>>

\* Mutant: the helpers are not waited for.
JoinNone ==
  /\ stream = "join"
  /\ Go("ended")
  /\ UNCHANGED <<mode, helper, sockets, mEnd, deleter, news, overdue, limited>>

Join ==
  /\ stream = "join"
  /\ \A t \in Helpers : helper[t] \in {"none", "done"}
  /\ Go("ended")
  /\ UNCHANGED <<mode, helper, sockets, mEnd, deleter, news, overdue,
                 limited>>

\* notifyLiveEnded: the client and the sinkers are told, even by a job that is
\* being destroyed.
NotifyEnded ==
  /\ stream = "ended"
  /\ Go("ask")
  /\ notices' = IF Live THEN notices \cup {"end"} ELSE notices
  /\ UNCHANGED <<mode, helper, sockets, mEnd, deleter, started,
                 asked, overdue, limited>>

AskDeletion ==
  /\ stream = "ask"
  /\ Go("over")
  /\ asked' = (deleter = "none")
  /\ UNCHANGED <<mode, helper, sockets, mEnd, deleter, started,
                 notices, overdue, limited>>

-----------------------------------------------------------------------------
(* Helpers.                                                                *)

Step(t, place) == helper' = [helper EXCEPT ![t] = place]

\* The loop of a receiver tests m_end after each packet.
Looped(t) == Step(t, IF mEnd THEN "close" ELSE "recv")

\* notifyLiveStarted, once, with the first packet; a complete frame is time.
GetMedia(t) ==
  /\ helper[t] = "recv" /\ t \in {"reader", "rtp"}
  /\ Looped(t)
  /\ started' = TRUE
  /\ notices' = IF Live /\ ~started THEN notices \cup {"start"} ELSE notices
  /\ overdue' \in {FALSE, overdue}
  /\ UNCHANGED <<mode, stream, sockets, mEnd, deleter, asked,
                 limited>>

\* Replies and RTCP packets.  The RTCP thread reads the RTP socket.
GetOther(t) ==
  /\ helper[t] = "recv" /\ t \in {"reader", "rtcp"}
  /\ Looped(t)
  /\ UNCHANGED <<mode, stream, sockets, mEnd, deleter, news, overdue,
                 limited>>

RecvFails(t) ==
  /\ helper[t] = "recv"
  /\ mEnd' = TRUE
  /\ Step(t, "close")
  /\ UNCHANGED <<mode, stream, sockets, deleter, news, overdue, limited>>

\* Mutant: the heartbeat thread ends and does not tell the others.
BeatQuiet ==
  /\ helper["beat"] = "run"
  /\ \/ Step("beat", "close")
     \/ ~mEnd /\ ~overdue /\ Step("beat", "sleep")
  /\ UNCHANGED <<mode, stream, sockets, mEnd, deleter, news, overdue, limited>>

\* Sends OPTIONS, which may fail, and looks at the time.
Beat ==
  /\ helper["beat"] = "run"
  /\ \/ mEnd' = TRUE /\ Step("beat", "close")
     \/ ~mEnd /\ ~overdue /\ Step("beat", "sleep") /\ UNCHANGED mEnd
  /\ UNCHANGED <<mode, stream, sockets, deleter, news, overdue, limited>>

\* A second of sleep has passed.  After m_timeout / 2 of them a receiver report
\* is sent and the loop goes on; a time-out below 2 leaves no second to sleep.
Nap ==
  /\ helper["beat"] = "sleep"
  /\ IF mEnd \/ overdue THEN mEnd' = TRUE /\ Step("beat", "close")
     ELSE Step("beat", "run") /\ UNCHANGED mEnd
  /\ UNCHANGED <<mode, stream, sockets, deleter, news, overdue, limited>>

\* closeRtspRtpRtcpSocket and the head of ~rtspClientSource: each socket in
\* turn is closed if its member is not -1, then the member is set.
IsNextOpen(i) == sock[Order[i]] # None /\ \A j \in 1..(i - 1) : sock[Order[j]] = None

Close(c) ==
  \/ /\ closing[c] # None
     /\ sock' = [sock EXCEPT ![closing[c]] = None]
     /\ closing' = [closing EXCEPT ![c] = None]
     /\ UNCHANGED owner
  \/ /\ closing[c] = None
     /\ \E i \in 1..3 :
          /\ IsNextOpen(i)
          /\ owner' = [owner EXCEPT ![sock[Order[i]]] = "free"]
          /\ closing' = [closing EXCEPT ![c] = Order[i]]
     /\ UNCHANGED sock

HasClosed(c) == closing[c] = None /\ \A v \in Sockets : sock[v] = None

HelperCloses(t) ==
  /\ helper[t] = "close"
  /\ Close(t)
  /\ UNCHANGED <<mode, stream, helper, mEnd, deleter, news, overdue,
                 limited>>

HelperExits(t) ==
  /\ helper[t] = "close"
  /\ HasClosed(t)
  /\ Step(t, "done")
  /\ UNCHANGED <<mode, stream, sockets, mEnd, deleter, news, overdue,
                 limited>>

-----------------------------------------------------------------------------
(* The destructor, on a deleter thread of the scheduler.                   *)

\* Mutant: the sockets are closed and m_end is left.
DoomQuiet ==
  /\ deleter = "none"
  /\ deleter' = "close"
  /\ UNCHANGED <<mode, stream, helper, sockets, mEnd, news, overdue, limited>>

Doom ==
  /\ deleter = "none"
  /\ deleter' = "close"
  /\ mEnd' = TRUE
  /\ UNCHANGED <<mode, stream, helper, sockets, news, overdue, limited>>

DeleterCloses ==
  /\ deleter = "close"
  /\ IF HasClosed("deleter")
     THEN deleter' = "join" /\ UNCHANGED sockets
     ELSE Close("deleter") /\ UNCHANGED deleter
  /\ UNCHANGED <<mode, stream, helper, mEnd, news, overdue, limited>>

Destroy ==
  /\ deleter = "join"
  /\ stream \in {"idle", "over"}
  /\ deleter' = "gone"
  /\ UNCHANGED <<mode, stream, helper, sockets, mEnd, news, overdue,
                 limited>>

-----------------------------------------------------------------------------
(* Time, as far as the heartbeat thread looks at it, and the rest of the   *)
(* process, which opens a socket as well.                                  *)

Tick ==
  /\ helper["beat"] \in {"run", "sleep"}
  /\ overdue' = TRUE
  /\ UNCHANGED <<mode, stream, helper, sockets, mEnd, deleter, news, limited>>

OtherOpens(f) ==
  /\ IsNext(f)
  /\ \A g \in Fds : owner[g] # "other"
  /\ owner' = [owner EXCEPT ![f] = "other"]
  /\ UNCHANGED <<mode, stream, helper, closing, sock, mEnd,
                 deleter, news, overdue, limited>>

Talk == Connect \/ Options \/ Describe \/ Ports \/ OddPort \/ Setup \/ Play
          \/ Probe \/ DialogueFails \/ Join \/ NotifyEnded \/ AskDeletion

Receive(t) == GetMedia(t) \/ GetOther(t) \/ RecvFails(t)

Work(t) == HelperCloses(t) \/ HelperExits(t)

Deleter == DeleterCloses \/ Destroy

Next ==
  \/ Talk
  \/ \E t \in Helpers : Receive(t) \/ Work(t)
  \/ Beat \/ Nap
  \/ Doom \/ Deleter
  \/ Tick
  \/ \E f \in Fds : OtherOpens(f)

Spec == Init /\ [][Next]_vars

\* Threads are scheduled.  A receive that has a limit returns, be it with what the
\* camera has sent, and its thread finds m_end set, if it is.
Fairness ==
  /\ WF_vars(Talk)
  /\ WF_vars(Beat \/ Nap)
  /\ \A t \in Helpers : WF_vars(Work(t)) /\ WF_vars(mEnd /\ limited /\ Receive(t))
  /\ WF_vars(Deleter)

FairSpec == Spec /\ Fairness

-----------------------------------------------------------------------------
(* Properties.                                                             *)

\* To the scheduler the job is a PullJob: it tells its end after its helpers
\* are gone and its last notice of a start, asks for deletion only if nobody
\* deletes it, and is destroyed after its threads.
Job == INSTANCE PullJob WITH
  phase <- CASE stream \in {"idle", "over"} -> "over"
             [] stream = "ask" -> "told"
             [] OTHER -> "pulling",
  fate <- CASE deleter = "none" -> "kept"
            [] deleter = "gone" -> "destroyed"
            [] OTHER -> "ending"

KeepsPromise == Job!Spec

\* Destroying the job comes to its end, wherever its threads are: the stream
\* thread is joined without being woken, and receives run into their limits.
DestructionEnds == (deleter # "none") ~> (deleter = "gone" \/ ~limited)

\* A camera that sends no complete frame for longer than allowed ends the job,
\* although only the heartbeat thread looks at the time.
SilentPullEnds ==
  (stream = "join" /\ overdue) ~> (stream = "over" \/ ~overdue \/ ~limited)
=============================================================================
