------------------------------ MODULE RtspServer ------------------------------
(***************************************************************************)
(* The RTSP server as its clients see it: the socket thread with the       *)
(* callback RTSP_Callback, the buffers and sessions it keeps per socket    *)
(* (g_RTSP_buffer_map), the time of last activity per socket               *)
(* (TcpConnectingManager), the state machine of a session, and the list of *)
(* streams, which the socket thread changes itself (executeTaskObj) for    *)
(* PAUSE and close and lets the workers change (addTaskObj) for PLAY and   *)
(* TEARDOWN.                                                               *)
(*                                                                         *)
(* A handler on the socket thread is one step: the thread is alone to use  *)
(* buffers and times, and it takes the living lock once.  The living       *)
(* workers take tasks in any order (module TaskQueue); what they do to the *)
(* list is modelled at the level of whole streams (module Executors has    *)
(* the locks and objects below it).                                        *)
(*                                                                         *)
(* Left out: the text of requests and replies (a request is what the       *)
(* handlers make of it, a request they refuse is one with a fault); SETUP  *)
(* with a Session header, which RTSP_SETUP scans into a std::string        *)
(* object, and SETUP without unicast, which sets the session pointer to    *)
(* null: what either does is undefined.  File streams are those of FLV     *)
(* files; module Executors has the others.                                 *)
(***************************************************************************)
EXTENDS Naturals, Sequences, FiniteSets, Bags

CONSTANTS
  Clients,     \* client connections, each made once
  Fds,         \* socket descriptors, which the system reuses
  Ids,         \* session ids that generateGUID64 may return
  Requests,    \* what clients may ask for
  MaxRequests, \* bound on how many requests they send
  Timeout,     \* m_timeout, in ticks
  None

\* RTSP_CONTROL_ID_0 is the one control id that the server's SDP offers.
Tracks  == {"track1", "track2"}
Media   == {"live", "file"}
Methods == {"OPTIONS", "SETUP", "PLAY", "PAUSE", "TEARDOWN", "OTHER", "RTCP"}
Faults  == {"none", "url", "transport"}

\* "OTHER" is DESCRIBE and every method that is only answered or refused, "RTCP"
\* an interleaved frame.  "what" is the control id of a SETUP and the kind of
\* stream of a PLAY.
Request == [m : Methods, what : Tracks \cup Media \cup {None}, fault : Faults]

States   == {"init", "ready", "play"}
Session  == [state : States, id : Ids \cup {None}, track : Tracks \cup {None}]

\* "client" is a history field here and in streams: who asked.
StartTask == [op : {"start"}, kind : Media, fd : Fds, id : Ids,
              client : Clients]
Tasks == StartTask \cup [op : {"stopSocket"}, fd : Fds]
           \cup [op : {"stopName", "sendRtsp"}, id : Ids \cup {None}]
           \cup [op : {"rtcp"}]

\* "late" is history: the client was gone when the stream was listed.
Stream == [kind : Media, fd : Fds, id : Ids, client : Clients,
           state : {"on", "ending", "off"}, late : BOOLEAN]

Ages == 0..(Timeout + 1)

\* What RTSP_Callback has to do: close the sockets in due, then the request.
Event == [client : Clients, fd : Fds, req : Request \cup {None},
          header : Ids \cup {None}, due : SUBSET Fds]

\* A SETUP names a control id, a PLAY a kind of stream; None is no object.
ASSUME RtspServerAssumption ==
  /\ Timeout \in Nat /\ MaxRequests \in Nat
  /\ None \notin Clients /\ None \notin Fds /\ None \notin Ids
  /\ None \notin Tracks /\ None \notin Ages /\ None \notin Request
  /\ None \notin Event
  /\ Requests \subseteq Request
  /\ \A r \in Requests : r.m = "SETUP" => r.what \in Tracks
  /\ \A r \in Requests : r.m = "PLAY" => r.what \in Media

VARIABLES
  up,        \* FALSE when the process has been killed
  client,    \* "away", "up", "leaving" (closed, unnoticed), "lost", "gone"
  fd,        \* descriptor of a client's open socket
  asked,     \* how many requests were sent (bounds the behaviours)
  quiet,     \* history: ticks since the server heard from a connected client
  buffer,    \* g_RTSP_buffer_map: session_list per descriptor, <<>> if none
  idle,      \* m_mapTimeInfo: ticks since the last update, None if no entry
  callback,  \* the data event that RTSP_Callback is working on
  ids,       \* ids that were given out
  published, \* whether createTask's job for the live stream is in the map
  tasks,     \* tasks for the living workers
  opening,   \* file streams that were started and not yet listed
  streams    \* m_taskLivingExecutorList

network == <<client, fd, asked, quiet>>
server  == <<buffer, idle, callback, ids>>
media   == <<published, tasks, opening, streams>>
vars    == <<up, network, server, media>>

OpenFds == {fd[c] : c \in Clients} \ {None}

Post(t) == tasks (+) SetToBag({t})

Running == up /\ UNCHANGED up

Init ==
  /\ up = TRUE
  /\ client = [c \in Clients |-> "away"]
  /\ fd = [c \in Clients |-> None]
  /\ asked = 0
  /\ quiet = [c \in Clients |-> 0]
  /\ buffer = [f \in Fds |-> <<>>]
  /\ idle = [f \in Fds |-> None]
  /\ callback = None
  /\ ids = {}
  /\ published = FALSE
  /\ tasks = EmptyBag
  /\ opening = EmptyBag
  /\ streams = <<>>

-----------------------------------------------------------------------------
(* Sessions of a socket.                                                   *)

\* Get_RTSP_buffer makes a buffer with one default session where none is.
Default == [state |-> "init", id |-> None, track |-> None]
Sessions(f) == IF buffer[f] = <<>> THEN <<Default>> ELSE buffer[f]

\* RTSP_state_machine: the first session of the id in the request's header;
\* the default session without a header, or if no session has that id.
Chosen(f, header) ==
  LET match == {i \in DOMAIN Sessions(f) : Sessions(f)[i].id = header} IN
  IF header = None \/ match = {} THEN 1
  ELSE CHOOSE i \in match : \A j \in match : i <= j

-----------------------------------------------------------------------------
(* What the socket thread does to the streams when a socket is closed, by  *)
(* its peer or by the time-out.                                            *)

Listed == {streams[i] : i \in DOMAIN streams}

\* The list without the streams that are gone.
Without(gone) ==
  LET f[i \in 0..Len(streams)] ==
        IF i = 0 THEN <<>>
        ELSE IF streams[i] \in gone THEN f[i - 1]
        ELSE Append(f[i - 1], streams[i])
  IN f[Len(streams)]

\* A stop by name for each of the streams at asking.
StopNames(asking) ==
  [t \in {[op |-> "stopName", id |-> streams[i].id] : i \in asking} |->
     Cardinality({i \in asking : streams[i].id = t.id})]

\* stopLivingStreamFile.  A stream that is destroyed may ask for one more stop
\* by its name: a live one when its job unlinks it, any one whose send thread
\* ends before it learns that the stream is being destroyed.  (Both at once is
\* not modelled.)
Remove(gone, others) ==
  /\ streams' = Without(gone)
  /\ \E asking \in SUBSET {i \in DOMAIN streams :
                             /\ streams[i] \in gone
                             /\ streams[i].kind = "live" \/ streams[i].state # "off"} :
       tasks' = others (+) StopNames(asking)

\* Mutant: the streams are stopped by a worker, as for TEARDOWN.
CloseClientLater(f) ==
  /\ buffer' = [buffer EXCEPT ![f] = <<>>]
  /\ tasks' = Post([op |-> "stopSocket", fd |-> f])
  /\ UNCHANGED streams

\* RTSP_Close_Client: looks the buffer up, which may first make one, frees
\* it and executes a stop by socket.
CloseClient(f) ==
  /\ buffer' = [buffer EXCEPT ![f] = <<>>]
  /\ Remove({s \in Listed : s.fd = f}, tasks)

-----------------------------------------------------------------------------
(* Events of the socket thread.                                            *)

Overdue(times) == {f \in Fds : times[f] # None /\ times[f] > Timeout}

\* Mutant: the overdue sockets are collected before the event's own time is
\* updated.
HearLate(c, f, req, header) ==
  LET due == Overdue(idle) IN
  /\ idle' = [g \in Fds |-> IF g = f THEN 0 ELSE IF g \in due THEN None ELSE idle[g]]
  /\ quiet' = [quiet EXCEPT ![c] = 0]
  /\ callback' = [client |-> c, fd |-> f, req |-> req, header |-> header,
                  due |-> due]

\* RTSP_Callback up to the time-outs: updateTimeInfo, then getTimeoutSockets,
\* which forgets the sockets it returns.
Hear(c, f, req, header) ==
  LET times == [idle EXCEPT ![f] = 0]
      due   == Overdue(times)
  IN
  /\ idle' = [g \in Fds |-> IF g \in due THEN None ELSE times[g]]
  /\ quiet' = [quiet EXCEPT ![c] = 0]
  /\ callback' = [client |-> c, fd |-> f, req |-> req, header |-> header,
                  due |-> due]

\* A connection is accepted; the callback gets an event without data.
Accept(c, f) ==
  /\ Running
  /\ callback = None
  /\ client[c] = "away" /\ f \notin OpenFds
  /\ client' = [client EXCEPT ![c] = "up"]
  /\ fd' = [fd EXCEPT ![c] = f]
  /\ Hear(c, f, None, None)
  /\ UNCHANGED <<asked, buffer, ids, media>>

\* A request arrives, with any id given out so far as its Session header; an
\* interleaved frame has no headers.
Receive(c, req, header) ==
  /\ Running
  /\ callback = None
  /\ client[c] = "up" /\ asked < MaxRequests
  /\ req.m \in {"SETUP", "RTCP"} => header = None
  /\ asked' = asked + 1
  /\ Hear(c, fd[c], req, header)
  /\ UNCHANGED <<client, fd, buffer, ids, media>>

\* One overdue socket; it is closed for RTSP, not for the system.
DropTimeout(f) ==
  /\ Running
  /\ callback # None /\ f \in callback.due
  /\ CloseClient(f)
  /\ callback' = [callback EXCEPT !.due = @ \ {f}]
  /\ UNCHANGED <<network, idle, ids, published, opening>>

Hangup(c) ==
  /\ Running
  /\ client[c] = "up"
  /\ client' = [client EXCEPT ![c] = "leaving"]
  /\ UNCHANGED <<fd, asked, quiet, server, media>>

\* Mutant: deleteSocket is forgotten.
NoticeCloseKeepsTime(c) ==
  /\ Running
  /\ callback = None /\ client[c] \in {"leaving", "lost"}
  /\ CloseClient(fd[c])
  /\ client' = [client EXCEPT ![c] = "gone"]
  /\ fd' = [fd EXCEPT ![c] = None]
  /\ quiet' = [quiet EXCEPT ![c] = 0]
  /\ UNCHANGED <<asked, idle, callback, ids, published, opening>>

\* The peer has closed and epoll says so: the callback, then close().
NoticeClose(c) ==
  /\ Running
  /\ callback = None /\ client[c] \in {"leaving", "lost"}
  /\ CloseClient(fd[c])
  /\ idle' = [idle EXCEPT ![fd[c]] = None]
  /\ client' = [client EXCEPT ![c] = "gone"]
  /\ fd' = [fd EXCEPT ![c] = None]
  /\ quiet' = [quiet EXCEPT ![c] = 0]
  /\ UNCHANGED <<asked, callback, ids, published, opening>>

\* eventDispatch tests n, which is never assigned, where it means the result
\* of recvfrom: the end of the peer's data may go unnoticed, and edge-triggered
\* epoll does not repeat it.  A reset is reported as an error later.
OverlookClose(c) ==
  /\ Running
  /\ callback = None /\ client[c] = "leaving"
  /\ client' = [client EXCEPT ![c] = "lost"]
  /\ UNCHANGED <<fd, asked, quiet, server, media>>

\* Time passes; ages beyond the time-out are all the same.  They are read when a
\* callback starts, so the time that it takes counts after it.
Older(age) == IF age <= Timeout THEN age + 1 ELSE age

Tick ==
  /\ Running
  /\ callback = None
  /\ idle' = [f \in Fds |-> IF idle[f] = None THEN None ELSE Older(idle[f])]
  /\ quiet' = [c \in Clients |-> IF fd[c] = None THEN 0 ELSE Older(quiet[c])]
  /\ UNCHANGED <<client, fd, asked, buffer, callback, ids, media>>

-----------------------------------------------------------------------------
(* RTSP_handler and RTSP_state_machine, once the overdue sockets are       *)
(* closed.  "on" is the session that the request is for.                   *)

\* A session that RTSP_SETUP adds is cleared with memset, its std::string
\* included: until it is given an id, comparing the id of a request with it
\* reads through a null pointer.
ReadsNull ==
  /\ callback.req # None /\ callback.header # None
  /\ \E i \in DOMAIN Sessions(callback.fd) :
       /\ i > 1 /\ Sessions(callback.fd)[i].id = None
       /\ \A j \in 1..i : Sessions(callback.fd)[j].id # callback.header

Abort ==
  /\ up
  /\ callback # None /\ callback.due = {} /\ ReadsNull
  /\ up' = FALSE
  /\ UNCHANGED <<network, server, media>>

Handling(m) ==
  callback # None /\ callback.due = {} /\ callback.req # None
    /\ callback.req.m = m /\ ~ReadsNull

list   == Sessions(callback.fd)
chosen == Chosen(callback.fd, callback.header)
on     == list[chosen]
fine   == callback.req.fault = "none"

Done(ss) ==
  /\ Running
  /\ buffer' = [buffer EXCEPT ![callback.fd] = ss]
  /\ callback' = None
  /\ UNCHANGED <<network, idle>>

NoData ==
  /\ Running
  /\ callback # None /\ callback.due = {} /\ callback.req = None
  /\ callback' = None
  /\ UNCHANGED <<network, buffer, idle, ids, media>>

\* RTSP_SETUP, once the URL is found good, decides on the session before it
\* looks at the control id: the chosen session if it has no control id yet,
\* else the last one with this control id, else a new one.
SetupTarget(track) ==
  LET same == {i \in DOMAIN list : list[i].track = track} IN
  IF on.track = None THEN chosen
  ELSE IF same = {} THEN Len(list) + 1
  ELSE CHOOSE i \in same : \A j \in same : j <= i

SetupList(track) ==
  LET i == SetupTarget(track) IN
  IF i = Len(list) + 1 THEN Append(list, [Default EXCEPT !.track = track])
  ELSE [list EXCEPT ![i].track = track]

\* Mutant: the state machine sets the state of the session it has chosen, not
\* of the one that RTSP_SETUP has turned to.
SetupByValue ==
  LET track == callback.req.what  i == SetupTarget(track) IN
  /\ Handling("SETUP") /\ on.state # "play" /\ callback.req.fault # "url"
  /\ IF fine /\ track = "track1"
     THEN \E id \in Ids \ ids :
            /\ ids' = ids \cup {id}
            /\ Done([[SetupList(track) EXCEPT ![i].id = id]
                       EXCEPT ![chosen].state = "ready"])
     ELSE Done(SetupList(track)) /\ UNCHANGED ids
  /\ UNCHANGED media

Setup ==
  LET track == callback.req.what  i == SetupTarget(track) IN
  /\ Handling("SETUP") /\ on.state # "play" /\ callback.req.fault # "url"
  /\ IF fine /\ track = "track1"
     THEN \E id \in Ids \ ids :
            /\ ids' = ids \cup {id}
            /\ Done([SetupList(track) EXCEPT ![i].id = id,
                                             ![i].state = "ready"])
     ELSE Done(SetupList(track)) /\ UNCHANGED ids
  /\ UNCHANGED media

\* Mutant: the task is posted for the connection's first session, as the
\* reply to an OPTIONS is.
PlayFirst ==
  /\ Handling("PLAY") /\ on.state = "ready" /\ fine
  /\ callback.header # None
  /\ callback.req.what = "live" => published
  /\ tasks' = Post([op |-> "start", kind |-> callback.req.what,
                    fd |-> callback.fd, id |-> list[1].id,
                    client |-> callback.client])
  /\ Done([list EXCEPT ![chosen].state = "play"])
  /\ UNCHANGED <<ids, published, opening, streams>>

\* PLAY is answered when its task is posted.
Play ==
  /\ Handling("PLAY") /\ on.state = "ready" /\ fine
  /\ callback.header # None
  /\ callback.req.what = "live" => published
  /\ tasks' = Post([op |-> "start", kind |-> callback.req.what,
                    fd |-> callback.fd, id |-> on.id,
                    client |-> callback.client])
  /\ Done([list EXCEPT ![chosen].state = "play"])
  /\ UNCHANGED <<ids, published, opening, streams>>

\* PAUSE executes its task: pauseLivingStreamFile joins the send thread of the
\* first stream of this session.
Pause ==
  LET match == {i \in DOMAIN streams : streams[i].id = on.id} IN
  /\ Handling("PAUSE") /\ on.state = "play" /\ fine
  /\ streams' = [i \in DOMAIN streams |->
                   IF i \in match /\ \A j \in match : i <= j
                   THEN [streams[i] EXCEPT !.state = "off"] ELSE streams[i]]
  /\ Done([list EXCEPT ![chosen].state = "ready"])
  /\ UNCHANGED <<ids, published, tasks, opening>>

\* TEARDOWN posts a stop of everything on the socket; the state stays.
Teardown ==
  /\ Handling("TEARDOWN") /\ fine
  /\ tasks' = Post([op |-> "stopSocket", fd |-> callback.fd])
  /\ Done(list)
  /\ UNCHANGED <<ids, published, opening, streams>>

\* During PLAY the answer to OPTIONS is left to the stream, by the id of the
\* first session.
OptionsInPlay ==
  /\ Handling("OPTIONS") /\ on.state = "play"
  /\ tasks' = Post([op |-> "sendRtsp", id |-> list[1].id])
  /\ Done(list)
  /\ UNCHANGED <<ids, published, opening, streams>>

\* An interleaved frame with a receiver report.
ReceiveRtcp ==
  /\ Handling("RTCP") /\ fine
  /\ tasks' = Post([op |-> "rtcp"])
  /\ Done(list)
  /\ UNCHANGED <<ids, published, opening, streams>>

\* Everything else is answered, refused or ignored and changes no session.
Answer ==
  /\ \/ Handling("OTHER")
     \/ Handling("OPTIONS") /\ on.state # "play"
     \/ Handling("SETUP") /\ (on.state = "play" \/ callback.req.fault = "url")
     \/ Handling("PLAY") /\ \/ on.state # "ready" \/ callback.header = None
                            \/ callback.req.what = "live" /\ ~published
     \/ Handling("PAUSE") /\ on.state # "play"
     \/ \E m \in {"PLAY", "PAUSE", "TEARDOWN", "RTCP"} : Handling(m) /\ ~fine
  /\ Done(list)
  /\ UNCHANGED <<ids, media>>

Serve ==
  NoData \/ Setup \/ Play \/ Pause \/ Teardown \/ OptionsInPlay \/ ReceiveRtcp
    \/ Answer

-----------------------------------------------------------------------------
(* The living workers.                                                     *)

Taken(t) == /\ Running /\ t \in BagToSet(tasks)
            /\ UNCHANGED <<network, server, published>>

NewStream(t) ==
  [kind |-> t.kind, fd |-> t.fd, id |-> t.id, client |-> t.client,
   state |-> "on", late |-> client[t.client] = "gone"]

\* startLivingRtspRealtimeStream: always a new sinker, if the job is there.
StartLive(t) ==
  /\ Taken(t) /\ t.op = "start" /\ t.kind = "live"
  /\ streams' = IF published THEN Append(streams, NewStream(t)) ELSE streams
  /\ tasks' = tasks (-) SetToBag({t})
  /\ UNCHANGED opening

\* startLivingStreamFile: the file stream of the session starts again ...
RestartFile(t) ==
  LET match == {i \in DOMAIN streams :
                  streams[i].kind = "file" /\ streams[i].id = t.id} IN
  /\ Taken(t) /\ t.op = "start" /\ t.kind = "file" /\ match # {}
  /\ streams' = [i \in DOMAIN streams |->
                   IF i \in match /\ \A j \in match : i <= j
                   THEN [streams[i] EXCEPT !.state = "on", !.fd = t.fd]
                   ELSE streams[i]]
  /\ tasks' = tasks (-) SetToBag({t})
  /\ UNCHANGED opening

\* ... or a new one is opened outside the lock, if the file can be ...
OpenFile(t) ==
  /\ Taken(t) /\ t.op = "start" /\ t.kind = "file"
  /\ \A i \in DOMAIN streams : streams[i].kind = "file" => streams[i].id # t.id
  /\ \/ opening' = opening (+) SetToBag({t})
     \/ UNCHANGED opening
  /\ tasks' = tasks (-) SetToBag({t})
  /\ UNCHANGED streams

\* ... and listed.
ListFile(t) ==
  /\ Running
  /\ t \in BagToSet(opening)
  /\ opening' = opening (-) SetToBag({t})
  /\ streams' = Append(streams, NewStream(t))
  /\ UNCHANGED <<network, server, published, tasks>>

\* stopLivingStreamFile, by socket or by session id.
StopStreams(t) ==
  /\ Taken(t) /\ t.op \in {"stopSocket", "stopName"}
  /\ Remove({s \in Listed : IF t.op = "stopSocket" THEN s.fd = t.fd
                                                   ELSE s.id = t.id},
            tasks (-) SetToBag({t}))
  /\ UNCHANGED opening

\* A reply or a report is handed to the stream it is for, if there is one.
HandOver(t) ==
  /\ Taken(t) /\ t.op \in {"sendRtsp", "rtcp"}
  /\ tasks' = tasks (-) SetToBag({t})
  /\ UNCHANGED <<opening, streams>>

Work ==
  \/ \E t \in BagToSet(tasks) :
       StartLive(t) \/ RestartFile(t) \/ OpenFile(t) \/ StopStreams(t)
         \/ HandOver(t)
  \/ \E t \in BagToSet(opening) : ListFile(t)

-----------------------------------------------------------------------------
(* The live job comes and goes; streams end by themselves.                 *)

Publish ==
  /\ Running
  /\ ~published /\ published' = TRUE
  /\ UNCHANGED <<network, server, tasks, opening, streams>>

\* The job ends: sourceRemoved tells each of its sinkers.
Unpublish ==
  /\ Running
  /\ published /\ published' = FALSE
  /\ streams' = [i \in DOMAIN streams |->
                   IF streams[i].kind = "live" /\ streams[i].state = "on"
                   THEN [streams[i] EXCEPT !.state = "ending"]
                   ELSE streams[i]]
  /\ UNCHANGED <<network, server, tasks, opening>>

\* A send thread ends when told, at the end of its file, or when it cannot
\* send.
StreamEnds(i) ==
  /\ Running
  /\ streams[i].state # "off"
  /\ streams' = [streams EXCEPT ![i].state = "off"]
  /\ tasks' = Post([op |-> "stopName", id |-> streams[i].id])
  /\ UNCHANGED <<network, server, published, opening>>

-----------------------------------------------------------------------------
Next ==
  \/ \E c \in Clients :
       \/ \E f \in Fds : Accept(c, f)
       \/ \E req \in Requests, header \in ids \cup {None} :
            Receive(c, req, header)
       \/ Hangup(c) \/ NoticeClose(c) \/ OverlookClose(c)
  \/ \E f \in Fds : DropTimeout(f)
  \/ Serve \/ Abort \/ Tick \/ Work \/ Publish \/ Unpublish
  \/ \E i \in DOMAIN streams : StreamEnds(i)

Spec == Init /\ [][Next]_vars

-----------------------------------------------------------------------------
ServerTypeOK ==
  /\ up \in BOOLEAN
  /\ client \in [Clients -> {"away", "up", "leaving", "lost", "gone"}]
  /\ fd \in [Clients -> Fds \cup {None}]
  /\ asked \in 0..MaxRequests
  /\ quiet \in [Clients -> Ages]
  /\ buffer \in [Fds -> Seq(Session)]
  /\ idle \in [Fds -> Ages \cup {None}]
  /\ callback \in Event \cup {None}
  /\ ids \subseteq Ids

MediaTypeOK ==
  /\ published \in BOOLEAN
  /\ IsABag(tasks) /\ BagToSet(tasks) \subseteq Tasks
  /\ IsABag(opening) /\ BagToSet(opening) \subseteq StartTask
  /\ streams \in Seq(Stream)

\* Every variable holds what the code's variable may hold; in particular a
\* posted PLAY names a session id that was given out.
TypeOK == ServerTypeOK /\ MediaTypeOK

\* What the server keeps for a descriptor goes when the descriptor is closed:
\* a client that is given it again finds no buffer, no session and no time of
\* the one before (RTSP_Callback on a closed socket).
NothingLeftOfClosedSockets ==
  \A f \in Fds \ OpenFds : buffer[f] = <<>> /\ idle[f] = None

\* A session can be played, or is, if and only if a SETUP gave it an id, and it
\* is then one of the track that the server offers, whatever SETUPs were refused
\* before and after.
ReadyIsSetUp ==
  \A f \in Fds : \A i \in DOMAIN buffer[f] :
    LET s == buffer[f][i] IN
    /\ s.state # "init" <=> s.id # None
    /\ s.id # None => s.track = "track1"

\* A connection has one session for a control id (RTSP_SETUP looks for it
\* before it adds one).
OneSessionPerTrack ==
  \A f \in Fds : \A i, j \in DOMAIN buffer[f] :
    buffer[f][i].track = buffer[f][j].track => i = j

\* A stream that the workers listed while its client was there sends on that
\* client's socket as long as it is listed: a close removes the client's
\* streams before the descriptor can be given to somebody else.
StreamsUseTheirClientsSocket ==
  \A i \in DOMAIN streams :
    streams[i].late \/ fd[streams[i].client] = streams[i].fd

\* The sessions of a client are dropped only if it has closed or has been quiet
\* for longer than the time-out: what it has just sent counts.
ActiveClientsAreKept ==
  [][\A c \in Clients :
       (fd[c] # None /\ buffer[fd[c]] # <<>> /\ buffer'[fd[c]] = <<>>) =>
         client[c] \in {"leaving", "lost"} \/ quiet[c] > Timeout]_vars

-----------------------------------------------------------------------------
(* How the invariants of the socket thread are kept.                       *)

ConnectedHaveSockets ==
  \A c \in Clients : client[c] \in {"up", "leaving", "lost"} <=> fd[c] # None

SocketsAreDistinct ==
  \A c, d \in Clients : fd[c] = fd[d] /\ fd[c] # None => c = d

\* While a callback runs its socket stays open.
CallbackIsOfOpenSocket ==
  callback # None =>
    /\ callback.fd \in OpenFds
    /\ \/ callback.req = None
       \/ /\ callback.req \in Requests
          /\ callback.req.m = "SETUP" => callback.header = None

AgesAgree ==
  \A c \in Clients :
    fd[c] # None /\ idle[fd[c]] # None => idle[fd[c]] = quiet[c]

DueAreQuiet ==
  callback # None =>
    \A c \in Clients : fd[c] \in callback.due => quiet[c] > Timeout

\* Only a default session may be without a control id, and then it is alone.
TracksAreKnown ==
  \A f \in Fds : \A i \in DOMAIN buffer[f] :
    buffer[f][i].track = None => Len(buffer[f]) = 1

\* The socket thread's records fit each other: whoever is connected has a socket
\* of his own, a socket's age is its client's, what was collected as overdue is
\* of clients that were quiet, and SETUP finds the session list it expects.
RecordsAgree ==
  /\ ConnectedHaveSockets /\ SocketsAreDistinct /\ CallbackIsOfOpenSocket
  /\ AgesAgree /\ DueAreQuiet /\ TracksAreKnown

\* The inductive invariant of the proofs.
Inv ==
  /\ ServerTypeOK
  /\ RecordsAgree
  /\ NothingLeftOfClosedSockets
  /\ ReadyIsSetUp /\ OneSessionPerTrack
===============================================================================
