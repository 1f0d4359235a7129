# A TLA+ model of rtsp-server

The program pulls RTSP streams from cameras when a client of its JSON port asks
for it (`createTask`), relays them to RTSP clients, records them as FLV or MP4,
and serves recorded files over RTSP. It is about 25,000 lines of C++ with ten
mutexes and half a dozen kinds of threads; most of what can go wrong in it is a
matter of which thread gets to a list first. That is what this project models.

All line numbers are those of the files under `src/`. Comments of the source are
GBK-encoded Chinese and are quoted in translation.

## 1. Inventory

| part | state | operations | who calls it |
|---|---|---|---|
| **task queues** (`taskSchedule.cpp` 32-57, 144-227, `taskScheduleJson.cpp` 11-27) | two lists of task objects, each with mutex and condition variable; worker threads; shutdown flags | `addTaskObj` (through a detached thread per object), worker loop, `taskScheduleInit`, `taskScheduleShutdown` | everybody |
| **scheduler** (`taskSchedule.cpp` 229-510, `taskScheduleJson.cpp`) | `m_taskLivingExecutorList` (streams being served), `m_taskJsonExecutorMap` (pull jobs by id), their mutexes | `createTask`, `deleteTask`, delete all, start of a live or file stream, stop by session / socket / file name, pause, hand-over of RTCP and RTSP data | living workers, JSON workers, and the socket thread through `executeTaskObj` |
| **pull job** `rtspClientSource` | RTSP dialogue with the camera, RTP queues, `m_sinkerList`, one stream thread plus helpers | construct, `handTask` (link / unlink a sinker), end of stream, destroy | JSON workers, living workers, detached deleter threads |
| **sinkers**: `h264RtspLiveSinker`, `flvFileSinker`, `MP4FileSinker` | packet queues, a send thread (live) or a writer (recordings) | add packet, `sourceRemoved`, start, stop, pause, destroy | pull job, scheduler |
| **file streams**: `FlvVideoFileStreamSource`, `H264VideoFileStreamSource` | reader, send thread | start, restart, pause, stop, end of file, destroy | scheduler |
| **RTSP server** (`RTSP_Server.cpp`, `RTSP_*.cpp`) | one buffer per socket with sessions in INIT / READY / PLAY | OPTIONS, DESCRIBE, SETUP, PLAY, PAUSE, TEARDOWN, close, time-out | the epoll thread |
| **TCP time-outs** `TcpConnectingManager` | last activity per socket | update, delete, collect | the epoll thread |
| **TCP reassembly** `tcpCacher` | a window of bytes | append, get valid buffers with an analyser for RTSP/RTP or JSON | epoll thread, pull job |
| **JSON control** (`taskJsonCallback.cpp`, `m_taskJsonSocketMap`) | sockets that may be answered | request, notify, close | epoll thread, workers |
| **reception statistics** `RTPReceptionStats`, RTCP | extended sequence numbers, jitter, counters | note packet, note SR, receiver report | pull job |
| **file access** `fileHander`, `ReadWriteLock` | a shared map of file locks with reference counts, a read cache | open, read, write, seek, close | recorders, file streams |
| containers, bit reader, configuration, sockets, JSON and log libraries | - | conversions and wrappers | - |

How they interact: the epoll threads turn bytes into task objects and post them
(`addTaskObj`) or carry them out on the spot (`executeTaskObj`). Workers take
them and change the list and the map. A stream that ends by itself cannot delete
itself from its own thread; it posts a task that asks for its removal **by name**
(session id, file name, job id). Deleting a job joins threads, so it is left to a
detached thread. Between any two of these steps every other step can happen.

What is hard, and what makes each part correct:

* *scheduler*: two mutexes taken in nested fashion in both orders; removal in two
  passes; objects named by strings that may meanwhile name something else;
  objects linked from three places (list, job, creating thread). Correct if no
  list or mapped job keeps a destroyed object, none is lost or destroyed twice,
  a stop is complete, every handler returns, every ended stream is removed.
* *task queues*: lost wake-ups, double handling, shutdown.
* *RTSP server*: a session's state is advanced when a task is posted, not when it
  is done; everything is kept under a descriptor that the system reuses; a SETUP
  that is refused has already changed the list of sessions. Correct if a session
  is playable exactly after an accepted SETUP, a descriptor carries nothing over
  from one client to the next, only silence times a client out, and streams
  belong to the client on their socket and end with it.
* *pull job*: up to five threads and a destructor share `m_end` and three socket
  members without a lock. Correct if its end is told once and in order, and if it
  ends when it is destroyed or when the camera falls silent.
* *RTP assembly and live sinker*: packets get lost, units of five packet types are
  put together, two bounded queues are cut from different ends. Correct if a
  client sees units in order and whole, and whoever joins the send thread returns.
* *TCP reassembly*: window arithmetic at its limit; correct if messages come out
  as they went in, at once, in whatever pieces they came.
* *reception statistics*: 16-bit wrap-around, three threads without a lock; correct
  if the extended number is the true one while reordering stays below 32768, and
  losses are not invented.
* *recordings and their playback*: a disk that fails in part, a header that is
  rewritten while tags are appended, a file that is played while it grows. Correct
  if a reader gets from tag to tag, an index leads to a key frame, the tables of
  MP4 find each sample, and playing leaves nothing out.
* *reading and packing H.264*: a start code may lie anywhere in the reader's cache, and
  a unit's size may divide evenly. Correct if each unit is sent once, in order, and in
  fragments that a client can put together.

The list `hazards` of `PROJECT.json` gives the line of each.

## 2. Plan

Done, in this order, most important first:

1. **`Executors`**: the scheduler with the jobs and streams it manages.
2. **`TaskQueue`**, which implements the abstract **`TaskPool`**; `Executors` and
   `RtspServer` rely on the pool's promise only (any order, each object once).
3. **`RtspServer`**: connections, sessions and their state machine, composed with
   the pool of asynchronous tasks.
4. **`PullClient`**, which implements the abstract **`PullJob`**: what `Executors`
   assumes of a job's end, request for deletion and destruction.
5. **`RtpReceiver`** composed with **`LiveSinker`**: from the camera's packets to
   what a client is sent.
6. **`TcpCacher`**: the bytes of a socket of the server.
7. **`ReceptionStats`**: what a pull job reports to the camera.
8. **`FileHander`**, **`FlvRecorder`**, **`Mp4Recorder`** composed in
   **`Recording`**; **`FlvPlayer`**, which plays what `FlvRecorder` writes.
9. **`Packetizer`**, how a unit becomes packets; **`H264Player`**, which plays H.264
   files with it; **`FileStream`**, a stream of either class.

Worth adding: the sockets that replies and notices still go to
(`m_taskJsonSocketMap`), and the table of file locks with its `ReadWriteLock`.

At most a dozen runs are kept, one for each question, and none whose answer takes
a single thread and three steps: those disagreements are listed in section 4.

## 3. Modules

### How the modules hang together

```
 RtspServer ---- posts tasks ----> TaskQueue => TaskPool ----> Executors
   ^   sessions, sockets             (queue implements pool)     |  creates, links,
   |                                                             |  stops, destroys
 TcpCacher  bytes of a socket                                    v
                         PullClient => PullJob        sinkers, file streams
                           | packets                     |            |
 ReceptionStats <----- RtpReceiver ---- units ----> LiveSinker   FileStream
   reports to the camera       \                        (FlvPlayer, H264Player)
                                \                                   ^ file
                                ----> Recording (FlvRecorder, Mp4Recorder)
                                            on FileHander
```

`=>` is a refinement checked by TLC and proved. Modules on different levels meet
in what one promises and the other assumes: `Executors` takes any task of the
pool (`TaskPool`); a job ends, asks to be deleted and is destroyed as `PullJob`
says; a send thread may end at any time and is joined by who pauses or destroys it
(`PauseEnds`, `PlayingEnds` show that the join returns).

### `Executors.tla`

State, and what it stands for:

| variable | code |
|---|---|
| `living`, `json` | owners of `m_mutexLivingExecutorMap`, `m_mutexTaskJsonExecutor` |
| `executors`, `jobs` | `m_taskLivingExecutorList`, `m_taskJsonExecutorMap` |
| `sinks[s]` | `m_sinkerList` of the `rtspClientSource` s |
| `stream[s]`, `fate[s]`, `taskId[s]` | its stream thread, its destructor, its id |
| `sinker[k]`, `kind[k]`, `name[k]` | a sinker's life and send thread, its class, the name that a stop finds it by |
| `tasks`, `asked` | posted tasks, a bag; how often clients have asked (a bound, not state) |
| `pc`, `task`, `src`, `hand`, `victims` | per worker: place, task object, and the locals `rtspClient`, `flvSinker` / `tmpSource`, `listRemove` |

A critical section that takes no second mutex is one step; where the code holds
one mutex and goes on to take the other, the step ends with the first still held.
`m_sinkerMutex` is only ever innermost. Actions and code:

| actions | code |
|---|---|
| `Request`, `Take` | clients' tasks, `addTaskObj`, a worker takes a task (or the socket thread calls `executeTaskObj`) |
| `NewJob`, `RefuseJob`, `SaveFile`, `SaveFailed`, `PushSave`, `Created` | `createTask`, `taskScheduleJson.cpp` 67-170, with its recordings |
| `DeleteJob` | `deleteJsonTask`, `deleteAllJsonTask`, `deleteRtspClientSource` |
| `DestroyBegin`, `DestroyEnd` | `~rtspClientSource` on the deleter thread: flags, then join |
| `LiveEnded`, `StreamExit` | the stream thread leaves its loop and tells its sinkers; asks for its own deletion |
| `MakeLiving`, `NoMediaType`, `LockLiving`, `Attach`, `SourceGone` | `startLivingRtspRealtimeStream` |
| `RestartFile`, `MakeFile`, `NoFile`, `PushFile` | `startLivingStreamFile` |
| `SenderExit` | a send thread ends and asks for its stream to be stopped |
| `PauseStream` | `pauseLivingStreamFile` |
| `Collect`, `Detach`, `Erase` | `stopLivingStreamFile`, its two passes |

Two places end the process: setting up a recording of a refused job uses a null
pointer (`RefuseJob`), and restarting an H.264 file stream whose send thread was
not joined assigns over a joinable `std::thread` (`RestartFile`). The worker goes
to `aborted`, and nothing happens any more.

Abstracted: stop by socket id and stop by session id are one operation on a name
(both find the streams of one client); a recording's file name is the default one,
made of id and format; media data, replies and notifications are left out. The
handlers that only read the list or the map (`sendRtspData`,
`passLivingRTCPMessage`, `getLivingList`) are not modelled. Memory: an object's
address is never given to another one, which is the favourable case.

`MCExecutors.tla` gives requests and quotas for TLC. `Executors_proofs.tla` holds
the proofs.

### `TaskPool.tla`, `TaskQueue.tla`, `Refinement_proofs.tla`

`TaskQueue` is one of the two queues (they are alike): `Add` starts the detached
thread, `Push` is that thread under the queue's mutex, `Loop` / `Fetch` / `Finish`
the worker, `WakeSpuriously` a return of `wait` with nothing to do, `Shutdown` and
`ClearJobs` the two halves of `taskScheduleShutdown`. `TaskPool` says what callers
may count on; the refinement maps the pool to what is queued or carried by a
detached thread.

### `RtspServer.tla`, `RtspServer_proofs.tla`

One level above `Executors`: there requests to start and stop come from nowhere;
here they are what the socket thread makes of a client's requests, in the state
the session is in. In return a whole stop or start of a stream is one step.

| variable | code |
|---|---|
| `client`, `fd` | the peers, and the descriptors that the system gave their sockets |
| `buffer[f]` | `session_list` of the `RTSP_buffer` in `g_RTSP_buffer_map`, `<<>>` if there is none |
| `idle[f]` | age of the entry of `m_mapTimeInfo` |
| `callback` | the event `RTSP_Callback` is working on, with the overdue sockets it still has to close |
| `ids` | session ids given out by `generateGUID64`, which never repeats one |
| `published` | whether `createTask`'s job for the live stream is in the map |
| `tasks`, `opening`, `streams` | posted tasks, file streams not yet listed, `m_taskLivingExecutorList` in its order |
| `up` | the process has not been killed |
| `quiet`, `asked`, and the fields `client`, `late` | history and bounds, read by no code |

| actions | code |
|---|---|
| `Accept`, `Receive`, `NoticeClose`, `OverlookClose` | `eventDispatch` (`socketEvent_linux.cpp` 54-189) up to and into `RTSP_Callback`; `OverlookClose` is line 172, which tests a variable never assigned |
| `Hear`, `DropTimeout`, `NoData` | `RTSP_Callback`: own time updated, overdue sockets forgotten and closed, no data no request |
| `Setup`, `Play`, `Pause`, `Teardown`, `OptionsInPlay`, `ReceiveRtcp`, `Answer` | `RTSP_state_machine` and the handler of each method; `Answer` is every refusal and whatever changes nothing |
| `Abort` | a session that a refused SETUP added has a `std::string` cleared by `memset`; comparing an id with it reads a null pointer |
| `StartLive`, `RestartFile`, `OpenFile`, `ListFile`, `StopStreams`, `HandOver` | the living workers |
| `Publish`, `Unpublish`, `StreamEnds` | the live job, and send threads |
| `Hangup`, `Tick` | the peer and the clock |

Which handler *posts* its task (`tasks'`) and which *executes* it (`streams'`) is
the point of the module: PLAY and TEARDOWN post; PAUSE, close and time-out
execute. `SetupTarget` is the choice of session in `RTSP_SETUP`, made before the
request is found good; the pointer is passed by reference, so the state machine
sets the state of the session chosen there.

Abstracted: a request is a method, a control id or kind of stream, and a fault
(`url`: refused before the session is touched; `transport`: after). Not modelled:
SETUP with a `Session` header (it is scanned into a `std::string` object) or
without `unicast` (the session pointer becomes null), whose behaviour is undefined;
a reply that cannot be sent; H.264 file streams,
which `Executors` has; one file stream and one live stream stand for all.

Time stands still during a callback (`Tick`): ages are read at its start only, so
what it takes is counted after it.

`MCRtspServer.tla` gives the requests for TLC.

### `PullJob.tla`, `PullClient.tla`, `Refinement_proofs.tla`

One `rtspClientSource` from the inside. `Executors` has its life in two steps
(`LiveEnded`, `StreamExit`) and a destructor in two (`DestroyBegin`, `DestroyEnd`);
here are the threads behind that.

| variable | code |
|---|---|
| `mode`, `stream` | `RAW/RAW/UDP` or interleaved; the place of `rtspStreamStart` with `rtspTcp` / `rtspUdp` |
| `helper[t]`, `closing[t]` | `rtspProcessThread`, `rtspHeartbeatThread`, `rtpProcessThread`, `rtcpProcessThread`; the member whose socket a thread has closed and not yet set to -1 |
| `sock`, `owner` | `m_rtspSocket`, `m_rtpSocket`, `m_rtcpSocket`; what the system knows of each descriptor |
| `mEnd`, `deleter` | `m_end`, `m_hasCalledDeleteSelf` and the thread in the destructor |
| `started`, `notices`, `asked` | `m_notifyStarted`, tasks posted for the client, the `StopJson` task |
| `overdue`, `limited` | whether the last frame is too long ago; `SO_RCVTIMEO` is not 0 |

| actions | code |
|---|---|
| `Connect`, `Options`, `Describe`, `Ports`, `OddPort`, `Setup`, `Play`, `Probe`, `DialogueFails` | the dialogue, a request and the check of its reply at a time |
| `Join`, `NotifyEnded`, `AskDeletion` | end of `rtspStreamStart` |
| `GetMedia`, `GetOther`, `RecvFails`, `Beat`, `Nap` | the helpers' loops; whoever fails sets `m_end` |
| `HelperCloses`, `HelperExits`, `DeleterCloses` | `closeRtspRtpRtcpSocket`, a member at a time, close and assignment apart |
| `Doom`, `Destroy` | `~rtspClientSource` |
| `Tick`, `OtherOpens` | time, and the rest of the process, which gets the lowest free descriptor as well |

### `RtpReceiver.tla`, `LiveSinker.tla`, `LiveSinker_proofs.tla`

`RtpReceiver` has no next-state relation of its own: it gives the actions of the
camera, the network and the assembly, and `LiveSinker` composes them with its own.
A packet is one step, since it is handled under `m_processerMutex` and delivered
under `m_sinkerMutex`. A unit is its number and type, and what was put together of
it the sequence of its pieces, so that a piece of another unit shows.

| variable | code |
|---|---|
| `unit`, `type`, `parts`, `todo`, `lost`, `burst`, `tcp`, `mtap` | the camera and the network |
| `rtpData`, `offsets` | `m_rtpDataForProcesser`, `m_rtpDataForProcesserTimeOffset` |
| `linked`, `params[s]`, `cache[s]` | `m_sinkerList`; a sinker's `m_sps` / `m_pps` and `m_dataPacketCache` |
| `thread[s]`, `sending[s]`, `ended[s]`, `quiet[s]` | `m_thread_send`, `m_dataPacketSend`, `m_send_end`, `m_hasCalledDelete` |
| `sent[s]` | the last unit its client was sent |
| `broken` | what the process died of, in the three places where it can |

`SendWhole` is single units, STAP-A and STAP-B, `SendTimed` MTAP16 and MTAP24,
`SendFirst` / `SendNext` FU-A and FU-B, each lost or received (`Lose`, `Arrives`).
`Fetch` is a round of the send thread with its sleep and `Taken` the cut of both
queues to `s_maxCachePacket`; `Send`, `EndRound` the rest of the round; `Hush`
followed by `Paused` or `Destroyed` is PAUSE or the destructor around the join.

### `TcpCacher.tla`, `TcpCacher_proofs.tla`

One descriptor of the server, RTSP or JSON. `Say` is a client that sends a message,
`Segment` what one `recv` gets of it with `appendBuffer`, `TakeMessage` / `EndScan` the
loop of `getValidBuffer` over `parseRtpRtcpRtspData` or `parseTaskJsonData`,
`HandleRtsp` / `HandleJson` / `Return` the callbacks, `Close` the removal of the cacher
with its socket. `TimeOut` is the other way to lose it: a client that was silent for
too long is closed with `RTSP_Close_Client`, which frees everything that is kept of it
but not its connection (`RTSP_Server.cpp` 112-121, 384), and what it sends next starts
a new cacher. If a part of a message was in the old one (`fault` is "cut" then), the
rest comes without a beginning and may spell anything: `TakeAsMessage` is an analyser
that finds a message there, of any length. `cap`, `cur`, `buf` are `m_MaxBufSize`,
`m_cur` and the valid bytes; `last`, `list`, `input` are `dataLen`, `dataList` and
`in_buffer`. A byte is the message and the place that it is of; no byte is spelled.
`got` and `done` are history. A search beyond the buffer (`Overread`) ends the model,
as its outcome is undefined.

### `ReceptionStats.tla`, `ReceptionStats_proofs.tla`

`RTPReceptionStats` as its three users share it: `NoteSeq` to `NoteExtend` is
`noteIncomingPacket` on the thread of the media socket, with the increment of the
count as a load and a store; `Begin` to `SetReset` is `sendRR` with `resetStats`, on
the thread of the RTCP socket and on that of the heartbeat, a read or write at a
time. `Make` and `MakeSR` are the two places that construct the object, which both
threads may do (`twice`). `noted` and `clash` are history. A camera's numbers are
integers without wrap, of which the code sees the remainder modulo `Wrap`.

### `FileHander.tla`, `FlvRecorder.tla`, `Mp4Recorder.tla`, `Recording.tla`, `Recording_proofs.tla`

The first three have no variables: a file, an FLV and an MP4 recording are records, and
what the code does with a unit is an operator from one to the next. `Recording` has the
variables `flv` and `mp4` and the actions `RecordFlv`, `RecordMp4` (a sinker is made
and linked), `NextUnit` (the job hands a unit to those it has), `StopFlv`, `StopMp4`
(it is destroyed). `createTask` links the FLV sinker first and makes the one for MP4
after it has waited for a lock, while the stream's thread runs: `RecordMp4` may come at
any later unit, or alone. The times of an MP4 recording are what a player computes from
`stts` as the code writes it, a table of runs of equal durations (`TimeOf`); those of
FLV are in its tags. A cell of a file is what the code writes with one call or two and
reads back as one thing: a tag is its body and its size, an index entry a time and an
offset, a sample the length and the data of each of its units. `out` gives for each
write of a step how many cells of it get out: the disk may fail at any of them, or all.

### `FlvPlayer.tla`

A stream of `FlvVideoFileStreamSource` with its send thread, the parser, the index
reader and the read cache of its file handle, while `FlvRecorder` goes on writing:
`WriteUnit`, `Flushed`, `EndRecording` are the recorder and stdio's buffer, `Play` /
`Joined` / `ReadSets` / `SeekToTime` / `Scan` / `Begin` are `startStream` with
`seekToTime`, `Pause` / `PauseJoins` PAUSE and stop, `SendThread` a round of the send
thread. `pos` and `cached` are the parser's place and the end of what
`m_cacheData` holds, `sets` is `m_sps` and `m_pps`, `first` and `latest` are history.

A reader may come upon a tag of which only the first half is out of stdio's buffer
(`half`, `TornTag`). `readFile` then copies as much as the field is long out of a cache
that ends before (`fileHander.cpp` 123-138): the unit is sent with what lies behind the
cache in memory as its rest, and the place is behind the end of the file. The next
`seekToPos` fails there and leaves the place 0, with the old cache if the file had not
grown enough (469): what is read from then on is of another place (`lost` is "stale")
and ends the stream. A configuration record torn behind its SPS comes out as a frame
that holds the SPS (`flvParser.cpp` 735; `sps`), and the stream goes on from the
beginning of the file (`lost` is "rewound"). The model assumes that the memory behind
the cache can be read, and that bytes out of the middle of a tag do not look like one.
Sent means handed to the socket's functions: over UDP the network may lose it, over TCP
a send fails once the client is gone, which ends the stream.

### `Packetizer.tla`

The part of `generate_sendable_frame` that cuts a unit into FU-A packets, of which
H.264 streams, live streams (`h264RtspLiveSinkerSource.cpp` 911-1025) and FLV streams
have a copy each: no variables, a fragment is the range of bytes it holds and its two
bits. All arithmetic of the code is there (`NumFrames`, what is left for the last).

### `H264Player.tla`, `FileStream.tla`, `FileStream_proofs.tla`

A stream of `H264VideoFileStreamSource` and the `localFileReader` it reads with. A file
is where its units and their start codes lie; no unit is empty. `GetFrame` is
`get_frame`, which reads a byte at a time up to the next start code and goes back by
`Backword`; `SendFrames` is a round of the send thread with `send_frame`, `PlayFile` is
`startStream`, `EndSending` / `SenderJoined` are PAUSE, stop and the destructor around
the join. `place`, `sender`, `sendEnd` are the reader's position, `m_thread_send` and
`m_send_end`; `carrier` is the transport of the session, `broken` that a send over TCP
has failed; `sent` and `shown` are history, `aborted` the end of the process. `sent` is
the last unit that the code counts as sent, `shown` the last that its client got:
`SendTcp` shows it, `SendFails` and `SendUdp` do not. Over UDP nothing is sent at all:
the constructor sets the sockets to -1 (line 20), `startStream` makes them only where
it finds 0 (136-145), and the result of `socketSendto` is not looked at (338-352).

`FileStream` is `createNewFileStreamSource`: a stream is of one class or the other.
`MCFileStream.tla` lays out files for TLC.

## 4. Runs

Passing runs.

* **live** - one session, sources and sinkers for two jobs, two living workers
  and two JSON workers, and one of two scenarios: a job is created with a
  recording, deleted, created again without, played and stopped, each once and in
  any order, with jobs that end at any time; or a session starts an FLV file twice
  and an H.264 file once, pauses twice, stops once, while a recording of a refused
  job is set up. Every path through start and stop meets every path through delete
  and end of job.
* **fair** - the liveness properties, with plays and jobs but no recordings: then
  every handler takes the living lock first and all of them return.
* **server** - two clients, two descriptors and two session ids; four requests in
  all, each of any kind, valid or refused before or after the session is chosen,
  with any id given out so far, the other client's included. Four requests are
  SETUP, PLAY and two more, of one client or two: enough for a session in each
  state beside a second session of the connection, for a client that times out
  while another sends, and for a task that outlives its client and meets the
  descriptor's next owner. `Timeout` is 0 ticks: silence for one tick is too long.
* **queue** - three objects and three workers; one object fewer or one worker
  fewer than the other is thus included.
* **pull** - three descriptors, as many as the job has sockets, one of which
  somebody else may hold; all four helper threads and the destructor at any place
  of the dialogue. A camera that takes the limit of its receives away is not in
  this run (`Limits`): `DestructionEnds` and `SilentPullEnds` say nothing of it.
* **relay** - one sinker, three units of up to two fragments, queues of two: the
  third unit overflows them; two units suffice for a piece of one to meet another.
  Sinkers share nothing but what they are given, so one stands for all.
* **cacher** - up to three messages on each of two connections, in both protocols, with
  segments of any size and time-outs at any time. A frame of 5 and one of 6 bytes,
  whose size is misread, a request of 6; a buffer of 7 that holds one message and a
  part of the next, and may grow below 14, so that all cases of `appendBuffer` occur,
  the refusal included.
* **stats** - numbers modulo 4, the smallest circle with a direction; three packets
  go round it; two reports, so that they overlap each other and a packet.
* **recording** - five units are parameter sets, an IDR, and two more of any type,
  each at the time of the last or a millisecond later, in MP4 from any of them on; one
  failure, which leaves any one write undone, or half of it.
* **playback** - seven units hold two key frames with their sets and a picture behind
  the first, each of which may be read while it is torn; three requests are PLAY, PAUSE
  or another PLAY, and a stop. An H.264 file has its parameter sets and four units, of
  one byte, of two full fragments, of two and a rest, or of a type that is not sent;
  with a cache of 24 bytes start codes of both lengths come to lie everywhere at its
  edge. Packets of 20 bytes carry 7.

Bounds: `Quota` limits each request of `Executors`; `Sources` and `Sinkers` limit
how often objects can be created. The interesting cases need two jobs (old and new
under one id), two sinkers (one on its way in, one on its way out) and two workers
per mutex (one inside, one waiting); a third adds no new pair of adjacent steps,
and the proofs cover any number. Symmetry over sources, sinkers and workers, and in
**server** over clients, descriptors and ids, is used in runs without liveness.
Deadlock checking is off because runs stop when their quotas are used up, and
because the code does deadlock (`lockorder`).

Violations: what a comment of the source promises and the code does not do.

* **lockorder** - a recording being set up holds the JSON mutex and wants the
  living one; a live start holds the living and wants the JSON mutex. From then on
  no task that needs either is handled (`DeleteTaskAnswered`).
* **split** - `RTSP_Callback` adds the length of the last segment, not of the
  message, to `in_size`; a request that came in two segments is put together by
  the cacher and then found incomplete (`WholeRequestsAreHandled`).

### Disagreements without a run

They are in the models, and a few steps, mostly of one thread, show them.

* `createTask` looks an existing task up under an id that is still empty
  (`taskScheduleJson.cpp` 81), so a second one under the id runs unmapped.
* A stop tells only the mapped jobs that a sinker goes; one that was unlinked a
  moment ago still feeds it (`taskSchedule.cpp` 345). Hence
  `MappedJobsFeedExistingSinkers` speaks of mapped jobs.
* An ended job asks for its deletion by id and may delete its successor
  (`taskSchedule.cpp` 417).
* A sinker linked after the job told everybody that it ended is told nothing
  (`rtspClientSource.cpp` 2852, `taskSchedule.cpp` 453); a job that ends while
  `createTask` is between linking and listing a recording leaves the recording
  behind (`taskScheduleJson.cpp` 139-144).
* PAUSE of a live stream that was paused and played again finds the silent one of
  two (`taskSchedule.cpp` 378).
* A PLAY handled after its client closed lists a stream that nobody removes
  (`RTSP_PLAY.cpp` 190).
* The shutdown joins workers that sleep and are never notified
  (`taskSchedule.cpp` 172-189).
* Restarting an H.264 file stream or a live stream whose send thread ended
  assigns over a joinable `std::thread`, which ends the process
  (`H264VideoFileStreamSource.cpp` 149, `LiveSinker!StartStream`).
* Several threads close a pull job's sockets; a descriptor may be closed twice, the
  second time when it is somebody else's (`rtspClientSource.cpp` 2751). Of an odd
  UDP port the number is closed and the socket kept (1561).
* A live sinker that gets an IDR before any parameter sets reads a null pointer
  (`h264RtspLiveSinkerSource.cpp` 872), as does a file stream
  (`FlvVideoFileStreamSource.cpp` 757; `DiesOnlyBare` says when not). More MTAP
  offsets than units index beyond the list (`rtspClientSource.cpp` 2342).
* The search for an empty line in two bytes of data subtracts three from two
  (`tcpCacher.cpp` 222); the lower byte of a frame's size is a signed `char` (200);
  a request ends at the *last* empty line, so two that arrive together are one.
* A time-out closes a client for the program, but not its connection
  (`RTSP_Server.cpp` 112-121): of a message that was received in part the first part is
  dropped with the cacher (384), and the rest is handed on as a message, or with the
  next. `Whole` and `NothingWaits` exclude a time-out in the middle of a message.
* Over UDP a stream of an H.264 file sends nothing, since its sockets stay -1
  (`H264VideoFileStreamSource.cpp` 20, 136-145), and says nothing of it until its first
  sender report fails and ends it.
* A tag of an FLV file that is torn as it is read, since only a part of it is flushed, is
  sent with bytes of the heap behind this part (`fileHander.cpp` 123-138), and the reader
  loses its place (469): the stream ends, a PLAY then may send nothing. A configuration
  record that is torn behind its SPS (`flvParser.cpp` 735) throws the stream back to the
  beginning of the file; in `seekToTime` it is read over and over with the
  list locked, until it is flushed.
* A unit of `1 + k * n` bytes, `n` the payload of a fragment, is sent in full fragments
  none of which has the end bit, contrary to the comment "最后帧:0 1 0" (the last frame)
  in `H264VideoFileStreamSource.cpp` (654); a client cannot put it together
  (`EndIsSent`, `WhatClientsGet`).
* `localFileReader::backword` (134) does not go back to the beginning of its cache; a
  unit whose start code ends there is skipped. The last unit of an H.264 file is never
  sent, since the end of the file ends no unit (`H264VideoFileStreamSource.cpp` 1123).
* `FlvVideoFileStreamSource.cpp` 812 lowers `payload_size` again for each unit of a
  frame that is fragmented, so that fragments of a second one are shorter than their
  packets (seen, not modelled).
* An FLV file's size is recorded as 0, since `fileHander::seek` ignores the origin
  (`flvWriter.cpp` 899); if half an index entry is lost, all behind it are shifted
  (`flvIdx.cpp` 40-43); a configuration record later in the file repeats the first.
* In MP4 a unit that comes one millisecond after another is merged with it
  (`mp4FileStream.cpp` 145).
* Both reporting threads may reset the counters, and both users may construct them:
  the properties of `ReceptionStats` exclude what follows (`clash`, `twice`).

### Fairness

Threads are scheduled (`WF` of each handler and of the workers' loop as a whole: some
queued task is taken, not any particular one, as the queue gives no order). A deleter
thread runs. In `Executors` a stream thread is only assumed to leave its loop once its
destructor has set `m_end` and closed its sockets, and a send thread once it was told
to end: cameras and files need never end, sending need never fail. `PullClient` shows
where the first comes from: a receive returns within its limit, if it has one, and the
thread then looks at `m_end`; nothing is assumed of the camera, nor that a receive
whose job is not ending returns. In `LiveSinker`, `FlvPlayer` and `H264Player` a step
of a send thread ends: the send of a client that reads nothing is given up with its
connection, and what was written of a tag is flushed at some time (`Flushed`; the
recorder's next write does it, or its end). In `TaskQueue` a sleeping worker need never
wake up spuriously, and nobody need shut the process down. `RtspServer`, `TcpCacher`,
`ReceptionStats` and `Recording` are checked for safety only.

## 5. Proofs

Checked by TLAPS for every value of the constants, under the assumptions
`ExecutorsAssumption` (the sentinel `None` is no object, session ids are not file
names, requests are well formed), `TaskQueueAssumption`, `RtspServerAssumption`,
`PullClientAssumption`, `TcpCacherAssumption`, `ReceptionStatsAssumption`,
`FlvPlayerAssumption`, `RecordingAssumption` (bounds and steps of the time are numbers,
ranges pairs of them) and `H264PlayerAssumption` (the units of a file follow each
other, none is empty; a cache is longer than a start code, a packet than its headers).

`Executors_proofs`: `TypeCorrect`, then `InvHolds` and from it one theorem for each
safety property of the runs. None of these is inductive. The argument:

* `LocksAreOwned` ties each mutex to the place of its owner. It gives mutual
  exclusion of the critical sections.
* `NewSinkersArePrivate`: between construction and listing, one worker knows the
  sinker, so no stop destroys it (`NoSinkerLost`, `ListedSinkersExist`).
* `StopsAreExact`: while a stop holds the living mutex, what it has collected is
  what is listed under the name. That makes a stop complete
  (`StopLeavesNone`), and `Erase` destroys nothing that a mapped job feeds.
* `UnbornAreUnknown`: an object about to be constructed is linked nowhere, which
  `MappedJobsFeedExistingSinkers` needs when a job is created.
* The delicate case is `Detach`, then `Erase`: between the two the JSON mutex is
  free, and a job could be created or a sinker linked. Linking a live sinker needs
  the living mutex (`LocksAreOwned`), and a recording is linked only when it is
  new (`NewSinkersArePrivate`).

Note what the invariant needs: not the order in which the mutexes are taken
(which is wrong), only that both are held where the code holds them.

`Refinement_proofs` has the two components that implement an abstract one.

*The task queue.* `NobodySleepsOnWork` and `HandledOnce` are inductive with the
type invariant; with them each step of the queue is a step of `TaskPool` or none
(`QueueKeepsPromise`). That an object is somewhere (handed over means pooled,
in work or deleted) is built into the refinement mapping.

*A pull job.* `IInv` is the type invariant with `HelpersAreJoined`: while the
stream thread is anywhere but at its join, no helper thread runs. That is what the
order of notices rests on: a notice of the start comes from a helper, the notice of
the end from the stream thread behind the join (`PullKeepsPromise`, step by step
through the dialogue, the helpers and the destructor).

`RtspServer_proofs` has two inductive invariants, one on top of the other. `Inv`
(`InvHolds`, then one theorem for each named part, `RecordsAgree` among them, and
`ActiveAreKept`) is of the socket thread and is proved in two halves. `Sockets`: open
descriptors are distinct, the event being handled is of an open one, and an entry of
`m_mapTimeInfo` is as old as its client has been quiet (`AgesAgree`), so that what
`getTimeoutSockets` returned is of clients that were quiet (`DueAreQuiet`); this is
what makes `ActiveClientsAreKept` true although the sockets are closed some steps
after they were collected. `Buffers`: session lists are `Good`; besides
`ReadyIsSetUp` and `OneSessionPerTrack` that needs `TracksAreKnown`, since `SETUP`
compares control ids only if the first session has one. Every handler leaves a
good list (`SetupListIsGood`, `SetupIsGood`, `StateChangeIsGood`). Workers touch
nothing of the socket thread's (`OthersKeep`), hence none of this depends on the
order of tasks.

`MediaInv` (`MediaHolds`, from it `TypeCorrect` and `StreamsKeepTheirSocket`) is of
what the socket thread and the workers share. That a listed stream uses its client's
socket is not inductive: a start may wait in the queue, or for its file, while its
client goes and the descriptor is given out again (`StartsFit`: a start names the
socket of its client or its client is gone, and the stream it makes is then `late`);
and a PLAY after a PAUSE gives a listed file stream the descriptor of the *start*,
found by the session id alone. What saves it is `NamesFit`: `generateGUID64` repeats no
id, so an id stands for one connection, and all that was played under it for the
client of that connection. The close needs that the streams go *before* the descriptor
does (`NoticeCloseKeepsMedia`, by `CloseClientLeaves`). Each other step makes every
stream of the new list out of a stream or a start of the old state (`Follows`,
`StepKeeps`). `Without`, a recursive function, is handled as `OfTypes` is below.

`TcpCacher_proofs`: `IInv` adds to the types that what the cacher, the list and
`in_buffer` hold are bytes of messages sent on this connection or numbered below it
(`BytesAreSent`), from which `done` is among the requests sent; `FoundStaysWithin`
says that both analysers cut within the valid bytes (this needs the least and
greatest element of a set of places, `LeastExists`), so that the window stays
inside the buffer (`DataFit`). `Whole` and `NothingWaits` follow from a second
invariant, `AllFits`, which holds while the stream is `Clean`: no segment was refused,
no time-out cut a message, no size was misread (`StreamInv`). Once it is not clean it
never is again (`CleanBefore`), and a time-out that leaves it clean found the cacher
empty (`TimeOutFits`). `AllFits`
speaks of the *flow*, the bytes in the cacher with those under way: they are the end
of what was sent, so that where a message begins its bytes follow (`RestIsThere`),
behind them the next begins (`NextBegins`), and the messages of skipped bytes are
junk (`SkippedAreJunk`); and what was found lies before it without a gap. That the
search for the last empty line finds the first needs the client to wait for the
answer to a request (`SortsFit`, `OneEmptyLine`), that a text is not begun in the
middle needs the first byte of the flow to begin a message or to be junk.
`FoundIsWhole` and `OnlyJunkIsDropped` are the two halves of `getValidBuffer`,
`TakeFits` and `EndScanFits` their effect on the invariant.

`FileStream_proofs` has three parts.

* *Fragments.* `Frames` bounds `NumFrames` from both sides, `Shape` gives the fragments
  by their number, and from these follow `FragmentsTile`, `EndIsSent` and
  `WhatClientsGet`, which are about operators. `H264PlaysInOrder` has the last as its
  condition on `shown`.
* *Playing an H.264 file.* `H264Inv` says, whatever the transport and wherever sends
  fail, while the thread sends (`PlaceFits`) that the units up to the last one sent
  begin before the reader's place, and that any later unit that begins before it has
  its start code at the edge of a cache. `GetFrameIs` tells what a round finds,
  `BackwordIs` that going back ends before the next start code, but for one at such an
  edge. `H264KeepsOrder` reads off each round; what the client gets is by cases of
  `SendTcp`, `SendFails` and `SendUdp`.
* *Playing a recording while it is written.* `FlvInv` is the recorder's half and the
  stream's. `WriterInv`: `Phases` (which units make the recorder write what), `Lengths`,
  `TagsFit` (tags are at the odd places from the fifth on, in the camera's order, with a
  back pointer behind each, and nothing else looks like a tag), and `IndexFits`. The
  last is the delicate one: an entry is written for each SPS and each IDR, so it leads to an
  IDR or to the configuration record before one, of the same time; and since the
  SPS itself is not written, the last entry may lead to a tag that is not there yet.
  `ReaderInv`: all pictures of the file up to the place were sent and none behind it
  (`SentFits`); the entry before the first one that is not earlier than the range leads to
  the last key before it, and IDRs still to come are not earlier than now (`KeyFits`);
  a stream without parameter sets has looked through what it sees and found none,
  unless the file grew since (`SetsFit`). Steps of the recorder only extend what a stream
  relies on, and a flush shows the rest of it (`Extends`). From `FlvInv` follow
  `RecordingKeepsOrder`, `BeginsWithKey` and `DiesForWantOfSets`. Torn tags need two
  things of it: that a torn tag is sent in its turn (`NextIsInOrder` has the case of the
  tag right behind what is seen), and that a stream whose cache is stale sends nothing
  more; one that was thrown back does, hence `SentFits` speaks of neither (`lost`).

`Recording_proofs`: for any number of units, any time stamps that do not go back, and
a disk that may fail at any cell of any write.

* *What an FLV recording holds* (`RecordingIsReadable`). `FlvFits` adds to the
  property where the recorder is: behind its last whole tag (`tail`), at an even place,
  and no tag before that is later than the unit just handled (`HeadedFits`). A write
  that fails does not move the place (`Wrote`), so the next tag overwrites what got out
  of the last. The index needs a half of its own: all its entries are not later
  than the unit just handled, so that a tag still to come is not earlier than any of
  them, also than one that leads to the end of the file because an SPS, which has an
  entry, makes no tag (`Leads`).
* *What an MP4 recording holds* (`SamplesAreFound`). The tables are checked against
  the samples as they are made. `ChunksFit`: some function gives the number of samples
  before each chunk, the runs of `stsc` give the length of each chunk that is complete,
  and the samples of a chunk lie behind one another from its offset on; the chunk that
  is still open is where `cur` says. `SamplesFit`: the cells of each frame lie in the
  file before the recorder's place, whole units one after another, also when a unit
  was appended to the last sample. Closing adds the open chunk, and `TablesLead` shows
  that a player who sums the tables finds each sample: the recursive functions that
  the player computes are what the invariant's function says (`SumIs`, `PlaceIs`, by
  `NaturalsByStep`, see below).
* *Both show the same* (`RecordingsShowTheSame`). Two halves, as long as nothing has
  failed (`FramesHold`). Which pictures: each file holds the units since it had its
  first IDR, behind parameter sets in FLV. Two recordings begun at different units
  disagree up to the later beginning, and from there on every unit adds to both or to
  neither (`Alike`, `AlikeStays`, `CommonGrows`). Their times: the runs of `stts` sum up
  to the time that the recorder has for the sample (`TimesGrow`, `DurationIs`, `TimeIs`),
  and each picture is in a sample whose time, with the units in front of it in the
  sample a millisecond each, is its own (`Sampled`, `FrameTimed`, `SampleGrows`). A
  player's sums are recursive functions, treated as `SumIs` is.

`LiveSinker_proofs`: queues are filtered with `OfTypes`, a recursive function.
`NaturalsByStep` (a set of naturals with 0 that is closed under the successor has all
of them, from the library's well-founded induction on a set) makes up for the
induction theorems that take an operator: applied to the set of lengths up to which the
function is what it should be, it shows that `OfTypes` thins a sequence out and keeps
its order. `LinesAreOrdered`: what was sent to a sinker, what it has queued and what
the job has received for it are units in the camera's order, each between the last
sent and the last received. `FitInv`: what is queued is whole (`QueuesFit`), since
what is being assembled is in one piece over TCP, and of one unit as long as no two
packets in a row were lost (`AssemblyFits`); `PiecesFit` alone says nothing of a unit
half of which arrived.

`ReceptionStats_proofs`: the argument has two halves, the circle and
the threads. `AheadIsHighest` and `BehindIsLowest` say what one call of
`noteIncomingPacket` does with a number less than half a circle from the highest,
for any even size of it (`StepOnCircle`: a step goes over the end once or not at
all). `CountersAreTrue` then says what the counters know at each place of the media
thread: of the first packet (`FirstIsKnown`), whose base may be lowered only by
others since `total` is not above 1, and of later ones (`BoundsAreKnown`). Reports
disturb only `count` and `reset` (`CountersMove`), which these do not use; that is
why it holds although nothing is locked. `LossIsBounded` counts: the total, which only
the media thread writes, is never below the packets noted (`NotedAreCounted`), so that
no loss in all is overstated; of those behind the last reset the count misses at most
one (`CountedSinceReset`): the packet that was counted before the reset and raised the
highest number after it.
Both compare cardinalities of sets of numbers (`MissingAreMany`).

Only model-checked: the handling of requests over several segments, whose property is
violated, and the liveness properties, which are out of this prover's reach.

## 6. Not modelled

* **JSON replies** (`m_taskJsonSocketMap`, `getLivingList`): who is answered on which
  socket. The text of requests and replies is formatting.
* **RTCP and data hand-over** (`passLivingRTCPMessage`, `sendRtspData`) and the
  server's own RTCP: they walk the list, the first without its lock (`taskSchedule.cpp`
  386-405), and change no stream's life.
* **Pacing** of file streams by time stamps, and the headers of the RTP packets that any
  stream makes of a unit.
* **`ReadWriteLock`** and the table of locks by file name: a call of a file handle is
  one step instead, which is what the lock is for.
* **Byte layouts**: FLV and MP4 below the level of tags, samples and tables, SPS
  parsing, RTP and RTCP headers, SDP.
* **Windows event loop, configuration, utilities, JSON and log libraries**: platform
  wrappers and third-party code.

`components` in `PROJECT.json` says for each part what of it is missing.
