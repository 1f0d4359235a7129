------------------------------ MODULE FileStream -------------------------------
(***************************************************************************)
(* A stream of a file: createNewFileStreamSource makes one of two classes, *)
(* by the suffix of the file's name.                                       *)
(***************************************************************************)
EXTENDS FlvPlayer, H264Player

VARIABLE stuffix \* "flv", or "h264" and "264", which are alike

vars == <<flv, h264, stuffix>>

\* What is of the other kind does not matter.
Init ==
  /\ FlvInit
  /\ H264Init
  /\ \/ stuffix = "flv" /\ file = <<>>
     \/ stuffix = "h264" /\ ~indexed

OfFlv(A)  == stuffix = "flv" /\ A /\ UNCHANGED <<h264, stuffix>>
OfH264(A) == stuffix = "h264" /\ A /\ UNCHANGED <<flv, stuffix>>

Next ==
  \/ OfFlv(WriteUnit) \/ OfFlv(Flushed) \/ OfFlv(EndRecording)
  \/ OfFlv(Play) \/ OfFlv(Pause("pause")) \/ OfFlv(Pause("stop"))
  \/ OfFlv(SendThread) \/ OfFlv(Executor)
  \/ OfH264(PlayFile) \/ OfH264(EndSending("pause")) \/ OfH264(EndSending("stop"))
  \/ OfH264(SendFrames) \/ OfH264(SenderJoined)

Spec == Init /\ [][Next]_vars

\* Threads are scheduled: that of the recorder goes on from a tag to the duration,
\* whose write flushes the tag.  A client that does not read holds its thread only
\* until its connection is given up.
Fairness ==
  /\ WF_vars(OfFlv(SendThread)) /\ WF_vars(OfFlv(Executor)) /\ WF_vars(OfFlv(Flushed))
  /\ WF_vars(OfH264(SendFrames)) /\ WF_vars(OfH264(SenderJoined))

FairSpec == Spec /\ Fairness

-----------------------------------------------------------------------------

\* PLAY, PAUSE and stop return, and the end of a file ends its stream.
PlayingEnds == FlvPlayingEnds /\ H264PlayingEnds
=============================================================================
