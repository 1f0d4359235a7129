----------------------------- MODULE MCRtspServer -----------------------------
(* Bounded instances of RtspServer.                                        *)
EXTENDS RtspServer, TLC

Ask(m, what, fault) == [m |-> m, what |-> what, fault |-> fault]

SetupOf(track) == Ask("SETUP", track, "none")
PlayOf(kind)   == Ask("PLAY", kind, "none")
Plain(m)       == Ask(m, None, "none")

\* Each request and each way to refuse it that makes a difference.
AllRequests ==
  {SetupOf("track1"), SetupOf("track2"), Ask("SETUP", "track1", "transport"),
   PlayOf("live"), PlayOf("file"), Plain("PAUSE"), Plain("TEARDOWN"),
   Plain("OPTIONS"), Plain("OTHER"), Plain("RTCP"), Ask("RTCP", None, "url")}

LiveRequests == {SetupOf("track1"), PlayOf("live"), Plain("PAUSE")}

Symmetric ==
  Permutations(Clients) \cup Permutations(Fds) \cup Permutations(Ids)
===============================================================================
