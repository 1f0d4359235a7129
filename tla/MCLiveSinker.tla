---------------------------- MODULE MCLiveSinker -----------------------------
(* Instances of the composition of RtpReceiver and LiveSinker for TLC.        *)
EXTENDS LiveSinker

\* A slice that is no IDR is sent like one, but without parameter sets.
TestTypes == {"sets", "idr", "other"}

\* Interleaved packets over UDP add nothing to both.
TestModes == {<<TRUE, FALSE>>, <<TRUE, TRUE>>, <<FALSE, FALSE>>}

\* Parameter sets behind an IDR, which takes them.
TestBundles == {<<"idr", "sets">>}
=============================================================================
