--------------------------- MODULE MCWebRtcPhone ---------------------------
(***************************************************************************)
(* WebRtcPhone for TLC: what peers offer and answer.                       *)
(***************************************************************************)
EXTENDS WebRtcPhone

Pcmu == [fmts |-> <<0>>, rtpmap |-> <<>>, dir |-> "sendrecv"]

\* A peer without a codec of ours shows in no other way than Failing's "chain" does.
SomeSdps == {Pcmu, [Pcmu EXCEPT !.dir = "recvonly"]}
OneSdp == {Pcmu}
=============================================================================
