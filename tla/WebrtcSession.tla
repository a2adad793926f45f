--------------------------- MODULE WebrtcSession ---------------------------
(***************************************************************************)
(* src/src/webrtc.rs: one WebrtcSession, as a record and operators on it,  *)
(* and the choice of a codec from a peer's SDP.                            *)
(*                                                                         *)
(* webrtcbin is external.  A promise it keeps or breaks is a choice among  *)
(* outcomes; an outcome is the session after the call and whether the call *)
(* returned Ok.  Only the send chain is built by a decision of this code,  *)
(* and only it has the `volume' that mutes.                                *)
(***************************************************************************)
EXTENDS Sequences, FiniteSets, Naturals, FiniteSetsExt

CONSTANT Failing   \* which of GStreamer's calls may fail
AllFailing == {"new", "promise", "chain", "offer"}
ASSUME FailingAssumption == Failing \subseteq AllFailing

-----------------------------------------------------------------------------
(***************************************************************************)
(* Codecs.  An SDP is [fmts, rtpmap, dir]: the payload types of its first  *)
(* audio line, its rtpmap lines <<payload type, name>> and its direction.  *)
(***************************************************************************)
Codecs == {"OPUS", "PCMU", "PCMA"}
Directions == {"sendrecv", "sendonly", "recvonly"}

NoCodec == "none"

from_encoding_name(name) == IF name \in Codecs THEN name ELSE NoCodec
from_static_pt(pt) == CASE pt = 0 -> "PCMU" [] pt = 8 -> "PCMA" [] OTHER -> NoCodec
default_pt(codec) == CASE codec = "OPUS" -> 111 [] codec = "PCMU" -> 0 [] codec = "PCMA" -> 8

audio_payload_types(sdp) == sdp.fmts
rtpmap_names(sdp) == sdp.rtpmap

\* What resolve_codec takes payload type pt for: the first rtpmap line of it, if it
\* names a codec of ours, and else its static meaning.
CodecOfType(sdp, pt) ==
    LET names == rtpmap_names(sdp)
        lines == {i \in DOMAIN names : names[i][1] = pt}
        named == IF lines = {} THEN NoCodec ELSE from_encoding_name(names[Min(lines)][2])
    IN  IF named # NoCodec THEN named ELSE from_static_pt(pt)

\* Mutant of resolve_codec: by our preference, with our payload type for the codec.
ResolveOurs(sdp) ==
    LET types == audio_payload_types(sdp)
        ours == {i \in DOMAIN types : CodecOfType(sdp, types[i]) # NoCodec}
    IN  IF ours = {} THEN <<>>
        ELSE LET codec == CodecOfType(sdp, types[Min(ours)])
             IN  <<codec, default_pt(codec)>>

\* The codec and its payload type, <<>> for None.
resolve_codec(sdp) ==
    LET types == audio_payload_types(sdp)
        ours == {i \in DOMAIN types : CodecOfType(sdp, types[i]) # NoCodec}
    IN  IF ours = {} THEN <<>>
        ELSE <<CodecOfType(sdp, types[Min(ours)]), types[Min(ours)]>>

peer_is_recvonly(sdp) == sdp.dir = "recvonly"

\* The offer all_codec_caps makes, and the answer of a transceiver pinned to one codec.
OurOffer == [fmts |-> <<111, 0, 8>>,
             rtpmap |-> <<<<111, "OPUS">>, <<0, "PCMU">>, <<8, "PCMA">>>>, dir |-> "sendrecv"]
OurAnswer(chosen) == [fmts |-> <<chosen[2]>>, rtpmap |-> <<<<chosen[2], chosen[1]>>>>,
                      dir |-> "sendrecv"]

-----------------------------------------------------------------------------
(***************************************************************************)
(* A session.  mic is the send chain and the state of its volume element.  *)
(***************************************************************************)
Session == [mic : {"none", "live", "muted"}, user_muted : BOOLEAN, on_hold : BOOLEAN]
NewSession == [mic |-> "none", user_muted |-> FALSE, on_hold |-> FALSE]

apply_mute(s) ==
    [s EXCEPT !.mic = IF @ = "none" THEN @
                      ELSE IF s.user_muted \/ s.on_hold THEN "muted" ELSE "live"]

set_muted(s, muted) == apply_mute([s EXCEPT !.user_muted = muted])

set_hold(s, hold) == apply_mute([s EXCEPT !.on_hold = hold])

Ok(s) == [ok |-> TRUE, session |-> s]
Err(s) == [ok |-> FALSE, session |-> s]
MayFail(what, s) == IF what \in Failing THEN {Err(s)} ELSE {}

\* Mutant of attach_send_chain: the volume starts as GStreamer makes it.
AttachUnmuted(s, peer_sdp) ==
    IF s.mic # "none" \/ peer_is_recvonly(peer_sdp) THEN {Ok(s)}
    ELSE IF resolve_codec(peer_sdp) = <<>> THEN {Err(s)}
    ELSE {Ok([s EXCEPT !.mic = "live"])} \cup MayFail("chain", s)

attach_send_chain(s, peer_sdp) ==
    IF s.mic # "none" \/ peer_is_recvonly(peer_sdp) THEN {Ok(s)}
    ELSE IF resolve_codec(peer_sdp) = <<>> THEN {Err(s)}
    ELSE {Ok(apply_mute([s EXCEPT !.mic = "live"]))} \cup MayFail("chain", s)

apply_answer(s, sdp) == attach_send_chain(s, sdp)

\* What create_answer does before its first await; its answer is made of the codec.
create_answer(s, offer) ==
    IF resolve_codec(offer) = <<>> THEN {Err(s)} ELSE attach_send_chain(s, offer)

\* What an async call returns once webrtcbin replied and, where it has to, gathered
\* its candidates: a description, or an error.
Described == {TRUE} \cup (IF "promise" \in Failing THEN {FALSE} ELSE {})
=============================================================================
